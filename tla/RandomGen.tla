------------------------------ MODULE RandomGen ------------------------------
(***************************************************************************)
(* sim/tools/random_gen.py: gen_program.  Every draw of its random number  *)
(* generator is a nondeterministic choice, over the pools of the code cut  *)
(* down to the members of Sampled, Regs, FRegs and Imms.  A line of the    *)
(* program is a statement or a label of module Asm.                        *)
(***************************************************************************)
EXTENDS Integers, Sequences, SequencesExt, FiniteSets, TLC

CONSTANTS Sampled,              \* mnemonics drawn
          Regs, FRegs,          \* members of GP_REGS and FREGS drawn
          Imms,                 \* 12-bit immediates drawn
          FLOAT_SEED_BITS       \* sequence of 32-bit patterns, as sets of bits

VARIABLES cfg,          \* the arguments [n, mem_size, interrupt, mmu, xlen, ooo]
          instrs,       \* the body generated so far
          text, info    \* the program, and its interrupt [after, cause] if any

R_TYPE == {"add", "sub", "sll", "slt", "sltu", "xor", "srl", "sra", "or", "and",
           "mul", "mulh", "mulhsu", "mulhu", "div", "divu", "rem", "remu"}
I_TYPE == {"addi", "slti", "sltiu", "xori", "ori", "andi"}
SHIFT_I == {"slli", "srli", "srai"}
BRANCH == {"beq", "bne", "blt", "bge", "ble", "bgt", "bltu", "bgeu"}
CSR_REG_OP == {"csrrw", "csrrs", "csrrc"}
CSR_IMM_OP == {"csrrwi", "csrrsi", "csrrci"}
mscratch == \h340
CSR_NAMES == {\h300, \h305, mscratch, \h341, \h342}      \* mstatus, mtvec, mscratch, mepc, mcause
FCSR_ADDR == {1, 2, 3}
BASE_REG == 31
base_addr == 32
FP_ARITH == {"fadd_s", "fsub_s", "fmul_s", "fdiv_s"}
FP_SGNJ == {"fsgnj_s", "fsgnjn_s", "fsgnjx_s"}
FP_MINMAX == {"fmin_s", "fmax_s"}
FP_CMP == {"feq_s", "flt_s", "fle_s"}
FMADD_FAMILY == {"fmadd_s", "fmsub_s", "fnmsub_s", "fnmadd_s"}
RM_NAMES == {"rne", "dyn"}      \* of six: what matters here is whether frm is read
R_TYPE_W == {"addw", "subw", "sllw", "srlw", "sraw", "mulw", "divw", "divuw", "remw", "remuw"}
B_R_TYPE == {"andn", "orn", "xnor", "min", "minu", "max", "maxu", "rol", "ror", "sh1add", "sh2add", "sh3add",
             "bclr", "bext", "binv", "bset"}
B_SHAMT == {"bclri", "bexti", "binvi", "bseti", "rori"}
B_FIXED == {"clz", "ctz", "cpop", "sext_b", "sext_h", "orc_b", "rev8"}
B_R_TYPE_W == {"rolw", "rorw", "add_uw", "sh1add_uw", "sh2add_uw", "sh3add_uw"}
B_FIXED_W == {"clzw", "ctzw", "cpopw"}
K_R_TYPE == {"clmul", "clmulh", "pack", "packh", "xperm4", "xperm8", "aes64esm", "aes64es", "aes64dsm", "aes64ds", "aes64ks2"}
K_FIXED == {"brev8", "sha256sum0", "sha256sum1", "sha256sig0", "sha256sig1", "sha512sum0", "sha512sum1", "sha512sig0",
            "sha512sig1", "aes64im"}

-----------------------------------------------------------------------------
(* Building constants.  A pattern is the set of its one bits.              *)
Num(bits, lo, n) == FoldLeft(LAMBDA v, i : 2 * v + (IF lo + n - i \in bits THEN 1 ELSE 0), 0, [i \in 1 .. n |-> i])
rri(mn, rd, rs1, v) == [mn |-> mn, rd |-> rd, rs1 |-> rs1, imm |-> v]
lui(rd, v) == [mn |-> "lui", rd |-> rd, imm |-> v]
If(cond, line) == IF cond THEN <<line>> ELSE <<>>

lui_addi(rd, bits) ==
  LET lo == Num(bits, 0, 12)
      hi == (Num(bits, 12, 20) + (IF 11 \in bits THEN 1 ELSE 0)) % 2^20
  IN <<lui(rd, hi)>> \o If(lo # 0, rri("addi", rd, rd, IF 11 \in bits THEN lo - 4096 ELSE lo))
addi_slli(rd, bits) ==
  LET chunk(i) == Num(bits, 11 * (2 - i), 11)
      next(i) == <<rri("slli", rd, rd, 11)>> \o If(chunk(i) # 0, rri("addi", rd, rd, chunk(i)))
  IN <<rri("addi", rd, 0, chunk(0))>> \o next(1) \o next(2)
const_to_reg_instrs(rd, bits, no_lui) == IF no_lui THEN addi_slli(rd, bits) ELSE lui_addi(rd, bits)

const64_to_reg_instrs(rd, scratch, bits, no_lui) ==
  const_to_reg_instrs(rd, {i - 32 : i \in {j \in bits : j >= 32}}, no_lui)
  \o <<rri("slli", rd, rd, 32)>>
  \o const_to_reg_instrs(scratch, {i \in bits : i < 32}, no_lui)
  \o <<rri("slli", scratch, scratch, 32), rri("srli", scratch, scratch, 32),
       [mn |-> "or", rd |-> rd, rs1 |-> rd, rs2 |-> scratch]>>

WIDE == {63, 62, 60, 59, 58, 57, 55, 53, 51, 50, 48, 47, 45, 44, 43, 42, 41, 39, 38, 37, 35, 34, 33, 32,
         28, 25, 21, 20, 18, 14, 12, 10, 9, 6, 5, 4, 3}         \* 0xDEADBEEF12345678

fmv_w_x(fr, rs1) == [mn |-> "fmv_w_x", rd |-> fr, rs1 |-> rs1]
seed_lines(c) ==
  FlattenSeq([i \in DOMAIN FLOAT_SEED_BITS |->
                const_to_reg_instrs(30, FLOAT_SEED_BITS[i], c.ooo) \o <<fmv_w_x(i, 30)>>])
  \o (IF c.xlen >= 64 THEN const64_to_reg_instrs(29, 30, WIDE, c.ooo) ELSE <<>>)

-----------------------------------------------------------------------------
(* The draws.                                                              *)
addr_space(c) == IF c.mmu /\ c.mem_size > 4096 THEN 4096 ELSE c.mem_size

\* The first and the last offset of rnd.randrange(0, max_off + 1, width).
offsets_no_width(c, width) == {0, ((addr_space(c) - base_addr) \div width) * width}
offsets(c, width) ==
  LET room == addr_space(c) - base_addr - width
      max_off == IF room < 2047 THEN room ELSE 2047
  IN IF max_off >= 0 THEN {0, (max_off \div width) * width} ELSE {0}

width_of == [lb |-> 1, lbu |-> 1, lh |-> 2, lhu |-> 2, lw |-> 4, lwu |-> 4, ld |-> 8, sb |-> 1, sh |-> 2, sw |-> 4, sd |-> 8]
load_mnemonics(c) == {"lb", "lh", "lw", "lbu", "lhu"} \cup (IF c.xlen >= 64 THEN {"ld", "lwu"} ELSE {})
store_mnemonics(c) == {"sb", "sh", "sw"} \cup (IF c.xlen >= 64 THEN {"sd"} ELSE {})
csr_names_pool(c) == IF c.interrupt = "none" /\ ~c.ooo THEN CSR_NAMES ELSE {mscratch}

kind_names_user_csr(c) == {"r", "i", "load", "store", "branch", "jal", "csr"}
kind_names(c) ==
  {"r", "i", "shift", "load", "store", "branch", "jal", "fp_arith", "fp_sqrt", "fp_sgnj", "fp_minmax", "b_ext"}
  \cup (IF c.mmu THEN {} ELSE {"csr"})                            \* csr_weight = 0
  \cup (IF c.ooo THEN {} ELSE {"fp_cmp", "fp_cvt_to_int", "fp_cvt_from_int", "fp_madd", "fload", "fstore", "fcsr"})
  \cup (IF c.xlen >= 64 THEN {"k_ext"} ELSE {})
  \cup (IF c.xlen >= 64 /\ ~c.ooo THEN {"rw", "iw", "b_ext_w", "k_ext_w"} ELSE {})

RRR(pool, regs) == [mn : pool \cap Sampled, rd : regs, rs1 : regs, rs2 : regs]
RR(pool) == [mn : pool \cap Sampled, rd : Regs, rs1 : Regs]
RRI(pool, imms) == [mn : pool \cap Sampled, rd : Regs, rs1 : Regs, imm : imms]
Shamts(n) == {v \in Imms : v \in 0 .. n}
csr_draws(pool) ==
  [mn : CSR_REG_OP \cap Sampled, rd : Regs, csr : pool, rs1 : Regs]
  \cup [mn : CSR_IMM_OP \cap Sampled, rd : Regs, csr : pool, imm : Shamts(31)]
loads(c) == UNION {[mn : {mn}, rd : Regs, rs1 : {BASE_REG}, imm : offsets(c, width_of[mn])] : mn \in load_mnemonics(c) \cap Sampled}
stores(c) == UNION {[mn : {mn}, rs2 : Regs, rs1 : {BASE_REG}, imm : offsets(c, width_of[mn])] : mn \in store_mnemonics(c) \cap Sampled}

draws(c, kind) ==
  LET shamt_max == IF c.xlen >= 64 THEN 63 ELSE 31
  IN CASE kind = "r" -> RRR(R_TYPE, Regs)
       [] kind = "rw" -> RRR(R_TYPE_W, Regs)
       [] kind = "i" -> RRI(I_TYPE, Imms)
       [] kind = "iw" -> RRI({"addiw"}, Imms) \cup RRI({"slliw", "srliw", "sraiw"}, Shamts(31))
       [] kind = "shift" -> RRI(SHIFT_I, Shamts(shamt_max))
       [] kind = "b_ext" -> RRR(B_R_TYPE, Regs) \cup RRI(B_SHAMT, Shamts(shamt_max)) \cup RR(B_FIXED)
       [] kind = "b_ext_w" -> RRR(B_R_TYPE_W, Regs) \cup RRI({"roriw"}, Shamts(31)) \cup RRI({"slli_uw"}, Shamts(63)) \cup RR(B_FIXED_W)
       [] kind = "k_ext" -> RRR(K_R_TYPE, Regs) \cup RR(K_FIXED) \cup RRI({"aes64ks1i"}, Shamts(10))
       [] kind = "k_ext_w" -> RRR({"packw"}, Regs)
       [] kind = "load" -> loads(c)
       [] kind = "store" -> stores(c)
       [] kind = "branch" -> [mn : BRANCH \cap Sampled, rs1 : Regs, rs2 : Regs]
       [] kind = "jal" -> [mn : {"jal"} \cap Sampled, rd : Regs]
       [] kind = "csr" -> csr_draws(csr_names_pool(c))
       [] kind = "fp_arith" -> [mn : FP_ARITH \cap Sampled, rd : FRegs, rs1 : FRegs, rs2 : FRegs, rm : RM_NAMES]
       [] kind = "fp_sqrt" -> [mn : {"fsqrt_s"} \cap Sampled, rd : FRegs, rs1 : FRegs, rm : RM_NAMES]
       [] kind = "fp_sgnj" -> RRR(FP_SGNJ, FRegs)
       [] kind = "fp_minmax" -> RRR(FP_MINMAX, FRegs)
       [] kind = "fp_cmp" -> [mn : FP_CMP \cap Sampled, rd : Regs, rs1 : FRegs, rs2 : FRegs]
       [] kind = "fp_cvt_to_int" -> [mn : {"fcvt_w_s", "fcvt_wu_s"} \cap Sampled, rd : Regs, rs1 : FRegs, rm : RM_NAMES]
       [] kind = "fp_cvt_from_int" -> [mn : {"fcvt_s_w", "fcvt_s_wu"} \cap Sampled, rd : FRegs, rs1 : Regs, rm : RM_NAMES]
       [] kind = "fp_madd" -> [mn : FMADD_FAMILY \cap Sampled, rd : FRegs, rs1 : FRegs, rs2 : FRegs, rs3 : FRegs, rm : RM_NAMES]
       [] kind = "fload" -> [mn : {"flw"} \cap Sampled, rd : FRegs, rs1 : {BASE_REG}, imm : offsets(c, 4)]
       [] kind = "fstore" -> [mn : {"fsw"} \cap Sampled, rs2 : FRegs, rs1 : {BASE_REG}, imm : offsets(c, 4)]
       [] kind = "fcsr" -> csr_draws(FCSR_ADDR)

-----------------------------------------------------------------------------
(* The second pass: a branch or jump at position p of the body may go to   *)
(* any later position, or to the end.                                      *)
Label(name) == [label |-> name]
L(t) == "__L" \o ToString(t)
Transfers(body) == {p \in DOMAIN body : body[p].mn \in BRANCH \cup {"jal"}}
first_target(body, p) == IF p + 1 < Len(body) THEN p + 1 ELSE Len(body)

resolved(body, target) ==
  [p \in DOMAIN body |-> IF p \in Transfers(body) THEN body[p] @@ [to |-> L(target[p])] ELSE body[p]]
\* Label t goes in front of instruction t, when a transfer already emitted
\* has it, and the label of the end once more at the end.
body_lines(body, target) ==
  LET used_by(p) == {target[q] : q \in {r \in Transfers(body) : r <= p}}
  IN FlattenSeq([p \in DOMAIN body |->
                   <<resolved(body, target)[p]>> \o If(p + 1 \in used_by(p), Label(L(p + 1)))])
     \o If(Len(body) \in used_by(Len(body)), Label(L(Len(body))))

halt(name) == <<Label(name), [mn |-> "jal", rd |-> 0, to |-> name]>>
trailer(c) == IF c.ooo THEN halt("__ooo_halt") ELSE <<[mn |-> "fence"]>> \o halt("__halt")

out(c, body, target) == <<rri("addi", BASE_REG, 0, base_addr)>> \o seed_lines(c) \o body_lines(body, target) \o trailer(c)
instr_count(lines) == Len(SelectSeq(lines, LAMBDA line : "label" \notin DOMAIN line))

(* Prefixes.  mmu: page tables that map page 0 to itself, satp, and mret   *)
(* to the program in U-mode.                                               *)
sw(rs2, off, rs1) == [mn |-> "sw", rs2 |-> rs2, rs1 |-> rs1, imm |-> off]
csrrw(csr, rs1) == [mn |-> "csrrw", rd |-> 0, csr |-> csr, rs1 |-> rs1]
drop_to_user(target) == <<rri("addi", 1, 0, target), csrrw(\h341, 1), [mn |-> "mret"]>>
PDE(ppn) == {0, IF ppn = 1 THEN 10 ELSE 11}
PTE == {0, 1, 2, 3, 4}                          \* V, R, W, X, U; page 0

sv32_tables ==
  lui_addi(1, PDE(1)) \o <<sw(1, 0, 0), lui(3, 1)>> \o lui_addi(2, PTE) \o <<sw(2, 0, 3), [mn |-> "fence"]>>
  \o lui_addi(1, {31}) \o <<csrrw(\h180, 1)>>
sv39_tables ==
  lui_addi(1, PDE(1)) \o <<sw(1, 0, 0), lui(4, 1)>> \o lui_addi(2, PDE(2)) \o <<sw(2, 0, 4), lui(5, 2)>>
  \o lui_addi(3, PTE) \o <<sw(3, 0, 5), [mn |-> "fence"]>> \o const64_to_reg_instrs(1, 6, {63}, FALSE) \o <<csrrw(\h180, 1)>>
tables_then_user(tables) == tables \o drop_to_user(4 * (Len(tables) + 3))
mmu_prefix(c) == tables_then_user(IF c.xlen >= 64 THEN sv39_tables ELSE sv32_tables)

(* interrupt: arm the source at its device, mtvec, mie and mstatus.MIE;    *)
(* the handler disarms and returns.                                        *)
Bits(n) == {i \in 0 .. 30 : (n \div 2^i) % 2 = 1}
arm(handler, mie) == <<rri("addi", 5, 0, handler), csrrw(\h305, 5), rri("addi", 6, 0, mie), csrrw(\h304, 6)>>
mtimecmp(k) == lui_addi(7, Bits(100 + k * 10)) \o <<sw(7, 0, 2)>>
ier(rs1) == <<rri("addi", 8, 0, 1), sw(8, 4, rs1)>>
enable == <<[mn |-> "csrrsi", rd |-> 0, csr |-> \h300, imm |-> 8]>>
UART_BASE == \h10000
CLINT_MTIMECMP == \h10104
CLINT_MSIP == \h10100
source_prefix(source, k, handler) ==
  CASE source = "timer" -> <<lui(2, CLINT_MTIMECMP)>> \o arm(handler, 128) \o mtimecmp(k) \o enable
    [] source = "uart" -> <<lui(1, UART_BASE)>> \o arm(handler, -2048) \o ier(1) \o enable
    [] source = "msi" -> <<lui(2, CLINT_MSIP)>> \o arm(handler, 8) \o <<rri("addi", 7, 0, 1), sw(7, 0, 2)>> \o enable
    [] source = "both" ->
         <<lui(1, UART_BASE), lui(2, CLINT_MTIMECMP)>> \o arm(handler, -1920) \o mtimecmp(k) \o ier(1) \o enable
cause(source) == [int |-> TRUE, code |-> CASE source = "timer" -> 7 [] source = "msi" -> 3 [] source \in {"uart", "both"} -> 11]
handler_lines == <<Label("handler"), csrrw(\h304, 0), [mn |-> "mret"]>>
interrupt_prefix_early(c, core, k) ==
  source_prefix(c.interrupt, k, 4 * (Len(source_prefix(c.interrupt, k, 0)) + instr_count(core) - 1))
interrupt_prefix(c, core, k) ==
  source_prefix(c.interrupt, k, 4 * (Len(source_prefix(c.interrupt, k, 0)) + instr_count(core)))

program(c, core, k) ==
  CASE c.mmu -> mmu_prefix(c) \o core
    [] c.interrupt # "none" -> interrupt_prefix(c, core, k) \o core \o handler_lines
    [] OTHER -> core

(* The budget, in instructions.                                            *)
source_cost == [timer |-> 4, uart |-> 3, msi |-> 3, both |-> 7]
budget(c) ==
  1 + (IF c.ooo THEN 6 ELSE 2) * Len(FLOAT_SEED_BITS) + (IF c.xlen < 64 THEN 0 ELSE IF c.ooo THEN 20 ELSE 8) + c.n + 1
  + (IF c.interrupt = "none" THEN 0 ELSE 5 + source_cost[c.interrupt] + 2)
  + (IF ~c.mmu THEN 0 ELSE IF c.xlen >= 64 THEN 24 ELSE 13)
refused(c) ==
  \/ c.interrupt # "none" /\ c.mmu
  \/ c.ooo /\ (c.interrupt # "none" \/ c.mmu)
  \/ budget(c) > c.mem_size \div 4

-----------------------------------------------------------------------------
NoText == <<>>
GenInit(configs) == cfg \in configs /\ instrs = <<>> /\ text = NoText /\ info = {}

DrawInstruction ==
  /\ text = NoText /\ ~refused(cfg) /\ Len(instrs) < cfg.n
  /\ \E kind \in kind_names(cfg) : \E i \in draws(cfg, kind) : instrs' = Append(instrs, i)
  /\ UNCHANGED <<cfg, text, info>>

EmitProgram ==
  /\ text = NoText /\ ~refused(cfg) /\ Len(instrs) = cfg.n
  /\ \E target \in {f \in [Transfers(instrs) -> 1 .. cfg.n] : \A p \in DOMAIN f : f[p] >= first_target(instrs, p)},
        k \in IF cfg.interrupt = "none" THEN {0} ELSE 1 .. cfg.n :
       /\ text' = program(cfg, out(cfg, instrs, target), k)
       /\ info' = IF cfg.interrupt = "none" THEN {} ELSE {[after |-> k, cause |-> cause(cfg.interrupt)]}
  /\ UNCHANGED <<cfg, instrs>>
=============================================================================
