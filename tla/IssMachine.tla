----------------------------- MODULE IssMachine ------------------------------
(***************************************************************************)
(* The golden model as a machine (class ISS of sim/tools/iss.py): reset,   *)
(* step() on one instruction word, and one turn of run()'s while loop with *)
(* its scheduled interrupt.  Registers, CSRs, memory bytes and addresses   *)
(* have their real widths.  The values of the multiply, divide, AES and    *)
(* floating-point functions are parameters: modules IssArith, IssAes and   *)
(* IssFloat are about them.                                                *)
(***************************************************************************)
EXTENDS IssPriv

CONSTANTS ext_result(_, _, _),          \* mnemonic, A, B: the M extension and AES
          f_result(_, _, _, _, _),      \* mnemonic, three operands, rm: [res, flags]
          max_steps                     \* of run and of the debugger

Dc == INSTANCE IssDecode

RM_DYN == 7

\* ISS.__init__: sp starts at the end of memory.
reset(mem_size) ==
  [pc |-> {}, regs |-> [r \in 0 .. 31 |-> IF r = 2 THEN BitsOf(mem_size) ELSE {}], fregs |-> [r \in 0 .. 31 |-> {}],
   mem |-> [a \in {} |-> {}], mem_size |-> mem_size, csr |-> [a \in StoredCsrs |-> {}], priv_mode |-> PRIV_M, frm |-> {}, fflags |-> {}]

Imm(v) == IF v >= 0 THEN BitsOf(v) ELSE AllBits \ BitsOf(-v - 1)
Flag(b) == IF b THEN {0} ELSE {}
Minus(A, B) == Plus(Plus(A, AllBits \ B), {0})
ltu(A, B) == A # B /\ Max(Xor(A, B)) \in B
lt(A, B) == IF (xl - 1 \in A) = (xl - 1 \in B) THEN ltu(A, B) ELSE xl - 1 \in A

-----------------------------------------------------------------------------
(* OP, OP-32 and, with the immediate for B, OP-IMM and OP-IMM-32.          *)
RegisterForm ==
  [addi |-> "add", slti |-> "slt", sltiu |-> "sltu", xori |-> "xor", ori |-> "or", andi |-> "and", slli |-> "sll",
   srli |-> "srl", srai |-> "sra", bclri |-> "bclr", bexti |-> "bext", binvi |-> "binv", bseti |-> "bset", rori |-> "ror",
   addiw |-> "addw", slliw |-> "sllw", srliw |-> "srlw", sraiw |-> "sraw", roriw |-> "rorw"]

arith(mn, A, B) ==
  CASE mn = "add" -> Plus(A, B)
    [] mn = "sub" -> Minus(A, B)
    [] mn = "slt" -> Flag(lt(A, B))
    [] mn = "sltu" -> Flag(ltu(A, B))
    [] mn = "min" -> IF lt(A, B) THEN A ELSE B
    [] mn = "max" -> IF lt(A, B) THEN B ELSE A
    [] mn = "minu" -> IF ltu(A, B) THEN A ELSE B
    [] mn = "maxu" -> IF ltu(A, B) THEN B ELSE A
    [] mn = "sh1add" -> Plus(Shl(A, 1), B)
    [] mn = "sh2add" -> Plus(Shl(A, 2), B)
    [] mn = "sh3add" -> Plus(Shl(A, 3), B)
    [] mn = "addw" -> Sext(Plus(A, B), 32)
    [] mn = "subw" -> Sext(Minus(A, B), 32)
    [] mn = "add_uw" -> Plus(Word(A), B)
    [] mn = "sh1add_uw" -> Plus(Shl(Word(A), 1), B)
    [] mn = "sh2add_uw" -> Plus(Shl(Word(A), 2), B)
    [] mn = "sh3add_uw" -> Plus(Shl(Word(A), 3), B)
Arith == {"add", "sub", "slt", "sltu", "min", "max", "minu", "maxu", "sh1add", "sh2add", "sh3add", "addw", "subw", "add_uw",
          "sh1add_uw", "sh2add_uw", "sh3add_uw"}

int_result(mn, A, B) ==
  LET sh5 == ValueOf(Low(B, 5))
  IN CASE mn \in Arith -> arith(mn, A, B)
       [] mn \in {"andn", "orn", "xnor", "xor", "or", "and"} -> Logical(A, B)[mn]
       [] mn \in {"sll", "srl", "sra"} -> Shifts(A, Shamt(B))[mn]
       [] mn \in {"rol", "ror"} -> Rotates(A, Shamt(B))[mn]
       [] mn \in {"bclr", "bext", "binv", "bset"} -> SingleBit(A, Shamt(B))[mn]
       [] mn \in {"sllw", "srlw", "sraw"} -> ShiftsW(A, sh5)[mn]
       [] mn \in {"rolw", "rorw"} -> RotatesW(A, sh5)[mn]
       [] mn = "slli_uw" -> slli_uw(A, ValueOf(Low(B, 6)))
       [] mn \in {"pack", "packh"} -> Pack(A, B)[mn]
       [] mn = "packw" -> packw(A, B)
       [] mn = "clmul" -> clmul(A, B)
       [] mn = "clmulh" -> clmulh(A, B)
       [] mn = "xperm4" -> xperm(A, B, 4)
       [] mn = "xperm8" -> xperm(A, B, 8)
       [] mn \in {"clz", "ctz", "cpop"} -> BitsOf(Counts(A)[mn])
       [] mn \in {"clzw", "ctzw", "cpopw"} -> BitsOf(CountsW(A)[mn])
       [] mn \in {"sext_b", "sext_h"} -> Extends(A)[mn]
       [] mn \in {"orc_b", "rev8", "brev8"} -> Bytes(A)[mn]
       [] mn \in {Dc!sha_fn[i] : i \in DOMAIN Dc!sha_fn} -> Sha(A)[mn]
       [] OTHER -> ext_result(mn, A, B)

integer(s, w, d, next_pc) ==
  LET A == s.regs[w.rs1]
      res == IF d.mn \in DOMAIN RegisterForm THEN int_result(RegisterForm[d.mn], A, Imm(d.imm))
             ELSE IF w.op \in {\b0110011, \b0111011} THEN int_result(d.mn, A, s.regs[w.rs2])
             ELSE int_result(d.mn, A, BitsOf(d.imm))
  IN [wr(s, w.rd, res) EXCEPT !.pc = next_pc]

-----------------------------------------------------------------------------
(* Loads and stores translate the address of their first byte only.        *)
Bytes_of == [lb |-> 1, lbu |-> 1, lh |-> 2, lhu |-> 2, lw |-> 4, lwu |-> 4, ld |-> 8, flw |-> 4,
             sb |-> 1, sh |-> 2, sw |-> 4, sd |-> 8, fsw |-> 4]
Loads == {"lb", "lbu", "lh", "lhu", "lw", "lwu", "ld", "flw"}
Stores == {"sb", "sh", "sw", "sd", "fsw"}
effective(s, w, d) == Plus(s.regs[w.rs1], Imm(d.imm))

loaded(s, rd, mn, v) ==
  CASE mn = "flw" -> [s EXCEPT !.fregs[rd] = v]
    [] mn \in {"lb", "lh", "lw"} -> wr(s, rd, Sext(v, 8 * Bytes_of[mn]))
    [] mn \in {"lbu", "lhu", "lwu", "ld"} -> wr(s, rd, v)
load(s, w, d, next_pc, t) ==
  IF ~t.ok THEN t.s ELSE [loaded(s, w.rd, d.mn, LoadBytes(s, t.addr, Bytes_of[d.mn])) EXCEPT !.pc = next_pc]

store(s, w, d, next_pc, t) ==
  LET v == IF d.mn = "fsw" THEN s.fregs[w.rs2] ELSE s.regs[w.rs2]
  IN IF ~t.ok THEN t.s ELSE [StoreBytes(s, t.addr, Bytes_of[d.mn], v) EXCEPT !.pc = next_pc]

(* Control transfers.                                                      *)
Branches == {"beq", "bne", "blt", "bge", "ble", "bgt", "bltu", "bgeu"}
taken(mn, A, B) ==
  CASE mn = "beq" -> A = B
    [] mn = "bne" -> A # B
    [] mn = "blt" -> lt(A, B)
    [] mn = "bge" -> ~lt(A, B)
    [] mn = "ble" -> ~lt(B, A)
    [] mn = "bgt" -> lt(B, A)
    [] mn = "bltu" -> ltu(A, B)
    [] mn = "bgeu" -> ~ltu(A, B)

upper(imm) == Sext(Shl(BitsOf(imm), 12), 32)
transfer(s, w, d, next_pc) ==
  CASE d.mn \in Branches ->
         [s EXCEPT !.pc = IF taken(d.mn, s.regs[w.rs1], s.regs[w.rs2]) THEN Plus(s.pc, Imm(d.imm)) ELSE next_pc]
    [] d.mn = "jal" -> [wr(s, w.rd, next_pc) EXCEPT !.pc = Plus(s.pc, Imm(d.imm))]
    [] d.mn = "jalr" -> [wr(s, w.rd, next_pc) EXCEPT !.pc = effective(s, w, d) \ {0}]

Csr_op == [csrrw |-> "write", csrrwi |-> "write", csrrs |-> "set", csrrsi |-> "set", csrrc |-> "clear", csrrci |-> "clear"]
csr_step(s, w, d, next_pc) ==
  csr_instruction(s, Csr_op[d.mn], d.imm, IF w.f3 >= 4 THEN BitsOf(w.rs1) ELSE s.regs[w.rs1], w.rd, next_pc)

-----------------------------------------------------------------------------
(* Floating point: which file the result goes to and whether it raises     *)
(* flags, which accumulate.                                                *)
set_fflags(s, flags) == [s EXCEPT !.fflags = Low(@ \cup flags, 5)]
resolve_rm(s, rm_field) == IF rm_field = RM_DYN THEN s.frm ELSE BitsOf(rm_field)

ToInteger == {"feq_s", "flt_s", "fle_s", "fcvt_w_s", "fcvt_wu_s"}
FromInteger == {"fcvt_s_w", "fcvt_s_wu"}
NoFlags == {"fsgnj_s", "fsgnjn_s", "fsgnjx_s", "fclass_s"}
float(s, w, d, next_pc) ==
  LET fa == IF d.mn \in FromInteger THEN Word(s.regs[w.rs1]) ELSE s.fregs[w.rs1]
      r == f_result(d.mn, fa, s.fregs[w.rs2], s.fregs[w.f7 \div 4], resolve_rm(s, w.f3))
      written == CASE d.mn = "fmv_w_x" -> [s EXCEPT !.fregs[w.rd] = Word(s.regs[w.rs1])]
                   [] d.mn = "fmv_x_w" -> wr(s, w.rd, Sext(fa, 32))
                   [] d.mn \in ToInteger \cup {"fclass_s"} -> wr(s, w.rd, r.res)
                   [] OTHER -> [s EXCEPT !.fregs[w.rd] = r.res]
      flagged == IF d.mn \in NoFlags \cup {"fmv_w_x", "fmv_x_w"} THEN written ELSE set_fflags(written, r.flags)
  IN [flagged EXCEPT !.pc = next_pc]

-----------------------------------------------------------------------------
Zero == [f7 |-> 0, rs2 |-> 0, rs1 |-> 0, f3 |-> 0, rd |-> 0, op |-> 0]
raises(w) == w # Zero /\ Dc!decode(w, xl).mn = "ValueError"

\* step() on w, decoded as d; the zero word is skipped.
execute(s, w, d) ==
  LET next_pc == Plus(s.pc, {2})
  IN IF w = Zero \/ d.mn = "fence" THEN [s EXCEPT !.pc = next_pc]
     ELSE IF d.mn \in Loads THEN load(s, w, d, next_pc, translate(s, effective(s, w, d), "load"))
     ELSE IF d.mn \in Stores THEN store(s, w, d, next_pc, translate(s, effective(s, w, d), "store"))
     ELSE IF d.mn \in Branches \cup {"jal", "jalr"} THEN transfer(s, w, d, next_pc)
     ELSE IF d.mn = "lui" THEN [wr(s, w.rd, upper(d.imm)) EXCEPT !.pc = next_pc]
     ELSE IF d.mn = "auipc" THEN [wr(s, w.rd, Plus(s.pc, upper(d.imm))) EXCEPT !.pc = next_pc]
     ELSE IF d.mn \in DOMAIN Csr_op THEN csr_step(s, w, d, next_pc)
     ELSE IF w.op = \b1110011 THEN system(s, d.mn, next_pc)
     ELSE IF w.op = \b1010011 \/ w.op \in {\b1000011, \b1000111, \b1001011, \b1001111} THEN float(s, w, d, next_pc)
     ELSE IF d.mn = "illegal" THEN trap(s, ILLEGAL_INSTRUCTION, {})
     ELSE integer(s, w, d, next_pc)
step(s, w) == execute(s, w, Dc!decode(w, xl))

-----------------------------------------------------------------------------
(* run(): r is [m, steps, pending, status]; pending is a set of at most    *)
(* one [after, cause].  words is zero from its end to byte_len.            *)
word_at(words, addr) == LET i == ValueOf(addr) \div 4 + 1 IN IF i <= Len(words) THEN words[i] ELSE Zero
past(addr, byte_len) == is_mmio(addr) \/ ValueOf(addr) >= byte_len
self_loop(w) == w.op = \b1101111 /\ Dc!off_j(w) = 0

due(r) == \E p \in r.pending : r.steps >= p.after /\ 3 \in r.m.csr[CSR_MSTATUS]

fetched(r, w) ==
  CASE self_loop(w) -> [r EXCEPT !.status = "halted"]
    [] raises(w) -> [r EXCEPT !.status = "ValueError"]
    [] OTHER -> [r EXCEPT !.m = step(@, w), !.steps = @ + 1]
fetch(r, words, byte_len, t) ==
  IF ~t.ok THEN [r EXCEPT !.m = t.s]
  ELSE IF past(t.addr, byte_len) THEN [r EXCEPT !.status = "end"]
  ELSE fetched(r, word_at(words, t.addr))
run_turn(r, words, byte_len) ==
  IF r.steps >= max_steps THEN [r EXCEPT !.status = "RuntimeError"]
  ELSE IF due(r) THEN [r EXCEPT !.m = trap(@, (CHOOSE p \in r.pending : TRUE).cause, {}), !.pending = {}]
  ELSE fetch(r, words, byte_len, translate(r.m, r.m.pc, "fetch"))

-----------------------------------------------------------------------------
(***************************************************************************)
(* sim/tools/debugger.py: the interactive debugger around the golden       *)
(* model.  d is the Debugger object: m its ISS, breakpoints, the history   *)
(* of executed addresses, and, while a `continue` is running, the steps it *)
(* has taken; status is the answer of the last command, from the length of *)
(* history when it began.  Fetches are not translated.                     *)
(***************************************************************************)
new_debugger(mem_size) == [m |-> reset(mem_size), breakpoints |-> {}, history |-> <<>>, from |-> 0, mode |-> "prompt", steps |-> 0, status |-> ""]

reset_keeps_memory(d) == [d EXCEPT !.m = [reset(@.mem_size) EXCEPT !.mem = d.m.mem], !.history = <<>>, !.from = 0, !.status = ""]
restart(d) == [d EXCEPT !.m = reset(@.mem_size), !.history = <<>>, !.from = 0, !.status = ""]
add_breakpoint(d, addr) == [d EXCEPT !.breakpoints = @ \cup {addr}, !.status = ""]
delete_breakpoint(d, addr) == [d EXCEPT !.breakpoints = @ \ {addr}, !.status = ""]

at_end(d, byte_len) == past(d.m.pc, byte_len)

step_on(d, w) ==
  IF raises(w) THEN [d EXCEPT !.history = Append(@, ValueOf(d.m.pc)), !.mode = "crashed"]
  ELSE [d EXCEPT !.history = Append(@, ValueOf(d.m.pc)), !.m = step(@, w)]
step_one(d, words) == step_on(d, word_at(words, d.m.pc))

\* `step n` stops early at the end of the program.
RECURSIVE step_n(_, _, _, _)
step_n(d, n, words, byte_len) ==
  IF n = 0 \/ at_end(d, byte_len) \/ d.mode = "crashed" THEN d ELSE step_n(step_one(d, words), n - 1, words, byte_len)
step_command(d, n, words, byte_len) == step_n([d EXCEPT !.from = Len(d.history), !.status = ""], n, words, byte_len)

\* One turn of run_until's while loop.
continue_command(d) == [d EXCEPT !.mode = "continue", !.steps = 0, !.from = Len(d.history), !.status = ""]
stop(d, status) == [d EXCEPT !.mode = "prompt", !.status = status]
continue_turn(d, words, byte_len) ==
  IF d.steps >= max_steps THEN stop(d, "exceeded")
  ELSE IF at_end(d, byte_len) THEN stop(d, "end of program")
  ELSE IF self_loop(word_at(words, d.m.pc)) THEN stop(d, "halted (self-loop)")
  ELSE IF ValueOf(d.m.pc) \in d.breakpoints /\ d.steps > 0 THEN stop(d, "breakpoint hit")
  ELSE [step_one(d, words) EXCEPT !.steps = @ + 1]
=============================================================================
