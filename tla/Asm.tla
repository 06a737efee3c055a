-------------------------------- MODULE Asm ---------------------------------
(***************************************************************************)
(* sim/tools/asm.py: the encoding tables and encoders, label resolution    *)
(* and the memory image.  A statement is a record with its mnemonic mn (a  *)
(* dot written as _) and the operands the mnemonic takes; a 32-bit word is *)
(* the record of its six fields [f7, rs2, rs1, f3, rd, op].  An encoder    *)
(* that raises ValueError answers Err.                                     *)
(***************************************************************************)
EXTENDS Integers, Sequences, FiniteSetsExt

CONSTANT Err      \* a ValueError

Ok(w) == w # Err

OP_R == \b0110011
OP_I == \b0010011
OP_LOAD == \b0000011
OP_STORE == \b0100011
OP_BRANCH == \b1100011
OP_JAL == \b1101111
OP_JALR == \b1100111
OP_LUI == \b0110111
OP_AUIPC == \b0010111
OP_SYSTEM == \b1110011
OP_MISC_MEM == \b0001111
OP_32 == \b0111011
OP_IMM_32 == \b0011011
OP_FP == \b1010011
OP_LOAD_FP == \b0000111
OP_STORE_FP == \b0100111
MADD_OPCODES == [fmadd_s |-> \b1000011, fmsub_s |-> \b1000111, fnmsub_s |-> \b1001011, fnmadd_s |-> \b1001111]

CSR_ADDR == [mstatus |-> \h300, mie |-> \h304, mtvec |-> \h305, mscratch |-> \h340, mepc |-> \h341,
             mcause |-> \h342, mip |-> \h344, satp |-> \h180]
CSR_OP == [csrrw |-> 1, csrrs |-> 2, csrrc |-> 3, csrrwi |-> 5, csrrsi |-> 6, csrrci |-> 7]
SYSTEM_IMM12 == [ecall |-> 0, ebreak |-> 1, mret |-> \h302, sret |-> \h102]
FUNCT7_ALT == \b0100000

\* <<funct7, funct3>>
R_TYPE ==
  [add |-> <<0, 0>>, sub |-> <<FUNCT7_ALT, 0>>, sll |-> <<0, 1>>, slt |-> <<0, 2>>, sltu |-> <<0, 3>>, xor |-> <<0, 4>>,
   srl |-> <<0, 5>>, sra |-> <<FUNCT7_ALT, 5>>, or |-> <<0, 6>>, and |-> <<0, 7>>,
   mul |-> <<1, 0>>, mulh |-> <<1, 1>>, mulhsu |-> <<1, 2>>, mulhu |-> <<1, 3>>,
   div |-> <<1, 4>>, divu |-> <<1, 5>>, rem |-> <<1, 6>>, remu |-> <<1, 7>>,
   andn |-> <<FUNCT7_ALT, 7>>, orn |-> <<FUNCT7_ALT, 6>>, xnor |-> <<FUNCT7_ALT, 4>>,
   min |-> <<\b0000101, 4>>, minu |-> <<\b0000101, 5>>, max |-> <<\b0000101, 6>>, maxu |-> <<\b0000101, 7>>,
   rol |-> <<\b0110000, 1>>, ror |-> <<\b0110000, 5>>,
   sh1add |-> <<\b0010000, 2>>, sh2add |-> <<\b0010000, 4>>, sh3add |-> <<\b0010000, 6>>,
   bclr |-> <<\b0100100, 1>>, bext |-> <<\b0100100, 5>>, binv |-> <<\b0110100, 1>>, bset |-> <<\b0010100, 1>>,
   clmul |-> <<\b0000101, 1>>, clmulh |-> <<\b0000101, 3>>, pack |-> <<\b0000100, 4>>, packh |-> <<\b0000100, 7>>,
   xperm4 |-> <<\b0010100, 2>>, xperm8 |-> <<\b0010100, 4>>,
   aes64esm |-> <<\b0011011, 0>>, aes64es |-> <<\b0011001, 0>>, aes64dsm |-> <<\b0011111, 0>>,
   aes64ds |-> <<\b0011101, 0>>, aes64ks2 |-> <<\b0111111, 0>>]
I_TYPE == [addi |-> 0, slli |-> 1, slti |-> 2, sltiu |-> 3, xori |-> 4, srli |-> 5, srai |-> 5, ori |-> 6, andi |-> 7]
\* <<funct6, funct3>>, and <<imm12, funct3>>
I_TYPE_BEXT_SHAMT ==
  [bclri |-> <<\b010010, 1>>, bexti |-> <<\b010010, 5>>, binvi |-> <<\b011010, 1>>, bseti |-> <<\b001010, 1>>,
   rori |-> <<\b011000, 5>>]
I_TYPE_BEXT_FIXED ==
  [clz |-> <<\h600, 1>>, ctz |-> <<\h601, 1>>, cpop |-> <<\h602, 1>>, sext_b |-> <<\h604, 1>>, sext_h |-> <<\h605, 1>>,
   orc_b |-> <<\h287, 5>>, brev8 |-> <<\h687, 5>>,
   sha256sum0 |-> <<\h100, 1>>, sha256sum1 |-> <<\h101, 1>>, sha256sig0 |-> <<\h102, 1>>, sha256sig1 |-> <<\h103, 1>>,
   sha512sum0 |-> <<\h104, 1>>, sha512sum1 |-> <<\h105, 1>>, sha512sig0 |-> <<\h106, 1>>, sha512sig1 |-> <<\h107, 1>>,
   aes64im |-> <<\h300, 1>>]
BRANCH == [beq |-> 0, bne |-> 1, blt |-> 4, bge |-> 5, ble |-> 2, bgt |-> 3, bltu |-> 6, bgeu |-> 7]
LOAD == [lb |-> 0, lh |-> 1, lw |-> 2, lbu |-> 4, lhu |-> 5, ld |-> 3, lwu |-> 6]
STORE == [sb |-> 0, sh |-> 1, sw |-> 2, sd |-> 3]
R_TYPE_W ==
  [addw |-> <<0, 0>>, subw |-> <<FUNCT7_ALT, 0>>, sllw |-> <<0, 1>>, srlw |-> <<0, 5>>, sraw |-> <<FUNCT7_ALT, 5>>,
   mulw |-> <<1, 0>>, divw |-> <<1, 4>>, divuw |-> <<1, 5>>, remw |-> <<1, 6>>, remuw |-> <<1, 7>>,
   rolw |-> <<\b0110000, 1>>, rorw |-> <<\b0110000, 5>>, add_uw |-> <<\b0000100, 0>>,
   sh1add_uw |-> <<\b0010000, 2>>, sh2add_uw |-> <<\b0010000, 4>>, sh3add_uw |-> <<\b0010000, 6>>,
   packw |-> <<\b0000100, 4>>]
I_TYPE_W == [addiw |-> 0, slliw |-> 1, srliw |-> 5, sraiw |-> 5]
I_TYPE_W_BEXT_FIXED == [clzw |-> \h600, ctzw |-> \h601, cpopw |-> \h602]
\* funct5
FP_ARITH == [fadd_s |-> 0, fsub_s |-> 1, fmul_s |-> 2, fdiv_s |-> 3]
FUNCT5 == [fsqrt |-> \b01011, fsgnj |-> \b00100, fminmax |-> \b00101, fcmp |-> \b10100, fcvt_w_s |-> \b11000,
           fcvt_s_w |-> \b11010, fmv_x_w_fclass |-> \b11100, fmv_w_x |-> \b11110]
FP_SGNJ == [fsgnj_s |-> 0, fsgnjn_s |-> 1, fsgnjx_s |-> 2]
FP_MINMAX == [fmin_s |-> 0, fmax_s |-> 1]
FP_CMP == [fle_s |-> 0, flt_s |-> 1, feq_s |-> 2]
RM_NAMES == [rne |-> 0, rtz |-> 1, rdn |-> 2, rup |-> 3, rmm |-> 4, dyn |-> 7]

-----------------------------------------------------------------------------
Word(f7, rs2, rs1, f3, rd, op) == [f7 |-> f7, rs2 |-> rs2, rs1 |-> rs1, f3 |-> f3, rd |-> rd, op |-> op]
i_type_raw(imm12, f3, rd, rs1, op) == Word(imm12 \div 32, imm12 % 32, rs1, f3, rd, op)

\* imm(): the two's complement field, when the value is in range.
imm_ok(v, bits, signed) == IF signed THEN v \in -(2^(bits - 1)) .. 2^(bits - 1) - 1 ELSE v \in 0 .. 2^bits - 1
imm(v, bits) == v % 2^bits
Checked(ok, w) == IF ok THEN w ELSE Err

i_type(mn, rd, rs1, v, xlen) ==
  LET shift == mn \in {"slli", "srli", "srai"}
      width == IF xlen >= 64 THEN 6 ELSE 5
      alt == IF mn = "srai" THEN FUNCT7_ALT * 32 ELSE 0          \* funct6 << 6 = funct7 << 5
  IN IF shift THEN Checked(imm_ok(v, width, FALSE), i_type_raw(alt + v, I_TYPE[mn], rd, rs1, OP_I))
     ELSE Checked(imm_ok(v, 12, TRUE), i_type_raw(imm(v, 12), I_TYPE[mn], rd, rs1, OP_I))
i_type_w(mn, rd, rs1, v) ==
  IF mn = "addiw" THEN Checked(imm_ok(v, 12, TRUE), i_type_raw(imm(v, 12), I_TYPE_W[mn], rd, rs1, OP_IMM_32))
  ELSE Checked(imm_ok(v, 5, FALSE),
               i_type_raw((IF mn = "sraiw" THEN FUNCT7_ALT * 32 ELSE 0) + v, I_TYPE_W[mn], rd, rs1, OP_IMM_32))
i_type_bext_shamt(mn, rd, rs1, v, xlen) ==
  Checked(imm_ok(v, IF xlen >= 64 THEN 6 ELSE 5, FALSE),
          i_type_raw(I_TYPE_BEXT_SHAMT[mn][1] * 64 + v, I_TYPE_BEXT_SHAMT[mn][2], rd, rs1, OP_I))
load(f3, rd, offs, rs1, op) == Checked(imm_ok(offs, 12, TRUE), i_type_raw(imm(offs, 12), f3, rd, rs1, op))
store(f3, rs2, offs, rs1, op) ==
  Checked(imm_ok(offs, 12, TRUE), Word(imm(offs, 12) \div 32, rs2, rs1, f3, imm(offs, 12) % 32, op))
u_type(op, rd, v) ==
  Checked(imm_ok(v, 20, FALSE), Word(v \div 2^13, (v \div 2^8) % 32, (v \div 8) % 32, v % 8, rd, op))

Bit(v, i) == (v \div 2^i) % 2
Slice(v, lo, n) == (v \div 2^lo) % 2^n
branch(mn, rs1, rs2, offs) ==
  LET v == imm(offs, 13)
  IN Checked(imm_ok(offs, 13, TRUE) /\ v % 2 = 0,
             Word(Bit(v, 12) * 64 + Slice(v, 5, 6), rs2, rs1, BRANCH[mn], Slice(v, 1, 4) * 2 + Bit(v, 11), OP_BRANCH))
jal(rd, offs) ==
  LET v == imm(offs, 21)
      field == Bit(v, 20) * 2^19 + Slice(v, 1, 10) * 2^9 + Bit(v, 11) * 2^8 + Slice(v, 12, 8)
  IN Checked(imm_ok(offs, 21, TRUE) /\ v % 2 = 0, u_type(OP_JAL, rd, field))

fp_r(funct5, rd, rs1, rs2, f3) == Word(funct5 * 4, rs2, rs1, f3, rd, OP_FP)

\* One statement, branch and jump targets already resolved to offsets.
encode(i, xlen) ==
  LET mn == i.mn
  IN CASE mn = "nop" -> i_type("addi", 0, 0, 0, 32)
       [] mn \in DOMAIN R_TYPE -> Word(R_TYPE[mn][1], i.rs2, i.rs1, R_TYPE[mn][2], i.rd, OP_R)
       [] mn \in DOMAIN I_TYPE -> i_type(mn, i.rd, i.rs1, i.imm, xlen)
       [] mn \in DOMAIN I_TYPE_BEXT_SHAMT -> i_type_bext_shamt(mn, i.rd, i.rs1, i.imm, xlen)
       [] mn \in DOMAIN I_TYPE_BEXT_FIXED ->
            i_type_raw(I_TYPE_BEXT_FIXED[mn][1], I_TYPE_BEXT_FIXED[mn][2], i.rd, i.rs1, OP_I)
       [] mn = "aes64ks1i" -> Checked(imm_ok(i.imm, 4, FALSE), i_type_raw(\b001100010000 + i.imm, 1, i.rd, i.rs1, OP_I))
       [] mn = "rev8" -> i_type_raw(IF xlen = 32 THEN \h698 ELSE \h6B8, 5, i.rd, i.rs1, OP_I)
       [] mn = "zext_w" -> Word(R_TYPE_W["add_uw"][1], 0, i.rs1, R_TYPE_W["add_uw"][2], i.rd, OP_32)
       [] mn \in DOMAIN R_TYPE_W -> Word(R_TYPE_W[mn][1], i.rs2, i.rs1, R_TYPE_W[mn][2], i.rd, OP_32)
       [] mn \in DOMAIN I_TYPE_W -> i_type_w(mn, i.rd, i.rs1, i.imm)
       [] mn \in DOMAIN I_TYPE_W_BEXT_FIXED -> i_type_raw(I_TYPE_W_BEXT_FIXED[mn], 1, i.rd, i.rs1, OP_IMM_32)
       [] mn = "roriw" -> Checked(imm_ok(i.imm, 5, FALSE), i_type_raw(\h600 + i.imm, 5, i.rd, i.rs1, OP_IMM_32))
       [] mn = "slli_uw" -> Checked(imm_ok(i.imm, 6, FALSE), i_type_raw(\h080 + i.imm, 1, i.rd, i.rs1, OP_IMM_32))
       [] mn \in DOMAIN LOAD -> load(LOAD[mn], i.rd, i.imm, i.rs1, OP_LOAD)
       [] mn = "flw" -> load(2, i.rd, i.imm, i.rs1, OP_LOAD_FP)
       [] mn \in DOMAIN STORE -> store(STORE[mn], i.rs2, i.imm, i.rs1, OP_STORE)
       [] mn = "fsw" -> store(2, i.rs2, i.imm, i.rs1, OP_STORE_FP)
       [] mn \in DOMAIN BRANCH -> branch(mn, i.rs1, i.rs2, i.imm)
       [] mn = "jal" -> jal(i.rd, i.imm)
       [] mn = "jalr" -> load(0, i.rd, i.imm, i.rs1, OP_JALR)
       [] mn \in {"lui", "auipc"} -> u_type(IF mn = "lui" THEN OP_LUI ELSE OP_AUIPC, i.rd, i.imm)
       [] mn \in {"csrrw", "csrrs", "csrrc"} -> i_type_raw(i.csr, CSR_OP[mn], i.rd, i.rs1, OP_SYSTEM)
       [] mn \in {"csrrwi", "csrrsi", "csrrci"} ->
            Checked(imm_ok(i.imm, 5, FALSE), i_type_raw(i.csr, CSR_OP[mn], i.rd, i.imm, OP_SYSTEM))
       [] mn \in DOMAIN SYSTEM_IMM12 -> i_type_raw(SYSTEM_IMM12[mn], 0, 0, 0, OP_SYSTEM)
       [] mn = "sfence_vma" -> Word(\b0001001, i.rs2, i.rs1, 0, 0, OP_SYSTEM)
       [] mn = "fence" -> i_type_raw(\h0FF, 0, 0, 0, OP_MISC_MEM)
       [] mn = "word" -> i.raw
       [] mn \in DOMAIN FP_ARITH -> fp_r(FP_ARITH[mn], i.rd, i.rs1, i.rs2, RM_NAMES[i.rm])
       [] mn = "fsqrt_s" -> fp_r(FUNCT5.fsqrt, i.rd, i.rs1, 0, RM_NAMES[i.rm])
       [] mn \in DOMAIN FP_SGNJ -> fp_r(FUNCT5.fsgnj, i.rd, i.rs1, i.rs2, FP_SGNJ[mn])
       [] mn \in DOMAIN FP_MINMAX -> fp_r(FUNCT5.fminmax, i.rd, i.rs1, i.rs2, FP_MINMAX[mn])
       [] mn \in DOMAIN FP_CMP -> fp_r(FUNCT5.fcmp, i.rd, i.rs1, i.rs2, FP_CMP[mn])
       [] mn \in {"fcvt_w_s", "fcvt_wu_s"} -> fp_r(FUNCT5.fcvt_w_s, i.rd, i.rs1, IF mn = "fcvt_wu_s" THEN 1 ELSE 0, RM_NAMES[i.rm])
       [] mn \in {"fcvt_s_w", "fcvt_s_wu"} -> fp_r(FUNCT5.fcvt_s_w, i.rd, i.rs1, IF mn = "fcvt_s_wu" THEN 1 ELSE 0, RM_NAMES[i.rm])
       [] mn = "fmv_x_w" -> fp_r(FUNCT5.fmv_x_w_fclass, i.rd, i.rs1, 0, 0)
       [] mn = "fclass_s" -> fp_r(FUNCT5.fmv_x_w_fclass, i.rd, i.rs1, 0, 1)
       [] mn = "fmv_w_x" -> fp_r(FUNCT5.fmv_w_x, i.rd, i.rs1, 0, 0)
       [] mn \in DOMAIN MADD_OPCODES -> Word(i.rs3 * 4, i.rs2, i.rs1, RM_NAMES[i.rm], i.rd, MADD_OPCODES[mn])

-----------------------------------------------------------------------------
(* assemble(): lines are labels [label] or statements; the target of a     *)
(* branch or jump is its imm, or the label in `to`.  The last definition   *)
(* of a label wins.                                                        *)
IsLabel(line) == "label" \in DOMAIN line
Statements(lines) == SelectSeq(lines, LAMBDA line : ~IsLabel(line))
AddressAt(lines, k) == 4 * Len(Statements(SubSeq(lines, 1, k - 1)))
labels_first(lines, name) == AddressAt(lines, Min({k \in DOMAIN lines : IsLabel(lines[k]) /\ lines[k].label = name}))
labels(lines, name) == AddressAt(lines, Max({k \in DOMAIN lines : IsLabel(lines[k]) /\ lines[k].label = name}))
defined(lines) == {lines[k].label : k \in {j \in DOMAIN lines : IsLabel(lines[j])}}

\* An operand that is neither a label nor a number makes int() raise.
resolve(lines, stmt, addr) ==
  CASE "to" \notin DOMAIN stmt -> stmt
    [] "to" \in DOMAIN stmt /\ stmt.to \in defined(lines) ->
         [f \in DOMAIN stmt \cup {"imm"} |-> IF f = "imm" THEN labels(lines, stmt.to) - addr ELSE stmt[f]]
    [] OTHER -> Err

assemble(lines, xlen) ==
  LET stmts == Statements(lines)
      word(k) == LET s == resolve(lines, stmts[k], 4 * (k - 1)) IN IF Ok(s) THEN encode(s, xlen) ELSE Err
      words == [k \in DOMAIN stmts |-> word(k)]
  IN IF \E k \in DOMAIN words : ~Ok(words[k]) THEN Err ELSE words

\* write_mem(): the bytes of each word, the low one first, zero-filled to
\* size_bytes.
byte_of(w, i) ==
  CASE i = 0 -> w.op + (w.rd % 2) * 128
    [] i = 1 -> w.rd \div 2 + w.f3 * 16 + (w.rs1 % 2) * 128
    [] i = 2 -> w.rs1 \div 2 + (w.rs2 % 16) * 16
    [] i = 3 -> w.rs2 \div 16 + w.f7 * 2
write_mem(words, size_bytes) ==
  IF 4 * Len(words) > size_bytes THEN Err
  ELSE [k \in 1 .. size_bytes |->
          LET w == (k - 1) \div 4 + 1 IN IF w <= Len(words) THEN byte_of(words[w], (k - 1) % 4) ELSE 0]
=============================================================================
