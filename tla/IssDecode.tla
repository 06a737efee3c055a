------------------------------ MODULE IssDecode ------------------------------
(***************************************************************************)
(* The decode of ISS.step (sim/tools/iss.py): which branch of its if/elif  *)
(* chain a word takes, named by the mnemonic of the branch's comment, and  *)
(* the immediate the branch uses.  A word is its record of fields, as in   *)
(* module Asm.  "ValueError" is a branch that raises, "illegal" one that   *)
(* traps.  The tests are tried in the order of the code: an earlier, wider *)
(* test hides a later one.                                                 *)
(***************************************************************************)
EXTENDS Integers

D(mn) == [mn |-> mn, imm |-> 0]
DImm(mn, imm) == [mn |-> mn, imm |-> imm]
ValueError == D("ValueError")

sext(v, bits) == LET m == v % 2^bits IN IF m >= 2^(bits - 1) THEN m - 2^bits ELSE m
imm12(w) == w.f7 * 32 + w.rs2
imm_i(w) == sext(imm12(w), 12)
imm_s(w) == sext(w.f7 * 32 + w.rd, 12)
imm_u(w) == w.f7 * 2^13 + w.rs2 * 2^8 + w.rs1 * 8 + w.f3         \* inst[31:12]
off_b(w) == sext((w.f7 \div 64) * 2^12 + (w.rd % 2) * 2^11 + (w.f7 % 64) * 2^5 + (w.rd \div 2) * 2, 13)
off_j(w) == LET v == imm_u(w)
            IN sext((v \div 2^19) * 2^20 + (v % 2^8) * 2^12 + ((v \div 2^8) % 2) * 2^11 + ((v \div 2^9) % 2^10) * 2, 21)

M_ops == <<"mul", "mulh", "mulhsu", "mulhu", "div", "divu", "rem", "remu">>
\* The Zba, Zbb, Zbs, Zbc, Zbk and Zkn register forms; "?" is none of them.
zb_zk(f7, f3) ==
  CASE f7 = \b0100000 /\ f3 = 7 -> "andn"
    [] f7 = \b0100000 /\ f3 = 6 -> "orn"
    [] f7 = \b0100000 /\ f3 = 4 -> "xnor"
    [] f7 = \b0000101 /\ f3 > 0 -> <<"clmul", "?", "clmulh", "min", "minu", "max", "maxu">>[f3]
    [] f7 = \b0110000 /\ f3 \in {1, 5} -> IF f3 = 1 THEN "rol" ELSE "ror"
    [] f7 = \b0010000 /\ f3 \in {2, 4, 6} -> <<"sh1add", "sh2add", "sh3add">>[f3 \div 2]
    [] f7 = \b0100100 /\ f3 \in {1, 5} -> IF f3 = 1 THEN "bclr" ELSE "bext"
    [] f7 = \b0110100 /\ f3 = 1 -> "binv"
    [] f7 = \b0010100 /\ f3 \in {1, 2, 4} -> <<"bset", "xperm4", "?", "xperm8">>[f3]
    [] f7 = \b0000100 /\ f3 \in {4, 7} -> IF f3 = 4 THEN "pack" ELSE "packh"
    [] f7 = \b0011011 /\ f3 = 0 -> "aes64esm"
    [] f7 = \b0011001 /\ f3 = 0 -> "aes64es"
    [] f7 = \b0011111 /\ f3 = 0 -> "aes64dsm"
    [] f7 = \b0011101 /\ f3 = 0 -> "aes64ds"
    [] f7 = \b0111111 /\ f3 = 0 -> "aes64ks2"
    [] OTHER -> "?"
base_R(f7, f3) ==
  CASE f3 = 0 /\ f7 = 0 -> "add"
    [] f3 = 0 /\ f7 = \b0100000 -> "sub"
    [] f3 = 1 -> "sll"
    [] f3 = 2 -> "slt"
    [] f3 = 3 -> "sltu"
    [] f3 = 4 -> "xor"
    [] f3 = 5 /\ f7 = 0 -> "srl"
    [] f3 = 5 /\ f7 = \b0100000 -> "sra"
    [] f3 = 6 -> "or"
    [] f3 = 7 -> "and"
    [] OTHER -> "ValueError"
decode_R(w) ==
  D(IF w.f7 = 1 THEN M_ops[w.f3 + 1]
    ELSE IF zb_zk(w.f7, w.f3) # "?" THEN zb_zk(w.f7, w.f3)
    ELSE base_R(w.f7, w.f3))

\* The sllw branch does not look at funct7, so the rolw branch is not reached.
decode_OP_32(w) ==
  LET f7 == w.f7
      f3 == w.f3
  IN D(IF f7 = 1 THEN (CASE f3 = 0 -> "mulw" [] f3 = 4 -> "divw" [] f3 = 5 -> "divuw" [] f3 = 6 -> "remw" [] OTHER -> "remuw")
       ELSE IF f3 = 0 /\ f7 = 0 THEN "addw"
       ELSE IF f3 = 0 /\ f7 = \b0100000 THEN "subw"
       ELSE IF f3 = 1 THEN "sllw"
       ELSE IF f3 = 5 /\ f7 = 0 THEN "srlw"
       ELSE IF f3 = 5 /\ f7 = \b0100000 THEN "sraw"
       ELSE IF f7 = \b0110000 /\ f3 = 1 THEN "rolw"
       ELSE IF f7 = \b0110000 /\ f3 = 5 THEN "rorw"
       ELSE IF f7 = \b0000100 /\ f3 = 0 THEN "add_uw"
       ELSE IF f7 = \b0010000 /\ f3 \in {2, 4, 6} THEN <<"sh1add_uw", "sh2add_uw", "sh3add_uw">>[f3 \div 2]
       ELSE IF f7 = \b0000100 /\ f3 = 4 THEN "packw"
       ELSE "ValueError")

sha_fn == <<"sha256sum0", "sha256sum1", "sha256sig0", "sha256sig1", "sha512sum0", "sha512sum1", "sha512sig0", "sha512sig1">>
zbb_unary(sel) == CASE sel = 0 -> "clz" [] sel = 1 -> "ctz" [] sel = 2 -> "cpop" [] sel = 4 -> "sext_b" [] sel = 5 -> "sext_h"
decode_I(w, xl) ==
  LET f3 == w.f3
      f6 == w.f7 \div 2
      i12 == imm12(w)
      sh == i12 % xl                                          \* imm12 & (xl - 1)
      is_alt == IF xl >= 64 THEN f6 = \b010000 ELSE w.f7 = \b0100000
  IN IF f3 \in {1, 5} /\ f6 = \b010010 THEN DImm(IF f3 = 1 THEN "bclri" ELSE "bexti", sh)
     ELSE IF f3 = 1 /\ f6 = \b011010 THEN DImm("binvi", sh)
     ELSE IF f3 = 1 /\ f6 = \b001010 THEN DImm("bseti", sh)
     ELSE IF f3 = 1 /\ f6 = \b011000 /\ i12 % 32 \in {0, 1, 2, 4, 5} THEN D(zbb_unary(i12 % 32))
     ELSE IF f3 = 5 /\ f6 = \b011000 THEN DImm("rori", sh)
     ELSE IF f3 = 5 /\ i12 = \h287 THEN D("orc_b")
     ELSE IF f3 = 5 /\ i12 = (IF xl = 32 THEN \h698 ELSE \h6B8) THEN D("rev8")
     ELSE IF f3 = 5 /\ i12 = \h687 THEN D("brev8")
     ELSE IF f3 = 1 /\ f6 = \b000100 THEN (IF w.rs2 <= 7 THEN D(sha_fn[w.rs2 + 1]) ELSE ValueError)
     ELSE IF f3 = 1 /\ f6 = \b001100 THEN (IF w.rs2 = 0 THEN D("aes64im") ELSE DImm("aes64ks1i", w.rs2 % 16))
     ELSE IF f3 \in {1, 5} THEN DImm(CASE f3 = 1 -> "slli" [] f3 = 5 /\ is_alt -> "srai" [] f3 = 5 /\ ~is_alt -> "srli",
                                     IF xl >= 64 THEN i12 % 64 ELSE i12 % 32)
     ELSE DImm([i \in {0, 2, 3, 4, 6, 7} |-> CASE i = 0 -> "addi" [] i = 2 -> "slti" [] i = 3 -> "sltiu" [] i = 4 -> "xori"
                                               [] i = 6 -> "ori" [] i = 7 -> "andi"][f3], imm_i(w))

decode_OP_IMM_32(w) ==
  LET f3 == w.f3
  IN IF f3 = 1 /\ w.f7 = \b0110000 /\ w.rs2 \in 0 .. 2 THEN D(<<"clzw", "ctzw", "cpopw">>[w.rs2 + 1])
     ELSE IF f3 = 5 /\ w.f7 = \b0110000 THEN DImm("roriw", w.rs2)
     ELSE IF f3 = 1 /\ w.f7 \div 2 = \b000010 THEN DImm("slli_uw", imm12(w) % 64)
     ELSE IF f3 = 1 THEN DImm("slliw", w.rs2)
     ELSE IF f3 = 5 THEN DImm(IF w.f7 = \b0100000 THEN "sraiw" ELSE "srliw", w.rs2)
     ELSE IF f3 = 0 THEN DImm("addiw", imm_i(w))
     ELSE ValueError

decode_load(w) ==
  IF w.f3 <= 6 THEN DImm(<<"lb", "lh", "lw", "ld", "lbu", "lhu", "lwu">>[w.f3 + 1], imm_i(w)) ELSE ValueError
decode_store(w) == IF w.f3 <= 3 THEN DImm(<<"sb", "sh", "sw", "sd">>[w.f3 + 1], imm_s(w)) ELSE ValueError
decode_branch(w) == DImm(<<"beq", "bne", "ble", "bgt", "blt", "bge", "bltu", "bgeu">>[w.f3 + 1], off_b(w))

\* funct3 4 passes for a csr instruction: its low bits are no csr_op of the
\* spec's, and the code's else clears.
decode_SYSTEM(w) ==
  IF w.f3 = 0
  THEN D(CASE w.f7 = \b0001001 -> "sfence_vma"
           [] imm12(w) = 0 -> "ecall"
           [] imm12(w) = 1 -> "ebreak"
           [] imm12(w) = \h302 -> "mret"
           [] imm12(w) = \h102 -> "sret"
           [] OTHER -> "illegal")
  ELSE DImm(<<"csrrw", "csrrs", "csrrc", "csrrci", "csrrwi", "csrrsi", "csrrci">>[w.f3], imm12(w))

decode_FP(w) ==
  LET funct5 == w.f7 \div 4
      byF3(a, b, c) == IF w.f3 = 0 THEN a ELSE IF w.f3 = 1 THEN b ELSE c
  IN D(CASE funct5 \in 0 .. 3 -> <<"fadd_s", "fsub_s", "fmul_s", "fdiv_s">>[funct5 + 1]
         [] funct5 = \b01011 -> "fsqrt_s"
         [] funct5 = \b00100 -> byF3("fsgnj_s", "fsgnjn_s", "fsgnjx_s")
         [] funct5 = \b00101 -> byF3("fmin_s", "fmax_s", "fmax_s")
         [] funct5 = \b10100 -> IF w.f3 = 2 THEN "feq_s" ELSE IF w.f3 = 1 THEN "flt_s" ELSE "fle_s"
         [] funct5 = \b11000 -> IF w.rs2 = 1 THEN "fcvt_wu_s" ELSE "fcvt_w_s"
         [] funct5 = \b11010 -> IF w.rs2 = 1 THEN "fcvt_s_wu" ELSE "fcvt_s_w"
         [] funct5 = \b11100 -> IF w.f3 = 1 THEN "fclass_s" ELSE "fmv_x_w"
         [] funct5 = \b11110 -> "fmv_w_x"
         [] OTHER -> "ValueError")
\* opcode[3:2]: bit 1 negates the product, bit 0 the addend.
decode_MADD(w) == D(<<"fmadd_s", "fmsub_s", "fnmsub_s", "fnmadd_s">>[((w.op \div 4) % 4) + 1])

decode(w, xl) ==
  CASE w.op = \b0110011 -> decode_R(w)
    [] w.op = \b0111011 -> decode_OP_32(w)
    [] w.op = \b0010011 -> decode_I(w, xl)
    [] w.op = \b0011011 -> decode_OP_IMM_32(w)
    [] w.op = \b0000011 -> decode_load(w)
    [] w.op = \b0100011 -> decode_store(w)
    [] w.op = \b1100011 -> decode_branch(w)
    [] w.op = \b1101111 -> DImm("jal", off_j(w))
    [] w.op = \b1100111 -> DImm("jalr", imm_i(w))
    [] w.op = \b0110111 -> DImm("lui", imm_u(w))
    [] w.op = \b0010111 -> DImm("auipc", imm_u(w))
    [] w.op = \b1110011 -> decode_SYSTEM(w)
    [] w.op = \b0000111 -> DImm("flw", imm_i(w))
    [] w.op = \b0100111 -> DImm("fsw", imm_s(w))
    [] w.op = \b1010011 -> decode_FP(w)
    [] w.op \in {\b1000011, \b1000111, \b1001011, \b1001111} -> decode_MADD(w)
    [] w.op = \b0001111 /\ w.f3 = 0 -> D("fence")
    [] OTHER -> D("illegal")
=============================================================================
