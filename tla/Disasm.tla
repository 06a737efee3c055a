------------------------------- MODULE Disasm -------------------------------
(***************************************************************************)
(* sim/tools/disasm.py: disasm(word, xlen) as the statement its text       *)
(* denotes, in the form module Asm assembles; a text holding a ? (a word   *)
(* the disassembler does not name) is the statement Unknown.               *)
(***************************************************************************)
EXTENDS Integers, Sequences, FiniteSets

Unknown == [mn |-> "?"]

OPCODE_R == \b0110011
OPCODE_I == \b0010011
OPCODE_LOAD == \b0000011
OPCODE_STORE == \b0100011
OPCODE_BRANCH == \b1100011
OPCODE_JAL == \b1101111
OPCODE_JALR == \b1100111
OPCODE_LUI == \b0110111
OPCODE_AUIPC == \b0010111
OPCODE_SYSTEM == \b1110011
OPCODE_OP_32 == \b0111011
OPCODE_OP_IMM_32 == \b0011011
OPCODE_FP == \b1010011
OPCODE_LOAD_FP == \b0000111
OPCODE_STORE_FP == \b0100111
MADD_NAMES == {<<\b1000011, "fmadd_s">>, <<\b1000111, "fmsub_s">>, <<\b1001011, "fnmsub_s">>, <<\b1001111, "fnmadd_s">>}

RM_NAMES == {<<0, "rne">>, <<1, "rtz">>, <<2, "rdn">>, <<3, "rup">>, <<4, "rmm">>, <<7, "dyn">>}
FUNCT7_BASE == \b0000000
FUNCT7_ALT == \b0100000
FUNCT7_MULDIV == \b0000001

\* A Python dict as the set of its pairs; "?" is the default of .get.
Get(pairs, key) == IF \E p \in pairs : p[1] = key THEN (CHOOSE p \in pairs : p[1] = key)[2] ELSE "?"
rm_name(rm) == Get(RM_NAMES, rm)
sext(v, bits) == LET m == v % 2^bits IN IF m >= 2^(bits - 1) THEN m - 2^bits ELSE m

imm12(w) == w.f7 * 32 + w.rs2
imm_i(w) == sext(imm12(w), 12)
imm_s(w) == sext(w.f7 * 32 + w.rd, 12)
imm_u(w) == w.f7 * 2^13 + w.rs2 * 2^8 + w.rs1 * 8 + w.f3
off_b(w) == sext((w.f7 \div 64) * 2^12 + (w.rd % 2) * 2^11 + (w.f7 % 64) * 32 + (w.rd \div 2) * 2, 13)
off_j(w) == LET f == imm_u(w)
            IN sext((f \div 2^19) * 2^20 + (f % 2^8) * 2^12 + ((f \div 2^8) % 2) * 2^11 + ((f \div 2^9) % 2^10) * 2, 21)

Named(mn, i) == IF mn = "?" \/ ("rm" \in DOMAIN i /\ i.rm = "?") THEN Unknown
                ELSE [f \in DOMAIN i \cup {"mn"} |-> IF f = "mn" THEN mn ELSE i[f]]
R3(mn, w) == Named(mn, [rd |-> w.rd, rs1 |-> w.rs1, rs2 |-> w.rs2])
R2(mn, w) == Named(mn, [rd |-> w.rd, rs1 |-> w.rs1])
Imm(mn, w, v) == Named(mn, [rd |-> w.rd, rs1 |-> w.rs1, imm |-> v])

muldiv_names ==
  {<<0, "mul">>, <<1, "mulh">>, <<2, "mulhsu">>, <<3, "mulhu">>, <<4, "div">>, <<5, "divu">>, <<6, "rem">>, <<7, "remu">>}
bext_names ==
  {<<<<FUNCT7_ALT, 7>>, "andn">>, <<<<FUNCT7_ALT, 6>>, "orn">>, <<<<FUNCT7_ALT, 4>>, "xnor">>,
   <<<<\b0000101, 4>>, "min">>, <<<<\b0000101, 5>>, "minu">>, <<<<\b0000101, 6>>, "max">>, <<<<\b0000101, 7>>, "maxu">>,
   <<<<\b0110000, 1>>, "rol">>, <<<<\b0110000, 5>>, "ror">>,
   <<<<\b0010000, 2>>, "sh1add">>, <<<<\b0010000, 4>>, "sh2add">>, <<<<\b0010000, 6>>, "sh3add">>,
   <<<<\b0100100, 1>>, "bclr">>, <<<<\b0100100, 5>>, "bext">>, <<<<\b0110100, 1>>, "binv">>, <<<<\b0010100, 1>>, "bset">>,
   <<<<\b0000101, 1>>, "clmul">>, <<<<\b0000101, 3>>, "clmulh">>, <<<<\b0000100, 4>>, "pack">>, <<<<\b0000100, 7>>, "packh">>,
   <<<<\b0010100, 2>>, "xperm4">>, <<<<\b0010100, 4>>, "xperm8">>,
   <<<<\b0011011, 0>>, "aes64esm">>, <<<<\b0011001, 0>>, "aes64es">>, <<<<\b0011111, 0>>, "aes64dsm">>,
   <<<<\b0011101, 0>>, "aes64ds">>, <<<<\b0111111, 0>>, "aes64ks2">>}
base_names ==
  {<<<<FUNCT7_BASE, 0>>, "add">>, <<<<FUNCT7_ALT, 0>>, "sub">>, <<<<FUNCT7_BASE, 1>>, "sll">>, <<<<FUNCT7_BASE, 2>>, "slt">>,
   <<<<FUNCT7_BASE, 3>>, "sltu">>, <<<<FUNCT7_BASE, 4>>, "xor">>, <<<<FUNCT7_BASE, 5>>, "srl">>, <<<<FUNCT7_ALT, 5>>, "sra">>,
   <<<<FUNCT7_BASE, 6>>, "or">>, <<<<FUNCT7_BASE, 7>>, "and">>}
disasm_R(w) ==
  R3(IF w.f7 = FUNCT7_MULDIV THEN Get(muldiv_names, w.f3) ELSE Get(bext_names \cup base_names, <<w.f7, w.f3>>), w)

(* OPCODE_I: the ifs are tried in the order of the code.                   *)
fixed_names ==
  {<<<<1, \h600>>, "clz">>, <<<<1, \h601>>, "ctz">>, <<<<1, \h602>>, "cpop">>, <<<<1, \h604>>, "sext_b">>,
   <<<<1, \h605>>, "sext_h">>}
sha_names ==
  {<<\h100, "sha256sum0">>, <<\h101, "sha256sum1">>, <<\h102, "sha256sig0">>, <<\h103, "sha256sig1">>,
   <<\h104, "sha512sum0">>, <<\h105, "sha512sum1">>, <<\h106, "sha512sig0">>, <<\h107, "sha512sig1">>}
disasm_I(w, xlen) ==
  LET f3 == w.f3
      f6 == w.f7 \div 2
      i12 == imm12(w)
      sh6 == i12 % 64
      sub == Get(fixed_names, <<1, \h600 + (i12 % 32)>>)
      alt == IF xlen >= 64 THEN f6 = \b010000 ELSE w.f7 = FUNCT7_ALT
  IN IF f3 \in {1, 5} /\ f6 = \b010010 THEN Imm(IF f3 = 1 THEN "bclri" ELSE "bexti", w, sh6)
     ELSE IF f3 = 1 /\ f6 = \b011010 THEN Imm("binvi", w, sh6)
     ELSE IF f3 = 1 /\ f6 = \b001010 THEN Imm("bseti", w, sh6)
     ELSE IF f3 = 1 /\ f6 = \b011000 /\ sub # "?" THEN R2(sub, w)
     ELSE IF f3 = 5 /\ f6 = \b011000 THEN Imm("rori", w, sh6)
     ELSE IF f3 = 5 /\ i12 = \h287 THEN R2("orc_b", w)
     ELSE IF f3 = 5 /\ i12 \in {\h698, \h6B8} THEN R2("rev8", w)
     ELSE IF f3 = 5 /\ i12 = \h687 THEN R2("brev8", w)
     ELSE IF f3 = 1 /\ Get(sha_names, i12) # "?" THEN R2(Get(sha_names, i12), w)
     ELSE IF f3 = 1 /\ f6 = \b001100 THEN (IF w.rs2 = 0 THEN R2("aes64im", w) ELSE Imm("aes64ks1i", w, w.rs2 % 16))
     ELSE IF f3 \in {1, 5} THEN Imm(CASE f3 = 1 -> "slli" [] f3 = 5 /\ alt -> "srai" [] f3 = 5 /\ ~alt -> "srli",
                                    w, IF xlen >= 64 THEN sh6 ELSE i12 % 32)
     ELSE Imm(Get({<<0, "addi">>, <<2, "slti">>, <<3, "sltiu">>, <<4, "xori">>, <<6, "ori">>, <<7, "andi">>}, f3), w, imm_i(w))

op32_names ==
  {<<<<FUNCT7_MULDIV, 0>>, "mulw">>, <<<<FUNCT7_MULDIV, 4>>, "divw">>, <<<<FUNCT7_MULDIV, 5>>, "divuw">>,
   <<<<FUNCT7_MULDIV, 6>>, "remw">>, <<<<FUNCT7_MULDIV, 7>>, "remuw">>,
   <<<<\b0110000, 1>>, "rolw">>, <<<<\b0110000, 5>>, "rorw">>, <<<<\b0000100, 0>>, "add_uw">>,
   <<<<\b0010000, 2>>, "sh1add_uw">>, <<<<\b0010000, 4>>, "sh2add_uw">>, <<<<\b0010000, 6>>, "sh3add_uw">>,
   <<<<\b0000100, 4>>, "packw">>, <<<<FUNCT7_BASE, 0>>, "addw">>, <<<<FUNCT7_ALT, 0>>, "subw">>,
   <<<<FUNCT7_BASE, 1>>, "sllw">>, <<<<FUNCT7_BASE, 5>>, "srlw">>, <<<<FUNCT7_ALT, 5>>, "sraw">>}
disasm_OP_32(w) == R3(Get(op32_names, <<w.f7, w.f3>>), w)

disasm_OP_IMM_32(w) ==
  LET sub == Get({<<0, "clzw">>, <<1, "ctzw">>, <<2, "cpopw">>}, w.rs2)
  IN IF w.f3 = 1 /\ w.f7 = \b0110000 /\ sub # "?" THEN R2(sub, w)
     ELSE IF w.f3 = 5 /\ w.f7 = \b0110000 THEN Imm("roriw", w, w.rs2)
     ELSE IF w.f3 = 1 /\ w.f7 \div 2 = \b000010 THEN Imm("slli_uw", w, imm12(w) % 64)
     ELSE IF w.f3 = 1 THEN Imm("slliw", w, w.rs2)
     ELSE IF w.f3 = 5 THEN Imm(IF w.f7 = FUNCT7_ALT THEN "sraiw" ELSE "srliw", w, w.rs2)
     ELSE Imm(Get({<<0, "addiw">>}, w.f3), w, imm_i(w))

load_names == {<<0, "lb">>, <<1, "lh">>, <<2, "lw">>, <<3, "ld">>, <<4, "lbu">>, <<5, "lhu">>, <<6, "lwu">>}
store_names == {<<0, "sb">>, <<1, "sh">>, <<2, "sw">>, <<3, "sd">>}
branch_names == {<<0, "beq">>, <<1, "bne">>, <<2, "ble">>, <<3, "bgt">>, <<4, "blt">>, <<5, "bge">>, <<6, "bltu">>, <<7, "bgeu">>}
csr_names == {<<1, "csrrw">>, <<2, "csrrs">>, <<3, "csrrc">>, <<5, "csrrwi">>, <<6, "csrrsi">>, <<7, "csrrci">>}
disasm_SYSTEM(w) ==
  IF w.f3 = 0 THEN Named(Get({<<0, "ecall">>, <<1, "ebreak">>, <<\h302, "mret">>}, imm12(w)), <<>>)
  ELSE IF w.f3 >= 4 THEN Named(Get(csr_names, w.f3), [rd |-> w.rd, csr |-> imm12(w), imm |-> w.rs1])
  ELSE Named(Get(csr_names, w.f3), [rd |-> w.rd, csr |-> imm12(w), rs1 |-> w.rs1])

FpRm3(mn, w) == Named(mn, [rd |-> w.rd, rs1 |-> w.rs1, rs2 |-> w.rs2, rm |-> rm_name(w.f3)])
FpRm2(mn, w) == Named(mn, [rd |-> w.rd, rs1 |-> w.rs1, rm |-> rm_name(w.f3)])
disasm_FP(w) ==
  LET funct5 == w.f7 \div 4
  IN CASE funct5 \in 0 .. 3 -> FpRm3(Get({<<0, "fadd_s">>, <<1, "fsub_s">>, <<2, "fmul_s">>, <<3, "fdiv_s">>}, funct5), w)
       [] funct5 = \b01011 -> FpRm2("fsqrt_s", w)
       [] funct5 = \b00100 -> R3(Get({<<0, "fsgnj_s">>, <<1, "fsgnjn_s">>, <<2, "fsgnjx_s">>}, w.f3), w)
       [] funct5 = \b00101 -> R3(Get({<<0, "fmin_s">>, <<1, "fmax_s">>}, w.f3), w)
       [] funct5 = \b10100 -> R3(Get({<<0, "fle_s">>, <<1, "flt_s">>, <<2, "feq_s">>}, w.f3), w)
       [] funct5 = \b11000 -> FpRm2(IF w.rs2 = 1 THEN "fcvt_wu_s" ELSE "fcvt_w_s", w)
       [] funct5 = \b11010 -> FpRm2(IF w.rs2 = 1 THEN "fcvt_s_wu" ELSE "fcvt_s_w", w)
       [] funct5 = \b11100 -> R2(IF w.f3 = 1 THEN "fclass_s" ELSE "fmv_x_w", w)
       [] funct5 = \b11110 -> R2("fmv_w_x", w)
       [] OTHER -> Unknown

disasm(w, xlen) ==
  CASE w.op = OPCODE_R -> disasm_R(w)
    [] w.op = OPCODE_I -> IF imm12(w) = 0 /\ w.rs1 = 0 /\ w.f3 = 0 /\ w.rd = 0 THEN [mn |-> "nop"] ELSE disasm_I(w, xlen)
    [] w.op = OPCODE_OP_32 -> disasm_OP_32(w)
    [] w.op = OPCODE_OP_IMM_32 -> disasm_OP_IMM_32(w)
    [] w.op = OPCODE_LOAD -> Imm(Get(load_names, w.f3), w, imm_i(w))
    [] w.op = OPCODE_STORE -> Named(Get(store_names, w.f3), [rs2 |-> w.rs2, rs1 |-> w.rs1, imm |-> imm_s(w)])
    [] w.op = OPCODE_BRANCH -> Named(Get(branch_names, w.f3), [rs1 |-> w.rs1, rs2 |-> w.rs2, imm |-> off_b(w)])
    [] w.op = OPCODE_JAL -> [mn |-> "jal", rd |-> w.rd, imm |-> off_j(w)]
    [] w.op = OPCODE_JALR -> Imm("jalr", w, imm_i(w))
    [] w.op = OPCODE_LUI -> [mn |-> "lui", rd |-> w.rd, imm |-> imm_u(w)]
    [] w.op = OPCODE_AUIPC -> [mn |-> "auipc", rd |-> w.rd, imm |-> imm_u(w)]
    [] w.op = OPCODE_SYSTEM -> disasm_SYSTEM(w)
    [] w.op = OPCODE_LOAD_FP -> Imm("flw", w, imm_i(w))
    [] w.op = OPCODE_STORE_FP -> [mn |-> "fsw", rs2 |-> w.rs2, rs1 |-> w.rs1, imm |-> imm_s(w)]
    [] w.op \in {p[1] : p \in MADD_NAMES} ->
         Named(Get(MADD_NAMES, w.op), [rd |-> w.rd, rs1 |-> w.rs1, rs2 |-> w.rs2, rs3 |-> w.f7 \div 4, rm |-> rm_name(w.f3)])
    [] w.op = OPCODE_FP -> disasm_FP(w)
    [] OTHER -> Unknown                    \* sret, sfence.vma and fence among them
=============================================================================
