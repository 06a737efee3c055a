------------------------------ MODULE IssArith ------------------------------
(***************************************************************************)
(* The adding, multiplying, dividing and comparing instructions of         *)
(* ISS.step (sim/tools/iss.py), one operator per instruction or family,    *)
(* keyed by mnemonic.  A register is a natural number below 2^XLEN.  The   *)
(* code's 32-bit s32/u32 become s32/u32 of width WORD, so that a small     *)
(* XLEN = 2 * WORD keeps the shape of RV64 and every product in range.     *)
(***************************************************************************)
EXTENDS Integers

CONSTANTS XLEN,   \* register width (32 or 64 in the code)
          WORD    \* width of the "w" instructions (32 in the code)

Abs(v) == IF v < 0 THEN -v ELSE v

uXLEN(v, xlen) == v % 2^xlen

sXLEN(v, xlen) == LET m == v % 2^xlen IN IF m >= 2^(xlen - 1) THEN m - 2^xlen ELSE m

u32(v) == v % 2^WORD

s32(v) == LET m == v % 2^WORD IN IF m >= 2^(WORD - 1) THEN m - 2^WORD ELSE m

sext(v, bits) == LET m == v % 2^bits IN IF m >= 2^(bits - 1) THEN m - 2^bits ELSE m

uxlen(v) == uXLEN(v, XLEN)
sxlen(v) == sXLEN(v, XLEN)

(***************************************************************************)
(* The M extension.  The code divides magnitudes and then fixes the sign,  *)
(* because Python's // rounds towards minus infinity.                      *)
(***************************************************************************)
mulh(A, B) == uxlen((sxlen(A) * sxlen(B)) \div 2^XLEN)
mulhsu_signed_b(A, B) == uxlen((sxlen(A) * sxlen(B)) \div 2^XLEN)
mulhsu(A, B) == uxlen((sxlen(A) * uxlen(B)) \div 2^XLEN)
mulhu(A, B) == (uxlen(A) * uxlen(B)) \div 2^XLEN

div(A, B) ==
  CASE B = 0 -> uxlen(-1)
    [] sxlen(A) = -(2^(XLEN - 1)) /\ sxlen(B) = -1 -> A
    [] OTHER -> LET q == Abs(sxlen(A)) \div Abs(sxlen(B))
                IN uxlen(IF (sxlen(A) < 0) # (sxlen(B) < 0) THEN -q ELSE q)

divu(A, B) == IF B = 0 THEN uxlen(-1) ELSE uxlen(A) \div uxlen(B)

rem(A, B) ==
  CASE B = 0 -> A
    [] sxlen(A) = -(2^(XLEN - 1)) /\ sxlen(B) = -1 -> 0
    [] OTHER -> LET r == Abs(sxlen(A)) % Abs(sxlen(B))
                IN uxlen(IF sxlen(A) < 0 THEN -r ELSE r)

remu(A, B) == IF B = 0 THEN A ELSE uxlen(A) % uxlen(B)

MExt(A, B) ==
  [mul |-> uxlen(A * B), mulh |-> mulh(A, B), mulhsu |-> mulhsu(A, B), mulhu |-> mulhu(A, B),
   div |-> div(A, B), divu |-> divu(A, B), rem |-> rem(A, B), remu |-> remu(A, B)]

(* min/max pick one of the two registers; slt/sltu answer 0 or 1.          *)
MinMax(A, B) ==
  [min |-> IF sxlen(A) < sxlen(B) THEN A ELSE B,
   minu |-> IF uxlen(A) < uxlen(B) THEN A ELSE B,
   max |-> IF sxlen(A) > sxlen(B) THEN A ELSE B,
   maxu |-> IF uxlen(A) > uxlen(B) THEN A ELSE B]

shNadd(A, B) ==
  [sh1add |-> uxlen(A * 2 + B), sh2add |-> uxlen(A * 4 + B), sh3add |-> uxlen(A * 8 + B)]

BaseArith(A, B) ==
  [add |-> uxlen(A + B), sub |-> uxlen(A - B),
   slt |-> IF sxlen(A) < sxlen(B) THEN 1 ELSE 0,
   sltu |-> IF uxlen(A) < uxlen(B) THEN 1 ELSE 0]

(***************************************************************************)
(* OP-32: the same instructions on the low WORD bits; the result is        *)
(* written sign-extended, whatever the signedness of the operation.        *)
(***************************************************************************)
divw_res(A, B) ==
  CASE u32(B) = 0 -> 2^WORD - 1
    [] s32(A) = -(2^(WORD - 1)) /\ s32(B) = -1 -> u32(A)
    [] OTHER -> LET q == Abs(s32(A)) \div Abs(s32(B))
                IN u32(IF (s32(A) < 0) # (s32(B) < 0) THEN -q ELSE q)

remw_res(A, B) ==
  CASE u32(B) = 0 -> u32(A)
    [] s32(A) = -(2^(WORD - 1)) /\ s32(B) = -1 -> 0
    [] OTHER -> LET r == Abs(s32(A)) % Abs(s32(B)) IN u32(IF s32(A) < 0 THEN -r ELSE r)

MExtW(A, B) ==
  [mulw |-> u32(A * B), divw |-> divw_res(A, B), divuw |-> IF u32(B) = 0 THEN 2^WORD - 1 ELSE u32(A) \div u32(B),
   remw |-> remw_res(A, B), remuw |-> IF u32(B) = 0 THEN u32(A) ELSE u32(A) % u32(B)]

BaseArithW(A, B) == [addw |-> u32(A + B), subw |-> u32(A - B)]

WriteWord(res) == [m \in DOMAIN res |-> uxlen(s32(res[m]))]

UwArith(A, B) ==
  [add_uw |-> uxlen(u32(A) + B), sh1add_uw |-> uxlen(u32(A) * 2 + B),
   sh2add_uw |-> uxlen(u32(A) * 4 + B), sh3add_uw |-> uxlen(u32(A) * 8 + B)]

(* The I-type forms: imm is the sign-extended immediate imm_i.             *)
ImmArith(A, imm) ==
  [addi |-> uxlen(A + imm), slti |-> IF sxlen(A) < imm THEN 1 ELSE 0,
   sltiu |-> IF uxlen(A) < uxlen(imm) THEN 1 ELSE 0]

ImmArithW(A, imm) == [addiw |-> u32(A + imm)]
=============================================================================
