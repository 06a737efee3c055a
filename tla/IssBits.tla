------------------------------- MODULE IssBits -------------------------------
(***************************************************************************)
(* The logical, shifting, rotating, counting and permuting instructions of *)
(* ISS.step (sim/tools/iss.py) at their real widths.  A register of xl     *)
(* bits is the set of the positions of its one bits, so A & B, A | B,      *)
(* A ^ B and A & ~B are set operations and a value never overflows.        *)
(***************************************************************************)
EXTENDS Integers, FiniteSets, FiniteSetsExt

CONSTANT xl     \* self.xlen: 32 or 64

AllBits == 0 .. xl - 1
Low(X, n) == {i \in X : i < n}                        \* X & ((1 << n) - 1)
Shl(X, n) == Low({i + n : i \in X}, xl)               \* X << n, in a register
Shr(X, n) == {i - n : i \in {j \in X : j >= n}}       \* X >> n
Sar(X, n, w) == Shr(X, n) \cup (IF w - 1 \in X THEN w - n .. w - 1 ELSE {})
Field(X, lo, n) == Low(Shr(X, lo), n)                 \* (X >> lo) & ((1 << n) - 1)
ValueOf(X) == MapThenSumSet(LAMBDA i : 2^i, X)        \* a short field as a number
Sext(X, w) == Low(X, w) \cup (IF w - 1 \in X THEN w .. xl - 1 ELSE {})
Word(X) == Low(X, 32)                                 \* u32
Xor(X, Y) == SymDiff(X, Y)
Shamt(B) == ValueOf(Low(B, IF xl = 64 THEN 6 ELSE 5))   \* B & (xl - 1)
BitsOf(n) == {i \in 0 .. 30 : (n \div 2^i) % 2 = 1}   \* a small number as bits

-----------------------------------------------------------------------------
rol(A, sh) == IF sh = 0 THEN A ELSE Shl(A, sh) \cup Shr(A, xl - sh)
ror(A, sh) == IF sh = 0 THEN A ELSE Shr(A, sh) \cup Shl(A, xl - sh)

(* Zbb/Zbs register forms and the base logical and shift instructions.     *)
Logical(A, B) ==
  [andn |-> A \ B, orn |-> A \cup (AllBits \ B), xnor |-> AllBits \ Xor(A, B),
   xor |-> Xor(A, B), or |-> A \cup B, and |-> A \cap B]

Shifts(A, sh) == [sll |-> Shl(A, sh), srl |-> Shr(A, sh), sra |-> Sar(A, sh, xl)]

Rotates(A, sh) == [rol |-> rol(A, sh), ror |-> ror(A, sh)]

SingleBit(A, sh) ==
  [bclr |-> A \ {sh}, bext |-> Low(Shr(A, sh), 1), binv |-> Xor(A, {sh}), bset |-> A \cup {sh}]

(* clmul/clmulh xor one shifted copy of A into res per one bit of B.       *)
RECURSIVE XorRows(_, _, _)
XorRows(row, lo, n) ==
  IF n = 1 THEN row[lo] ELSE Xor(XorRows(row, lo, n \div 2), XorRows(row, lo + n \div 2, n - n \div 2))
clmul(A, B) == XorRows([i \in AllBits |-> IF i \in B THEN Shl(A, i) ELSE {}], 0, xl)
clmulh(A, B) == XorRows([i \in AllBits |-> IF i \in B /\ i > 0 THEN Shr(A, xl - i) ELSE {}], 0, xl)

Pack(A, B) ==
  [pack |-> Shl(Low(B, xl \div 2), xl \div 2) \cup Low(A, xl \div 2),
   packh |-> Shl(Low(B, 8), 8) \cup Low(A, 8)]

(* xperm4/xperm8: lane i of the result is the lane of A that lane i of B   *)
(* indexes, nothing when the index is past the last lane.                  *)
xperm(A, B, w) ==
  UNION {LET idx == ValueOf(Field(B, w * i, w))
         IN IF idx < xl \div w THEN Shl(Field(A, w * idx, w), w * i) ELSE {} : i \in 0 .. xl \div w - 1}

-----------------------------------------------------------------------------
(* clz scans down to the first one bit; ctz counts zeros until a one bit   *)
(* sets `done`; both answer the full width for zero.                       *)
clz(A, w) == w - 1 - Max({-1} \cup Low(A, w))
ctz(A, w) == Min({w} \cup Low(A, w))
Counts(A) == [clz |-> clz(A, xl), ctz |-> ctz(A, xl), cpop |-> Cardinality(A)]

Extends(A) == [sext_b |-> Sext(A, 8), sext_h |-> Sext(A, 16)]

orc_b(A) == UNION {IF Field(A, 8 * i, 8) # {} THEN Shl(0 .. 7, 8 * i) ELSE {} : i \in 0 .. xl \div 8 - 1}
rev8(A) == UNION {Shl(Field(A, 8 * i, 8), 8 * (xl \div 8 - 1 - i)) : i \in 0 .. xl \div 8 - 1}
brev8(A) == UNION {{8 * i + 7 - j : j \in Field(A, 8 * i, 8)} : i \in 0 .. xl \div 8 - 1}

(* The sha256 functions work on the low word and are written sign-extended. *)
_ror(X, n, w) == {(i + w - n) % w : i \in X}
Sha(A) ==
  LET X == Word(A)
      Xor3(P, Q, R) == Xor(P, Xor(Q, R))
  IN [sha256sig0 |-> Sext(Xor3(_ror(X, 7, 32), _ror(X, 18, 32), Shr(X, 3)), 32),
      sha256sig1 |-> Sext(Xor3(_ror(X, 17, 32), _ror(X, 19, 32), Shr(X, 10)), 32),
      sha256sum0 |-> Sext(Xor3(_ror(X, 2, 32), _ror(X, 13, 32), _ror(X, 22, 32)), 32),
      sha256sum1 |-> Sext(Xor3(_ror(X, 6, 32), _ror(X, 11, 32), _ror(X, 25, 32)), 32),
      sha512sig0 |-> Xor3(_ror(A, 1, 64), _ror(A, 8, 64), Shr(A, 7)),
      sha512sig1 |-> Xor3(_ror(A, 19, 64), _ror(A, 61, 64), Shr(A, 6)),
      sha512sum0 |-> Xor3(_ror(A, 28, 64), _ror(A, 34, 64), _ror(A, 39, 64)),
      sha512sum1 |-> Xor3(_ror(A, 14, 64), _ror(A, 18, 64), _ror(A, 41, 64))]
Bytes(A) == [orc_b |-> orc_b(A), rev8 |-> rev8(A), brev8 |-> brev8(A)]

-----------------------------------------------------------------------------
(* OP-32 and OP-IMM-32: 32-bit results written sign-extended (s32), but    *)
(* slli.uw keeps its full-width result.  sh is B & 0x1F or the immediate.  *)
rolw(A, sh) == IF sh = 0 THEN Word(A) ELSE Word(Shl(Word(A), sh)) \cup Shr(Word(A), 32 - sh)
rorw(A, sh) == IF sh = 0 THEN Word(A) ELSE Shr(Word(A), sh) \cup Word(Shl(Word(A), 32 - sh))
ShiftsW(A, sh) ==
  [sllw |-> Sext(Shl(Word(A), sh), 32), srlw |-> Sext(Shr(Word(A), sh), 32),
   sraw |-> Sext(Sar(Word(A), sh, 32), 32)]
RotatesW(A, sh) == [rolw |-> Sext(rolw(A, sh), 32), rorw |-> Sext(rorw(A, sh), 32)]
packw(A, B) == Sext(Shl(Low(B, 16), 16) \cup Low(A, 16), 32)
CountsW(A) == [clzw |-> clz(A, 32), ctzw |-> ctz(Word(A), 32), cpopw |-> Cardinality(Word(A))]
slli_uw(A, sh) == Shl(Word(A), sh)
=============================================================================
