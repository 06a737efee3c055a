--------------------------- MODULE GoldenFunctions ---------------------------
(***************************************************************************)
(* What the instruction functions of the golden model (sim/tools/iss.py)   *)
(* answer, against references that do not follow the code: integer         *)
(* identities, carry-less products by parity, the lattice of representable *)
(* floats, the algebra of the AES field.  Each action executes one family  *)
(* of instructions on the operands of the job.                             *)
(***************************************************************************)
EXTENDS Integers, Sequences, FiniteSets, FiniteSetsExt, Bitwise

CONSTANTS XLEN, WORD,           \* widths of the arithmetic jobs
          FRAC, EXPW, INTW      \* widths of the float jobs

VARIABLES job, out      \* a call: its arguments, and its answer once it has run

NoAnswer == <<>>

Call(tool, answer) == out = NoAnswer /\ job.tool = tool /\ out' = answer /\ UNCHANGED job
Answered(tool) == job.tool = tool /\ out # NoAnswer

Ar == INSTANCE IssArith
ArW == INSTANCE IssArith WITH XLEN <- WORD
B32 == INSTANCE IssBits WITH xl <- 32
B64 == INSTANCE IssBits WITH xl <- 64
F == INSTANCE IssFloat
Aes == INSTANCE IssAes

ExecuteArith ==
  LET A == job.A
      B == job.B
  IN Call("arith", [m |-> Ar!MExt(A, B), minmax |-> Ar!MinMax(A, B), shadd |-> Ar!shNadd(A, B), base |-> Ar!BaseArith(A, B),
                    mw |-> Ar!WriteWord(Ar!MExtW(A, B)), basew |-> Ar!WriteWord(Ar!BaseArithW(A, B)), uw |-> Ar!UwArith(A, B),
                    imm |-> Ar!ImmArith(A, Ar!sext(B, WORD)), immw |-> Ar!WriteWord(Ar!ImmArithW(A, Ar!sext(B, WORD)))])

BitResults32(A, B) ==
  [rot |-> B32!Rotates(A, B32!Shamt(B)), shift |-> B32!Shifts(A, B32!Shamt(B)), bit |-> B32!SingleBit(A, B32!Shamt(B)),
   logic |-> B32!Logical(A, B), clmul |-> B32!clmul(A, B), clmulh |-> B32!clmulh(A, B), pack |-> B32!Pack(A, B),
   xperm4 |-> B32!xperm(A, B, 4), xperm8 |-> B32!xperm(A, B, 8), count |-> B32!Counts(A), ext |-> B32!Extends(A),
   bytes |-> B32!Bytes(A)]
BitResults64(A, B) ==
  [rot |-> B64!Rotates(A, B64!Shamt(B)), shift |-> B64!Shifts(A, B64!Shamt(B)), bit |-> B64!SingleBit(A, B64!Shamt(B)),
   logic |-> B64!Logical(A, B), clmul |-> B64!clmul(A, B), clmulh |-> B64!clmulh(A, B), pack |-> B64!Pack(A, B),
   xperm4 |-> B64!xperm(A, B, 4), xperm8 |-> B64!xperm(A, B, 8), count |-> B64!Counts(A), ext |-> B64!Extends(A),
   bytes |-> B64!Bytes(A)]
ExecuteBits == Call("bits", IF job.xl = 32 THEN BitResults32(job.A, job.B) ELSE BitResults64(job.A, job.B))

shw == B64!ValueOf(B64!Low(job.B, 5))
ExecuteBitsW ==
  Call("bitsw", [shift |-> B64!ShiftsW(job.A, shw), rot |-> B64!RotatesW(job.A, shw), packw |-> B64!packw(job.A, job.B),
                 count |-> B64!CountsW(job.A), slli_uw |-> B64!slli_uw(job.A, shw), sha |-> B64!Sha(job.A)])

ExecuteFloat ==
  LET a == job.a
      b == job.b
      rm == job.rm
  IN Call("float", [fadd |-> F!f_add(a, b, rm, FALSE), fsub |-> F!f_add(a, b, rm, TRUE), fmul |-> F!f_mul(a, b, rm),
                    fdiv |-> F!f_div(a, b, rm), fsqrt |-> F!f_sqrt(a, rm)])
ExecuteFused ==
  Call("fused", [fmadd |-> F!f_madd(job.a, job.b, job.c, job.rm, FALSE, FALSE),
                 fmsub |-> F!f_madd(job.a, job.b, job.c, job.rm, FALSE, TRUE),
                 fnmsub |-> F!f_madd(job.a, job.b, job.c, job.rm, TRUE, FALSE),
                 fnmadd |-> F!f_madd(job.a, job.b, job.c, job.rm, TRUE, TRUE)])
ExecuteFloatOrder ==
  LET a == job.a
      b == job.b
  IN Call("forder", [feq |-> F!f_cmp(a, b, "feq"), flt |-> F!f_cmp(a, b, "flt"), fle |-> F!f_cmp(a, b, "fle"),
                     fmin |-> F!f_minmax(a, b, "fmin"), fmax |-> F!f_minmax(a, b, "fmax"),
                     fsgnj |-> F!f_sgnj(a, b, "fsgnj"), fsgnjn |-> F!f_sgnj(a, b, "fsgnjn"), fsgnjx |-> F!f_sgnj(a, b, "fsgnjx"),
                     classa |-> F!f_class(a), classb |-> F!f_class(b)])
ExecuteConvert ==
  Call("convert", [w |-> F!f_cvt_to_int(job.a, job.rm, FALSE), wu |-> F!f_cvt_to_int(job.a, job.rm, TRUE),
                   sw |-> F!f_cvt_from_int(job.i, job.rm, FALSE), swu |-> F!f_cvt_from_int(job.i, job.rm, TRUE)])

ExecuteAes ==
  LET lo == job.lo
      hi == job.hi
      e == <<Aes!aes64es(lo, hi), Aes!aes64es(hi, lo)>>
  IN Call("aes", [es |-> e, esm |-> <<Aes!aes64esm(lo, hi), Aes!aes64esm(hi, lo)>>,
                  back |-> <<Aes!aes64ds(e[1], e[2]), Aes!aes64ds(e[2], e[1])>>, ds |-> Aes!aes64ds(lo, hi),
                  dsm |-> Aes!aes64dsm(lo, hi), ks1 |-> Aes!aes64ks1i(hi, job.rnum), ks2 |-> Aes!aes64ks2(hi, lo)])
ExecuteSbox == Call("sbox", [fwd |-> Aes!sbox(job.x), inv |-> Aes!sbox_inv(Aes!sbox(job.x)), xt2 |-> Aes!_aes_xt2(job.x)])

ExecuteFunctions ==
  \/ ExecuteArith \/ ExecuteBits \/ ExecuteBitsW \/ ExecuteFloat \/ ExecuteFused \/ ExecuteFloatOrder
  \/ ExecuteConvert \/ ExecuteAes \/ ExecuteSbox

-----------------------------------------------------------------------------
(* mul and the three mulh forms are the low and high halves of the exact   *)
(* product of the operands read signed, signed by unsigned and unsigned.   *)
ProductExact ==
  Answered("arith") =>
    LET m == out.m
        s(v) == Ar!sxlen(v)
    IN /\ s(m.mulh) * 2^XLEN + m.mul = s(job.A) * s(job.B)
       /\ s(m.mulhsu) * 2^XLEN + m.mul = s(job.A) * job.B
       /\ m.mulhu * 2^XLEN + m.mul = job.A * job.B

(* Quotient and remainder of each pair of division instructions rebuild    *)
(* the dividend, the remainder is smaller than the divisor and never has   *)
(* the other sign; division by zero and the one overflowing quotient       *)
(* answer what the ISA fixes.                                              *)
DivisionIdentity ==
  Answered("arith") =>
    LET m == out.m
        a == Ar!sxlen(job.A)
        b == Ar!sxlen(job.B)
        q == Ar!sxlen(m.div)
        r == Ar!sxlen(m.rem)
    IN IF job.B = 0 THEN m.div = 2^XLEN - 1 /\ m.divu = 2^XLEN - 1 /\ m.rem = job.A /\ m.remu = job.A
       ELSE /\ (q * b + r) % 2^XLEN = job.A
            /\ (a = -(2^(XLEN - 1)) /\ b = -1) \/ q * b + r = a
            /\ Ar!Abs(r) < Ar!Abs(b)
            /\ r * a >= 0
            /\ m.divu * job.B + m.remu = job.A /\ m.remu < job.B

(* Every OP-32 instruction answers the sign extension of what its          *)
(* full-width namesake answers on a machine of that width given the low    *)
(* words, shift amounts cut to 5 bits; the .uw forms are the full-width    *)
(* ones on the zero-extended word.                                         *)
WordForms ==
  /\ Answered("arith") =>
       LET lo(v) == v % 2^WORD
           wide(v) == (IF v >= 2^(WORD - 1) THEN v - 2^WORD ELSE v) % 2^XLEN
           n == ArW!MExt(lo(job.A), lo(job.B))
           b == ArW!BaseArith(lo(job.A), lo(job.B))
       IN /\ out.mw = [mulw |-> wide(n.mul), divw |-> wide(n.div), divuw |-> wide(n.divu), remw |-> wide(n.rem),
                       remuw |-> wide(n.remu)]
          /\ out.basew = [addw |-> wide(b.add), subw |-> wide(b.sub)]
          /\ out.immw.addiw = wide(lo(out.imm.addi))
          /\ out.uw.add_uw = Ar!BaseArith(lo(job.A), job.B).add
          /\ out.uw.sh3add_uw = Ar!shNadd(lo(job.A), job.B).sh3add
  /\ Answered("bitsw") =>
       LET A == {i \in job.A : i < 32}
           wide(X) == X \cup (IF 31 \in X THEN 32 .. 63 ELSE {})
           B == {i \in job.B : i < 32}
       IN /\ out.shift = [sllw |-> wide(B32!Shifts(A, shw).sll), srlw |-> wide(B32!Shifts(A, shw).srl),
                          sraw |-> wide(B32!Shifts(A, shw).sra)]
          /\ out.rot = [rolw |-> wide(B32!rol(A, shw)), rorw |-> wide(B32!ror(A, shw))]
          /\ out.packw = wide(B32!Pack(A, B).pack)
          /\ out.count = [clzw |-> B32!Counts(A).clz, ctzw |-> B32!Counts(A).ctz, cpopw |-> B32!Counts(A).cpop]

(* Rotations permute the bits by an offset modulo the width and undo each  *)
(* other, and the sha sum functions, xors of rotations, commute with a     *)
(* rotation of their argument.                                             *)
RotationsPermute ==
  /\ Answered("bits") =>
       LET xl == job.xl
           sh == IF xl = 32 THEN B32!Shamt(job.B) ELSE B64!Shamt(job.B)
       IN /\ out.rot.rol = {(i + sh) % xl : i \in job.A}
          /\ {(i + sh) % xl : i \in out.rot.ror} = job.A
          /\ out.shift.sll \cup out.shift.srl \subseteq out.rot.rol \cup out.rot.ror
  /\ Answered("bitsw") =>
       LET turned == B64!Sha({(i + 1) % 64 : i \in job.A})
           turnedw == B64!Sha({(i + 1) % 32 : i \in {j \in job.A : j < 32}})
           turn(X, w) == {(i + 1) % w : i \in {j \in X : j < w}}
       IN /\ turned.sha512sum0 = turn(out.sha.sha512sum0, 64) /\ turned.sha512sum1 = turn(out.sha.sha512sum1, 64)
          /\ \A f \in {"sha256sum0", "sha256sum1"} : {i \in turnedw[f] : i < 32} = turn(out.sha[f], 32)

(* clmulh and clmul are the high and low halves of the product of the two  *)
(* registers as polynomials: bit k of it is set when an odd number of      *)
(* pairs of one bits sum to k.                                             *)
CarrylessProduct ==
  Answered("bits") =>
    LET odd(k) == Cardinality({i \in job.A : k - i \in job.B}) % 2 = 1
    IN /\ out.clmul = {k \in 0 .. job.xl - 1 : odd(k)}
       /\ out.clmulh = {k \in 0 .. job.xl - 1 : odd(k + job.xl)}

(* rev8, brev8 and xperm move each bit where the lane they name says, and  *)
(* an xperm index past the last lane selects nothing.                      *)
PermutationsMoveBits ==
  Answered("bits") =>
    LET n == job.xl \div 8
        lane(w, i) == {b \in 0 .. w - 1 : w * i + b \in job.B}
        picks(w, i, j) == lane(w, i) = {b \in 0 .. w - 1 : (j \div 2^b) % 2 = 1}
        moved(w) == {k \in 0 .. job.xl - 1 : \E j \in 0 .. job.xl \div w - 1 :
                       picks(w, k \div w, j) /\ w * j + (k % w) \in job.A}
    IN /\ out.bytes.rev8 = {8 * (n - 1 - (i \div 8)) + (i % 8) : i \in job.A}
       /\ out.bytes.brev8 = {8 * (i \div 8) + 7 - (i % 8) : i \in job.A}
       /\ out.bytes.orc_b = {i \in 0 .. job.xl - 1 : \E k \in job.A : k \div 8 = i \div 8}
       /\ out.xperm8 = moved(8)
       /\ out.xperm4 = moved(4)

-----------------------------------------------------------------------------
(* The positive representable magnitudes in increasing order, exponents    *)
(* unbounded: Mag(k) has the bit pattern k + BIAS * 2^FRAC when that is a  *)
(* normal number's pattern.                                                *)
Mag(k) == F!FrMul(<<2^FRAC + (k % 2^FRAC), 2^FRAC>>, F!pow2(k \div 2^FRAC))
Indices == -(2^FRAC) * (2 * F!BIAS + 2 * FRAC) .. 2^FRAC * (2 * F!BIAS + 3)

\* p^n <= q for fractions, n = 1 or 2.
Power(p, n) == IF n = 1 THEN p ELSE F!FrMul(p, p)
\* The float nearest, in the sense of rm, to the n-th root of m, with sign s.
NearestFloat(s, m, rm, n) ==
  LET k == -(2^FRAC) * (2 * F!BIAS + 2 * FRAC) - 1 + Cardinality({i \in Indices : F!FrLe(Power(Mag(i), n), m)})
      exact == F!FrLe(m, Power(Mag(k), n))
      mid == F!FrMul(F!FrAdd(Mag(k), Mag(k + 1)), <<1, 2>>)
      above == F!FrLt(Power(mid, n), m)
      tie == F!FrLe(Power(mid, n), m) /\ ~above
      away == CASE rm = "RTZ" -> FALSE [] rm = "RDN" -> s = 1 [] rm = "RUP" -> s = 0 [] rm = "RMM" -> above \/ tie
                [] rm = "RNE" -> above \/ (tie /\ k % 2 = 1)
      pattern == (IF ~exact /\ away THEN k + 1 ELSE k) + F!BIAS * 2^FRAC
      largest == F!EXP_ONES * 2^FRAC - 1
      keeps == rm = "RTZ" \/ rm = (IF s = 0 THEN "RDN" ELSE "RUP")
  IN CASE pattern > largest -> F!Answer(s * F!SIGN_BIT + largest + (IF keeps THEN 0 ELSE 1), {"OF", "NX"})
       [] pattern < 2^FRAC -> F!Answer(s * F!SIGN_BIT, {"UF", "NX"})
       [] OTHER -> F!Answer(s * F!SIGN_BIT + pattern, IF exact THEN {} ELSE {"NX"})

finite(x) == F!exp_of(x) \notin {0, F!EXP_ONES}
value(x) == LET m == F!f32_decode(x).mag IN IF F!sign_of(x) = 1 THEN <<-m[1], m[2]>> ELSE m
NearestSigned(v, rm) == NearestFloat(IF v[1] < 0 THEN 1 ELSE 0, <<Ar!Abs(v[1]), v[2]>>, rm, 1)
neg(x) == (x + F!SIGN_BIT) % (2 * F!SIGN_BIT)

(* On normal operands every arithmetic instruction answers the float       *)
(* nearest to the exact result in the rounding mode given, with the flags  *)
(* that say whether it is exact, too large or too small: fused multiply    *)
(* adds round once.                                                        *)
RoundsCorrectly ==
  /\ Answered("float") /\ finite(job.a) /\ finite(job.b) =>
       LET va == value(job.a)
           vb == value(job.b)
           sum == F!FrAdd(va, vb)
           quotient == F!FrMul(va, IF vb[1] > 0 THEN <<vb[2], vb[1]>> ELSE <<-vb[2], -vb[1]>>)
       IN /\ sum[1] # 0 => out.fadd = NearestSigned(sum, job.rm)
          /\ out.fmul = NearestSigned(F!FrMul(va, vb), job.rm)
          /\ out.fdiv = NearestSigned(quotient, job.rm)
          /\ va[1] > 0 => out.fsqrt = NearestFloat(0, va, job.rm, 2)
  /\ Answered("fused") /\ finite(job.a) /\ finite(job.b) /\ finite(job.c) =>
       LET sum == F!FrAdd(F!FrMul(value(job.a), value(job.b)), value(job.c))
       IN sum[1] # 0 => out.fmadd = NearestSigned(sum, job.rm)

(* Over all patterns, nan, infinite, zero and subnormal among them: the    *)
(* fused forms negate the product and the addend exactly, a factor of one  *)
(* makes them an addition and subtraction is addition of the negation.     *)
FusedAgrees ==
  /\ Answered("fused") =>
       /\ out.fmsub = F!f_madd(job.a, job.b, neg(job.c), job.rm, FALSE, FALSE)
       /\ out.fnmsub = F!f_madd(neg(job.a), job.b, job.c, job.rm, FALSE, FALSE)
       /\ out.fnmadd = F!f_madd(neg(job.a), job.b, neg(job.c), job.rm, FALSE, FALSE)
         
       /\ job.b = F!BIAS * 2^FRAC => out.fmadd = F!f_add(job.a, job.c, job.rm, FALSE)
  /\ Answered("float") =>
       /\ out.fsub = F!f_add(job.a, neg(job.b), job.rm, FALSE)
       /\ out.fmul = F!f_mul(job.b, job.a, job.rm)

(* Comparisons follow the order of the values, nan in no order and every   *)
(* subnormal equal to zero; min and max pick by the same order, and a      *)
(* smaller number never has a greater class.                               *)
CompareIsOrder ==
  Answered("forder") =>
    LET da == F!f32_decode(job.a)
        db == F!f32_decode(job.b)
        key(x, d) == IF d.zero THEN 0 ELSE IF d.sign = 1 THEN -F!abs_of(x) ELSE F!abs_of(x)
        ka == key(job.a, da)
        kb == key(job.b, db)
    IN IF da.nan \/ db.nan
       THEN /\ out.feq.bits = 0 /\ out.flt.bits = 0 /\ out.fle.bits = 0
            /\ ~da.nan => out.fmin.bits = job.a /\ out.fmax.bits = job.a
       ELSE /\ (out.flt.bits = 1) = (ka < kb) /\ (out.feq.bits = 1) = (ka = kb) /\ (out.fle.bits = 1) = (ka <= kb)
            /\ {out.fmin.bits, out.fmax.bits} = {job.a, job.b}
            /\ F!f_cmp(out.fmin.bits, out.fmax.bits, "fle").bits = 1
            /\ ka < kb => out.classa <= out.classb

(* A float converts to the integer its rounding mode picks among the two   *)
(* around it, flagged inexact when it is not that integer and saturated    *)
(* when it is out of range; an integer converts to the nearest float, and  *)
(* back to itself when that is exact.                                      *)
ConvertRounds ==
  Answered("convert") =>
    LET d == F!f32_decode(job.a)
        v == value(job.a)
        i == IF out.w.bits >= 2^(INTW - 1) THEN out.w.bits - 2^INTW ELSE out.w.bits
        dist == Ar!Abs(v[1] - i * v[2])
        side == v[1] - i * v[2]
    IN /\ finite(job.a) /\ "NV" \notin out.w.flags =>
            /\ dist < v[2]
            /\ ("NX" \in out.w.flags) = (dist # 0)
            /\ job.rm \in {"RNE", "RMM"} => 2 * dist <= v[2]
            /\ job.rm = "RDN" => side >= 0
            /\ job.rm = "RUP" => side <= 0
            /\ job.rm = "RTZ" => i * i * v[2] * v[2] <= v[1] * v[1]
       /\ finite(job.a) /\ "NV" \in out.w.flags =>
            /\ out.w.bits = IF v[1] < 0 THEN 2^(INTW - 1) ELSE 2^(INTW - 1) - 1
            /\ Ar!Abs(v[1]) >= (2^(INTW - 1) - 1) * v[2]
       /\ "NX" \notin out.sw.flags => F!f_cvt_to_int(out.sw.bits, job.rm, FALSE) = F!Answer(job.i, {})
       /\ job.i # 0 => out.swu = NearestFloat(0, <<job.i, 1>>, job.rm, 1)

-----------------------------------------------------------------------------
(* The product of two bytes in the AES field, from its definition.         *)
RECURSIVE FieldProduct(_, _)
FieldProduct(x, y) ==
  IF y = 0 THEN 0
  ELSE LET twice == IF 2 * x >= 256 THEN (2 * x) ^^ 283 ELSE 2 * x
       IN FieldProduct(twice, y \div 2) ^^ (IF y % 2 = 1 THEN x ELSE 0)
RotateByte(x, n) == ((x * 2^n) % 256) + (x * 2^n) \div 256

(* The S-box tables are what the cipher defines: an affine map of the      *)
(* inverse in the field, and the table of its inverse; and doubling is     *)
(* multiplication by 2 in that field.                                      *)
SboxIsFieldInverse ==
  Answered("sbox") =>
    LET inverse == IF job.x = 0 THEN 0 ELSE CHOOSE y \in 1 .. 255 : FieldProduct(job.x, y) = 1
        affine(b) == (((b ^^ RotateByte(b, 1)) ^^ (RotateByte(b, 2) ^^ RotateByte(b, 3))) ^^ RotateByte(b, 4)) ^^ 99
    IN out.fwd = affine(inverse) /\ out.inv = job.x /\ out.xt2 = FieldProduct(job.x, 2)

(* Decryption undoes encryption: the two halves of a round's result go     *)
(* back to the two halves of its state, aes64im undoes the column mixing   *)
(* of aes64esm, and aes64dsm is aes64ds followed by aes64im.               *)
AesInverts ==
  Answered("aes") =>
    /\ out.back = <<job.lo, job.hi>>
    /\ <<Aes!aes64im(out.esm[1]), Aes!aes64im(out.esm[2])>> = out.es
    /\ out.dsm = Aes!aes64im(out.ds)

-----------------------------------------------------------------------------
\* iss.py's M extension, word forms and additions compute in the integers what
\* RISC-V defines: exact products, the division identity, sign-extended words.
IntegersExact == ProductExact /\ DivisionIdentity /\ WordForms


\* iss.py's f_ functions are exact arithmetic rounded once, in every rounding
\* mode, and their comparisons and conversions follow the values.
FloatsRound == RoundsCorrectly /\ FusedAgrees /\ CompareIsOrder /\ ConvertRounds

\* iss.py's aes64 instructions are the cipher: its S-box, its field, and
\* decryption that undoes encryption.
AesIsCipher == SboxIsFieldInverse /\ AesInverts
=============================================================================
