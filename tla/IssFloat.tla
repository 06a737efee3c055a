------------------------------ MODULE IssFloat ------------------------------
(***************************************************************************)
(* The F-extension reference model of sim/tools/iss.py: exact rational     *)
(* arithmetic rounded once.  The format has FRAC fraction bits and EXPW    *)
(* exponent bits (23 and 8 in the code) and the integer conversions are    *)
(* INTW bits wide (32 in the code); a float is its bit pattern, a natural  *)
(* number; a positive fraction is a pair <<num, den>>; a flag word is the  *)
(* set of raised flags.  Every f_ function answers [bits, flags].          *)
(***************************************************************************)
EXTENDS Integers, FiniteSetsExt

CONSTANTS FRAC, EXPW, INTW

BIAS == 2^(EXPW - 1) - 1
EXP_ONES == 2^EXPW - 1                       \* 0xFF
SIGN_BIT == 2^(FRAC + EXPW)                  \* 1 << 31
CANONICAL_NAN == EXP_ONES * 2^FRAC + 2^(FRAC - 1)

sign_of(bits) == (bits \div SIGN_BIT) % 2
exp_of(bits) == (bits \div 2^FRAC) % 2^EXPW
mant_of(bits) == bits % 2^FRAC
abs_of(bits) == bits % SIGN_BIT
pow2(e) == IF e >= 0 THEN <<2^e, 1>> ELSE <<1, 2^(-e)>>
Xor1(a, b) == (a + b) % 2
Answer(bits, flags) == [bits |-> bits, flags |-> flags]

FrMul(p, q) == <<p[1] * q[1], p[2] * q[2]>>
FrDiv(p, q) == <<p[1] * q[2], p[2] * q[1]>>
FrAdd(p, q) == <<p[1] * q[2] + q[1] * p[2], p[2] * q[2]>>
FrLe(p, q) == p[1] * q[2] <= q[1] * p[2]
FrLt(p, q) == p[1] * q[2] < q[1] * p[2]

f32_decode(bits) ==
  LET exp == exp_of(bits)
      mant == mant_of(bits)
  IN [sign |-> sign_of(bits), zero |-> exp = 0, inf |-> exp = EXP_ONES /\ mant = 0,
      nan |-> exp = EXP_ONES /\ mant # 0,
      snan |-> exp = EXP_ONES /\ mant # 0 /\ mant < 2^(FRAC - 1),
      mag |-> IF exp \in {0, EXP_ONES} THEN <<0, 1>>      \* 0 for a flushed subnormal; unused for inf and nan
              ELSE FrMul(<<2^FRAC + mant, 2^FRAC>>, pow2(exp - BIAS))]

f32_pack_zero(sign) == sign * SIGN_BIT
f32_pack_inf(sign) == sign * SIGN_BIT + EXP_ONES * 2^FRAC
nan_answer(S) == Answer(CANONICAL_NAN, IF \E d \in S : d.snan THEN {"NV"} ELSE {})

_f32_round_up_decision(cls, sig_floor, sign, rm) ==
  /\ cls # "exact"
  /\ CASE rm = "RTZ" -> FALSE
       [] rm = "RDN" -> sign = 1
       [] rm = "RUP" -> sign = 0
       [] rm = "RMM" -> cls # "below"
       [] OTHER -> cls = "above" \/ (cls = "tie" /\ sig_floor % 2 = 1)

_f32_pack_no_carry(sign, e0, sig0, cls, rm) ==
  LET sig == sig0 + (IF _f32_round_up_decision(cls, sig0, sign, rm) THEN 1 ELSE 0)
  IN Answer(sign * SIGN_BIT + (e0 + BIAS) * 2^FRAC + (sig % 2^FRAC), IF cls = "exact" THEN {} ELSE {"NX"})

_f32_pack_rounded(sign, e0, sig0, cls, rm) ==
  LET up == _f32_round_up_decision(cls, sig0, sign, rm)
      carry == up /\ sig0 + 1 = 2^(FRAC + 1)
      e == IF carry THEN e0 + 1 ELSE e0
      sig == CASE carry -> 2^FRAC [] up /\ ~carry -> sig0 + 1 [] OTHER -> sig0
      truncates == rm = "RTZ" \/ (rm = "RDN" /\ sign = 0) \/ (rm = "RUP" /\ sign = 1)
  IN CASE e > BIAS -> Answer(IF truncates THEN sign * SIGN_BIT + EXP_ONES * 2^FRAC - 1 ELSE f32_pack_inf(sign),
                             {"OF", "NX"})
       [] e < 1 - BIAS -> Answer(f32_pack_zero(sign), {"UF", "NX"})
       [] OTHER -> Answer(sign * SIGN_BIT + (e + BIAS) * 2^FRAC + (sig % 2^FRAC), IF cls = "exact" THEN {} ELSE {"NX"})

(* The code's two while loops converge to the unique e with 2^e <= mag < 2^(e+1). *)
Exponents == -(2 * BIAS + 2 * FRAC) .. 2 * BIAS + FRAC + INTW
cls_of(rem, den) ==
  CASE rem = 0 -> "exact" [] rem > 0 /\ 2 * rem < den -> "below" [] 2 * rem > den -> "above" [] OTHER -> "tie"

_f32_normalize_fraction(mag) ==
  LET e == CHOOSE e \in Exponents : FrLe(pow2(e), mag) /\ FrLt(mag, pow2(e + 1))
      sig == FrMul(mag, pow2(FRAC - e))
  IN [e |-> e, sig_floor |-> sig[1] \div sig[2], cls |-> cls_of(sig[1] % sig[2], sig[2])]

isqrt(n) == Max({k \in 0 .. n : k * k <= n})

_f32_sqrt_normalize(mag) ==
  LET e == CHOOSE e \in Exponents : FrLe(pow2(2 * e), mag) /\ FrLt(mag, pow2(2 * (e + 1)))
      scaled == FrMul(mag, pow2(2 * (FRAC - e)))
      n == scaled[1] \div scaled[2]                     \* the code asserts the division exact
      k == isqrt(n)
  IN [e |-> e, sig_floor |-> k,
      cls |-> CASE k * k = n -> "exact"
                [] k * k # n /\ 4 * n < (2 * k + 1) * (2 * k + 1) -> "below"
                [] 4 * n > (2 * k + 1) * (2 * k + 1) -> "above"
                [] OTHER -> "tie"]

f32_round_from_fraction(sign, mag, rm) ==
  LET f == _f32_normalize_fraction(mag) IN _f32_pack_rounded(sign, f.e, f.sig_floor, f.cls, rm)
f32_round_from_sqrt(sign, mag, rm) ==
  LET f == _f32_sqrt_normalize(mag) IN _f32_pack_rounded(sign, f.e, f.sig_floor, f.cls, rm)

(* The exact sum of two signed fractions, rounded; an exact zero takes the *)
(* sign of the rounding mode.                                              *)
signed_sum(sp, p, sq, q, rm) ==
  LET t == FrAdd(<<IF sp = 0 THEN p[1] ELSE -p[1], p[2]>>, <<IF sq = 0 THEN q[1] ELSE -q[1], q[2]>>)
  IN CASE t[1] = 0 -> Answer(f32_pack_zero(IF rm = "RDN" THEN 1 ELSE 0), {})
       [] t[1] > 0 -> f32_round_from_fraction(0, t, rm)
       [] t[1] < 0 -> f32_round_from_fraction(1, <<-t[1], t[2]>>, rm)

-----------------------------------------------------------------------------
f_add(a_bits, b_bits, rm, is_sub) ==
  LET a == f32_decode(a_bits)
      b == f32_decode(b_bits)
      eff_sb == IF is_sub THEN 1 - b.sign ELSE b.sign
  IN IF a.nan \/ b.nan THEN nan_answer({a, b})
     ELSE IF a.inf /\ b.inf /\ a.sign # eff_sb THEN Answer(CANONICAL_NAN, {"NV"})
     ELSE IF a.inf THEN Answer(f32_pack_inf(a.sign), {})
     ELSE IF b.inf THEN Answer(f32_pack_inf(eff_sb), {})
     ELSE IF a.zero /\ b.zero /\ a.sign = eff_sb THEN Answer(f32_pack_zero(a.sign), {})
     ELSE IF a.zero /\ b.zero THEN Answer(f32_pack_zero(IF rm = "RDN" THEN 1 ELSE 0), {})
     ELSE IF a.zero THEN Answer(eff_sb * SIGN_BIT + abs_of(b_bits), {})
     ELSE IF b.zero THEN Answer(a_bits, {})
     ELSE signed_sum(a.sign, a.mag, eff_sb, b.mag, rm)

f_mul(a_bits, b_bits, rm) ==
  LET a == f32_decode(a_bits)
      b == f32_decode(b_bits)
      sign == Xor1(a.sign, b.sign)
  IN IF a.nan \/ b.nan THEN nan_answer({a, b})
     ELSE IF (a.inf /\ b.zero) \/ (a.zero /\ b.inf) THEN Answer(CANONICAL_NAN, {"NV"})
     ELSE IF a.inf \/ b.inf THEN Answer(f32_pack_inf(sign), {})
     ELSE IF a.zero \/ b.zero THEN Answer(f32_pack_zero(sign), {})
     ELSE f32_round_from_fraction(sign, FrMul(a.mag, b.mag), rm)

f_div(a_bits, b_bits, rm) ==
  LET a == f32_decode(a_bits)
      b == f32_decode(b_bits)
      sign == Xor1(a.sign, b.sign)
  IN IF a.nan \/ b.nan THEN nan_answer({a, b})
     ELSE IF (a.inf /\ b.inf) \/ (a.zero /\ b.zero) THEN Answer(CANONICAL_NAN, {"NV"})
     ELSE IF a.inf THEN Answer(f32_pack_inf(sign), {})
     ELSE IF b.inf THEN Answer(f32_pack_zero(sign), {})
     ELSE IF b.zero THEN Answer(f32_pack_inf(sign), {"DZ"})
     ELSE IF a.zero THEN Answer(f32_pack_zero(sign), {})
     ELSE f32_round_from_fraction(sign, FrDiv(a.mag, b.mag), rm)

f_sqrt(a_bits, rm) ==
  LET a == f32_decode(a_bits)
  IN IF a.nan THEN nan_answer({a})
     ELSE IF a.zero THEN Answer(a_bits, {})
     ELSE IF a.sign = 1 THEN Answer(CANONICAL_NAN, {"NV"})
     ELSE IF a.inf THEN Answer(a_bits, {})
     ELSE f32_round_from_sqrt(0, a.mag, rm)

f_madd(a_bits, b_bits, c_bits, rm, neg_prod, neg_addend) ==
  LET a == f32_decode(a_bits)
      b == f32_decode(b_bits)
      c == f32_decode(c_bits)
      prod_sign == Xor1(Xor1(a.sign, b.sign), IF neg_prod THEN 1 ELSE 0)
      prod_inf == a.inf \/ b.inf
      eff_sc == IF neg_addend THEN 1 - c.sign ELSE c.sign
  IN IF a.nan \/ b.nan \/ c.nan THEN nan_answer({a, b, c})
     ELSE IF (a.inf /\ b.zero) \/ (a.zero /\ b.inf) THEN Answer(CANONICAL_NAN, {"NV"})
     ELSE IF prod_inf /\ c.inf /\ prod_sign # eff_sc THEN Answer(CANONICAL_NAN, {"NV"})
     ELSE IF prod_inf THEN Answer(f32_pack_inf(prod_sign), {})
     ELSE IF c.inf THEN Answer(f32_pack_inf(eff_sc), {})
     ELSE IF (a.zero \/ b.zero) /\ c.zero /\ prod_sign = eff_sc THEN Answer(f32_pack_zero(prod_sign), {})
     ELSE IF (a.zero \/ b.zero) /\ c.zero THEN Answer(f32_pack_zero(IF rm = "RDN" THEN 1 ELSE 0), {})
     ELSE IF a.zero \/ b.zero THEN Answer(eff_sc * SIGN_BIT + abs_of(c_bits), {})
     ELSE signed_sum(prod_sign, FrMul(a.mag, b.mag), eff_sc, c.mag, rm)

-----------------------------------------------------------------------------
f_sgnj(a_bits, b_bits, op) ==
  LET sa == sign_of(a_bits)
      sb == sign_of(b_bits)
      sign == CASE op = "fsgnj" -> sb [] op = "fsgnjn" -> 1 - sb [] op = "fsgnjx" -> Xor1(sa, sb)
  IN Answer(sign * SIGN_BIT + abs_of(a_bits), {})

(* Numeric order of two patterns that are not nan, on the patterns         *)
(* themselves; f_minmax orders -0 before +0 and f_cmp does not.            *)
pattern_lt(a_bits, b_bits) ==
  IF sign_of(a_bits) # sign_of(b_bits) THEN sign_of(a_bits) = 1
  ELSE IF sign_of(a_bits) = 1 THEN abs_of(a_bits) > abs_of(b_bits)
  ELSE abs_of(a_bits) < abs_of(b_bits)
f32_is_zero_arith(bits) == exp_of(bits) = 0

f_minmax(a_bits, b_bits, op) ==
  LET a == f32_decode(a_bits)
      b == f32_decode(b_bits)
      a_lt_b == IF f32_is_zero_arith(a_bits) /\ f32_is_zero_arith(b_bits)
                THEN a.sign = 1 /\ b.sign = 0
                ELSE pattern_lt(a_bits, b_bits)
  IN IF a.nan /\ b.nan THEN nan_answer({a, b})
     ELSE IF a.nan THEN Answer(b_bits, IF a.snan THEN {"NV"} ELSE {})
     ELSE IF b.nan THEN Answer(a_bits, IF b.snan THEN {"NV"} ELSE {})
     ELSE Answer(IF a_lt_b = (op = "fmin") THEN a_bits ELSE b_bits, {})

f_cmp(a_bits, b_bits, op) ==
  LET a == f32_decode(a_bits)
      b == f32_decode(b_bits)
      both_zero == f32_is_zero_arith(a_bits) /\ f32_is_zero_arith(b_bits)
      eq == both_zero \/ a_bits = b_bits
      lt == ~both_zero /\ pattern_lt(a_bits, b_bits)
      holds == CASE op = "feq" -> eq [] op = "flt" -> lt [] op = "fle" -> lt \/ eq
  IN IF a.nan \/ b.nan THEN Answer(0, IF op # "feq" \/ a.snan \/ b.snan THEN {"NV"} ELSE {})
     ELSE Answer(IF holds THEN 1 ELSE 0, {})

(* fclass.s: the position of the one bit of the answer.                    *)
f_class(a_bits) ==
  LET neg == sign_of(a_bits) = 1
      exp == exp_of(a_bits)
      frac == mant_of(a_bits)
  IN CASE exp = EXP_ONES /\ frac = 0 -> IF neg THEN 0 ELSE 7
       [] exp \notin {0, EXP_ONES} -> IF neg THEN 1 ELSE 6
       [] exp = 0 /\ frac # 0 -> IF neg THEN 2 ELSE 5
       [] exp = 0 /\ frac = 0 -> IF neg THEN 3 ELSE 4
       [] exp = EXP_ONES /\ frac # 0 -> IF frac < 2^(FRAC - 1) THEN 8 ELSE 9

saturated(sign, unsigned) ==
  IF unsigned THEN (IF sign = 1 THEN 0 ELSE 2^INTW - 1) ELSE (IF sign = 1 THEN 2^(INTW - 1) ELSE 2^(INTW - 1) - 1)

f_cvt_to_int(a_bits, rm, unsigned) ==
  LET a == f32_decode(a_bits)
      floor_mag == a.mag[1] \div a.mag[2]
      cls == cls_of(a.mag[1] % a.mag[2], a.mag[2])
      mag == floor_mag + (IF _f32_round_up_decision(cls, floor_mag, a.sign, rm) THEN 1 ELSE 0)
      out_of_range == IF unsigned THEN (a.sign = 1 /\ mag # 0) \/ mag > 2^INTW - 1
                      ELSE mag > 2^(INTW - 1) - (IF a.sign = 1 THEN 0 ELSE 1)
  IN IF a.nan THEN Answer(saturated(0, unsigned), {"NV"})
     ELSE IF a.zero THEN Answer(0, {})
     ELSE IF a.inf \/ out_of_range THEN Answer(saturated(a.sign, unsigned), {"NV"})
     ELSE Answer((IF a.sign = 1 THEN -mag ELSE mag) % 2^INTW, IF cls = "exact" THEN {} ELSE {"NX"})

f_cvt_from_int(a_bits, rm, unsigned) ==
  LET sign == IF unsigned THEN 0 ELSE a_bits \div 2^(INTW - 1)
      mag == IF sign = 1 THEN (-a_bits) % 2^INTW ELSE a_bits
  IN IF a_bits = 0 THEN Answer(0, {}) ELSE f32_round_from_fraction(sign, <<mag, 1>>, rm)
=============================================================================
