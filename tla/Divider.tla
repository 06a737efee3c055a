------------------------------ MODULE Divider -------------------------------
(***************************************************************************)
(* design/Divider.v: restoring division, one bit of the quotient per       *)
(* cycle, on words of XLEN bits.                                           *)
(***************************************************************************)
EXTENDS Naturals

CONSTANTS XLEN

VARIABLES busy, done, quotient, remainder, R, Q, D, count, neg_quotient, neg_remainder

divvars == <<busy, done, quotient, remainder, R, Q, D, count, neg_quotient, neg_remainder>>

Word == 0 .. 2^XLEN - 1

\* Two's complement: the sign bit, -x and |x| of a word.
negative(x) == x >= 2^(XLEN - 1)
neg(x)      == (2^XLEN - x) % 2^XLEN
abs(x)      == IF negative(x) THEN neg(x) ELSE x

Ones == 2^XLEN - 1

Init ==
  /\ busy = FALSE /\ done = FALSE
  /\ quotient = 0 /\ remainder = 0
  /\ R = 0 /\ Q = 0 /\ D = 0 /\ count = 0
  /\ neg_quotient = FALSE /\ neg_remainder = FALSE

Overflows(isSigned, dividend, divisor) ==
  isSigned /\ dividend = 2^(XLEN - 1) /\ divisor = Ones

\* Division by zero and the signed overflow take no iteration.
Immediate(isSigned, dividend, divisor) ==
  divisor = 0 \/ Overflows(isSigned, dividend, divisor)

Begin(isSigned, dividend, divisor) ==
  IF Immediate(isSigned, dividend, divisor)
  THEN /\ quotient'  = IF divisor = 0 THEN Ones ELSE dividend
       /\ remainder' = IF divisor = 0 THEN dividend ELSE 0
       /\ done' = TRUE
       /\ UNCHANGED <<busy, R, Q, D, count, neg_quotient, neg_remainder>>
  ELSE /\ R' = 0
       /\ Q' = IF isSigned THEN abs(dividend) ELSE dividend
       /\ D' = IF isSigned THEN abs(divisor) ELSE divisor
       /\ neg_quotient'  = (isSigned /\ negative(dividend) # negative(divisor))
       /\ neg_remainder' = (isSigned /\ negative(dividend))
       /\ count' = 0
       /\ busy' = TRUE
       /\ done' = FALSE
       /\ UNCHANGED <<quotient, remainder>>

\* One shift, compare and subtract of the pair R, Q.  R_shifted has XLEN bits:
\* the bit it drops is 0, because after k steps R has at most k bits.
R_shifted == (2 * R + Q \div 2^(XLEN - 1)) % 2^XLEN
fits_strict == R_shifted > D
fits  == R_shifted >= D
new_R == IF fits THEN R_shifted - D ELSE R_shifted
new_Q == ((2 * Q) % 2^XLEN) + (IF fits THEN 1 ELSE 0)

last  == count = XLEN - 1

Iterate ==
  /\ R' = new_R
  /\ Q' = new_Q
  /\ count' = count + 1
  /\ busy' = ~last
  /\ done' = last
  /\ quotient'  = IF ~last THEN quotient ELSE IF neg_quotient THEN neg(new_Q) ELSE new_Q
  /\ remainder' = IF ~last THEN remainder ELSE IF neg_remainder THEN neg(new_R) ELSE new_R
  /\ UNCHANGED <<D, neg_quotient, neg_remainder>>

starts(start) == start /\ ~busy /\ ~done

Cycle(start, isSigned, dividend, divisor) ==
  IF starts(start) THEN Begin(isSigned, dividend, divisor)
  ELSE IF busy THEN Iterate
  ELSE /\ done' = FALSE
       /\ UNCHANGED <<busy, quotient, remainder, R, Q, D, count, neg_quotient, neg_remainder>>
=============================================================================
