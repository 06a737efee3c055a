------------------------------ MODULE MCUnits -------------------------------
(***************************************************************************)
(* The units of the out-of-order core that are checked by themselves, each *)
(* with the most general caller its ports allow: the free list, the        *)
(* reorder buffer and the divider.  A behaviour exercises one of them.     *)
(***************************************************************************)
EXTENDS FreeListUse, Integers

CONSTANTS ROB_ENTRIES, Inst, NoInst, XLEN

VARIABLES
  unit,
  e_valid, e_done, e_inst, rob_count, rob_head, rob_tail,
  busy, done, quotient, remainder, R, Q, D, count, neg_quotient, neg_remainder, req

robvars == <<e_valid, e_done, e_inst, rob_count, rob_head, rob_tail>>
divvars == <<busy, done, quotient, remainder, R, Q, D, count, neg_quotient, neg_remainder, req>>

Rob == INSTANCE ReorderBufferUse WITH count_r <- rob_count, head_r <- rob_head, tail_r <- rob_tail
Div == INSTANCE Divider

\* A dual-issue caller whose slot 1 never commits without slot 0.
OrderedCommits == {<<FALSE, FALSE>>, <<TRUE, FALSE>>, <<TRUE, TRUE>>}

-----------------------------------------------------------------------------
(* The caller of Divider.v raises start, with any operands, in any cycle.  *)
(* req remembers the request that was accepted last.                       *)
Requests == [isSigned : BOOLEAN, dividend : Div!Word, divisor : Div!Word]
NoRequest == [isSigned |-> FALSE, dividend |-> 0, divisor |-> 1]

Accept(r) ==
  /\ Div!starts(TRUE)
  /\ Div!Cycle(TRUE, r.isSigned, r.dividend, r.divisor)
  /\ req' = r

\* Start is low, or it is raised while the divider cannot take a request.
Tick(start) ==
  /\ ~Div!starts(start)
  /\ Div!Cycle(start, FALSE, 0, 0)
  /\ UNCHANGED req

DividerNext == (\E r \in Requests : Accept(r)) \/ (\E start \in BOOLEAN : Tick(start))

\* The clock does not stop in the middle of a division.
DividerFairness == []<>(~busy) \/ []<><<TRUE>>_divvars

-----------------------------------------------------------------------------
UnitsInit == unit \in {"free list", "reorder buffer", "divider"} /\ UseInit /\ Rob!Init /\ Div!Init /\ req = NoRequest
FreeListStep == unit = "free list" /\ Next /\ UNCHANGED <<unit, robvars, divvars>>
ReorderBufferStep == unit = "reorder buffer" /\ Rob!Next /\ UNCHANGED <<unit, vars, divvars>>
DividerStep == unit = "divider" /\ DividerNext /\ UNCHANGED <<unit, vars, robvars>>
UnitsNext == FreeListStep \/ ReorderBufferStep \/ DividerStep
UnitsSpec == UnitsInit /\ [][UnitsNext]_<<unit, vars, robvars, divvars>>

UnitsLiveSpec == UnitsSpec /\ Rob!Fairness /\ DividerFairness

DividerTypeOK ==
  /\ busy \in BOOLEAN /\ done \in BOOLEAN
  /\ {quotient, remainder, R, Q, D} \subseteq Div!Word /\ count \in 0 .. XLEN
  /\ neg_quotient \in BOOLEAN /\ neg_remainder \in BOOLEAN
  /\ req \in Requests

\* Each unit's registers stay in range and tell one story: the indices of
\* FreeList.v and ReorderBuffer.v wrap at their own, not power-of-two, sizes and
\* agree with the occupancy and the valid bits, which separate statements update.
UnitsInv == TypeOK /\ IndicesAgree /\ Rob!TypeOK /\ Rob!RingAgrees /\ DividerTypeOK

\* ReorderBuffer.v retires in program order and loses nothing.
InOrder == Rob!InOrder

Magnitude(x) == IF req.isSigned THEN Div!abs(x) ELSE x

\* Halfway through, R and the low bits of Q are the remainder and the quotient
\* of the bits of the dividend consumed so far, and the rest of Q is what is
\* still to come: nothing is lost when Divider.v shifts R's top bit out.
PartialDivision ==
  busy => LET A == Magnitude(req.dividend)
              k == 2^count
          IN  /\ D = Magnitude(req.divisor)
              /\ A \div 2^(XLEN - count) = (Q % k) * D + R
              /\ R < D /\ R < k
              /\ Q \div k = A % 2^(XLEN - count)

\* The value of a word, as signed or unsigned.
Value(x) == IF req.isSigned /\ Div!negative(x) THEN x - 2^XLEN ELSE x
Abs(i) == IF i < 0 THEN -i ELSE i

\* At the done pulse the outputs are what the RISC-V M extension defines, the
\* two special cases included: the remainder has the dividend's sign, is smaller
\* than the divisor, and dividend = quotient * divisor + remainder.
ResultIsDivision ==
  done =>
    LET a == Value(req.dividend)
        b == Value(req.divisor)
        q == Value(quotient)
        r == Value(remainder)
    IN  IF req.divisor = 0 THEN quotient = Div!Ones /\ remainder = req.dividend
        ELSE IF a = -(2^(XLEN - 1)) /\ b = -1
        THEN quotient = req.dividend /\ remainder = 0
        ELSE /\ a = q * b + r
             /\ Abs(r) < Abs(b)
             /\ r # 0 => (r < 0 <=> a < 0)

\* Divider.v computes the division it accepted: its loop invariant and its result.
DivisionCorrect == PartialDivision /\ ResultIsDivision

\* What was started ends: an entry that ReorderBuffer.v allocated retires, and a
\* division ends, releasing the stall its user takes on busy.
UnitsProgress == Rob!EventuallyRetires /\ (busy ~> done)
=============================================================================
