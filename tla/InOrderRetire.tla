--------------------------- MODULE InOrderRetire ---------------------------
(***************************************************************************)
(* What a reorder buffer promises: the instructions in flight form a queue *)
(* in program order.  They finish in any order, but leave only from the    *)
(* front, only when finished, and no finished instruction loses its mark.  *)
(***************************************************************************)
EXTENDS Naturals, Sequences

CONSTANTS Inst, Width   \* Width: how many enter, and how many leave, at once

VARIABLE window         \* the instructions in flight, oldest first

Init == window = << >>

\* The first r instructions leave and the sequence new enters, unfinished.
Step(r, new) ==
  /\ r <= Len(window)
  /\ \A i \in 1 .. r : window[i].done
  /\ Len(window') = Len(window) - r + Len(new)
  /\ \A i \in 1 .. Len(window) - r :
       /\ window'[i].inst = window[i + r].inst
       /\ window[i + r].done => window'[i].done
  /\ \A i \in 1 .. Len(new) :
       window'[Len(window) - r + i] = [inst |-> new[i], done |-> FALSE]

Next == \E r \in 0 .. Width, k \in 0 .. Width : \E new \in [1 .. k -> Inst] : Step(r, new)

Spec == Init /\ [][Next]_window
=============================================================================
