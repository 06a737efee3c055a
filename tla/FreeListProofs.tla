--------------------------- MODULE FreeListProofs ---------------------------
(***************************************************************************)
(* Proofs about FreeListUse, for every number of physical and              *)
(* architectural registers.  The inductive invariant is the conjunction    *)
(* of the type invariant, the agreement of the two indices and             *)
(* Conservation; no part is inductive by itself: without IndicesAgree a    *)
(* push could overwrite a free register, and without TypeOK the wrapped    *)
(* index could leave the storage.                                          *)
(***************************************************************************)
EXTENDS FreeListUse, TLAPS

IInv == TypeOK /\ IndicesAgree /\ Conservation

\* The caller never commits slot 1 of the rename bundle without slot 0.
Slot1AfterSlot0 == <<FALSE, TRUE>> \notin Commits

\* wrap_add stays inside the storage (FreeList.v:97-105).
LEMMA WrapRange ==
  ASSUME NEW b \in Slot, NEW a \in 0 .. CAPACITY
  PROVE  wrap_add(b, a) \in Slot
BY SizeAssumption DEF wrap_add, Slot, CAPACITY

\* Advancing in two steps is advancing once.
LEMMA WrapCompose ==
  ASSUME NEW b \in Slot, NEW a \in 0 .. CAPACITY, NEW c \in 0 .. CAPACITY,
         a + c <= CAPACITY
  PROVE  wrap_add(wrap_add(b, a), c) = wrap_add(b, a + c)
BY SizeAssumption DEF wrap_add, Slot, CAPACITY

\* Offsets that are less than a lap apart name different slots.
LEMMA WrapInjective ==
  ASSUME NEW b \in Slot, NEW a \in 0 .. CAPACITY, NEW c \in 0 .. CAPACITY,
         wrap_add(b, a) = wrap_add(b, c), a - c < CAPACITY, c - a < CAPACITY
  PROVE  a = c
BY SizeAssumption DEF wrap_add, Slot, CAPACITY

\* The reset state of FreeList.v satisfies the invariant.
LEMMA InitIInv == UseInit => IInv
<1> SUFFICES ASSUME UseInit PROVE IInv
  OBVIOUS
<1> USE SizeAssumption
<1>1. TypeOK
  BY DEF UseInit, Init, TypeOK, FLTypeOK, CAPACITY, Slot, Preg
<1>2. \A i \in 0 .. count_r - 1 : FreeAt(i) = NUM_AREGS + i
  BY DEF UseInit, Init, FreeAt, wrap_add, CAPACITY, Slot
<1>3. IndicesAgree
  BY DEF UseInit, Init, IndicesAgree, wrap_add, CAPACITY
<1>4. NoDuplicate
  BY <1>1, <1>2 DEF NoDuplicate, TypeOK, FLTypeOK
<1>5. FreeNotHeld
  BY <1>1, <1>2 DEF FreeNotHeld, TypeOK, FLTypeOK, UseInit
<1>6. NoLeak
  <2> SUFFICES ASSUME NEW p \in Preg, p \notin held
               PROVE  \E i \in 0 .. count_r - 1 : FreeAt(i) = p
    BY DEF NoLeak
  <2>1. p - NUM_AREGS \in 0 .. count_r - 1
    BY DEF UseInit, Init, CAPACITY, Preg
  <2> QED
    BY <1>2, <2>1 DEF Preg
<1> QED
  BY <1>1, <1>3, <1>4, <1>5, <1>6 DEF IInv, Conservation

\* One clock edge of FreeList.v, with the caller's contract, preserves the
\* invariant.
LEMMA ClockIInv ==
  ASSUME Slot1AfterSlot0, IInv,
         NEW c0 \in BOOLEAN, NEW c1 \in BOOLEAN, NEW e0 \in BOOLEAN, NEW e1 \in BOOLEAN,
         NEW p0 \in held, NEW p1 \in held,
         Clock(c0, c1, e0, p0, e1, p1)
  PROVE  IInv'
<1> USE SizeAssumption
<1> DEFINE n == Ones(c0, c1)
           m == count_r - n
           k == Ones(e0, e1)
           pushed(i) == IF i = 0 /\ e0 THEN p0 ELSE p1
           NewAt(i) == queue'[wrap_add(head_r', i)]
<1>1. c1 => c0
  BY Zenon DEF Slot1AfterSlot0, Clock
<1>2. /\ queue \in [Slot -> Preg] /\ count_r \in 0 .. CAPACITY
      /\ head_r \in Slot /\ tail_r \in Slot /\ held \subseteq Preg
  BY DEF IInv, TypeOK, FLTypeOK
<1>3. /\ n \in 0 .. 2 /\ k \in 0 .. 2 /\ n <= count_r /\ m \in 0 .. CAPACITY
      /\ m + k <= CAPACITY /\ n <= CAPACITY /\ k <= CAPACITY
  BY <1>1, <1>2 DEF Clock, alloc_ok0, alloc_ok1, Ones, CAPACITY
<1>4. /\ head_r' = wrap_add(head_r, n)
      /\ tail_r' = wrap_add(tail_r, k)
      /\ count_r' = m + k
  <2>1. head_r' = wrap_add(head_r, n)
    BY <1>1, <1>2 DEF Clock, Cycle, head_next, Ones, wrap_add, Slot, CAPACITY
  <2> QED
    BY <2>1, <1>2, <1>3 DEF Clock, Cycle, tail_next
<1>5. head_r' \in Slot /\ tail_r' \in Slot /\ count_r' \in 0 .. CAPACITY
  BY <1>2, <1>3, <1>4, WrapRange DEF CAPACITY
<1>6. tail_r = wrap_add(head_r', m)
  BY <1>2, <1>3, <1>4, WrapCompose DEF IInv, IndicesAgree, CAPACITY
<1>7. e0 /\ e1 => wrap_add(tail_r, 1) = wrap_add(head_r', m + 1)
  BY <1>3, <1>5, <1>6, WrapCompose DEF Ones, CAPACITY
<1>8. wrap_add(tail_r, 0) = tail_r
  BY <1>2 DEF wrap_add, Slot, CAPACITY
<1>9. queue' \in [Slot -> Preg]
  BY <1>2 DEF Clock, Cycle, queue_next
\* What the caller sees at the head moves up by the n registers granted.
<1>10. ASSUME NEW i \in 0 .. m - 1
       PROVE  NewAt(i) = FreeAt(i + n) /\ i + n \in n .. count_r - 1
  <2>1. i + n \in n .. count_r - 1 /\ i \in 0 .. CAPACITY
    BY <1>2, <1>3 DEF CAPACITY
  <2>2. wrap_add(head_r', i) = wrap_add(head_r, i + n)
    BY <2>1, <1>2, <1>3, <1>4, WrapCompose DEF CAPACITY
  <2>3. wrap_add(head_r', i) \in Slot
    BY <2>1, <1>5, WrapRange
  <2>4. e0 \/ e1 => wrap_add(head_r', i) # tail_r
    BY <2>1, <1>3, <1>5, <1>6, WrapInjective DEF Ones, CAPACITY
  <2>5. e0 /\ e1 => wrap_add(head_r', i) # wrap_add(tail_r, 1)
    <3>1. SUFFICES ASSUME e0, e1 PROVE wrap_add(head_r', i) # wrap_add(head_r', m + 1)
      BY <1>7
    <3>2. k = 2
      BY <3>1 DEF Ones
    <3> QED
      BY <3>2, <2>1, <1>3, <1>5, WrapInjective DEF CAPACITY
  <2>6. queue'[wrap_add(head_r', i)] = queue[wrap_add(head_r', i)]
    BY <2>3, <2>4, <2>5, <1>8 DEF Clock, Cycle, queue_next
  <2> QED
    BY <2>1, <2>2, <2>6 DEF FreeAt
\* The registers returned follow at the end of the window.
<1>11. ASSUME NEW i \in 0 .. k - 1
       PROVE  NewAt(m + i) = pushed(i)
  <2>1. m + i \in 0 .. CAPACITY
    BY <1>3 DEF CAPACITY
  <2>2. wrap_add(head_r', m + i) \in Slot
    BY <2>1, <1>5, WrapRange
  <2>3. i \in {0, 1} /\ (i = 1 => e0 /\ e1) /\ (e0 \/ e1)
    BY DEF Ones
  <2>4. CASE i = 0
    <3>1. wrap_add(head_r', m + i) = tail_r
      BY <2>4, <1>3, <1>6 DEF CAPACITY
    <3>2. e0 /\ e1 => tail_r # wrap_add(tail_r, 1)
      BY <1>2 DEF wrap_add, Slot, CAPACITY
    <3> QED
      BY <2>2, <2>3, <2>4, <3>1, <3>2, <1>8 DEF Clock, Cycle, queue_next, FreeAt
  <2>5. CASE i = 1
    BY <2>2, <2>3, <2>5, <1>7 DEF Clock, Cycle, queue_next, FreeAt
  <2> QED
    BY <2>3, <2>4, <2>5
<1>12. Granted(c0, c1) = {FreeAt(i) : i \in 0 .. n - 1}
  <2>1. wrap_add(head_r, 0) = head_r
    BY <1>2 DEF wrap_add, Slot, CAPACITY
  <2>2. n = IF c1 THEN 2 ELSE IF c0 THEN 1 ELSE 0
    BY <1>1 DEF Ones
  <2>3. c0 => alloc_ok0(c0)
    BY DEF Clock
  <2> QED
    BY <1>1, <2>1, <2>2, <2>3 DEF Granted, alloc_preg0, alloc_preg1, FreeAt
<1>13. /\ held' = (held \cup Granted(c0, c1)) \ Returned(e0, p0, e1, p1)
       /\ Returned(e0, p0, e1, p1) = {pushed(i) : i \in 0 .. k - 1}
  <2>1. k = IF e0 /\ e1 THEN 2 ELSE IF e0 \/ e1 THEN 1 ELSE 0
    BY DEF Ones
  <2>2. ASSUME NEW p PROVE p \in Returned(e0, p0, e1, p1) <=> \E i \in 0 .. k - 1 : p = pushed(i)
    BY <2>1 DEF Returned
  <2> QED
    BY <2>2 DEF Clock
<1>14. \A i \in 0 .. k - 1 : pushed(i) \in held
  OBVIOUS
<1>15. \A i, j \in 0 .. k - 1 : pushed(i) = pushed(j) => i = j
  BY DEF Clock, Ones
<1>new. \A i \in 0 .. count_r' - 1 : FreeAt(i)' = NewAt(i)
  BY DEF FreeAt
<1> HIDE DEF n, m, k, pushed, NewAt
\* Every position of the new window is one or the other.
<1>16. \A i \in 0 .. count_r' - 1 :
          i \in 0 .. m - 1 \/ \E j \in 0 .. k - 1 : i = m + j
  <2> SUFFICES ASSUME NEW i \in 0 .. count_r' - 1, i \notin 0 .. m - 1
               PROVE  \E j \in 0 .. k - 1 : i = m + j
    OBVIOUS
  <2>1. i - m \in 0 .. k - 1 /\ i = m + (i - m)
    BY <1>3, <1>4 DEF CAPACITY
  <2> QED
    BY <2>1
<1>17. TypeOK'
  <2>1. Granted(c0, c1) \subseteq Preg
    BY <1>2, <1>3, <1>12, WrapRange DEF FreeAt, CAPACITY
  <2> QED
    BY <2>1, <1>2, <1>5, <1>9, <1>13 DEF TypeOK, FLTypeOK
<1>18. IndicesAgree'
  BY <1>3, <1>4, <1>5, <1>6, WrapCompose DEF IndicesAgree, CAPACITY
<1>19. NoDuplicate'
  <2> SUFFICES ASSUME NEW i \in 0 .. count_r' - 1, NEW j \in 0 .. count_r' - 1,
                      FreeAt(i)' = FreeAt(j)'
               PROVE  i = j
    BY DEF NoDuplicate
  <2> QED
    BY <1>3, <1>10, <1>11, <1>14, <1>15, <1>16, <1>new
       DEF IInv, Conservation, NoDuplicate, FreeNotHeld, CAPACITY
<1>20. FreeNotHeld'
  <2> SUFFICES ASSUME NEW i \in 0 .. count_r' - 1
               PROVE  FreeAt(i)' \notin held'
    BY DEF FreeNotHeld
  <2>1. CASE i \in 0 .. m - 1
    <3>1. i + n \in 0 .. count_r - 1 /\ FreeAt(i)' = FreeAt(i + n)
      BY <2>1, <1>new, <1>3, <1>10
    <3>2. FreeAt(i + n) \notin held
      BY <3>1 DEF IInv, Conservation, FreeNotHeld
    <3>3. \A j \in 0 .. n - 1 : FreeAt(j) # FreeAt(i + n)
      BY <3>1, <1>2, <1>3, <2>1 DEF IInv, Conservation, NoDuplicate
    <3> QED
      BY <3>1, <3>2, <3>3, <1>12, <1>13
  <2>2. CASE \E j \in 0 .. k - 1 : i = m + j
    BY <2>2, <1>new, <1>11, <1>13
  <2> QED
    BY <1>16, <2>1, <2>2
<1>21. NoLeak'
  <2> SUFFICES ASSUME NEW p \in Preg, p \notin held'
               PROVE  \E i \in 0 .. count_r' - 1 : FreeAt(i)' = p
    BY DEF NoLeak
  <2>1. CASE \E i \in 0 .. k - 1 : p = pushed(i)
    <3>1. PICK i \in 0 .. k - 1 : p = pushed(i)
      BY <2>1
    <3>2. m + i \in 0 .. count_r' - 1
      BY <1>3, <1>4 DEF CAPACITY
    <3> QED
      BY <1>new, <1>11, <3>1, <3>2
  <2>2. CASE ~ \E i \in 0 .. k - 1 : p = pushed(i)
    <3>1. p \notin held /\ p \notin Granted(c0, c1)
      BY <2>2, <1>13
    <3>2. PICK j \in 0 .. count_r - 1 : FreeAt(j) = p
      BY <3>1 DEF IInv, Conservation, NoLeak
    <3>3. j - n \in 0 .. m - 1 /\ (j - n) + n = j
      BY <3>1, <3>2, <1>2, <1>3, <1>12 DEF m, CAPACITY
    <3>4. j - n \in 0 .. count_r' - 1
      BY <3>3, <1>3, <1>4 DEF CAPACITY
    <3> QED
      BY <1>new, <3>2, <3>3, <3>4, <1>10
  <2> QED
    BY <2>1, <2>2
<1> QED
  BY <1>17, <1>18, <1>19, <1>20, <1>21 DEF IInv, Conservation

\* FreeList.v hands out every register to one holder at a time and loses none,
\* for every capacity, as long as the caller never commits slot 1 without
\* slot 0.
THEOREM FreeListConserves ==
  ASSUME Slot1AfterSlot0
  PROVE  Spec => [](TypeOK /\ Conservation)
<1>1. UseInit => IInv
  BY InitIInv
<1>2. IInv /\ [Next]_vars => IInv'
  <2> SUFFICES ASSUME IInv, [Next]_vars PROVE IInv'
    OBVIOUS
  <2>1. CASE Next
    BY <2>1, ClockIInv DEF Next
  <2>2. CASE UNCHANGED vars
    BY <2>2 DEF vars, IInv, TypeOK, FLTypeOK, IndicesAgree, Conservation,
                NoDuplicate, FreeNotHeld, NoLeak, FreeAt
  <2> QED
    BY <2>1, <2>2
<1>3. IInv => TypeOK /\ Conservation
  BY DEF IInv
<1> QED
  BY <1>1, <1>2, <1>3, PTL DEF Spec
=============================================================================
