---------------------------- MODULE FreeListUse ----------------------------
(***************************************************************************)
(* FreeList.v with the most general caller its header allows: rename       *)
(* commits a slot only when the query granted it, retire returns registers *)
(* that were handed out, and never more of them than the FIFO can absorb.  *)
(*                                                                         *)
(* Commits is the set of <<commit_en0, commit_en1>> pairs the caller       *)
(* drives.  The float and the vector instance tie slot 1 to 0              *)
(* (OOOCore.v:1193, :1252); the integer instance drives both slots.        *)
(***************************************************************************)
EXTENDS FreeList

CONSTANT Commits

VARIABLE held    \* the registers handed out and not yet returned

vars == <<queue, count_r, head_r, tail_r, held>>

UseInit == Init /\ held = 0 .. NUM_AREGS - 1

Granted(commit_en0, commit_en1) ==
  (IF commit_en0 THEN {alloc_preg0} ELSE {})
    \cup (IF commit_en1 THEN {alloc_preg1(commit_en0)} ELSE {})

Returned(free_en0, free_preg0, free_en1, free_preg1) ==
  (IF free_en0 THEN {free_preg0} ELSE {}) \cup (IF free_en1 THEN {free_preg1} ELSE {})

Clock(commit_en0, commit_en1, free_en0, free_preg0, free_en1, free_preg1) ==
  /\ <<commit_en0, commit_en1>> \in Commits
  /\ commit_en0 => alloc_ok0(commit_en0)
  /\ commit_en1 => alloc_ok1(commit_en0, commit_en1)
  /\ free_en0 /\ free_en1 => free_preg0 # free_preg1
  /\ count_r - Ones(commit_en0, commit_en1) + Ones(free_en0, free_en1) <= CAPACITY
  /\ Cycle(commit_en0, commit_en1, free_en0, free_preg0, free_en1, free_preg1)
  /\ held' = (held \cup Granted(commit_en0, commit_en1))
               \ Returned(free_en0, free_preg0, free_en1, free_preg1)

Next ==
  \E c0, c1, e0, e1 \in BOOLEAN, p0, p1 \in held : Clock(c0, c1, e0, p0, e1, p1)

Spec == UseInit /\ [][Next]_vars

TypeOK == FLTypeOK /\ held \in SUBSET Preg

\* The push index is the pop index plus the occupancy: the two indices that
\* FreeList.v updates under different conditions stay in step.
IndicesAgree == tail_r = wrap_add(head_r, count_r)

\* No register is in the FIFO twice: two grants never name the same register.
NoDuplicate ==
  \A i, j \in 0 .. count_r - 1 : FreeAt(i) = FreeAt(j) => i = j

\* A register handed out is not in the FIFO.
FreeNotHeld == \A i \in 0 .. count_r - 1 : FreeAt(i) \notin held

\* Every register is either handed out or in the FIFO: none is orphaned, the
\* leak FreeList.v:28-46 describes.
NoLeak == \A p \in Preg : p \in held \/ \E i \in 0 .. count_r - 1 : FreeAt(i) = p

\* FreeList.v hands out every physical register to one holder at a time and
\* loses none of them, for any interleaving of commits and reclaims.
Conservation == NoDuplicate /\ FreeNotHeld /\ NoLeak
=============================================================================
