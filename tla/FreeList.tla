------------------------------ MODULE FreeList ------------------------------
(***************************************************************************)
(* design/FreeList.v: the circular FIFO of physical registers that are     *)
(* mapped to no architectural register.  Rename pops up to two entries per *)
(* clock cycle, retire pushes up to two.  The module's registers are the   *)
(* variables; Cycle is one rising clock edge out of reset, as a function   *)
(* of the ports the caller drives in that cycle.                           *)
(***************************************************************************)
EXTENDS Naturals

CONSTANTS
  NUM_PREGS,   \* physical registers
  NUM_AREGS    \* architectural registers, mapped 1:1 at reset

ASSUME SizeAssumption ==
  /\ NUM_AREGS \in Nat \ {0}
  /\ NUM_PREGS \in Nat
  /\ NUM_PREGS - NUM_AREGS >= 2

VARIABLES
  queue,       \* the FIFO's storage
  count_r,     \* occupancy, 0..CAPACITY
  head_r,      \* pop index
  tail_r       \* push index

flvars == <<queue, count_r, head_r, tail_r>>

CAPACITY == NUM_PREGS - NUM_AREGS
Preg     == 0 .. NUM_PREGS - 1
Slot     == 0 .. CAPACITY - 1

wrap_add_no_wrap(base, amount) == base + amount
wrap_add(base, amount) ==
  IF base + amount >= CAPACITY THEN base + amount - CAPACITY ELSE base + amount

Ones(b0, b1) == (IF b0 THEN 1 ELSE 0) + (IF b1 THEN 1 ELSE 0)

(***************************************************************************)
(* The combinational availability query.                                   *)
(***************************************************************************)
alloc_ok0(alloc_en0) == alloc_en0 /\ count_r >= 1
alloc_ok1(alloc_en0, alloc_en1) ==
  alloc_en1 /\ count_r >= (IF alloc_ok0(alloc_en0) THEN 2 ELSE 1)

alloc_preg0 == queue[head_r]
alloc_preg1_same_slot(alloc_en0) == queue[head_r]
alloc_preg1(alloc_en0) ==
  queue[wrap_add(head_r, IF alloc_ok0(alloc_en0) THEN 1 ELSE 0)]

(***************************************************************************)
(* The registers' next values.  head_r is gated on slot 0's commit alone.  *)
(***************************************************************************)
head_next(commit_en0, commit_en1) ==
  IF commit_en0 THEN wrap_add(head_r, Ones(commit_en0, commit_en1)) ELSE head_r

tail_next(free_en0, free_en1) == wrap_add(tail_r, Ones(free_en0, free_en1))

queue_next(free_en0, free_preg0, free_en1, free_preg1) ==
  LET tail1 == wrap_add(tail_r, IF free_en0 THEN 1 ELSE 0)
  IN  [s \in Slot |-> IF free_en1 /\ s = tail1 THEN free_preg1
                      ELSE IF free_en0 /\ s = tail_r THEN free_preg0
                      ELSE queue[s]]

Init ==
  /\ queue = [s \in Slot |-> NUM_AREGS + s]
  /\ count_r = CAPACITY
  /\ head_r = 0
  /\ tail_r = 0

Cycle(commit_en0, commit_en1, free_en0, free_preg0, free_en1, free_preg1) ==
  /\ head_r' = head_next(commit_en0, commit_en1)
  /\ queue' = queue_next(free_en0, free_preg0, free_en1, free_preg1)
  /\ tail_r' = tail_next(free_en0, free_en1)
  /\ count_r' = count_r - Ones(commit_en0, commit_en1) + Ones(free_en0, free_en1)

(***************************************************************************)
(* The i-th free register, counted from the head.                          *)
(***************************************************************************)
FreeAt(i) == queue[wrap_add(head_r, i)]

FreeSet == {FreeAt(i) : i \in 0 .. count_r - 1}

FLTypeOK ==
  /\ queue \in [Slot -> Preg]
  /\ count_r \in 0 .. CAPACITY
  /\ head_r \in Slot
  /\ tail_r \in Slot
=============================================================================
