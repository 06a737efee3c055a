--------------------------- MODULE ReorderBuffer ---------------------------
(***************************************************************************)
(* design/ReorderBuffer.v: the circular buffer of dispatched instructions. *)
(* Up to two entries are allocated at the tail per clock cycle, any number *)
(* are marked done by tag, and up to two retire from the head, in order.   *)
(* The fields e_has_dest, e_is_fp_dest, e_is_vec_dest, e_areg, e_preg and  *)
(* e_old_preg are written together and read together: they are one field   *)
(* e_inst here, whose contents are the caller's.                           *)
(***************************************************************************)
EXTENDS Naturals

CONSTANTS
  ROB_ENTRIES,
  Inst,        \* what an entry may hold
  NoInst       \* what an entry holds before its first allocation

VARIABLES e_valid, e_done, e_inst, count_r, head_r, tail_r

robvars == <<e_valid, e_done, e_inst, count_r, head_r, tail_r>>

Tag == 0 .. ROB_ENTRIES - 1

wrap_add_no_wrap(base, amount) == base + amount
wrap_add(base, amount) ==
  IF base + amount >= ROB_ENTRIES THEN base + amount - ROB_ENTRIES ELSE base + amount

Ones(b0, b1) == (IF b0 THEN 1 ELSE 0) + (IF b1 THEN 1 ELSE 0)

rob_full  == count_r >= ROB_ENTRIES
rob_empty == count_r = 0

alloc_tag0 == tail_r
alloc_tag1(alloc_en0) == wrap_add(tail_r, IF alloc_en0 THEN 1 ELSE 0)

(***************************************************************************)
(* Retire: the head, and the entry behind it only if the head retires too. *)
(***************************************************************************)
head1_idx == wrap_add(head_r, 1)
retire_valid0_not_last == count_r > 1 /\ e_valid[head_r] /\ e_done[head_r]
retire_valid0 == ~rob_empty /\ e_valid[head_r] /\ e_done[head_r]
retire_valid1 ==
  retire_valid0 /\ count_r >= 2 /\ e_valid[head1_idx] /\ e_done[head1_idx]

retire_count == Ones(retire_valid0, retire_valid1)

(***************************************************************************)
(* The entry arrays after the edge.  Where two statements of the always    *)
(* block assign the same bit, the later one wins: a completion over an     *)
(* allocation, the retire-time clear over both.                            *)
(***************************************************************************)
valid_next_no_clear(alloc0, alloc1) ==
  [t \in Tag |-> e_valid[t] \/ t \in alloc0 \/ t \in alloc1]
valid_next(alloc0, alloc1) ==
  [t \in Tag |-> /\ ~(retire_valid0 /\ t = head_r)
                 /\ ~(retire_valid1 /\ t = head1_idx)
                 /\ e_valid[t] \/ t \in alloc0 \/ t \in alloc1]

done_next_stale(alloc0, alloc1, completes) ==
  [t \in Tag |-> t \in completes \/ e_done[t]]
done_next(alloc0, alloc1, completes) ==
  [t \in Tag |-> \/ t \in completes
                 \/ e_done[t] /\ t \notin alloc0 /\ t \notin alloc1]

Init ==
  /\ e_valid = [t \in Tag |-> FALSE]
  /\ e_done = [t \in Tag |-> FALSE]
  /\ e_inst = [t \in Tag |-> NoInst]
  /\ count_r = 0
  /\ head_r = 0
  /\ tail_r = 0

\* completes is the set of tags on the seven completion ports.
Cycle(alloc_en0, inst0, alloc_en1, inst1, completes) ==
  LET alloc0 == IF alloc_en0 THEN {alloc_tag0} ELSE {}
      alloc1 == IF alloc_en1 THEN {alloc_tag1(alloc_en0)} ELSE {}
  IN  /\ e_valid' = valid_next(alloc0, alloc1)
      /\ e_done' = done_next(alloc0, alloc1, completes)
      /\ e_inst' = [t \in Tag |-> IF t \in alloc1 THEN inst1
                                  ELSE IF t \in alloc0 THEN inst0 ELSE e_inst[t]]
      /\ tail_r' = wrap_add(tail_r, Ones(alloc_en0, alloc_en1))
      /\ head_r' = wrap_add(head_r, retire_count)
      /\ count_r' = count_r + Ones(alloc_en0, alloc_en1) - retire_count

(***************************************************************************)
(* The tags in flight, oldest first: At(0), At(1), ..., At(count_r - 1).   *)
(***************************************************************************)
At(i) == wrap_add(head_r, i)
Older(t, u) == \E i, j \in 0 .. count_r - 1 : At(i) = t /\ At(j) = u /\ i <= j
InFlight == {At(i) : i \in 0 .. count_r - 1}

ROBTypeOK ==
  /\ e_valid \in [Tag -> BOOLEAN]
  /\ e_done \in [Tag -> BOOLEAN]
  /\ e_inst \in [Tag -> Inst \cup {NoInst}]
  /\ count_r \in 0 .. ROB_ENTRIES
  /\ head_r \in Tag
  /\ tail_r \in Tag
=============================================================================
