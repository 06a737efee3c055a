--------------------------- MODULE LoadStoreQueue ---------------------------
(***************************************************************************)
(* design/LoadStoreQueue.v: the memory operations in flight, in program    *)
(* order.  Only the head talks to memory; an atomic read-modify-write does *)
(* so twice.  An entry is one record.                                      *)
(***************************************************************************)
EXTENDS Naturals, FiniteSetsExt

CONSTANTS LSQ_ENTRIES, XLEN

VARIABLES lsq, count_r, head_r, tail_r, mem_pending_r, amo_need_write_r, amo_old_value_r

Index == 0 .. LSQ_ENTRIES - 1

wrap_add(base, amount) ==
  IF base + amount >= LSQ_ENTRIES THEN base + amount - LSQ_ENTRIES ELSE base + amount

lsq_full == count_r >= LSQ_ENTRIES

head == lsq[head_r]
head_present == count_r # 0 /\ head.valid
head_needs_data == head.op \in {"store", "sc", "amo"}
head_wants_read == head.op = "load" \/ (head.op = "amo" /\ ~amo_need_write_r)
head_wants_write == head.op \in {"store", "sc"} \/ (head.op = "amo" /\ amo_need_write_r)

\* What the head would do if nothing outside stalled it.
head_want_access_no_data == head_present /\ ~mem_pending_r /\ head.base_ready
head_want_access ==
  /\ head_present /\ ~mem_pending_r
  /\ head.base_ready
  /\ head_needs_data => head.data_ready

head_ready(mem_stall_ext) == head_want_access /\ ~mem_stall_ext

(***************************************************************************)
(* The atomic operations, on words as sets of bits.                        *)
(***************************************************************************)
Bits(x) == {k \in 0 .. XLEN - 1 : (x \div 2^k) % 2 = 1}
Word(S) == MapThenSumSet(LAMBDA k : 2^k, S)
less(x, y) == (x + 2^(XLEN - 1)) % 2^XLEN < (y + 2^(XLEN - 1)) % 2^XLEN    \* signed <

amo_new_value(op, old, rs2) ==
  CASE op = "add"  -> (old + rs2) % 2^XLEN
    [] op = "swap" -> rs2
    [] op = "xor"  -> Word((Bits(old) \ Bits(rs2)) \cup (Bits(rs2) \ Bits(old)))
    [] op = "or"   -> Word(Bits(old) \cup Bits(rs2))
    [] op = "and"  -> Word(Bits(old) \cap Bits(rs2))
    [] op = "min"  -> IF less(old, rs2) THEN old ELSE rs2
    [] op = "max"  -> IF less(rs2, old) THEN old ELSE rs2
    [] op = "minu" -> IF old < rs2 THEN old ELSE rs2
    [] op = "maxu" -> IF old > rs2 THEN old ELSE rs2

(***************************************************************************)
(* The memory port and the completion port.                                *)
(***************************************************************************)
mem_memRead(mem_stall_ext)  == head_ready(mem_stall_ext) /\ head_wants_read
mem_memWrite(mem_stall_ext) == head_ready(mem_stall_ext) /\ head_wants_write
mem_address(mem_base_value) == (mem_base_value + head.imm) % 2^XLEN
mem_writeData(mem_store_data_value) ==
  IF head.op = "amo" /\ amo_need_write_r
  THEN amo_new_value(head.amo_op, amo_old_value_r, mem_store_data_value)
  ELSE mem_store_data_value

amo_phase1_just_finished == mem_pending_r /\ head.op = "amo" /\ ~amo_need_write_r
complete_valid   == mem_pending_r /\ ~amo_phase1_just_finished
complete_is_load == head.op # "store"
complete_data(mem_readData) ==
  IF head.op = "sc" THEN 0
  ELSE IF head.op = "amo" THEN amo_old_value_r
  ELSE mem_readData

NoEntry == [valid |-> FALSE]

Init ==
  /\ lsq = [i \in Index |-> NoEntry]
  /\ count_r = 0 /\ head_r = 0 /\ tail_r = 0
  /\ mem_pending_r = FALSE
  /\ amo_need_write_r = FALSE
  /\ amo_old_value_r = 0

\* cdb is the set of registers broadcast in this cycle.
wake(e, cdb) ==
  [e EXCEPT !.base_ready = @ \/ e.base_preg \in cdb,
            !.data_ready = @ \/ (e.op # "load" /\ e.data_preg \in cdb)]

(***************************************************************************)
(* One cycle.  The head is dropped on a fault, starts an access, turns     *)
(* from an atomic's read to its write, or leaves; the entry that OOOCore.v *)
(* dispatches (its slot 1 is tied to 0) goes in at the tail as it is: the  *)
(* queue has no bypass from the CDB at dispatch.                           *)
(***************************************************************************)
Cycle(disp_en0, entry0, cdb, mem_stall_ext, force_retire_ext, mem_readData) ==
  LET leaves == force_retire_ext \/ complete_valid
      turns  == ~force_retire_ext /\ amo_phase1_just_finished
  IN  /\ lsq' = [i \in Index |->
                   IF disp_en0 /\ i = tail_r THEN entry0
                   ELSE IF ~lsq[i].valid \/ (leaves /\ i = head_r) THEN NoEntry
                   ELSE wake(lsq[i], cdb)]
      /\ head_r' = wrap_add(head_r, IF leaves THEN 1 ELSE 0)
      /\ tail_r' = wrap_add(tail_r, IF disp_en0 THEN 1 ELSE 0)
      /\ count_r' = count_r - (IF leaves THEN 1 ELSE 0) + (IF disp_en0 THEN 1 ELSE 0)
      /\ mem_pending_r' = IF force_retire_ext THEN mem_pending_r
                          ELSE head_ready(mem_stall_ext)
      /\ amo_need_write_r' = (turns \/ (amo_need_write_r /\ ~leaves))
      /\ amo_old_value_r' = IF turns THEN mem_readData ELSE amo_old_value_r
=============================================================================
