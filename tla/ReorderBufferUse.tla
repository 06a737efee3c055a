-------------------------- MODULE ReorderBufferUse --------------------------
(***************************************************************************)
(* ReorderBuffer.v with the most general caller its port comments allow:   *)
(* allocations fit (ReorderBuffer.v:39-42), slot 1 is filled only together *)
(* with slot 0 (OOOCore.v:1105), and a completion names an entry in flight *)
(* that is not done yet.                                                   *)
(***************************************************************************)
EXTENDS ReorderBuffer, Sequences

Clock(alloc_en0, inst0, alloc_en1, inst1, completes) ==
  /\ alloc_en1 => alloc_en0
  /\ count_r + Ones(alloc_en0, alloc_en1) <= ROB_ENTRIES
  /\ completes \subseteq {t \in Tag : e_valid[t] /\ ~e_done[t]}
  /\ Cycle(alloc_en0, inst0, alloc_en1, inst1, completes)

Edge(completes) ==
  \E alloc_en0, alloc_en1 \in BOOLEAN, inst0, inst1 \in Inst :
    Clock(alloc_en0, inst0, alloc_en1, inst1, completes)

Next == \E completes \in SUBSET Tag : Edge(completes)

Spec == Init /\ [][Next]_robvars

\* The execution units finish what they were given: no tag stays in flight and
\* not done for ever; and the clock does not stop in front of a finished head.
\* Nothing need ever be allocated.
Fairness ==
  /\ \A t \in Tag : []<>(e_done[t] \/ ~e_valid[t])
  /\ []<>(~retire_valid0) \/ []<><<TRUE>>_robvars
LiveSpec == Spec /\ Fairness

TypeOK == ROBTypeOK

\* count_r, head_r, tail_r and e_valid are updated by separate statements of
\* ReorderBuffer.v, two allocations and two retirements at a time; they always
\* describe the same set of entries: the valid ones are those from the head up
\* to the tail.
RingAgrees ==
  /\ tail_r = wrap_add(head_r, count_r)
  /\ \A t \in Tag : e_valid[t] <=> t \in InFlight

\* The ring of ReorderBuffer.v is a queue in program order.
Queue == INSTANCE InOrderRetire WITH
           Width <- 2,
           window <- [i \in 1 .. count_r |-> [inst |-> e_inst[At(i - 1)],
                                              done |-> e_done[At(i - 1)]]]

\* ReorderBuffer.v:3-11: an entry marked done never retires ahead of an earlier
\* entry that is not done, and no entry is lost, duplicated or reordered.
InOrder == Queue!Spec

\* An entry that was allocated retires: the clear of e_valid, the head index and
\* the count never drift so far apart that a finished head is not seen.
EventuallyRetires == \A t \in Tag : e_valid[t] ~> ~e_valid[t]
=============================================================================
