------------------------------- MODULE Rename -------------------------------
(***************************************************************************)
(* The rename and retire stages of design/OOOCore.v: the integer instances *)
(* of FreeList.v and RegisterAliasTable.v with ReorderBuffer.v, wired as   *)
(* OOOCore.v:1097-1160 and :1340-1401 wire them.  One step is one clock    *)
(* cycle: the three modules' edges happen together.                        *)
(*                                                                         *)
(* Execution is abstract: any instruction in flight may complete in any    *)
(* cycle, memory operations in program order (LoadStoreQueue.v serves only *)
(* its head).  A memory operation may instead end in a D-side page fault,  *)
(* when MayFault (address translation is on).  Whether dispatch is stalled *)
(* for a reason outside this module (a full reservation station, a branch  *)
(* in flight, ...) is arbitrary.                                           *)
(***************************************************************************)
EXTENDS Naturals, FiniteSets

CONSTANTS
  NUM_PREGS, NUM_AREGS, ROB_ENTRIES,
  Bundles,     \* the pairs of instructions that fetch presents to dispatch
  MayFault

VARIABLES
  queue, fl_count, fl_head, fl_tail,                          \* m_FreeList
  spec_map, arch_map,                                         \* m_RAT
  e_valid, e_done, e_inst, rob_count, rob_head, rob_tail,     \* m_ROB
  dside_fault_valid_r, dside_fault_rob_tag_r

flvars  == <<queue, fl_count, fl_head, fl_tail>>
ratvars == <<spec_map, arch_map>>
robvars == <<e_valid, e_done, e_inst, rob_count, rob_head, rob_tail>>
dsvars  == <<dside_fault_valid_r, dside_fault_rob_tag_r>>
vars    == <<flvars, ratvars, robvars, dsvars>>

Preg == 0 .. NUM_PREGS - 1
Areg == 0 .. NUM_AREGS - 1

(***************************************************************************)
(* A decoded instruction: the class that decides dual issue, whether       *)
(* Control.v writes rd, and rd.                                            *)
(***************************************************************************)
Decoded == [class : {"alu", "mem", "other"}, regWrite : BOOLEAN, rd : Areg]

needs_dest(d) == d.regWrite /\ d.rd # 0

RobInst == [mem : BOOLEAN, has_dest : BOOLEAN, areg : Areg, preg : Preg, old_preg : Preg]

FL == INSTANCE FreeList WITH
        count_r <- fl_count, head_r <- fl_head, tail_r <- fl_tail
RAT == INSTANCE RegisterAliasTable WITH HARDWIRE_REG0 <- TRUE
ROB == INSTANCE ReorderBuffer WITH
         count_r <- rob_count, head_r <- rob_head, tail_r <- rob_tail,
         Inst <- RobInst, NoInst <- [mem |-> FALSE, has_dest |-> FALSE, areg |-> 0,
                                     preg |-> NUM_PREGS, old_preg |-> NUM_PREGS]

Init ==
  /\ FL!Init /\ RAT!Init /\ ROB!Init
  /\ dside_fault_valid_r = FALSE
  /\ dside_fault_rob_tag_r = 0

(***************************************************************************)
(* Dispatch.  Slot 1 goes with slot 0 when both are plain ALU operations   *)
(* and there is room for a second one; it is never held back otherwise.    *)
(***************************************************************************)
do_dispatch(d0, stall) ==
  /\ ~stall
  /\ ~ROB!rob_full
  /\ needs_dest(d0) => FL!alloc_ok0(TRUE)
  /\ ~dside_fault_valid_r

\* rs_room: m_RS_ALU has two free entries.
dual_dispatch_room(d0, d1, rs_room) ==
  /\ rob_count <= ROB_ENTRIES - 2
  /\ rs_room
  /\ needs_dest(d1) => FL!alloc_ok1(needs_dest(d0), TRUE)

do_dispatch_slot1(d0, d1, stall, rs_room) ==
  /\ do_dispatch(d0, stall)
  /\ d0.class = "alu" /\ d1.class = "alu"
  /\ dual_dispatch_room(d0, d1, rs_room)

(***************************************************************************)
(* Completion and faults.                                                  *)
(***************************************************************************)
Pending == {t \in ROB!InFlight : ~e_done[t]}
LsqHead == {t \in Pending : /\ e_inst[t].mem
                            /\ \A u \in Pending : e_inst[u].mem => ROB!Older(t, u)}

MayComplete == {t \in Pending : e_inst[t].mem => t \in LsqHead}

dside_trap_resolve ==
  ROB!retire_valid0 /\ dside_fault_valid_r /\ rob_head = dside_fault_rob_tag_r

(***************************************************************************)
(* The commit enables that the retire ports drive into the free list and   *)
(* the alias table.                                                        *)
(***************************************************************************)

commit0 == ROB!retire_valid0 /\ e_inst[rob_head].has_dest /\ ~dside_trap_resolve
commit1 == ROB!retire_valid1 /\ e_inst[ROB!head1_idx].has_dest

Clock(d0, d1, stall, rs_room, completes, faults) ==
  LET go0    == do_dispatch(d0, stall)
      go1    == do_dispatch_slot1(d0, d1, stall, rs_room)
      wen0   == go0 /\ needs_dest(d0)
      wen1   == go1 /\ needs_dest(d1)
      preg0  == IF needs_dest(d0) THEN FL!alloc_preg0 ELSE 0
      preg1  == IF needs_dest(d1) THEN FL!alloc_preg1(needs_dest(d0)) ELSE 0
      inst0  == [mem |-> d0.class = "mem", has_dest |-> needs_dest(d0), areg |-> d0.rd,
                 preg |-> preg0, old_preg |-> RAT!old_preg0(d0.rd)]
      inst1  == [mem |-> FALSE, has_dest |-> needs_dest(d1), areg |-> d1.rd,
                 preg |-> preg1,
                 old_preg |-> RAT!old_preg1(wen0, d0.rd, preg0, d1.rd)]
      head   == e_inst[rob_head]
      behind == e_inst[ROB!head1_idx]
  IN  /\ FL!Cycle(wen0, wen1, commit0, head.old_preg, commit1, behind.old_preg)
      /\ RAT!Cycle(wen0, d0.rd, preg0, wen1, d1.rd, preg1,
                   commit0, head.areg, head.preg, commit1, behind.areg, behind.preg,
                   FALSE)
      /\ ROB!Cycle(go0, inst0, go1, inst1, completes \cup faults)
      /\ dside_fault_valid_r' = (faults # {} \/ (dside_fault_valid_r /\ ~dside_trap_resolve))
      /\ dside_fault_rob_tag_r' = IF faults # {} THEN CHOOSE t \in faults : TRUE
                                  ELSE dside_fault_rob_tag_r

(***************************************************************************)
(* At most one fault is recorded at a time; the DTLB miss that precedes it *)
(* stalls dispatch.                                                        *)
(***************************************************************************)
Faults == {{}} \cup (IF MayFault /\ ~dside_fault_valid_r THEN {{t} : t \in LsqHead} ELSE {})

Dispatching ==
  \E b \in Bundles, rs_room \in BOOLEAN, completes \in SUBSET MayComplete :
    Clock(b[1], b[2], FALSE, rs_room, completes, {})

Stalled ==
  \E completes \in SUBSET MayComplete, faults \in Faults :
    /\ completes \cap faults = {}
    /\ LET b == CHOOSE b \in Bundles : TRUE
       IN  Clock(b[1], b[2], TRUE, FALSE, completes, faults)

Next == Dispatching \/ Stalled

Spec == Init /\ [][Next]_vars

-----------------------------------------------------------------------------
TypeOK ==
  /\ FL!FLTypeOK /\ RAT!RATTypeOK(Preg)
  /\ e_valid \in [ROB!Tag -> BOOLEAN] /\ e_done \in [ROB!Tag -> BOOLEAN]
  /\ rob_count \in 0 .. ROB_ENTRIES /\ rob_head \in ROB!Tag /\ rob_tail \in ROB!Tag
  /\ \A t \in ROB!InFlight : e_inst[t] \in RobInst
  /\ dside_fault_valid_r \in BOOLEAN /\ dside_fault_rob_tag_r \in ROB!Tag

Writers == {t \in ROB!InFlight : e_inst[t].has_dest}

\* The physical registers that are free, that hold an architectural register,
\* and that an instruction in flight will write.
Free     == FL!FreeSet
Mapped   == {arch_map[a] : a \in Areg}
Renaming == {e_inst[t].preg : t \in Writers}

\* LoadStoreQueue.v:30-32 relies on it: every instruction in flight has a
\* physical register of its own, which is neither free nor the home of an
\* architectural register, and no register is lost.
UniqueRegisters ==
  /\ Free \cup Mapped \cup Renaming = Preg
  /\ fl_count + Cardinality(Writers) + NUM_AREGS = NUM_PREGS
  /\ \A i, j \in 0 .. fl_count - 1 : FL!FreeAt(i) = FL!FreeAt(j) => i = j

\* The speculative map is what replaying the instructions in flight on the
\* architectural map, oldest first, gives.
SpecMapIsReplay ==
  \A a \in Areg :
    LET W == {i \in 0 .. rob_count - 1 : /\ e_inst[ROB!At(i)].has_dest
                                         /\ e_inst[ROB!At(i)].areg = a}
    IN  spec_map[a] = IF W = {} THEN arch_map[a]
                      ELSE e_inst[ROB!At(CHOOSE i \in W : \A j \in W : j <= i)].preg

\* What a retiring instruction returns to the free list is the register its
\* destination was mapped to just before it in program order: no younger or
\* older reader can still want it.
OldIsPrevious ==
  \A j \in 0 .. rob_count - 1 :
    LET e == e_inst[ROB!At(j)]
        W == {i \in 0 .. j - 1 : e_inst[ROB!At(i)].has_dest /\ e_inst[ROB!At(i)].areg = e.areg}
    IN  e.has_dest =>
          e.old_preg = IF W = {} THEN arch_map[e.areg]
                       ELSE e_inst[ROB!At(CHOOSE i \in W : \A k \in W : k <= i)].preg

\* RegisterAliasTable.v's speculative map and the registers ReorderBuffer.v
\* will return are typed and tell one history.
MapsReplay == TypeOK /\ SpecMapIsReplay /\ OldIsPrevious

=============================================================================
