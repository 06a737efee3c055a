------------------------- MODULE ReservationStation -------------------------
(***************************************************************************)
(* design/ReservationStation.v: the instructions that wait for operands in *)
(* front of one functional unit.  An entry is one record; a free entry is  *)
(* one whose valid field is FALSE.                                         *)
(*                                                                         *)
(* snoop1 and snoop2 are the physical registers on the CDB ports that      *)
(* SRC1_PORT_MASK and SRC2_PORT_MASK let each source see.                  *)
(***************************************************************************)
EXTENDS Naturals, FiniteSets

CONSTANTS RS_ENTRIES

VARIABLE rs

Index == 0 .. RS_ENTRIES - 1

Lowest(S) == CHOOSE i \in S : \A j \in S : i <= j

Unused == {i \in Index : ~rs[i].valid}
Ready  == {i \in Index : rs[i].valid /\ rs[i].src1_ready /\ rs[i].src2_ready}

rs_count == Cardinality(Index \ Unused)
rs_full  == rs_count >= RS_ENTRIES

issue_valid == Ready # {}
issue_idx_any_valid == Lowest(Index \ Unused)
issue_idx   == Lowest(Ready)
issue       == rs[issue_idx]

NoEntry == [valid |-> FALSE]

Init == rs = [i \in Index |-> NoEntry]

\* Wakeup of an entry that waits, and of one that is just being dispatched.
wake(e, snoop1, snoop2) ==
  [e EXCEPT !.src1_ready = @ \/ e.src1_preg \in snoop1,
            !.src2_ready = @ \/ e.src2_preg \in snoop2]

\* Both free slots are picked from the bits before the edge, so an entry that
\* issues in this cycle is not reused in it.
Cycle(disp_en0, entry0, disp_en1, entry1, snoop1, snoop2, issue_ack) ==
  LET alloc0 == IF disp_en0 /\ Unused # {} THEN {Lowest(Unused)} ELSE {}
      rest   == Unused \ alloc0
      alloc1 == IF disp_en1 /\ rest # {} THEN {Lowest(rest)} ELSE {}
  IN  rs' = [i \in Index |->
               IF i \in alloc1 THEN wake(entry1, snoop1, snoop2)
               ELSE IF i \in alloc0 THEN wake(entry0, snoop1, snoop2)
               ELSE IF ~rs[i].valid \/ (issue_valid /\ issue_ack /\ i = issue_idx) THEN NoEntry
               ELSE wake(rs[i], snoop1, snoop2)]
=============================================================================
