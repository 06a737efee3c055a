------------------------------ MODULE MCRename ------------------------------
(***************************************************************************)
(* Instances of Rename for TLC.                                            *)
(***************************************************************************)
EXTENDS Rename

Alu(r)   == [class |-> "alu", regWrite |-> TRUE, rd |-> r]
Load(r)  == [class |-> "mem", regWrite |-> TRUE, rd |-> r]
Store    == [class |-> "mem", regWrite |-> FALSE, rd |-> 0]
Nop      == Alu(0)

Dests == Areg \ {0}

\* Programs in which an ALU operation that writes x0 is never the first half of
\* a dual-issued pair whose second half writes a register.
OrderedBundles ==
  {<<Alu(r), Alu(s)>> : r \in Dests, s \in Areg}
    \cup {<<Load(1), Nop>>, <<Store, Nop>>}

\* The same with a nop (addi x0, x0, 0) in front of a register-writing one.
NopFirstBundles == OrderedBundles \cup {<<Nop, Alu(r)>> : r \in Dests}

\* Two states that differ only in storage no later step reads before writing it
\* (free-list slots outside the window, fields of retired entries) are one state.
Live ==
  <<fl_head, [i \in 0 .. fl_count - 1 |-> FL!FreeAt(i)], ratvars, rob_head,
    [i \in 0 .. rob_count - 1 |-> <<e_done[ROB!At(i)], e_inst[ROB!At(i)]>>],
    e_valid, fl_tail, rob_tail, dside_fault_valid_r,
    IF dside_fault_valid_r THEN dside_fault_rob_tag_r ELSE 0>>
=============================================================================
