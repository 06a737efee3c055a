----------------------------- MODULE MCDataSide -----------------------------
(***************************************************************************)
(* Instances of DataSide: one set of two ways over three lines of memory,  *)
(* so every third line evicts.                                             *)
(***************************************************************************)
EXTENDS DataSide

load(l, w, h, f, r) ==
  [op |-> "load", line |-> l, word |-> w, half |-> h, funct3 |-> f, dest |-> r, src |-> 0]
store(l, w, h, f) ==
  [op |-> "store", line |-> l, word |-> w, half |-> h, funct3 |-> f, dest |-> 0, src |-> 0]
fence == [Nop EXCEPT !.op = "fence"]

\* One width of load at each address.
BlockingOps ==
  {load(0, 0, 0, "d", 1), store(0, 1, 1, "h"), load(1, 1, 1, "h", 1), load(2, 1, 0, "w", 1), fence}

\* Loads that leave their registers owed, a floating-point load, which waits,
\* and a store that reads an owed register and dirties what they displace.
MissOps ==
  {load(0, 0, 0, "w", 1), load(1, 0, 0, "w", 2), [load(2, 0, 0, "w", 1) EXCEPT !.op = "fload"],
   [store(2, 0, 0, "w") EXCEPT !.src = 1]}
=============================================================================
