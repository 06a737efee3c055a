------------------------ MODULE PhysicalRegisterFile ------------------------
(***************************************************************************)
(* design/PhysicalRegisterFile.v: the values of the physical registers and *)
(* one valid bit each, cleared when rename grants the register and set     *)
(* when its producer writes it back.  w is the tuple of write ports, each  *)
(* a record [en, addr, data]; reads see this cycle's writes.               *)
(***************************************************************************)
EXTENDS Naturals, Sequences

CONSTANTS
  NUM_PREGS, NUM_AREGS,
  HARDWIRE_PREG0,    \* TRUE for the integer file: preg 0 reads as zero
  ResetValue         \* the contents of the registers after reset (SP_INIT)

VARIABLES regs, valid

Preg == 0 .. NUM_PREGS - 1
Zero == 0

Hits(raddr, w) == {p \in DOMAIN w : w[p].en /\ w[p].addr = raddr}

\* The lowest-numbered port wins the read bypass.
rdata(raddr, w) ==
  IF HARDWIRE_PREG0 /\ raddr = 0 THEN Zero
  ELSE IF Hits(raddr, w) # {}
       THEN w[CHOOSE p \in Hits(raddr, w) : \A q \in Hits(raddr, w) : p <= q].data
       ELSE regs[raddr]

rvalid(raddr, w) ==
  (HARDWIRE_PREG0 /\ raddr = 0) \/ Hits(raddr, w) # {} \/ valid[raddr]

Init ==
  /\ regs = [p \in Preg |-> ResetValue[p]]
  /\ valid = [p \in Preg |-> p < NUM_AREGS]

\* The highest-numbered port wins the write, and a write beats an allocation.
\* allocs is the set of registers granted by rename in this cycle.
valid_next(allocs, w) ==
  [p \in Preg |-> IF HARDWIRE_PREG0 /\ p = 0 THEN valid[p]
                  ELSE Hits(p, w) # {} \/ (valid[p] /\ p \notin allocs)]

Cycle(allocs, w) ==
  /\ regs' = [p \in Preg |->
                IF (HARDWIRE_PREG0 /\ p = 0) \/ Hits(p, w) = {} THEN regs[p]
                ELSE w[CHOOSE q \in Hits(p, w) : \A r \in Hits(p, w) : r <= q].data]
  /\ valid' = valid_next(allocs, w)

\* The three assertions of PhysicalRegisterFile.v:253-258.
NoWriteCollision(w) ==
  \A p, q \in DOMAIN w :
    w[p].en /\ w[q].en /\ w[p].addr = w[q].addr /\ w[p].addr # 0 => p = q
=============================================================================
