------------------------------ MODULE TrapUnit ------------------------------
(***************************************************************************)
(* The exception and interrupt logic of the in-order pipeline's EX stage   *)
(* (design/riscvpipeline.v) around CSR.v.                                  *)
(*                                                                         *)
(* Each step is one cycle in which the instruction in EX is not held: it   *)
(* takes an instruction, the level of the machine interrupt lines, and     *)
(* whether the front end stalls (which blocks interrupts).                 *)
(*                                                                         *)
(* resume[m] is a history variable: what the handler of mode m still has   *)
(* to return to, forgotten when that state is overwritten or used.         *)
(***************************************************************************)
EXTENDS CSR

CONSTANTS
  Pcs,              \* program counters
  Writes,           \* the CSR writes programs make: [en, addr, val]
  Irqs              \* the machine interrupt lines that are driven

VARIABLE resume

vars == <<csrvars, resume>>

ILLEGAL_INSTRUCTION == 2
ECALL_FROM_U == 8
ECALL_FROM_S == 9
ECALL_FROM_M == 11

Insts == [kind : {"csr"}, w : Writes]
           \cup [kind : {"ecall", "mret", "sret", "branch", "alu"}, w : {NoWrite}]

\* Bits 9:8 of the CSR address.
addr_priv(addr) ==
  IF addr \in {"sstatus", "sie", "sip", "stvec", "sscratch"} \cup STrapRegs
  THEN PRIV_S ELSE PRIV_M

csr_priv_violation_u(i) == i.kind = "csr" /\ priv_mode = PRIV_U /\ addr_priv(i.w.addr) # PRIV_U
mret_priv_violation_u(i) == i.kind = "mret" /\ priv_mode = PRIV_U
csr_priv_violation(i)  == i.kind = "csr" /\ priv_mode < addr_priv(i.w.addr)
mret_priv_violation(i) == i.kind = "mret" /\ priv_mode # PRIV_M
sret_priv_violation(i) == i.kind = "sret" /\ priv_mode = PRIV_U
priv_violation(i) ==
  csr_priv_violation(i) \/ mret_priv_violation(i) \/ sret_priv_violation(i)

mret_real(i) == i.kind = "mret" /\ ~mret_priv_violation(i)
sret_real(i) == i.kind = "sret" /\ ~sret_priv_violation(i)

exception_taken(i) == i.kind = "ecall" \/ priv_violation(i)

trap_cause(i) ==
  IF priv_violation(i) THEN ILLEGAL_INSTRUCTION
  ELSE IF priv_mode = PRIV_M THEN ECALL_FROM_M
  ELSE IF priv_mode = PRIV_S THEN ECALL_FROM_S ELSE ECALL_FROM_U

\* mei_pending, msi_pending, mti_pending and ssi_pending, sti_pending.
m_pending(irq) == mie \cap irq
s_pending ==
  IF mstatus.SIE /\ priv_mode = PRIV_S THEN mie \cap mip_sw \cap {SSI, STI} ELSE {}

interrupt_request(irq) == (mstatus.MIE /\ m_pending(irq) # {}) \/ s_pending # {}

other_redirect_taken(i) ==
  i.kind = "branch" \/ exception_taken(i) \/ mret_real(i) \/ sret_real(i)

interrupt_taken(i, irq, pc_stall) ==
  interrupt_request(irq) /\ ~pc_stall /\ ~other_redirect_taken(i)

interrupt_cause(irq) ==
  LET p == m_pending(irq) \cup s_pending
  IN  IF MEI \in p THEN MEI ELSE IF MSI \in p THEN MSI ELSE IF MTI \in p THEN MTI
      ELSE IF SSI \in p THEN SSI ELSE STI

\* pc is pc_o_regde for an exception, interrupt_mepc for an interrupt.
trap(i, irq, pc_stall, pc) ==
  [pc |-> pc, value |-> 0, is_interrupt |-> interrupt_taken(i, irq, pc_stall),
   cause |-> IF interrupt_taken(i, irq, pc_stall) THEN interrupt_cause(irq) ELSE trap_cause(i)]

None == [priv |-> 4, ie |-> FALSE, pc |-> 0]

\* The handlers whose saved state a write replaces.
Overwritten(w) ==
  CASE ~w.en -> {}
    [] w.addr = "mstatus" -> {"M", "S"}
    [] w.addr = "mepc" -> {"M"}
    [] w.addr \in {"sstatus", "sepc"} -> {"S"}
    [] OTHER -> {}

Step(i, irq, pc_stall, pc) ==
  LET w   == IF i.kind = "csr" /\ ~csr_priv_violation(i) THEN i.w ELSE NoWrite
      t   == trap(i, irq, pc_stall, pc)
      trap_taken == exception_taken(i) \/ t.is_interrupt
      gone == Overwritten(w) \cup (IF mret_real(i) THEN {"M"} ELSE {})
                             \cup (IF sret_real(i) THEN {"S"} ELSE {})
      left == [m \in {"M", "S"} |-> IF m \in gone THEN None ELSE resume[m]]
  IN  /\ Cycle(w, trap_taken, t, mret_real(i), sret_real(i))
      /\ resume' =
           IF ~trap_taken THEN left
           ELSE IF trap_target_is_s(trap_taken, t)
           THEN [left EXCEPT !["S"] = [priv |-> priv_mode, ie |-> mstatus.SIE, pc |-> pc]]
           ELSE [left EXCEPT !["M"] = [priv |-> priv_mode, ie |-> mstatus.MIE, pc |-> pc]]

TrapInit == Init /\ resume = [m \in {"M", "S"} |-> None]

Next == \E i \in Insts, irq \in SUBSET Irqs, pc_stall \in BOOLEAN, pc \in Pcs :
          Step(i, irq, pc_stall, pc)

Spec == TrapInit /\ [][Next]_vars

-----------------------------------------------------------------------------
\* CSR.v: every register holds a value its write mask lets through.
TypeOK ==
  /\ mstatus \in Mstatus
  /\ priv_mode \in 0 .. 3
  /\ csr["mepc"] \in Pcs \cup {0} /\ csr["sepc"] \in Pcs \cup {0}
  /\ mie \subseteq MachineInts \cup SupervisorInts
  /\ mip_sw \subseteq SupervisorInts
  /\ mideleg \subseteq MachineInts \cup SupervisorInts
  /\ medeleg \subseteq Delegable

\* Trap entry and return nest (CSR.v's mstatus and epc chains): as long as a
\* handler has not written its own saved state, mret or sret will go back to
\* the privilege, interrupt enable and pc its trap interrupted, whatever
\* traps and returns of the other mode came in between.
ReturnsToTrapped ==
  /\ resume["M"] # None =>
       [priv |-> mstatus.MPP, ie |-> mstatus.MPIE, pc |-> csr["mepc"]] = resume["M"]
  /\ resume["S"] # None =>
       [priv |-> mstatus.SPP, ie |-> mstatus.SPIE, pc |-> csr["sepc"]] = resume["S"]

\* "a trap always raises it" (CSR.v, at priv_mode): code running below M-mode
\* gains privilege only by entering the trap handler M-mode delegated to it,
\* with that mode's interrupts off; any other change lowers privilege.
PrivilegeRisesByTrap ==
  [][priv_mode' > priv_mode =>
       \/ priv_mode' = PRIV_M /\ resume'["M"].priv = priv_mode /\ ~mstatus'.MIE
       \/ priv_mode' = PRIV_S /\ resume'["S"].priv = priv_mode /\ ~mstatus'.SIE]_vars

\* M's own trap state is only ever updated by a trap M handles, and sstatus
\* is a restricted window (CSR.v, at mepc and at sstatus_write_masked): a
\* step from below M that does not enter M leaves all of it alone.
MachineStateIsPrivate ==
  [][priv_mode # PRIV_M /\ priv_mode' # PRIV_M =>
       /\ \A r \in MTrapRegs : csr'[r] = csr[r]
       /\ mstatus'.MPP = mstatus.MPP
       /\ mstatus'.MPIE = mstatus.MPIE /\ mstatus'.MIE = mstatus.MIE
       /\ mie' \cap MachineInts = mie \cap MachineInts
       /\ UNCHANGED <<mideleg, medeleg>>]_vars

\* A trap is taken in M-mode only for M: nothing that happens while the hart
\* runs in M enters S by a trap (trap_target_is_s excludes PRIV_M).
MachineTrapsStayInMachine ==
  [][priv_mode = PRIV_M /\ priv_mode' = PRIV_S => UNCHANGED <<csr, mie, mip_sw>>]_vars

\* What CSR.v saved at each trap stays typed and is what its return restores.
TrapInv == TypeOK /\ ReturnsToTrapped

\* Privilege of CSR.v moves as traps and returns allow: up only by a trap, and
\* from M down to S only by a return.
PrivilegeMoves == PrivilegeRisesByTrap /\ MachineTrapsStayInMachine

\* riscvpipeline.v says the interrupt mux chooses among sources that are
\* "pending+enabled": the cause recorded is that of an enabled source.
CauseIsEnabled ==
  \A irq \in SUBSET Irqs : interrupt_request(irq) =>
    interrupt_cause(irq) \in s_pending \cup (IF mstatus.MIE THEN m_pending(irq) ELSE {})
=============================================================================
