---------------------------- MODULE MCTrapUnit ------------------------------
(***************************************************************************)
(* The privileged registers of the core (CSR.v under riscvpipeline.v's EX  *)
(* stage) and those of the golden model (class ISS of sim/tools/iss.py) in *)
(* lockstep, as the random cross-check compares them: the golden model     *)
(* executes the instruction in EX and, when the core takes an interrupt,   *)
(* is told to take it next.                                                *)
(*                                                                         *)
(* collision marks a step in which the core took an interrupt while the    *)
(* instruction in EX wrote a register that trap entry writes too; the      *)
(* golden model is set back to the core's registers after it.              *)
(*                                                                         *)
(* KernelWrites are the CSR writes of an M-mode and an S-mode kernel; MPP  *)
(* takes its defined encodings only.                                       *)
(***************************************************************************)
EXTENDS TrapUnit

VARIABLES iss, collision

W(addr, vals) == [en : {TRUE}, addr : {addr}, val : vals]

Status(m, s, mpp) == [MIE |-> m, MPIE |-> FALSE, MPP |-> mpp, SIE |-> s, SPIE |-> FALSE, SPP |-> 0]

KernelWrites ==
  W("mstatus", {Status(TRUE, TRUE, PRIV_U), Status(TRUE, FALSE, PRIV_S), Status(FALSE, TRUE, PRIV_S)})
    \cup W("sstatus", {[MIE |-> TRUE, MPIE |-> TRUE, MPP |-> PRIV_M,
                        SIE |-> TRUE, SPIE |-> FALSE, SPP |-> 0]})
    \cup W("mepc", {2}) \cup W("mie", {{MEI, SSI}}) \cup W("mip", {{MEI, SSI}})
    \cup W("mideleg", {{SSI}}) \cup W("medeleg", {{ECALL_FROM_U, ECALL_FROM_M}})

I == INSTANCE IssPriv WITH xl <- 32

CsrAddr(name) ==
  CASE name = "mstatus" -> I!CSR_MSTATUS [] name = "sstatus" -> I!CSR_SSTATUS
    [] name = "mie" -> I!CSR_MIE [] name = "sie" -> I!CSR_SIE [] name = "mip" -> I!CSR_MIP [] name = "sip" -> I!CSR_SIP
    [] name = "mideleg" -> I!CSR_MIDELEG [] name = "medeleg" -> I!CSR_MEDELEG
    [] name = "mepc" -> I!CSR_MEPC [] name = "sepc" -> I!CSR_SEPC [] name = "mcause" -> I!CSR_MCAUSE
    [] name = "scause" -> I!CSR_SCAUSE [] name = "mtval" -> I!CSR_MTVAL [] name = "stval" -> I!CSR_STVAL
    [] name = "mtvec" -> I!CSR_MTVEC [] name = "stvec" -> I!CSR_STVEC
    [] name = "mscratch" -> I!CSR_MSCRATCH [] name = "sscratch" -> I!CSR_SSCRATCH

StatusBits(m) ==
  I!If(m.SIE, 1) \cup I!If(m.MIE, 3) \cup I!If(m.SPIE, 5) \cup I!If(m.MPIE, 7) \cup I!If(m.SPP = 1, 8)
    \cup I!Shl(I!BitsOf(m.MPP), 11)

\* A register of the core as the bits the golden model keeps.
BitsOf(name, val) ==
  CASE name \in {"mstatus", "sstatus"} -> StatusBits(val)
    [] name \in {"mie", "sie", "mip", "sip", "mideleg", "medeleg"} -> val
    [] name \in {"mcause", "scause"} -> I!BitsOf(val[2]) \cup I!If(val[1], 31)
    [] OTHER -> I!BitsOf(val)

CoreRegisters ==
  [a \in {CsrAddr(r) : r \in CsrName} |-> LET r == CHOOSE r \in CsrName : CsrAddr(r) = a IN BitsOf(r, csr[r])]
Core ==
  [priv_mode |-> priv_mode,
   csr |-> [a \in I!StoredCsrs |->
              CASE a = I!CSR_MSTATUS -> StatusBits(mstatus)
                [] a = I!CSR_MIE -> mie [] a = I!CSR_MIP -> mip_sw
                [] a = I!CSR_MIDELEG -> mideleg [] a = I!CSR_MEDELEG -> medeleg
                [] a = I!CSR_SATP -> {}
                [] OTHER -> CoreRegisters[a]]]

Golden(s) == [priv_mode |-> s.priv_mode, csr |-> s.csr]

-----------------------------------------------------------------------------
\* ISS.step on the instruction in EX at pc, then run()'s scheduled trap.
Executed(s, i, pc) ==
  LET at == [s EXCEPT !.pc = I!BitsOf(pc)]
  IN CASE i.kind = "csr" -> I!csr_instruction(at, "write", CsrAddr(i.w.addr), BitsOf(i.w.addr, i.w.val), 0, at.pc)
       [] i.kind \in {"ecall", "mret", "sret"} -> I!system(at, i.kind, at.pc)
       [] OTHER -> at

Interrupted(s, t) == I!trap([s EXCEPT !.pc = I!BitsOf(t.pc)], [int |-> TRUE, code |-> t.cause], {})

GoldenStep(s, i, irq, pc_stall, pc) ==
  LET t == trap(i, irq, pc_stall, pc)
      e == Executed(s, i, pc)
  IN [(IF t.is_interrupt THEN Interrupted(e, t) ELSE e) EXCEPT !.pc = {}]     \* pc is an input here

TrapWritten == MTrapRegs \cup STrapRegs \cup {"mstatus", "sstatus"}

GoldenInit ==
  /\ TrapInit
  /\ iss = [pc |-> {}, regs |-> <<>>, priv_mode |-> I!PRIV_M, csr |-> [a \in I!StoredCsrs |-> {}]]
  /\ collision = FALSE

GoldenNext ==
  \E i \in Insts, irq \in SUBSET Irqs, pc_stall \in BOOLEAN, pc \in Pcs :
    /\ Step(i, irq, pc_stall, pc)
    /\ iss' = GoldenStep(IF collision THEN [iss EXCEPT !.priv_mode = Core.priv_mode, !.csr = Core.csr] ELSE iss,
                         i, irq, pc_stall, pc)
    /\ collision' = (interrupt_taken(i, irq, pc_stall) /\ i.kind = "csr" /\ i.w.addr \in TrapWritten)

GoldenSpec == GoldenInit /\ [][GoldenNext]_<<vars, iss, collision>>

-----------------------------------------------------------------------------
\* The golden model's privileged state is CSR.v's (iss.py's csr_write, trap,
\* mret and sret are each documented as "matching design/CSR.v exactly"):
\* after any sequence of CSR writes, ecalls, returns, privilege violations
\* and interrupts, all sixteen registers and the privilege mode agree.
GoldenAgrees == ~collision => Golden(iss) = Core

=============================================================================
