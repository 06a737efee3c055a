-------------------------------- MODULE CSR ---------------------------------
(***************************************************************************)
(* design/CSR.v: privilege mode, trap entry and return, delegation, and    *)
(* the registers they share with the csrrX instructions.                   *)
(*                                                                         *)
(* mstatus is the record of its implemented fields, csr holds the plain    *)
(* word registers, and the interrupt-enable, interrupt-pending and         *)
(* delegation registers are sets of causes.  The floating-point, vector,   *)
(* satp and counter registers, which no trap touches, are left out.        *)
(***************************************************************************)
EXTENDS Naturals

VARIABLES mstatus, priv_mode, csr, mie, mip_sw, mideleg, medeleg

csrvars == <<mstatus, priv_mode, csr, mie, mip_sw, mideleg, medeleg>>

PRIV_U == 0
PRIV_S == 1
PRIV_M == 3

MEI == 11
MSI == 3
MTI == 7
SSI == 1
STI == 5
SEI == 9
MachineInts    == {MEI, MSI, MTI}
SupervisorInts == {SSI, STI, SEI}
Delegable      == {2, 3, 8, 9, 11, 12, 13, 15}     \* medeleg_masked

MTrapRegs == {"mepc", "mcause", "mtval"}
STrapRegs == {"sepc", "scause", "stval"}
CsrName   == MTrapRegs \cup STrapRegs \cup {"mtvec", "stvec", "mscratch", "sscratch"}

Mstatus == [MIE : BOOLEAN, MPIE : BOOLEAN, MPP : 0 .. 3,
            SIE : BOOLEAN, SPIE : BOOLEAN, SPP : 0 .. 1]

Init ==
  /\ mstatus = [MIE |-> FALSE, MPIE |-> FALSE, MPP |-> 0, SIE |-> FALSE, SPIE |-> FALSE, SPP |-> 0]
  /\ priv_mode = PRIV_M
  /\ csr = [r \in CsrName |-> IF r \in {"mcause", "scause"} THEN <<FALSE, 0>> ELSE 0]
  /\ mie = {} /\ mip_sw = {} /\ mideleg = {} /\ medeleg = {}

(***************************************************************************)
(* A write is [en, addr, val] with val the new_val of csrrw, csrrs or      *)
(* csrrc; a trap is [pc, cause, is_interrupt, value].                      *)
(***************************************************************************)
NoTrap  == [pc |-> 0, cause |-> 0, is_interrupt |-> FALSE, value |-> 0]
NoWrite == [en |-> FALSE, addr |-> "mscratch", val |-> 0]

trap_delegated(t) == t.cause \in (IF t.is_interrupt THEN mideleg ELSE medeleg)

trap_target_is_s(trap_taken, t) ==
  trap_taken /\ priv_mode # PRIV_M /\ trap_delegated(t)

\* mcause, scause: the interrupt flag and the code.
Recorded(r, t) ==
  CASE r \in {"mepc", "sepc"}     -> t.pc
    [] r \in {"mcause", "scause"} -> <<t.is_interrupt, t.cause>>
    [] r \in {"mtval", "stval"}   -> t.value

csr_next_both_sides(w, trap_taken, t) ==
  [r \in CsrName |->
     IF trap_taken /\ r \in MTrapRegs \cup (IF trap_target_is_s(trap_taken, t) THEN STrapRegs ELSE {})
     THEN Recorded(r, t) ELSE IF w.en /\ w.addr = r THEN w.val ELSE csr[r]]
csr_next(w, trap_taken, t) ==
  LET hit == IF ~trap_taken THEN {}
             ELSE IF trap_target_is_s(trap_taken, t) THEN STrapRegs ELSE MTrapRegs
  IN  [r \in CsrName |-> IF r \in hit THEN Recorded(r, t)
                         ELSE IF w.en /\ w.addr = r THEN w.val
                         ELSE csr[r]]

mstatus_next(w, trap_taken, t, mret_taken, sret_taken) ==
  IF trap_taken /\ ~trap_target_is_s(trap_taken, t)
  THEN [mstatus EXCEPT !.MPIE = mstatus.MIE, !.MIE = FALSE, !.MPP = priv_mode]
  ELSE IF trap_taken
  THEN [mstatus EXCEPT !.SPIE = mstatus.SIE, !.SIE = FALSE, !.SPP = priv_mode % 2]
  ELSE IF mret_taken
  THEN [mstatus EXCEPT !.MIE = mstatus.MPIE, !.MPIE = TRUE, !.MPP = PRIV_U]
  ELSE IF sret_taken
  THEN [mstatus EXCEPT !.SIE = mstatus.SPIE, !.SPIE = TRUE, !.SPP = 0]
  ELSE IF w.en /\ w.addr = "mstatus" THEN w.val
  ELSE IF w.en /\ w.addr = "sstatus"
  THEN [mstatus EXCEPT !.SIE = w.val.SIE, !.SPIE = w.val.SPIE, !.SPP = w.val.SPP]
  ELSE mstatus

priv_mode_next(trap_taken, t, mret_taken, sret_taken) ==
  IF trap_taken THEN (IF trap_target_is_s(trap_taken, t) THEN PRIV_S ELSE PRIV_M)
  ELSE IF mret_taken THEN mstatus.MPP
  ELSE IF sret_taken THEN mstatus.SPP
  ELSE priv_mode

mie_next(w) ==
  IF w.en /\ w.addr = "mie" THEN w.val \cap (MachineInts \cup SupervisorInts)
  ELSE IF w.en /\ w.addr = "sie" THEN (mie \ SupervisorInts) \cup (w.val \cap SupervisorInts)
  ELSE mie

mip_sw_next(w) ==
  IF w.en /\ w.addr \in {"mip", "sip"} THEN w.val \cap SupervisorInts ELSE mip_sw

Cycle(w, trap_taken, t, mret_taken, sret_taken) ==
  /\ csr' = csr_next(w, trap_taken, t)
  /\ mstatus' = mstatus_next(w, trap_taken, t, mret_taken, sret_taken)
  /\ priv_mode' = priv_mode_next(trap_taken, t, mret_taken, sret_taken)
  /\ mie' = mie_next(w)
  /\ mip_sw' = mip_sw_next(w)
  /\ mideleg' = IF w.en /\ w.addr = "mideleg"
                THEN w.val \cap (MachineInts \cup SupervisorInts) ELSE mideleg
  /\ medeleg' = IF w.en /\ w.addr = "medeleg" THEN w.val \cap Delegable ELSE medeleg
=============================================================================
