------------------------------- MODULE IssPriv -------------------------------
(***************************************************************************)
(* The privileged half of the golden model (class ISS of                   *)
(* sim/tools/iss.py): CSR storage and its views, trap entry and return,    *)
(* Sv32 and Sv39 translation, and the byte memory with its MMIO hole.      *)
(*                                                                         *)
(* The machine is a record s of pc, regs, fregs, mem, mem_size (a power of *)
(* two), csr, priv_mode, frm and fflags; every register, CSR and address is the set of its one bits  *)
(* at the code's real width.  A cause is [int, code], its bit 31 and the   *)
(* rest.  Each operator answers the machine after the call.                *)
(***************************************************************************)
EXTENDS IssBits, Sequences

CSR_FFLAGS == \h001
CSR_FRM == \h002
CSR_FCSR == \h003
CSR_SSTATUS == \h100
CSR_SIE == \h104
CSR_STVEC == \h105
CSR_SSCRATCH == \h140
CSR_SEPC == \h141
CSR_SCAUSE == \h142
CSR_STVAL == \h143
CSR_SIP == \h144
CSR_SATP == \h180
CSR_MSTATUS == \h300
CSR_MEDELEG == \h302
CSR_MIDELEG == \h303
CSR_MIE == \h304
CSR_MTVEC == \h305
CSR_MSCRATCH == \h340
CSR_MEPC == \h341
CSR_MCAUSE == \h342
CSR_MTVAL == \h343
CSR_MIP == \h344
StoredCsrs == {CSR_MSTATUS, CSR_MTVEC, CSR_MSCRATCH, CSR_MEPC, CSR_MCAUSE, CSR_SSCRATCH, CSR_SEPC, CSR_SCAUSE,
               CSR_STVAL, CSR_MTVAL, CSR_STVEC, CSR_SATP, CSR_MIDELEG, CSR_MEDELEG, CSR_MIE, CSR_MIP}

PRIV_U == 0
PRIV_S == 1
PRIV_M == 3
Cause(code) == [int |-> FALSE, code |-> code]
ILLEGAL_INSTRUCTION == Cause(2)
BREAKPOINT == Cause(3)
ecall_cause(priv) == Cause(CASE priv = PRIV_M -> 11 [] priv = PRIV_S -> 9 [] priv = PRIV_U -> 8)
fault_cause(access) == Cause(CASE access = "fetch" -> 12 [] access = "load" -> 13 [] access = "store" -> 15)

\* Bit positions: mstatus SIE 1, MIE 3, SPIE 5, MPIE 7, SPP 8, MPP 12:11.
S_STATUS == {1, 5, 8}
M_STATUS == {3, 7, 11, 12}
S_INTS == {1, 5, 9}
M_INTS == {3, 7, 11}
DELEGABLE == {2, 3, 8, 9, 11, 12, 13, 15}

-----------------------------------------------------------------------------
csr_read(s, addr) ==
  CASE addr = CSR_FFLAGS -> Low(s.fflags, 5)
    [] addr = CSR_FRM -> Low(s.frm, 3)
    [] addr = CSR_FCSR -> Shl(Low(s.frm, 3), 5) \cup Low(s.fflags, 5)
    [] addr = CSR_SSTATUS -> s.csr[CSR_MSTATUS] \cap S_STATUS
    [] addr = CSR_SIE -> s.csr[CSR_MIE] \cap S_INTS
    [] addr = CSR_SIP -> s.csr[CSR_MIP] \cap S_INTS
    [] addr = CSR_MSTATUS /\ xl = 64 -> s.csr[addr] \cup {33, 35}       \* UXL = SXL = 2
    [] addr \in StoredCsrs /\ ~(addr = CSR_MSTATUS /\ xl = 64) -> s.csr[addr]
    [] OTHER -> {}

csr_write(s, addr, val) ==
  CASE addr = CSR_FFLAGS -> [s EXCEPT !.fflags = Low(val, 5)]
    [] addr = CSR_FRM -> [s EXCEPT !.frm = Low(val, 3)]
    [] addr = CSR_FCSR -> [s EXCEPT !.frm = Field(val, 5, 3), !.fflags = Low(val, 5)]
    [] addr = CSR_MSTATUS -> [s EXCEPT !.csr[addr] = val \cap (S_STATUS \cup M_STATUS)]
    [] addr = CSR_SSTATUS -> [s EXCEPT !.csr[CSR_MSTATUS] = (@ \ S_STATUS) \cup (val \cap S_STATUS)]
    [] addr = CSR_MIE -> [s EXCEPT !.csr[addr] = val \cap (M_INTS \cup S_INTS)]
    [] addr = CSR_SIE -> [s EXCEPT !.csr[CSR_MIE] = (@ \ S_INTS) \cup (val \cap S_INTS)]
    [] addr \in {CSR_MIP, CSR_SIP} -> [s EXCEPT !.csr[CSR_MIP] = val \cap S_INTS]
    [] addr = CSR_MEDELEG -> [s EXCEPT !.csr[addr] = val \cap DELEGABLE]
    [] addr = CSR_MIDELEG -> [s EXCEPT !.csr[addr] = val \cap (M_INTS \cup S_INTS)]
    [] addr \in StoredCsrs \ {CSR_MSTATUS, CSR_MIE, CSR_MIP, CSR_MEDELEG, CSR_MIDELEG} ->
         [s EXCEPT !.csr[addr] = Word(val)]
    [] OTHER -> s

If(cond, bit) == IF cond THEN {bit} ELSE {}

to_s_from_any(s, cause) == cause.code \in s.csr[IF cause.int THEN CSR_MIDELEG ELSE CSR_MEDELEG]
to_s(s, cause) ==
  s.priv_mode # PRIV_M /\ cause.code \in s.csr[IF cause.int THEN CSR_MIDELEG ELSE CSR_MEDELEG]

trap(s, cause, tval) ==
  LET m == s.csr[CSR_MSTATUS]
      mcause_val == BitsOf(cause.code) \cup If(cause.int, 31)
  IN IF to_s(s, cause)
     THEN [s EXCEPT !.csr[CSR_SEPC] = s.pc, !.csr[CSR_SCAUSE] = mcause_val, !.csr[CSR_STVAL] = Word(tval),
                    !.csr[CSR_MSTATUS] = (m \ S_STATUS) \cup If(1 \in m, 5) \cup If(s.priv_mode % 2 = 1, 8),
                    !.priv_mode = PRIV_S, !.pc = s.csr[CSR_STVEC]]
     ELSE [s EXCEPT !.csr[CSR_MEPC] = s.pc, !.csr[CSR_MCAUSE] = mcause_val, !.csr[CSR_MTVAL] = Word(tval),
                    !.csr[CSR_MSTATUS] = (m \ M_STATUS) \cup If(3 \in m, 7) \cup Shl(BitsOf(s.priv_mode), 11),
                    !.priv_mode = PRIV_M, !.pc = s.csr[CSR_MTVEC]]

mret(s) ==
  LET m == s.csr[CSR_MSTATUS]
  IN [s EXCEPT !.csr[CSR_MSTATUS] = (m \ M_STATUS) \cup If(7 \in m, 3) \cup {7},
               !.priv_mode = ValueOf(Field(m, 11, 2)), !.pc = s.csr[CSR_MEPC]]

sret(s) ==
  LET m == s.csr[CSR_MSTATUS]
  IN [s EXCEPT !.csr[CSR_MSTATUS] = (m \ S_STATUS) \cup If(5 \in m, 1) \cup {5},
               !.priv_mode = ValueOf(Field(m, 8, 1)), !.pc = s.csr[CSR_SEPC]]

wr(s, rd, val) == IF rd = 0 THEN s ELSE [s EXCEPT !.regs[rd] = Low(val, xl)]

(* SYSTEM with funct3 = 0: sfence.vma is a no-op, nothing being cached.    *)
system_illegal(s, mn) ==
  CASE mn \in {"sfence_vma", "sret"} -> s.priv_mode = PRIV_U
    [] mn = "mret" -> s.priv_mode # PRIV_M
    [] mn \in {"ecall", "ebreak"} -> FALSE
    [] OTHER -> TRUE
system(s, mn, next_pc) ==
  CASE system_illegal(s, mn) -> trap(s, ILLEGAL_INSTRUCTION, {})
    [] mn = "ecall" -> trap(s, ecall_cause(s.priv_mode), {})
    [] mn = "ebreak" -> trap(s, BREAKPOINT, {})
    [] mn = "mret" /\ ~system_illegal(s, mn) -> mret(s)
    [] mn = "sret" /\ ~system_illegal(s, mn) -> sret(s)
    [] mn = "sfence_vma" /\ ~system_illegal(s, mn) -> [s EXCEPT !.pc = next_pc]

(* csrrX and csrrXi: bits 9:8 of the address are the privilege required.   *)
required_priv(csr_addr) == (csr_addr \div 256) % 4
csr_instruction(s, op, csr_addr, src, rd, next_pc) ==
  LET old == csr_read(s, csr_addr)
      new_val == CASE op = "write" -> src [] op = "set" -> old \cup src [] op = "clear" -> old \ src
  IN IF s.priv_mode < required_priv(csr_addr) THEN trap(s, ILLEGAL_INSTRUCTION, {})
     ELSE [wr(csr_write(s, csr_addr, new_val), rd, old) EXCEPT !.pc = next_pc]

-----------------------------------------------------------------------------
(* Memory.  Nothing at or above MMIO_BASE (bit 28 and up) aliases into it; *)
(* a byte that was never written is not in the domain of mem and reads 0.  *)
RECURSIVE Plus(_, _)
Plus(A, B) == IF B = {} THEN A ELSE Plus(Xor(A, B), Shl(A \cap B, 1))

is_mmio(addr) == \E b \in addr : b >= 28
index(s, addr) == ValueOf(addr) % s.mem_size

load_mem_byte(s, addr) == IF is_mmio(addr) \/ index(s, addr) \notin DOMAIN s.mem THEN {} ELSE s.mem[index(s, addr)]
LoadBytes(s, addr, n) ==
  IF is_mmio(addr) THEN {}
  ELSE UNION {Shl(load_mem_byte(s, Plus(addr, BitsOf(i))), 8 * i) : i \in 0 .. n - 1}
StoreBytes(s, addr, n, val) ==
  LET at(i) == Plus(addr, BitsOf(i))
      hit == IF is_mmio(addr) THEN {} ELSE {i \in 0 .. n - 1 : ~is_mmio(at(i))}
      bytes == [i \in hit |-> index(s, at(i))]
  IN [s EXCEPT !.mem = [a \in DOMAIN @ \cup {bytes[i] : i \in hit} |->
                          IF \E i \in hit : bytes[i] = a
                          THEN Field(val, 8 * (CHOOSE i \in hit : bytes[i] = a), 8) ELSE @[a]]]

_read_pte(s, addr) == LoadBytes(s, Word(addr), 4)
_read_pte64(s, addr) == LoadBytes(s, Word(addr), 8)

-----------------------------------------------------------------------------
(* Translation.  PTE bits: V 0, R 1, W 2, X 3, U 4, PPN from 10, of which  *)
(* the core keeps 20.                                                      *)
is_leaf(pte) == pte \cap {1, 2, 3} # {}
ppn20(pte) == Field(pte, 10, 20)

_pte_perm_ok(s, pte, access) ==
  /\ (CASE access = "fetch" -> 3 [] access = "store" -> 2 [] access = "load" -> 1) \in pte
  /\ (s.priv_mode = PRIV_U) = (4 \in pte)

\* A walk from the table at ppn `table` through the vpn fields of vpns, top
\* level first: n bits of index per level, 2^sz bytes per entry.
Done(ppn) == [ok |-> TRUE, ppn |-> ppn]
PageFault == [ok |-> FALSE, ppn |-> {}]

RECURSIVE Walk(_, _, _, _, _, _)
Walk(s, table, vpns, access, n, sz) ==
  LET left == Len(vpns) - 1                        \* levels below this one
      addr == Shl(table, 12) \cup Shl(Head(vpns), sz)
      pte == IF sz = 2 THEN _read_pte(s, addr) ELSE _read_pte64(s, addr)
      superpage_offset == UNION {Shl(vpns[Len(vpns) - k], n * k) : k \in 0 .. left - 1}
  IN CASE 0 \notin pte -> PageFault
       [] 0 \in pte /\ is_leaf(pte) ->
            IF Low(ppn20(pte), n * left) # {} \/ ~_pte_perm_ok(s, pte, access) THEN PageFault
            ELSE Done(ppn20(pte) \cup superpage_offset)
       [] 0 \in pte /\ ~is_leaf(pte) ->
            IF left = 0 THEN PageFault ELSE Walk(s, ppn20(pte), Tail(vpns), access, n, sz)

_translate_sv32(s, vaddr, access, satp) ==
  Walk(s, Low(satp, 20), <<Field(vaddr, 22, 10), Field(vaddr, 12, 10)>>, access, 10, 2)
_translate_sv39(s, vaddr, access, satp) ==
  Walk(s, Low(satp, 20), <<Field(vaddr, 30, 9), Field(vaddr, 21, 9), Field(vaddr, 12, 9)>>, access, 9, 3)

translates(s) == s.priv_mode # PRIV_M /\ (IF xl = 32 THEN 31 \in s.csr[CSR_SATP] ELSE Field(s.csr[CSR_SATP], 60, 4) = {3})
\* [ok, addr, s]: on a page fault the machine has taken the trap.
Translated(s, vaddr, access, walk) ==
  IF walk.ok THEN [ok |-> TRUE, addr |-> Shl(walk.ppn, 12) \cup Low(vaddr, 12), s |-> s]
  ELSE [ok |-> FALSE, addr |-> {}, s |-> trap(s, fault_cause(access), vaddr)]
translate(s, vaddr, access) ==
  LET satp == s.csr[CSR_SATP]
  IN IF ~translates(s) THEN [ok |-> TRUE, addr |-> vaddr, s |-> s]
     ELSE Translated(s, vaddr, access,
                     IF xl = 32 THEN _translate_sv32(s, vaddr, access, satp) ELSE _translate_sv39(s, vaddr, access, satp))
=============================================================================
