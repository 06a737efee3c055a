------------------------------ MODULE OOOCore -------------------------------
(***************************************************************************)
(* design/OOOCore.v running scalar integer code without address            *)
(* translation: fetch, rename, the ALU and divider reservation stations,   *)
(* the load/store queue with its memory, the reorder buffer, and traps,    *)
(* CSR accesses and interrupts in machine mode.  One step is one clock     *)
(* cycle.                                                                  *)
(*                                                                         *)
(* Rename supplies dispatch and retirement; here the instructions really   *)
(* execute, on words of XLEN bits.  Branch prediction is arbitrary: Bht.v  *)
(* and Btb.v decide how often it is right, never whether the result is.    *)
(***************************************************************************)
EXTENDS Naturals, FiniteSets, Sequences

CONSTANTS
  XLEN, SP_INIT,
  NUM_PREGS, NUM_AREGS, ROB_ENTRIES, RS_ALU_ENTRIES, RS_DIV_ENTRIES, LSQ_ENTRIES,
  Insts,         \* the instructions of the programs
  Programs,      \* each one a function from 0 .. n-1 to Insts
  MemStalls,     \* the values mem_stall_ext may take ({FALSE}: no page walk)
  Lines          \* the interrupt lines that are driven

VARIABLES
  prog, pc_r,
  queue, fl_count, fl_head, fl_tail,                          \* m_FreeList
  spec_map, arch_map,                                         \* m_RAT
  e_valid, e_done, e_inst, rob_count, rob_head, rob_tail,     \* m_ROB
  dside_fault_valid_r, dside_fault_rob_tag_r,                 \* never set here
  regs, valid,                                                \* m_PRF
  rs_alu, rs_div,                                             \* m_RS_ALU, m_RS_DIV
  div_busy, div_done, quotient, remainder, R, Q, D, div_count, \* m_Divider
  neg_quotient, neg_remainder, div_inflight,
  lsq, lsq_count, lsq_head, lsq_tail,                         \* m_LSQ
  mem_pending_r, amo_need_write_r, amo_old_value_r,
  data_memory, raw_word_r, mem_read_r,                        \* m_DMem
  br_inflight, jr_inflight, trap_inflight, csr_inflight,
  mstatus, priv_mode, csr, mie,                               \* m_CSR
  golden,        \* history: the machine of sim/tools/iss.py after the dispatched instructions
  want           \* history: what the producer of each physical register should write

renvars == <<queue, fl_count, fl_head, fl_tail, spec_map, arch_map, e_valid, e_done,
             e_inst, rob_count, rob_head, rob_tail, dside_fault_valid_r,
             dside_fault_rob_tag_r>>
exevars == <<regs, valid, rs_alu, rs_div, div_busy, div_done, quotient, remainder, R, Q,
             D, div_count, neg_quotient, neg_remainder, div_inflight>>
memvars == <<lsq, lsq_count, lsq_head, lsq_tail, mem_pending_r, amo_need_write_r,
             amo_old_value_r, data_memory, raw_word_r, mem_read_r>>
sysvars == <<br_inflight, jr_inflight, trap_inflight, csr_inflight, mstatus, priv_mode,
             csr, mie>>
vars == <<prog, pc_r, renvars, exevars, memvars, sysvars, golden, want>>

Word == 0 .. 2^XLEN - 1
Preg == 0 .. NUM_PREGS - 1
Areg == 0 .. NUM_AREGS - 1

Halt == [class |-> "other", op |-> "halt", regWrite |-> FALSE, rd |-> 0, rs1 |-> 0, rs2 |-> 0]

\* What rename looks at.
decoded == {[class |-> i.class, regWrite |-> i.regWrite, rd |-> i.rd] : i \in Insts \cup {Halt}}

Ren == INSTANCE Rename WITH Bundles <- decoded \X decoded, MayFault <- FALSE
PRF == INSTANCE PhysicalRegisterFile WITH
         HARDWIRE_PREG0 <- TRUE,
         ResetValue <- [p \in Preg |-> IF p = 2 THEN SP_INIT ELSE 0]
RSA == INSTANCE ReservationStation WITH rs <- rs_alu, RS_ENTRIES <- RS_ALU_ENTRIES
RSD == INSTANCE ReservationStation WITH rs <- rs_div, RS_ENTRIES <- RS_DIV_ENTRIES
DIV == INSTANCE Divider WITH busy <- div_busy, done <- div_done, count <- div_count
LSQ == INSTANCE LoadStoreQueue WITH
         count_r <- lsq_count, head_r <- lsq_head, tail_r <- lsq_tail
MEM == INSTANCE DataMemoryBRAM WITH Addr <- Word, Zero <- 0
CSRs == INSTANCE CSR WITH mip_sw <- {}, mideleg <- {}, medeleg <- {}  \* never written here
ISS == INSTANCE Iss WITH amo_value <- LSQ!amo_new_value

Nothing == [valid |-> FALSE]

Init ==
  /\ prog \in Programs /\ pc_r = 0
  /\ Ren!Init /\ PRF!Init /\ RSA!Init /\ RSD!Init /\ DIV!Init /\ LSQ!Init /\ MEM!Init
  /\ div_inflight = [preg |-> 0, rob_tag |-> 0, select_rem |-> FALSE]
  /\ br_inflight = Nothing /\ jr_inflight = Nothing
  /\ trap_inflight = Nothing /\ csr_inflight = Nothing
  /\ CSRs!Init
  /\ golden = ISS!reset
  /\ want = [p \in Preg |-> IF p = 2 THEN SP_INIT ELSE 0]

(***************************************************************************)
(* Fetch and decode.  Past the end of the program there is nothing more to *)
(* dispatch, as in iss.py's run.                                           *)
(***************************************************************************)
fetch(pc) == IF pc \in DOMAIN prog THEN prog[pc] ELSE Halt

is_mem_op(i) == i.class = "mem"
is_div_op(i) == i.op \in {"divu", "remu"}
is_trap_related(i) == i.op \in {"illegal", "ecall", "mret"}

(***************************************************************************)
(* Completion and writeback: port 0 the ALU, port 1 the load/store queue,  *)
(* port 2 the divider.  The operands of the ALU are read with the bypass   *)
(* from the other two ports only: what it writes is never what it reads.   *)
(***************************************************************************)
lsq_port ==
  [en   |-> LSQ!complete_valid /\ LSQ!complete_is_load,
   addr |-> IF LSQ!complete_valid THEN LSQ!head.dest_preg ELSE 0,
   data |-> IF LSQ!complete_valid THEN LSQ!complete_data(MEM!readData) ELSE 0]

div_port ==
  [en   |-> div_done,
   addr |-> div_inflight.preg,
   data |-> IF div_inflight.select_rem THEN remainder ELSE quotient]

alu_a == IF RSA!issue.use_forced_a THEN RSA!issue.forced_a_value
         ELSE PRF!rdata(RSA!issue.src1_preg, <<lsq_port, div_port>>)
alu_b == IF RSA!issue.use_link_b THEN 1
         ELSE IF RSA!issue.alusrc THEN RSA!issue.imm
         ELSE PRF!rdata(RSA!issue.src2_preg, <<lsq_port, div_port>>)

alu_out == (alu_a + alu_b) % 2^XLEN
alu_branch_zero == alu_a = alu_b

alu_port ==
  [en   |-> RSA!issue_valid,
   addr |-> IF RSA!issue_valid THEN RSA!issue.dest_preg ELSE 0,
   data |-> IF RSA!issue_valid THEN alu_out ELSE 0]

w == <<alu_port, lsq_port, div_port>>

\* The registers that the reservation stations and the queue see on the CDB.
cdb_without_div == {w[p].addr : p \in {q \in {1, 2} : w[q].en}}
cdb == {w[p].addr : p \in {q \in DOMAIN w : w[q].en}}

completes_div_idle ==
  (IF RSA!issue_valid THEN {RSA!issue.rob_tag} ELSE {})
    \cup (IF LSQ!complete_valid THEN {LSQ!head.rob_tag} ELSE {})
    \cup (IF ~div_busy THEN {div_inflight.rob_tag} ELSE {})
completes ==
  (IF RSA!issue_valid THEN {RSA!issue.rob_tag} ELSE {})
    \cup (IF LSQ!complete_valid THEN {LSQ!head.rob_tag} ELSE {})
    \cup (IF div_done THEN {div_inflight.rob_tag} ELSE {})

div_start == RSD!issue_valid /\ ~div_busy /\ ~div_done

(***************************************************************************)
(* Branches.  Only one branch or jalr is in flight, and nothing is         *)
(* dispatched behind it until the ALU has resolved it.                     *)
(***************************************************************************)
br_resolve == RSA!issue_valid /\ br_inflight.valid /\ RSA!issue.rob_tag = br_inflight.rob_tag
br_correct_target ==
  IF alu_branch_zero THEN br_inflight.target ELSE br_inflight.pc + 1
br_mispredict_direction == alu_branch_zero # br_inflight.predicted_taken
br_mispredict ==
  \/ alu_branch_zero # br_inflight.predicted_taken
  \/ alu_branch_zero /\ br_inflight.target # br_inflight.predicted_target

jr_resolve == RSA!issue_valid /\ jr_inflight.valid /\ RSA!issue.rob_tag = jr_inflight.rob_tag
jr_target ==
  (PRF!rdata(RSA!issue.src1_preg, <<lsq_port, div_port>>) + jr_inflight.imm) % 2^XLEN
jr_mispredict == jr_target # jr_inflight.predicted_target

(***************************************************************************)
(* Traps.  An illegal instruction, an ecall or an mret acts when it        *)
(* retires, which is noticed on the first retire port only; a csrrX writes *)
(* when the ALU takes it.  Each is alone in flight, as a branch is.        *)
(***************************************************************************)
trap_resolve ==
  Ren!ROB!retire_valid0 /\ trap_inflight.valid /\ rob_head = trap_inflight.rob_tag

csr_write_fire ==
  RSA!issue_valid /\ csr_inflight.valid /\ RSA!issue.rob_tag = csr_inflight.rob_tag
csr_wdata_final ==       \* its bits
  IF csr_inflight.is_imm THEN csr_inflight.uimm
  ELSE LSQ!Bits(PRF!rdata(RSA!issue.src1_preg, <<lsq_port, div_port>>))

\* The plain registers are words; of mstatus only MIE is set or cleared here.
csr_rdata(addr) == IF addr \in DOMAIN csr THEN csr[addr] ELSE 0
csr_new_val ==
  LET a == csr_inflight.addr
      bits(old, src) == CASE csr_inflight.op = "write" -> src
                          [] csr_inflight.op = "set"   -> old \cup src
                          [] csr_inflight.op = "clear" -> old \ src
  IN  CASE a = "mstatus" -> [mstatus EXCEPT !.MIE = (csr_inflight.op = "set")]
        [] a = "mie"     -> bits(mie, csr_wdata_final)
        [] OTHER -> LSQ!Word(bits(LSQ!Bits(csr[a]), csr_wdata_final))

csr_write ==
  IF csr_write_fire THEN [en |-> TRUE, addr |-> csr_inflight.addr, val |-> csr_new_val]
  ELSE CSRs!NoWrite

interrupt_pending(irq) == mstatus.MIE /\ mie \cap irq # {}
interrupt_take(irq) == interrupt_pending(irq) /\ Ren!ROB!rob_empty
interrupt_cause(irq) ==
  LET p == mie \cap irq
  IN  IF CSRs!MEI \in p THEN CSRs!MEI ELSE IF CSRs!MSI \in p THEN CSRs!MSI ELSE CSRs!MTI

csr_mret_taken == trap_resolve /\ trap_inflight.is_mret
csr_trap_taken(irq) == (trap_resolve /\ ~trap_inflight.is_mret) \/ interrupt_take(irq)
csr_trap(irq) ==
  IF interrupt_take(irq)
  THEN [pc |-> pc_r, cause |-> interrupt_cause(irq), is_interrupt |-> TRUE, value |-> 0]
  ELSE IF trap_resolve
  THEN [pc |-> trap_inflight.pc, cause |-> trap_inflight.cause, is_interrupt |-> FALSE,
        value |-> 0]
  ELSE CSRs!NoTrap

dispatch_stall(d0, irq) ==
  \/ d0 = Halt
  \/ IF is_mem_op(d0) THEN LSQ!lsq_full ELSE IF is_div_op(d0) THEN RSD!rs_full ELSE RSA!rs_full
  \/ br_inflight.valid
  \/ trap_inflight.valid
  \/ jr_inflight.valid
  \/ csr_inflight.valid
  \/ interrupt_pending(irq)

\* predicted is the pc that Bht.v and Btb.v offer: hit says whether there is one.
pc_next(go0, go1, d0, hit, predicted, irq) ==
  IF interrupt_take(irq) THEN csr["mtvec"]
  ELSE IF trap_resolve THEN (IF csr_trap_taken(irq) THEN csr["mtvec"] ELSE csr["mepc"])
  ELSE IF br_resolve /\ br_mispredict THEN br_correct_target
  ELSE IF jr_resolve /\ jr_mispredict THEN jr_target
  ELSE IF ~go0 THEN pc_r
  ELSE IF d0.op = "jal" THEN d0.target
  ELSE IF d0.op \in {"beq", "jalr"} /\ hit THEN predicted
  ELSE IF go1 THEN pc_r + 2 ELSE pc_r + 1

(***************************************************************************)
(* What dispatch puts into a reservation station or the queue.             *)
(***************************************************************************)
rs_entry(i, pc, src1, ready1, src2, ready2, dest, tag) ==
  [valid |-> TRUE, src1_preg |-> src1, src1_ready |-> ready1,
   src2_preg |-> src2, src2_ready |-> ready2, dest_preg |-> dest, rob_tag |-> tag,
   use_forced_a |-> i.op \in {"lui", "jal", "jalr", "csr"},
   use_link_b |-> i.op \in {"jal", "jalr"},
   forced_a_value |-> IF i.op = "lui" THEN 0 ELSE IF i.op = "csr" THEN csr_rdata(i.addr)
                      ELSE pc % 2^XLEN,
   alusrc |-> i.op \in {"addi", "lui", "jalr"}, imm |-> i.imm,
   select_rem |-> i.op = "remu"]

lsq_entry(i, base, base_ready, data, data_ready, dest, tag) ==
  [valid |-> TRUE, op |-> i.op, amo_op |-> i.amo_op, base_preg |-> base,
   base_ready |-> base_ready, imm |-> i.imm, data_preg |-> data,
   data_ready |-> data_ready, dest_preg |-> dest, rob_tag |-> tag]

\* Slot 1 of a bundle takes a source that slot 0 writes from slot 0's fresh
\* register, not ready; every other source from the alias table.
from_slot0(d0, r) == Ren!needs_dest(d0) /\ r = d0.rd

(***************************************************************************)
(* What is in flight alone: set at dispatch, cleared when it resolves.     *)
(***************************************************************************)
br_inflight_next(go0, d0, hit, predicted) ==
  IF go0 /\ d0.op = "beq"
  THEN [valid |-> TRUE, rob_tag |-> Ren!ROB!alloc_tag0, pc |-> pc_r, target |-> d0.target,
        predicted_taken |-> hit, predicted_target |-> predicted]
  ELSE IF br_resolve THEN Nothing ELSE br_inflight

jr_inflight_next(go0, d0, hit, predicted) ==
  IF go0 /\ d0.op = "jalr"
  THEN [valid |-> TRUE, rob_tag |-> Ren!ROB!alloc_tag0, imm |-> d0.imm,
        predicted_target |-> IF hit THEN predicted ELSE pc_r + 1]
  ELSE IF jr_resolve THEN Nothing ELSE jr_inflight

trap_inflight_next(go0, d0) ==
  IF go0 /\ is_trap_related(d0)
  THEN [valid |-> TRUE, is_mret |-> d0.op = "mret", pc |-> pc_r,
        cause |-> IF d0.op = "ecall" THEN ISS!ECALL_FROM_M ELSE ISS!ILLEGAL_INSTRUCTION,
        rob_tag |-> Ren!ROB!alloc_tag0]
  ELSE IF trap_resolve THEN Nothing ELSE trap_inflight

csr_inflight_next(go0, d0) ==
  IF go0 /\ d0.op = "csr"
  THEN [valid |-> TRUE, rob_tag |-> Ren!ROB!alloc_tag0, addr |-> d0.addr, op |-> d0.csr_op,
        is_imm |-> d0.is_imm, uimm |-> d0.uimm]
  ELSE IF csr_write_fire THEN Nothing ELSE csr_inflight

Cycle(hit, predicted, mem_stall_ext, irq) ==
  LET d0    == fetch(pc_r)
      d1    == fetch(pc_r + 1)
      stall == dispatch_stall(d0, irq)
      rs_room == RSA!rs_count <= RS_ALU_ENTRIES - 2
      go0   == Ren!do_dispatch(d0, stall)
      go1   == Ren!do_dispatch_slot1(d0, d1, stall, rs_room)
      preg0 == IF Ren!needs_dest(d0) THEN Ren!FL!alloc_preg0 ELSE 0
      preg1 == IF Ren!needs_dest(d1) THEN Ren!FL!alloc_preg1(Ren!needs_dest(d0)) ELSE 0
      src(r)    == Ren!RAT!rpreg(r)
      ready(r)  == PRF!rvalid(src(r), w)
      src1(r)   == IF from_slot0(d0, r) THEN preg0 ELSE src(r)
      ready1(r) == ~from_slot0(d0, r) /\ ready(r)
      entry0 == rs_entry(d0, pc_r, src(d0.rs1), ready(d0.rs1), src(d0.rs2),
                         ready(d0.rs2), preg0, Ren!ROB!alloc_tag0)
      entry1 == rs_entry(d1, pc_r + 1, src1(d1.rs1), ready1(d1.rs1), src1(d1.rs2),
                         ready1(d1.rs2), preg1, Ren!ROB!alloc_tag1(TRUE))
      lentry == lsq_entry(d0, src(d0.rs1), ready(d0.rs1), src(d0.rs2), ready(d0.rs2),
                          preg0, Ren!ROB!alloc_tag0)
      allocs == (IF go0 /\ Ren!needs_dest(d0) THEN {preg0} ELSE {})
                  \cup (IF go1 /\ Ren!needs_dest(d1) THEN {preg1} ELSE {})
      base  == IF LSQ!head_present THEN PRF!rdata(LSQ!head.base_preg, w) ELSE 0
      data  == IF LSQ!head_present THEN PRF!rdata(LSQ!head.data_preg, w) ELSE 0
      g1    == ISS!step(golden, d0)
  IN  /\ Ren!Clock(d0, d1, stall, rs_room, completes, {})
      /\ PRF!Cycle(allocs, w)
      /\ RSA!Cycle(go0 /\ ~is_mem_op(d0) /\ ~is_div_op(d0), entry0, go1, entry1,
                   cdb, cdb, TRUE)
      /\ RSD!Cycle(go0 /\ is_div_op(d0), entry0, FALSE, entry1, cdb, cdb, div_start)
      /\ IF div_start
         THEN /\ DIV!Cycle(TRUE, FALSE, PRF!rdata(RSD!issue.src1_preg, w),
                           PRF!rdata(RSD!issue.src2_preg, w))
              /\ div_inflight' = [preg |-> RSD!issue.dest_preg, rob_tag |-> RSD!issue.rob_tag,
                                  select_rem |-> RSD!issue.select_rem]
         ELSE /\ DIV!Cycle(FALSE, FALSE, 0, 0)
              /\ UNCHANGED div_inflight
      /\ LSQ!Cycle(go0 /\ is_mem_op(d0), lentry, cdb, mem_stall_ext, FALSE, MEM!readData)
      /\ MEM!Cycle(LSQ!mem_memRead(mem_stall_ext), LSQ!mem_memWrite(mem_stall_ext),
                   IF LSQ!head_present THEN LSQ!mem_address(base) ELSE 0,
                   IF LSQ!head_present THEN LSQ!mem_writeData(data) ELSE 0)
      /\ CSRs!Cycle(csr_write, csr_trap_taken(irq), csr_trap(irq), csr_mret_taken, FALSE)
      /\ pc_r' = pc_next(go0, go1, d0, hit, predicted, irq)
      /\ br_inflight' = br_inflight_next(go0, d0, hit, predicted)
      /\ jr_inflight' = jr_inflight_next(go0, d0, hit, predicted)
      /\ trap_inflight' = trap_inflight_next(go0, d0)
      /\ csr_inflight' = csr_inflight_next(go0, d0)
      /\ golden' = IF interrupt_take(irq) THEN ISS!trap(golden, interrupt_cause(irq), TRUE)
                   ELSE IF go1 THEN ISS!step(g1, d1) ELSE IF go0 THEN g1 ELSE golden
      /\ want' = [p \in Preg |->
                    IF go1 /\ Ren!needs_dest(d1) /\ p = preg1 THEN ISS!result(g1, d1)
                    ELSE IF go0 /\ Ren!needs_dest(d0) /\ p = preg0 THEN ISS!result(golden, d0)
                    ELSE want[p]]
      /\ UNCHANGED prog

\* A prediction matters in the cycle that dispatches a branch or a jalr.
Predictions ==
  IF fetch(pc_r).op \in {"beq", "jalr"}
  THEN {<<FALSE, 0>>} \cup {<<TRUE, t>> : t \in DOMAIN prog \cup {Cardinality(DOMAIN prog)}}
  ELSE {<<FALSE, 0>>}

Next == \E p \in Predictions, mem_stall_ext \in MemStalls, irq \in SUBSET (Lines \cap mie) :
          Cycle(p[1], p[2], mem_stall_ext, irq)

Spec == Init /\ [][Next]_vars
LiveSpec == Spec /\ WF_vars(Next)

-----------------------------------------------------------------------------
TypeOK ==
  /\ Ren!TypeOK
  /\ regs \in [Preg -> Word] /\ valid \in [Preg -> BOOLEAN]
  /\ data_memory \in [Word -> Word] /\ raw_word_r \in Word /\ amo_old_value_r \in Word
  /\ lsq_count \in 0 .. LSQ_ENTRIES /\ lsq_head \in LSQ!Index /\ lsq_tail \in LSQ!Index
  /\ golden.regs \in [Areg -> Word] /\ golden.mem \in [Word -> Word]

\* Out-of-order execution computes what in-order execution does: a physical
\* register that is mapped or being renamed holds, once its valid bit is set, the
\* value the golden model gives its producer, and the speculative map names for
\* each register the producer of its latest value in program order.
RegistersFollowIss ==
  /\ \A p \in Ren!Mapped \cup Ren!Renaming : valid[p] => regs[p] = want[p]
  /\ \A a \in Areg : want[spec_map[a]] = golden.regs[a]

\* An instruction retires only with its result written: the registers that
\* arch_map names are always complete.
RetiredIsWritten == \A a \in Areg : valid[arch_map[a]]

\* Memory operations take effect in program order, each one once: with the
\* queue empty, data memory is the golden model's.
MemoryFollowsIss == lsq_count = 0 => data_memory = golden.mem

\* No instruction from a mispredicted path, or behind a trap, is dispatched:
\* whenever dispatch is not held by a branch, a jalr or a trap in flight, fetch
\* is where the program goes, and an interrupt's mepc is where it was going.
RightPath ==
  ~br_inflight.valid /\ ~jr_inflight.valid /\ ~trap_inflight.valid => pc_r = golden.pc

\* Traps, returns and csrrX instructions reach CSR.v once each and in program
\* order, though the first two act at retire and the last one when it issues:
\* between them, the privileged state is the golden model's.
CsrsFollowIss ==
  ~trap_inflight.valid /\ ~csr_inflight.valid =>
    /\ csr = golden.csr
    /\ mstatus = golden.mstatus
    /\ mie = golden.mie
    /\ priv_mode = golden.priv

\* OOOCore.v:1405-1407: dispatch stalls for a trap-related instruction "until it
\* retires".  It does retire, so dispatch is released.
TrapsResolve == trap_inflight.valid ~> ~trap_inflight.valid

\* The assertions of PhysicalRegisterFile.v:253-258: two completions in one
\* cycle never write the same register.
NoWriteCollision == PRF!NoWriteCollision(w)

\* An operand is read only when its producer has written it, in this cycle at
\* the latest: OOOCore.v's execute section takes it for "always live, never garbage, data".
OperandsAreLive ==
  /\ RSA!issue_valid => /\ RSA!issue.use_forced_a \/ PRF!rvalid(RSA!issue.src1_preg, w)
                        /\ RSA!issue.alusrc \/ PRF!rvalid(RSA!issue.src2_preg, w)
                        /\ RSA!issue.dest_preg # 0 =>
                             RSA!issue.dest_preg \notin {RSA!issue.src1_preg, RSA!issue.src2_preg}
  /\ div_start => PRF!rvalid(RSD!issue.src1_preg, w) /\ PRF!rvalid(RSD!issue.src2_preg, w)
  /\ LSQ!head_want_access =>
       /\ PRF!rvalid(LSQ!head.base_preg, w)
       /\ LSQ!head_needs_data => PRF!rvalid(LSQ!head.data_preg, w)

\* The architectural state of OOOCore.v is the golden model's.
FollowsIss == RegistersFollowIss /\ MemoryFollowsIss /\ CsrsFollowIss

\* The physical registers of OOOCore.v are typed, written by one port at a time,
\* read only after they are written, and complete when they retire.
CoreInv == TypeOK /\ RetiredIsWritten /\ NoWriteCollision /\ OperandsAreLive

\* The core implements Rename: its completions are a case of Rename's arbitrary
\* ones, memory operations in program order, and nothing else touches the maps.
ImplementsRename == Ren!Spec

\* Every instruction that is dispatched retires: no operand's wakeup is missed,
\* and the queues never wait for each other.
EventuallyRetires ==
  \A t \in Ren!ROB!Tag :
    e_valid[t] ~> (\/ Ren!ROB!retire_valid0 /\ t = rob_head
                   \/ Ren!ROB!retire_valid1 /\ t = Ren!ROB!head1_idx)
=============================================================================
