------------------------------ MODULE Profiler -------------------------------
(***************************************************************************)
(* sim/tools/profiler.py: it inserts counter reads (and, for the second    *)
(* run, reprogramming writes) into a kernel's source, and names what the   *)
(* dumped registers hold.  The counters it reads are design/CSR.v's        *)
(* mhpmcounter3-11.  Every statement executed pulses every event once, so  *)
(* a counter is the set of <<line, event>> it has counted since it was     *)
(* last written.                                                           *)
(***************************************************************************)
EXTENDS Integers, Sequences, SequencesExt

MCYCLE == \hB00
MINSTRET == \hB02
MHPMCOUNTER3_BASE == \hB03
MHPMEVENT3_BASE == \h323
NUM_HPM == 9
STALL_CAUSE_NAMES == <<"hazard", "div", "mem", "fp", "float_lu", "itlb", "dtlb", "icache", "imem_wait">>
ORIGINAL_EVENT_NAMES ==
  <<"branches_retired", "mispredicts", "icache_hit", "icache_miss", "dcache_hit", "dcache_miss", "stall_aggregate", "interrupts", "exceptions">>
MIX_BUCKETS ==
  [branch |-> {"beq", "bne", "blt", "bge", "ble", "bgt"}, jump |-> {"jal", "jalr"}, load |-> {"lw", "lh", "lb", "lhu", "lbu", "flw"},
   store |-> {"sw", "sh", "sb", "fsw"}, muldiv |-> {"mul", "mulh", "mulhsu", "mulhu", "div", "divu", "rem", "remu"},
   fp |-> {"fadd.s", "fsub.s", "fmul.s", "fdiv.s", "fsqrt.s", "fmadd.s", "fmsub.s", "fnmadd.s", "fnmsub.s", "fcvt.w.s", "fcvt.wu.s",
           "fcvt.s.w", "fcvt.s.wu", "fmv.x.w", "fmv.w.x", "fclass.s", "feq.s", "flt.s", "fle.s", "fmin.s", "fmax.s"},
   csr |-> {"csrrw", "csrrs", "csrrc", "csrrwi", "csrrsi", "csrrci"},
   system |-> {"ecall", "ebreak", "mret", "sret", "sfence.vma", "fence", "nop"}]

-----------------------------------------------------------------------------
(* A line is [label] or [mn, rd, csr, imm].                                *)
IsLabel(line) == "label" \in DOMAIN line
Halt == [label |-> "halt"]
csrrs(rd, addr) == [mn |-> "csrrs", rd |-> rd, csr |-> addr, imm |-> 0]
csrrwi(addr, uimm) == [mn |-> "csrrwi", rd |-> 0, csr |-> addr, imm |-> uimm]
csrrw_zero(addr) == [mn |-> "csrrw", rd |-> 0, csr |-> addr, imm |-> 0]
Each(Op(_)) == [k \in 1 .. NUM_HPM |-> Op(k - 1)]

has_halt(lines) == \E k \in DOMAIN lines : IsLabel(lines[k]) /\ lines[k] = Halt
insert_before_halt(lines, new_lines) ==
  LET k == CHOOSE k \in DOMAIN lines : IsLabel(lines[k]) /\ lines[k] = Halt /\ \A j \in 1 .. k - 1 : ~(IsLabel(lines[j]) /\ lines[j] = Halt)
  IN SubSeq(lines, 1, k - 1) \o new_lines \o SubSeq(lines, k, Len(lines))
build_run_a(lines) ==
  LET read(i) == csrrs(21 + i, MHPMCOUNTER3_BASE + i)
  IN insert_before_halt(lines, <<csrrs(19, MCYCLE), csrrs(20, MINSTRET)>> \o Each(read))
build_run_b_not_zeroed(lines) ==
  LET program(i) == csrrwi(MHPMEVENT3_BASE + i, 10 + i)
      read(i) == csrrs(19 + i, MHPMCOUNTER3_BASE + i)
  IN Each(program) \o insert_before_halt(lines, Each(read))
build_run_b(lines) ==
  LET program(i) == csrrwi(MHPMEVENT3_BASE + i, 10 + i)
      zero(i) == csrrw_zero(MHPMCOUNTER3_BASE + i)
      read(i) == csrrs(19 + i, MHPMCOUNTER3_BASE + i)
  IN Each(program) \o Each(zero) \o insert_before_halt(lines, Each(read))

\* profile_kernel: the name under which each dumped register is reported.
reported_a(r) == CASE r = 19 -> "mcycle" [] r = 20 -> "minstret" [] r \in 21 .. 29 -> ORIGINAL_EVENT_NAMES[r - 20]
reported_b(r) == STALL_CAUSE_NAMES[r - 18]

bucket(mn) == LET in == {b \in DOMAIN MIX_BUCKETS : mn \in MIX_BUCKETS[b]} IN IF in = {} THEN "alu" ELSE CHOOSE b \in in : TRUE
classify_mix(lines) ==
  LET stmts == SelectSeq(lines, LAMBDA x : ~IsLabel(x))
  IN [b \in DOMAIN MIX_BUCKETS \cup {"alu"} |-> Len(SelectSeq(stmts, LAMBDA x : bucket(x.mn) = b))]

-----------------------------------------------------------------------------
(* CSR.v's counters: m is [count, event], both indexed by counter.         *)
hpm_event_pulse ==
  <<"branches_retired", "mispredicts", "icache_hit", "icache_miss", "dcache_hit", "dcache_miss", "stall_aggregate", "interrupts", "exceptions",
    "hazard", "div", "mem", "fp", "float_lu", "itlb", "dtlb", "icache", "imem_wait">>
reset_counters ==
  [cycle |-> {}, instret |-> {}, count |-> [i \in 0 .. NUM_HPM - 1 |-> {}], event |-> [i \in 0 .. NUM_HPM - 1 |-> i + 1]]
csr_write_en(line) == line.mn \in {"csrrw", "csrrwi"}
counted(m, k, line) ==
  [cycle |-> m.cycle \cup {<<k, "mcycle">>}, instret |-> m.instret \cup {<<k, "minstret">>},
   count |-> [i \in 0 .. NUM_HPM - 1 |->
                IF csr_write_en(line) /\ line.csr = MHPMCOUNTER3_BASE + i THEN {}
                ELSE IF m.event[i] # 0 THEN m.count[i] \cup {<<k, hpm_event_pulse[m.event[i]]>>} ELSE m.count[i]],
   event |-> [i \in 0 .. NUM_HPM - 1 |-> IF csr_write_en(line) /\ line.csr = MHPMEVENT3_BASE + i THEN line.imm ELSE m.event[i]]]
csr_rdata(m, addr) == CASE addr = MCYCLE -> m.cycle [] addr = MINSTRET -> m.instret [] OTHER -> m.count[addr - MHPMCOUNTER3_BASE]

\* One statement of the instrumented program; x is [lines, k, regs, m].
Reads(line) == ~IsLabel(line) /\ line.mn = "csrrs"
ran(x) ==
  LET line == x.lines[x.k]
      n == [x EXCEPT !.k = @ + 1, !.regs = IF Reads(line) THEN [@ EXCEPT ![line.rd] = csr_rdata(x.m, line.csr)] ELSE @]
  IN IF IsLabel(line) THEN n ELSE [n EXCEPT !.m = counted(@, x.k, line)]
=============================================================================
