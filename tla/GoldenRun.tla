------------------------------ MODULE GoldenRun ------------------------------
(***************************************************************************)
(* The golden model at work: random_gen.py writes a program (or one is     *)
(* given), asm.py assembles it, ISS.run executes it with the interrupt the *)
(* generator scheduled, and the debugger then runs the same program, which *)
(* it does without interrupts.                                             *)
(***************************************************************************)
EXTENDS RandomGen

CONSTANTS Directed,             \* programs [text, info, xlen, mem_size]
          Configs,              \* arguments of gen_program
          BreakAddrs, StepCounts, MaxCommands,      \* the debugger's user
          max_steps,            \* of run and run_until
          ext_result(_, _, _), f_result(_, _, _, _, _), Err

VARIABLES words,        \* the assembled program
          run,          \* ISS.run: [m, steps, pending, status], and the parity of its turns
          dbg,          \* the debugger
          commands      \* given to it so far

vars == <<cfg, instrs, text, info, words, run, dbg, commands>>

As == INSTANCE Asm
D32 == INSTANCE IssMachine WITH xl <- 32
D64 == INSTANCE IssMachine WITH xl <- 64

Generated == cfg.n > 0
GivenConfig(p) == [n |-> 0, mem_size |-> p.mem_size, interrupt |-> "none", mmu |-> FALSE, xlen |-> p.xlen, ooo |-> FALSE]

Init ==
  /\ \/ GenInit(Configs)
     \/ \E p \in Directed : cfg = GivenConfig(p) /\ instrs = <<>> /\ text = p.text /\ info = p.info
  /\ words = <<>> /\ run = [status |-> "none"] /\ dbg = [mode |-> "none"] /\ commands = 0

Generate == (DrawInstruction \/ EmitProgram) /\ UNCHANGED <<words, run, dbg, commands>>

Assemble ==
  /\ text # NoText /\ run.status = "none"
  /\ LET w == As!assemble(text, cfg.xlen)
     IN IF w = Err \/ 4 * Len(w) > cfg.mem_size THEN run' = [status |-> "not assembled"] /\ UNCHANGED words
        ELSE /\ words' = w
             /\ run' = [m |-> D32!reset(cfg.mem_size), steps |-> 0, pending |-> info, status |-> "running", turn |-> 0]
  /\ UNCHANGED <<cfg, instrs, text, info, dbg, commands>>

RunTurn ==
  /\ run.status = "running"
  /\ LET r == IF cfg.xlen = 32 THEN D32!run_turn(run, words, cfg.mem_size) ELSE D64!run_turn(run, words, cfg.mem_size)
     IN run' = [r EXCEPT !.turn = 1 - @]
  /\ UNCHANGED <<cfg, instrs, text, info, words, dbg, commands>>

Finished == run.status \in {"halted", "end", "RuntimeError", "ValueError"}

StartDebugger ==
  /\ Finished /\ dbg.mode = "none"
  /\ dbg' = D32!new_debugger(cfg.mem_size)
  /\ UNCHANGED <<cfg, instrs, text, info, words, run, commands>>

\* On a generated program the user only says `continue`.
Command(next) ==
  /\ dbg.mode = "prompt" /\ commands < (IF Generated THEN 1 ELSE MaxCommands)
  /\ dbg' = next /\ commands' = commands + 1
  /\ UNCHANGED <<cfg, instrs, text, info, words, run>>
Continue == Command(D32!continue_command(dbg))
Restart == ~Generated /\ Command(D32!restart(dbg))
StepCommand == ~Generated /\ \E n \in StepCounts : Command(IF cfg.xlen = 32 THEN D32!step_command(dbg, n, words, cfg.mem_size) ELSE D64!step_command(dbg, n, words, cfg.mem_size))
Break == ~Generated /\ \E a \in BreakAddrs : Command(D32!add_breakpoint(dbg, a))
Delete == ~Generated /\ \E a \in BreakAddrs : Command(D32!delete_breakpoint(dbg, a))

ContinueTurn ==
  /\ dbg.mode = "continue"
  /\ dbg' = IF cfg.xlen = 32 THEN D32!continue_turn(dbg, words, cfg.mem_size) ELSE D64!continue_turn(dbg, words, cfg.mem_size)
  /\ UNCHANGED <<cfg, instrs, text, info, words, run, commands>>

Next ==
  \/ Generate \/ Assemble \/ RunTurn \/ StartDebugger
  \/ Continue \/ Restart \/ StepCommand \/ Break \/ Delete \/ ContinueTurn

Spec == Init /\ [][Next]_vars
\* The loops of gen_program, run and run_until do not pause; the user may.
\* While one of them is working no other action is enabled, and each of their
\* steps changes a variable, so this is weak fairness of Generate, Assemble,
\* RunTurn and ContinueTurn.
Working ==
  \/ text = NoText /\ ~refused(cfg)
  \/ text # NoText /\ run.status \in {"none", "running"}
  \/ dbg.mode = "continue"
Fairness == []<>(~Working) \/ []<><<TRUE>>_vars
FairSpec == Spec /\ Fairness

-----------------------------------------------------------------------------
Val(a) == D32!ValueOf(a)
Running == run.status = "running"
Current == D32!word_at(words, run.m.pc)
Decoded == D32!Dc!decode(Current, cfg.xlen)
BodyStart ==
  4 * (1 + Len(seed_lines(cfg))
       + (IF cfg.mmu THEN Len(mmu_prefix(cfg))
          ELSE IF cfg.interrupt # "none" THEN Len(source_prefix(cfg.interrupt, 1, 0)) ELSE 0))

(***************************************************************************)
(* A generated program only moves forward ("random_gen.py only ever        *)
(* generates forward-only branches/jumps", iss.py run): every turn of run  *)
(* raises pc, except the handler's mret, which goes back to the            *)
(* interrupted instruction.  A trap of any other kind would go to mtvec's  *)
(* reset value 0 and restart the program.                                  *)
(***************************************************************************)
ForwardOnly ==
  [][Generated /\ Running /\ run'.status = "running" =>
       \/ Val(run'.m.pc) > Val(run.m.pc)
       \/ /\ cfg.interrupt # "none" /\ info # {}
          /\ Val(run.m.pc) = 4 * (Len(words) - 1) /\ run'.m.pc = run.m.csr[\h341]]_vars

(***************************************************************************)
(* Every load and store of a generated body, whose base register x31 no    *)
(* drawn instruction may disturb, stays between base_addr and the end of   *)
(* the address space of its mode: no access wraps through mem_mask, and    *)
(* none reaches the page tables.                                           *)
(***************************************************************************)
Accesses == DOMAIN D32!Bytes_of
AccessesInBounds ==
  Generated /\ Running /\ Val(run.m.pc) >= BodyStart /\ Decoded.mn \in Accesses =>
    LET addr == Val(run.m.regs[Current.rs1]) + Decoded.imm
    IN base_addr <= addr /\ addr + D32!Bytes_of[Decoded.mn] <= addr_space(cfg)

(***************************************************************************)
(* The constants a generated program starts from are built: whichever way  *)
(* const_to_reg_instrs puts a pattern together (lui and a sign-corrected   *)
(* addi, or addi and slli only), the float registers hold the seed         *)
(* patterns, x29 the 64-bit pattern and x31 the base when the body begins. *)
(***************************************************************************)
SeedsBuilt ==
  Generated /\ Running /\ Val(run.m.pc) = BodyStart =>
    /\ run.m.regs[BASE_REG] = Bits(base_addr)
    /\ \A i \in DOMAIN FLOAT_SEED_BITS : run.m.fregs[i] = FLOAT_SEED_BITS[i]
    /\ cfg.xlen = 64 => run.m.regs[29] = WIDE

\* satp selects translation, and the pages a program uses map to themselves.
Identity ==
  /\ (IF cfg.xlen = 32 THEN D32!translates(run.m) ELSE D64!translates(run.m))
  /\ \A a \in {run.m.pc, Bits(base_addr), Bits(4092)}, access \in {"fetch", "load", "store"} :
       LET t == IF cfg.xlen = 32 THEN D32!translate(run.m, a, access) ELSE D64!translate(run.m, a, access) IN t.ok /\ t.addr = a

(***************************************************************************)
(* Under mmu=True the body runs in U-mode through a page table that maps   *)
(* its page to itself with every permission, and goes on doing so whatever *)
(* the body stores ("every generated access is guaranteed mapped and       *)
(* permitted", gen_program).  For Sv32; UserModeTranslates is the same     *)
(* for either width.                                                       *)
(***************************************************************************)
IdentityMapped == Generated /\ cfg.mmu /\ cfg.xlen = 32 /\ Running /\ run.m.priv_mode = 0 => Identity

(***************************************************************************)
(* "every one of them (fetch, load, store) is a genuinely translated       *)
(* access" (gen_program, on mmu=True), at either width.                    *)
(***************************************************************************)
UserModeTranslates == Generated /\ cfg.mmu /\ Running /\ run.m.priv_mode = 0 => Identity

\* What the cross-check compares, and mscratch.
Compared(m) == [regs |-> m.regs, fregs |-> m.fregs, mem |-> m.mem, frm |-> m.frm, fflags |-> m.fflags, mscratch |-> m.csr[mscratch]]
Ended == dbg.mode = "prompt" /\ dbg.status \in {"halted (self-loop)", "end of program"}

(***************************************************************************)
(* The interrupt of a generated program leaves no trace: after the handler *)
(* (mie <- 0, mret) the final registers and memory are those of the same   *)
(* program run without it, whichever instruction it interrupted ("the      *)
(* final architectural state after the whole program runs is identical     *)
(* regardless of exactly which cycle interrupted it", gen_program).        *)
(***************************************************************************)
InterruptTransparent ==
  Ended /\ info # {} =>
    /\ run.status = "halted" /\ run.pending = {}
    /\ Compared(run.m) = Compared(dbg.m) /\ run.m.pc = dbg.m.pc

(***************************************************************************)
(* The debugger shows the execution run() performs: however its user       *)
(* steps, continues, stops at breakpoints and restarts, a program that     *)
(* ends in it ends for the same reason and in the same state as in run().  *)
(***************************************************************************)
DebuggerAgrees ==
  Ended /\ info = {} =>
    /\ run.status = (IF dbg.status = "end of program" THEN "end" ELSE "halted")
    /\ run.m = dbg.m

(***************************************************************************)
(* `continue` stops in front of a breakpoint: past its first step, which   *)
(* makes progress off a breakpoint it starts on, it never executes an      *)
(* instruction at an address that has one.                                 *)
(***************************************************************************)
BreakpointStops ==
  dbg.mode = "continue" \/ (dbg.mode = "prompt" /\ dbg.status # "") =>
    /\ \A j \in dbg.from + 2 .. Len(dbg.history) : dbg.history[j] \notin dbg.breakpoints
    /\ dbg.mode = "prompt" /\ dbg.status = "breakpoint hit" => Val(dbg.m.pc) \in dbg.breakpoints

(***************************************************************************)
(* A generated program reaches its self-loop: it assembles into the memory *)
(* the budget check allowed it, no instruction of it raises in step(), and *)
(* run() neither runs off the end nor runs away.  The budget leaves out    *)
(* the trailing fence, so that it has to have a word to spare.             *)
(***************************************************************************)
GeneratedHalts == (Generated /\ ~refused(cfg) /\ budget(cfg) < cfg.mem_size \div 4) ~> run.status = "halted"

\* The body of a generated program starts from the constants its prefix built
\* and stays within the memory and the pages gen_program set up for it.
BodyConfined == AccessesInBounds /\ SeedsBuilt /\ IdentityMapped

\* debugger.py shows the execution of ISS.run, and stops it where it is told.
DebuggerFaithful == DebuggerAgrees /\ BreakpointStops
=============================================================================
