----------------------------- MODULE MCOOOCore ------------------------------
(***************************************************************************)
(* Instances of OOOCore for TLC: every program of a given length over a    *)
(* small set of instructions on the registers x0, x1 and x2.               *)
(***************************************************************************)
EXTENDS OOOCore

I(class, op, rd, s1, s2, imm) ==
  [class |-> class, op |-> op, regWrite |-> op \notin {"store", "beq"}, rd |-> rd,
   rs1 |-> s1, rs2 |-> s2, imm |-> imm, amo_op |-> "add", target |-> 0]

\* A csrrX instruction.  Bits 24:20, where other instructions name rs2, are the
\* low bits of the CSR's address.
Csr(csr_op, rd, addr, s1) ==
  [class |-> "other", op |-> "csr", regWrite |-> TRUE, rd |-> rd, rs1 |-> s1,
   rs2 |-> [mstatus |-> 0, mie |-> 4, mtvec |-> 5, mscratch |-> 0, mepc |-> 1][addr]
             % NUM_AREGS,
   imm |-> 0, amo_op |-> "add", target |-> 0, addr |-> addr, csr_op |-> csr_op,
   is_imm |-> FALSE, uimm |-> {}]
Csri(csr_op, addr, uimm) ==
  [Csr(csr_op, 0, addr, 0) EXCEPT !.is_imm = TRUE, !.uimm = uimm]

Sys(op, s2) == [I("other", op, 0, 0, s2, 0) EXCEPT !.regWrite = FALSE]

Jump(op, rd, s1, s2, to) == [I("other", op, rd, s1, s2, to) EXCEPT !.target = to]

\* Programs without the bundle that double-allocates (see MCRename): an ALU
\* operation always writes a register.
Arithmetic ==
  { I("alu", "addi", 1, 1, 2, 3), I("alu", "add", 2, 1, 2, 0), I("alu", "add", 2, 2, 2, 0),
    I("other", "divu", 1, 2, 1, 0), I("other", "remu", 2, 2, 1, 0) }
Memory ==
  { I("mem", "load", 1, 2, 0, 0), I("mem", "store", 0, 2, 1, 0),
    I("mem", "amo", 2, 2, 1, 0), I("mem", "sc", 1, 0, 2, 5) }
Control ==
  { Jump("beq", 0, 1, 0, 3), Jump("beq", 0, 1, 2, 2), Jump("jal", 1, 0, 0, 2),
    Jump("jalr", 2, 1, 0, 2) }

Straight   == Arithmetic \cup Memory
StraightFew == { I("alu", "addi", 1, 1, 2, 3), I("alu", "add", 2, 2, 2, 0),
                 I("other", "divu", 1, 2, 1, 0), I("mem", "load", 1, 2, 0, 0),
                 I("mem", "store", 0, 2, 1, 0) }
Branching  == Control \cup { I("alu", "addi", 1, 1, 2, 3), I("other", "divu", 1, 2, 1, 0),
                             I("mem", "load", 1, 2, 0, 0), I("mem", "store", 0, 2, 1, 0) }
BranchingFew == { Jump("beq", 0, 1, 0, 3), Jump("jalr", 2, 1, 0, 2),
                  I("alu", "addi", 1, 1, 2, 3), I("other", "divu", 1, 2, 1, 0),
                  I("mem", "load", 1, 2, 0, 0) }
Mixed      == { I("alu", "addi", 1, 1, 2, 3), I("alu", "add", 2, 1, 2, 0),
                I("other", "divu", 1, 2, 1, 0), I("mem", "load", 1, 2, 0, 0),
                I("mem", "store", 0, 2, 1, 0), Jump("beq", 0, 1, 2, 2) }

(***************************************************************************)
(* Programs with a trap handler at 5, which returns with mret: mtvec is    *)
(* set first, and the program ends at 4.  Nothing else executes mret, so   *)
(* the core stays in machine mode, the only mode OOOCore.v supports.       *)
(***************************************************************************)
Main == { I("alu", "addi", 1, 1, 2, 3), I("mem", "load", 1, 2, 0, 0),
          I("mem", "store", 0, 2, 1, 0), I("other", "divu", 1, 2, 1, 0), Sys("ecall", 0), Sys("illegal", 0),
          Csr("write", 1, "mscratch", 1), Csr("set", 0, "mscratch", 1),
          Csri("set", "mstatus", {3}), Csri("write", "mie", {3}) }
MainFew == { I("mem", "load", 1, 2, 0, 0), Sys("ecall", 0),
             Csri("set", "mstatus", {3}), Csri("write", "mie", {3}) }
Handler == { I("alu", "addi", 1, 1, 2, 3), Csr("write", 1, "mscratch", 1),
             Csr("write", 1, "mscratch", 2), Csri("clear", "mie", {3}) }
HandlerFew == { Csri("clear", "mie", {3}) }

WithHandler(n, main, handler) ==
  { [i \in (0 .. n) \cup {5, 6} |->
       CASE i = 0 -> Csri("write", "mtvec", {0, 2})
         [] i = 5 -> h
         [] i = 6 -> Sys("mret", 2)
         [] OTHER -> m[i]] : m \in [1 .. n -> main], h \in handler }

Trapping  == Main \cup Handler \cup {Csri("write", "mtvec", {0, 2}), Sys("mret", 2)}
Traps3    == WithHandler(3, MainFew, HandlerFew)
Traps2    == WithHandler(2, Main, Handler)

Length3 == [0 .. 2 -> Insts]

AllInsts == Straight \cup Branching \cup Trapping
AllPrograms ==
  [0 .. 2 -> Straight] \cup [0 .. 3 -> StraightFew]
    \cup [0 .. 2 -> Branching] \cup [0 .. 3 -> BranchingFew]
    \cup Traps2 \cup Traps3
=============================================================================
