-------------------------------- MODULE Iss ---------------------------------
(***************************************************************************)
(* The reference: one instruction after the other, as the golden model     *)
(* sim/tools/iss.py runs them.  A machine state s is a record of pc, the   *)
(* registers, the memory and the privileged state, which stays in machine  *)
(* mode with nothing delegated; addresses count words and the pc counts    *)
(* instructions.  sc and amo, which iss.py does not know, are as           *)
(* LoadStoreQueue.v's header specifies them for a single hart.             *)
(***************************************************************************)
EXTENDS Naturals, FiniteSetsExt

CONSTANTS XLEN, NUM_AREGS, SP_INIT, amo_value(_, _, _)

Word == 0 .. 2^XLEN - 1
Areg == 0 .. NUM_AREGS - 1

ILLEGAL_INSTRUCTION == 2
ECALL_FROM_M == 11
PRIV_U == 0
PRIV_M == 3
CsrName == {"mepc", "mcause", "mtval", "sepc", "scause", "stval", "mtvec", "stvec",
            "mscratch", "sscratch"}

reset ==
  [pc   |-> 0,
   regs |-> [r \in Areg |-> IF r = 2 THEN SP_INIT ELSE 0],
   mem  |-> [a \in Word |-> 0],
   csr  |-> [r \in CsrName |-> IF r \in {"mcause", "scause"} THEN <<FALSE, 0>> ELSE 0],
   mstatus |-> [MIE |-> FALSE, MPIE |-> FALSE, MPP |-> 0,
                SIE |-> FALSE, SPIE |-> FALSE, SPP |-> 0],
   mie  |-> {},
   priv |-> PRIV_M]

uxlen(v) == v % 2^XLEN

rs1(s, i)  == s.regs[i.rs1]
rs2(s, i)  == s.regs[i.rs2]
addr(s, i) == uxlen(rs1(s, i) + i.imm)

result(s, i) ==
  CASE i.op = "add"  -> uxlen(rs1(s, i) + rs2(s, i))
    [] i.op = "addi" -> uxlen(rs1(s, i) + i.imm)
    [] i.op = "lui"  -> i.imm
    [] i.op = "divu" -> IF rs2(s, i) = 0 THEN uxlen(2^XLEN - 1)
                        ELSE rs1(s, i) \div rs2(s, i)
    [] i.op = "remu" -> IF rs2(s, i) = 0 THEN rs1(s, i)
                        ELSE rs1(s, i) % rs2(s, i)
    [] i.op \in {"load", "amo"} -> s.mem[addr(s, i)]
    [] i.op \in {"jal", "jalr"} -> uxlen(s.pc + 1)
    [] i.op = "csr" /\ i.addr \in CsrName -> s.csr[i.addr]
    [] OTHER -> 0

wr(regs, rd, val) == IF rd = 0 THEN regs ELSE [regs EXCEPT ![rd] = val]

mem_after(s, i) ==
  CASE i.op \in {"store", "sc"} -> [s.mem EXCEPT ![addr(s, i)] = rs2(s, i)]
    [] i.op = "amo" -> [s.mem EXCEPT ![addr(s, i)] = amo_value(i.amo_op, @, rs2(s, i))]
    [] OTHER -> s.mem

next_pc(s, i) ==
  CASE i.op = "jal"  -> i.target
    [] i.op = "jalr" -> uxlen(rs1(s, i) + i.imm)
    [] i.op = "beq" /\ rs1(s, i) = rs2(s, i) -> i.target
    [] OTHER -> s.pc + 1

(***************************************************************************)
(* Privileged state.  csr holds the word registers; mie is a set of        *)
(* causes, and of mstatus only MIE is set or cleared by an instruction.    *)
(* An immediate is given by its bits.                                      *)
(***************************************************************************)
Bits(x) == {k \in 0 .. XLEN - 1 : (x \div 2^k) % 2 = 1}
FromBits(S) == MapThenSumSet(LAMBDA k : 2^k, S)

Combined(op, old, src) ==
  CASE op = "write" -> src
    [] op = "set"   -> old \cup src
    [] op = "clear" -> old \ src

csr_write(s, i) ==
  LET src == IF i.is_imm THEN i.uimm ELSE Bits(rs1(s, i))
  IN  CASE i.addr = "mstatus" ->
             [s EXCEPT !.mstatus = [@ EXCEPT !.MIE = (i.csr_op = "set")]]
        [] i.addr = "mie" ->
             [s EXCEPT !.mie = Combined(i.csr_op, @, src)]
        [] OTHER ->
             [s EXCEPT !.csr = [@ EXCEPT ![i.addr] =
                                  FromBits(Combined(i.csr_op, Bits(@), src))]]

trap(s, cause, is_interrupt) ==
  [s EXCEPT !.csr = [@ EXCEPT !["mepc"] = s.pc, !["mcause"] = <<is_interrupt, cause>>,
                              !["mtval"] = 0],
            !.mstatus = [@ EXCEPT !.MPIE = s.mstatus.MIE, !.MIE = FALSE, !.MPP = s.priv],
            !.priv = PRIV_M,
            !.pc = s.csr["mtvec"]]

mret(s) ==
  [s EXCEPT !.mstatus = [@ EXCEPT !.MIE = s.mstatus.MPIE, !.MPIE = TRUE, !.MPP = PRIV_U],
            !.priv = s.mstatus.MPP,
            !.pc = s.csr["mepc"]]

\* c: the state with the instruction's effect on the privileged registers.
executed(s, c, i) ==
  [c EXCEPT !.pc = next_pc(s, i),
            !.regs = IF i.regWrite THEN wr(@, i.rd, result(s, i)) ELSE @,
            !.mem = mem_after(s, i)]

step(s, i) ==
  CASE i.op = "illegal" -> trap(s, ILLEGAL_INSTRUCTION, FALSE)
    [] i.op = "ecall"   -> trap(s, ECALL_FROM_M, FALSE)
    [] i.op = "mret"    -> mret(s)
    [] i.op = "csr"     -> executed(s, csr_write(s, i), i)
    [] OTHER            -> executed(s, s, i)
=============================================================================
