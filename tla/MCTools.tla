------------------------------- MODULE MCTools -------------------------------
(***************************************************************************)
(* Instances of the tools: jobs for the pure functions and the tools, and  *)
(* programs for the chain of generator, assembler, golden model and        *)
(* debugger.                                                               *)
(***************************************************************************)
EXTENDS Toolchain

CONSTANTS Jobs,                 \* calls of one tool
          Configs, Directed     \* programs: arguments of gen_program, and given ones

\* Arithmetic operands around every sign, carry and word boundary of 8 bits.
MCOperands == {0, 1, 2, 3, 5, 7, 8, 9, 15, 16, 17, 100, 119, 120, 126, 127, 128, 129, 136, 143, 144, 200, 240, 247, 254, 255}

MCWords(xl) ==
  {{}, 0 .. xl - 1, {0}, {xl - 1}, {i \in 0 .. xl - 1 : i % 2 = 0}, {i \in 0 .. xl - 1 : (i * i + 3 * i) % 7 < 3},
   {i \in 0 .. xl - 1 : (5 * i * i + i) % 11 < 5}, {0, 3, 7, 8, 14, 21, 30, 31}, {1, 2, 8, 17, 24, 27}, {4, 31, xl - 2}}

MCPatterns == {0, 1, 3, 4, 5, 7, 8, 11, 12, 13, 14, 15, 17, 20, 23, 24, 26, 27, 28, 29, 30} \cup {32, 33, 36, 39, 44, 46, 55, 59, 60, 62}
MCFewPatterns == {0, 5, 12, 15, 18, 23, 27, 28, 29, 32, 38, 44, 60}
Rms == {"RNE", "RTZ", "RDN", "RUP", "RMM"}

MCBytes(seed) == [i \in 1 .. 8 |-> (seed * seed * 37 + i * i * 91 + seed * i * 13) % 256]

MCFunctionJobs ==
  [tool : {"arith"}, A : MCOperands, B : MCOperands]
  \cup UNION {[tool : {"bits"}, xl : {w}, A : MCWords(w), B : MCWords(w)] : w \in {32, 64}}
  \cup [tool : {"bitsw"}, A : MCWords(64), B : MCWords(64)]
  \cup [tool : {"float"}, a : MCPatterns, b : MCPatterns, rm : Rms]
  \cup [tool : {"fused"}, a : MCFewPatterns, b : MCFewPatterns, c : MCFewPatterns, rm : Rms]
  \cup [tool : {"forder"}, a : 0 .. 63, b : MCPatterns]
  \cup [tool : {"convert"}, a : 0 .. 63, i : 0 .. 15, rm : Rms]
  \cup {[tool |-> "aes", lo |-> MCBytes(k), hi |-> MCBytes(k + 7), rnum |-> k % 11] : k \in 0 .. 11}
  \cup [tool : {"sbox"}, x : 0 .. 255]

-----------------------------------------------------------------------------
MCRegs == {<<1, 2, 3, 4>>, <<31, 0, 16, 15>>, <<0, 31, 1, 30>>}
MCImm(mn) ==
  CASE mn \in DOMAIN As!BRANCH -> {-4096, -2050, -2, 0, 2, 4, 30, 32, 2048, 4094, 4096, 3}
    [] mn = "jal" -> {-1048576, -4096, -2, 0, 2, 2046, 2048, 4096, 524288, 1048574, 1048576}
    [] mn \in {"lui", "auipc"} -> {0, 1, 74565, 524288, 1048575, 1048576}
    [] OTHER -> {-2049, -2048, -1, 0, 1, 15, 31, 32, 63, 64, 2047}
MCMnemonics ==
  DOMAIN As!R_TYPE \cup DOMAIN As!I_TYPE \cup DOMAIN As!I_TYPE_BEXT_SHAMT \cup DOMAIN As!I_TYPE_BEXT_FIXED \cup DOMAIN As!BRANCH
  \cup DOMAIN As!LOAD \cup DOMAIN As!STORE \cup DOMAIN As!R_TYPE_W \cup DOMAIN As!I_TYPE_W \cup DOMAIN As!I_TYPE_W_BEXT_FIXED
  \cup DOMAIN As!FP_ARITH \cup DOMAIN As!FP_SGNJ \cup DOMAIN As!FP_MINMAX \cup DOMAIN As!FP_CMP \cup DOMAIN As!MADD_OPCODES
  \cup DOMAIN As!CSR_OP \cup DOMAIN As!SYSTEM_IMM12
  \cup {"nop", "aes64ks1i", "rev8", "zext_w", "roriw", "slli_uw", "flw", "fsw", "jal", "jalr", "lui", "auipc", "sfence_vma",
        "fence", "fsqrt_s", "fcvt_w_s", "fcvt_wu_s", "fcvt_s_w", "fcvt_s_wu", "fmv_x_w", "fclass_s", "fmv_w_x"}
MCRm(mn) == IF mn \in DOMAIN As!FP_ARITH \cup DOMAIN As!MADD_OPCODES \cup {"fsqrt_s", "fcvt_w_s", "fcvt_s_wu"}
            THEN DOMAIN As!RM_NAMES ELSE {"rne"}
MCStatements(mn) ==
  {[mn |-> mn, rd |-> r[1], rs1 |-> r[2], rs2 |-> r[3], rs3 |-> r[4], imm |-> v, csr |-> c, rm |-> m] :
     r \in MCRegs, v \in IF HasImmediate(mn) \/ mn \in DOMAIN As!CSR_OP THEN MCImm(mn) ELSE {0},
     c \in IF mn \in DOMAIN As!CSR_OP THEN {As!CSR_ADDR[n] : n \in DOMAIN As!CSR_ADDR} ELSE {0}, m \in MCRm(mn)}
MCEncodeJobs == UNION {[tool : {"encode"}, i : MCStatements(mn), xlen : {32, 64}] : mn \in MCMnemonics}

MCLines == {[label |-> "L1"], [label |-> "L2"], [mn |-> "nop"], [mn |-> "bne", rs1 |-> 1, rs2 |-> 2, to |-> "L1"],
            [mn |-> "jal", rd |-> 0, to |-> "L2"]}
MCProgramJobs == UNION {[tool : {"program"}, lines : [1 .. n -> MCLines], xlen : {64}, size : {14, 16}] : n \in 1 .. 5}

\* Four sections that do not overlap within their memory; the bytes of each
\* part differ from those of every other.
MCRaw(tag, n) == [k \in 1 .. n |-> 10 * tag + k]
MCElf == {[boot |-> [vma |-> 0, raw |-> MCRaw(1, b)], payload |-> [vma |-> 3, raw |-> MCRaw(2, p)],
           rodata |-> [vma |-> 0, raw |-> MCRaw(3, r)], data |-> [vma |-> r + 1, raw |-> MCRaw(4, d)]] :
            b \in 0 .. 3, p \in 0 .. 3, r \in 0 .. 2, d \in 0 .. 2}
MCImageJobs ==
  [tool : {"firmware"}, elf : MCElf, dtb : {MCRaw(5, n) : n \in 0 .. 2}, size : {5, 6}]
  \cup [tool : {"linux"}, elf : {e \in MCElf : e.payload.raw = <<>>}, initramfs : {MCRaw(6, n) : n \in 0 .. 3},
        kernel : [bytes : {MCRaw(7, n) : n \in 1 .. 5}, magic : {"RISCV", "other"}, text_offset : {6, 7}],
        dtb : {MCRaw(5, n) : n \in 1 .. 3}, size : {14, 15}]

\* Bootargs of every length modulo 4; no, one and both initrd bounds.
MCDtbArgs ==
  [mem_size : {<<0, 65536>>}, timebase_freq : {10000000}, uart_clock_freq : {50000000},
   bootargs : {"", "console", "earlycon", "rdinit=/init", "root=/dev/ram"}, initrd_start : {{}, {<<0, 4096>>}}, initrd_end : {{}, {<<0, 8192>>}}]
MCBenchArgs ==
  [compare : DOMAIN Bn!AxisField \cup {"latency", "none", "ooo", "vector"}, hs : {0}, pp : {0}, bp : {0}, cm : {0, 1}, rp : {0},
   li : {0, 2}, ld : {0}, ve : {0}, be : {0}, ldb : {0}, me : {1, 4}, l2 : {0, 4096}, pf : {0, 2}]
MCKernelLines == {[label |-> "loop"], [mn |-> "nop"], [mn |-> "lw"], [mn |-> "fence"]}
MCKernels == {k \o <<Pf!Halt, [mn |-> "jal"]>> : k \in UNION {[1 .. n -> MCKernelLines] : n \in 0 .. 3}} \cup {<<[mn |-> "nop"]>>}
MCToolJobs ==
  [tool : {"dtb"}, a : MCDtbArgs]
  \cup [tool : {"bench"}, a : MCBenchArgs, progs : {<<"bench_fib", "bench_stride">>}]
  \cup [tool : {"profile"}, lines : MCKernels, run : {"a", "b"}]
  \cup {[tool |-> "bench", a |-> a, progs |-> <<>>] : a \in {b \in MCBenchArgs : b.compare = "none"}}

MCJobs == MCFunctionJobs \cup MCEncodeJobs \cup MCProgramJobs \cup MCImageJobs \cup MCToolJobs

-----------------------------------------------------------------------------
\* Uninterpreted results: any function of the operands does, as long as every
\* operand counts.
MCExt(mn, A, B) == (A \ B) \cup (B \ A) \cup {1}
MCFloat(mn, a, b, c, rm) ==
  [res |-> {i \in (a \cup b \cup c \cup rm) : i < 32} \ (a \cap b),
   flags |-> IF rm = {} THEN {0} ELSE {4}]

MCSeeds == << {31} \cup 23 .. 29, {22} >>     \* -1.0 and a subnormal, of the six

\* One or two mnemonics of each kind.
MCSampled == {"add", "mul", "addi", "srli", "sb", "lw", "bne", "bge", "jal", "csrrw", "csrrsi", "fadd_s", "fcvt_w_s", "fsw",
              "addw", "addiw", "ld", "sd", "pack", "packw", "rori", "sh1add_uw", "cpop", "fmadd_s", "fsqrt_s", "fmin_s", "feq_s", "flw"}

Rg == INSTANCE RandomGen WITH Sampled <- {}, Regs <- {}, FRegs <- {}, Imms <- {}, FLOAT_SEED_BITS <- MCSeeds,
                              cfg <- {}, instrs <- {}, text <- {}, info <- {}

Config(n, mem_size, interrupt, mmu, xlen, ooo) ==
  [n |-> n, mem_size |-> mem_size, interrupt |-> interrupt, mmu |-> mmu, xlen |-> xlen, ooo |-> ooo]
MCConfigs ==
  {Config(2, 128, "none", FALSE, 32, FALSE), Config(1, 256, "none", FALSE, 64, FALSE), Config(1, 256, "none", FALSE, 64, TRUE),
   Config(1, 8192, "none", TRUE, 32, FALSE), Config(5, 32, "none", FALSE, 32, FALSE), Config(2, 32, "none", FALSE, 32, FALSE),
   Config(1, 8192, "timer", TRUE, 32, FALSE)}
  \cup {Config(1, 256, src, FALSE, 32, FALSE) : src \in {"timer", "uart", "msi", "both"}}

-----------------------------------------------------------------------------
\* A loop that counts its calls in memory, and a program that traps.
MCLoop ==
  <<Rg!rri("addi", 1, 0, 2), [label |-> "again"], [mn |-> "jal", rd |-> 5, to |-> "sub"], Rg!rri("addi", 1, 1, -1),
    [mn |-> "bne", rs1 |-> 1, rs2 |-> 0, to |-> "again"], [mn |-> "jal", rd |-> 0, to |-> "end"], [label |-> "sub"],
    Rg!rri("lw", 3, 0, 32), Rg!rri("addi", 3, 3, 1), Rg!sw(3, 32, 0), [mn |-> "jalr", rd |-> 0, rs1 |-> 5, imm |-> 0], [label |-> "end"]>> \o Rg!halt("h")
MCTrap ==
  <<Rg!rri("addi", 1, 0, 28), Rg!csrrw(\h305, 1), [mn |-> "ecall"], [mn |-> "auipc", rd |-> 3, imm |-> 1], [mn |-> "ebreak"],
    [mn |-> "word", raw |-> [f7 |-> 127, rs2 |-> 31, rs1 |-> 31, f3 |-> 7, rd |-> 31, op |-> 127]],
    [mn |-> "jal", rd |-> 0, imm |-> 24],
    [mn |-> "csrrs", rd |-> 2, csr |-> \h341, rs1 |-> 0], Rg!rri("addi", 2, 2, 4), Rg!csrrw(\h341, 2), [mn |-> "mret"]>>

\* A longer program of the generator's, interrupted after k instructions.
MCBody ==
  [p \in 1 .. 20 |->
     CASE p % 5 = 0 -> Rg!sw(1, 4 * p, Rg!BASE_REG)
       [] p % 5 = 1 -> Rg!rri("addi", 1, 2, p)
       [] p % 5 = 2 -> [mn |-> "csrrw", rd |-> 2, csr |-> Rg!mscratch, rs1 |-> 1]
       [] p % 5 = 3 -> [mn |-> "fadd_s", rd |-> 1, rs1 |-> 2, rs2 |-> 1, rm |-> "dyn"]
       [] p % 5 = 4 -> [mn |-> "add", rd |-> 3, rs1 |-> 1, rs2 |-> 3]]
MCInterrupted(src, k) ==
  [text |-> Rg!program(Config(20, 256, src, FALSE, 32, FALSE), Rg!out(Config(20, 256, src, FALSE, 32, FALSE), MCBody, <<>>), k),
   info |-> {[after |-> k, cause |-> Rg!cause(src)]}, xlen |-> 32, mem_size |-> 256]

MCDirected ==
  {[text |-> MCLoop, info |-> {}, xlen |-> 32, mem_size |-> 64], [text |-> MCTrap, info |-> {}, xlen |-> 64, mem_size |-> 64]}
  \cup {MCInterrupted("timer", k) : k \in 1 .. 20} \cup {MCInterrupted(src, 20) : src \in {"uart", "msi", "both"}}

MCSv39 == {Config(1, 16384, "none", TRUE, 64, FALSE)}

VARIABLES cfg, instrs, text, info, words, run, dbg, commands

program_vars == <<cfg, instrs, text, info, words, run, dbg, commands>>

Golden == INSTANCE GoldenRun WITH
  Sampled <- MCSampled, Regs <- {1}, FRegs <- {1}, Imms <- {0, 2047}, FLOAT_SEED_BITS <- MCSeeds,
  BreakAddrs <- {4, 28}, StepCounts <- {1, 3}, MaxCommands <- 3,
  max_steps <- 60, ext_result <- MCExt, f_result <- MCFloat

\* A job of one of the tools, or a program through generator, assembler, golden
\* model and debugger.
Init ==
  \/ /\ job \in Jobs /\ out = NoAnswer
     /\ cfg = Config(0, 32, "none", FALSE, 32, FALSE) /\ instrs = <<>> /\ text = <<[label |-> "none"]>> /\ info = {}
     /\ words = <<>> /\ run = [status |-> "idle"] /\ dbg = [mode |-> "none"] /\ commands = 0
  \/ Golden!Init /\ job = [tool |-> "golden"] /\ out = NoAnswer
Next ==
  \/ (ExecuteFunctions \/ RunToolchain) /\ UNCHANGED program_vars
  \/ job.tool = "golden" /\ Golden!Next /\ UNCHANGED <<job, out>>
FairSpec == Init /\ [][Next]_<<job, out, program_vars>> /\ Golden!Fairness

-----------------------------------------------------------------------------
\* A program of random_gen.py only moves forward under iss.py's run.
ForwardOnly == Golden!ForwardOnly

\* A generated body stays within what gen_program set up for it.
BodyConfined == Golden!BodyConfined

\* The interrupt of a generated program leaves no trace in the final state.
InterruptTransparent == Golden!InterruptTransparent

\* debugger.py ends a program as iss.py's run does and stops at breakpoints.
DebuggerFaithful == Golden!DebuggerFaithful

\* A generated program assembles, fits and reaches its self-loop.
GeneratedHalts == Golden!GeneratedHalts

\* With mmu=True the body's accesses are translated, at either width.
UserModeTranslates == Golden!UserModeTranslates
=============================================================================
