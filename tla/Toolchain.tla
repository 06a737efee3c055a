------------------------------ MODULE Toolchain ------------------------------
(***************************************************************************)
(* The tools a program passes through between its source and the machines: *)
(* sim/tools/asm.py encodes it and writes the memory image, disasm.py      *)
(* names its words again, load_words and ISS.step read them back, and the  *)
(* image builders place sections, kernel and device tree.  Each action     *)
(* calls one tool chain on the arguments of the job.                       *)
(***************************************************************************)
EXTENDS GoldenFunctions

CONSTANTS FW_LINK_SIZE, KERNEL_LOAD_ADDR, INITRD_ADDR, DTB_ADDR_KERNEL, DTB_ADDR, PAGE, Err

As == INSTANCE Asm
Ds == INSTANCE Disasm
Dc == INSTANCE IssDecode
Im == INSTANCE Images
Bn == INSTANCE BenchRunner
Pf == INSTANCE Profiler

\* The disassembler's statement for an assembled word, and what the golden
\* model executes for it.
EncodeAnswer(i, xlen) ==
  LET w == As!encode(i, xlen)
      s == Ds!disasm(w, xlen)
  IN IF ~As!Ok(w) THEN [word |-> w]
     ELSE [word |-> w, text |-> s, again |-> IF s = Ds!Unknown THEN Err ELSE As!encode(s, xlen),
           runs |-> Dc!decode(w, xlen)]
AssembleStatement == Call("encode", EncodeAnswer(job.i, job.xlen))

ProgramAnswer(lines, xlen, size) ==
  LET words == As!assemble(lines, xlen)
      file == IF As!Ok(words) THEN As!write_mem(words, size) ELSE Err
  IN [words |-> words, file |-> file, loaded |-> IF As!Ok(file) THEN Im!load_words(file) ELSE Err]
AssembleProgram == Call("program", ProgramAnswer(job.lines, job.xlen, job.size))

BuildFirmware == Call("firmware", Im!sbi_firmware(job.elf, job.dtb, job.size))
BuildLinuxBoot == Call("linux", [img |-> Im!linux_boot(job.elf, job.kernel, job.initramfs, job.dtb, job.size)])

\* gen_dtb.py's main: the builder's calls one by one, then the validator's
\* pass over the blob token by token.  starts keeps where each call wrote.
StartDtb == Call("dtb", [calls |-> Im!build_this_core_dtb(job.a), fdt |-> Im!new_fdt, starts |-> <<>>, blob |-> {}, seen |-> 0, p |-> {}])
BuilderCall ==
  /\ Answered("dtb") /\ out.blob = {} /\ Len(out.starts) < Len(out.calls)
  /\ out' = [out EXCEPT !.starts = Append(@, Len(out.fdt.struct)), !.fdt = Im!emit(@, out.calls[Len(out.starts) + 1])]
  /\ UNCHANGED job
BuildBlob ==
  /\ Answered("dtb") /\ out.blob = {} /\ Len(out.starts) = Len(out.calls)
  /\ out' = LET blob == Im!build(out.fdt) IN [out EXCEPT !.blob = {blob}, !.p = {Im!new_parse(blob)}]
  /\ UNCHANGED job
ParseToken ==
  /\ Answered("dtb") /\ \E blob \in out.blob, p \in out.p :
       p.status = "reading" /\ out' = [out EXCEPT !.seen = @ + 1, !.p = {Im!parse_token(blob, p)}]
  /\ UNCHANGED job

\* bench_runner.py's main, one run_bench at a time.
StartBench == Call("bench", Bn!start(job.a, job.progs))
Session(path, ready) == Answered("bench") /\ out.exit = {} /\ path /\ ready /\ UNCHANGED job
AxisSession == job.a.compare \notin {"ooo", "vector"}
BenchAxisRun == Session(AxisSession, out.key <= Len(Bn!keys(out.a))) /\ \E e \in Bn!Outcomes : out' = Bn!axis_run(out, e)
BenchReport == Session(AxisSession, out.key > Len(Bn!keys(out.a))) /\ out' = Bn!report(out)
BenchNotFound == Session(~AxisSession, out.prog <= Len(out.progs)) /\ out' = Bn!not_found(out)
BenchOooRun ==
  /\ Session(job.a.compare = "ooo", out.prog <= Len(out.progs))
  /\ \E e \in Bn!Outcomes, e2 \in Bn!OooOutcomes : out' = Bn!ooo_run(out, e, e2)
BenchVectorRun ==
  Session(job.a.compare = "vector", out.prog <= Len(out.progs)) /\ \E e \in Bn!OooOutcomes \ {"ISS error"} : out' = Bn!vector_run(out, e)
BenchFinishOoo == Session(~AxisSession, out.prog > Len(out.progs)) /\ out' = Bn!finish_ooo(out)

\* profiler.py's two runs of one kernel, statement by statement up to the
\* halt loop; a kernel without one raises ValueError.
Instrumented == IF job.run = "a" THEN Pf!build_run_a(job.lines) ELSE Pf!build_run_b(job.lines)
StartProfile ==
  Call("profile", [mix |-> Pf!classify_mix(job.lines),
                   runs |-> IF Pf!has_halt(job.lines)
                            THEN {[lines |-> Instrumented, k |-> 1, regs |-> [r \in 19 .. 29 |-> {}], m |-> Pf!reset_counters]} ELSE {}])
ProfileStatement ==
  /\ Answered("profile") /\ \E x \in out.runs : x.lines[x.k] # Pf!Halt /\ out' = [out EXCEPT !.runs = {Pf!ran(x)}]
  /\ UNCHANGED job

RunToolchain ==
  \/ AssembleStatement \/ AssembleProgram \/ BuildFirmware \/ BuildLinuxBoot
  \/ StartDtb \/ BuilderCall \/ BuildBlob \/ ParseToken
  \/ StartBench \/ BenchAxisRun \/ BenchReport \/ BenchNotFound \/ BenchOooRun \/ BenchVectorRun \/ BenchFinishOoo
  \/ StartProfile \/ ProfileStatement

-----------------------------------------------------------------------------
\* nop and zext.w are spellings of addi x0, x0, 0 and add.uw rd, rs1, x0.
Canonical(mn) == IF mn = "nop" THEN "addi" ELSE IF mn = "zext_w" THEN "add_uw" ELSE mn
HasImmediate(mn) ==
  mn \in DOMAIN As!I_TYPE \cup DOMAIN As!I_TYPE_BEXT_SHAMT \cup DOMAIN As!I_TYPE_W \cup DOMAIN As!LOAD \cup DOMAIN As!STORE
         \cup DOMAIN As!BRANCH \cup {"aes64ks1i", "roriw", "slli_uw", "flw", "fsw", "jal", "jalr", "lui", "auipc"}
\* The mnemonics the assembler knows and the disassembler does not name.
NotNamed == {"sret", "sfence_vma", "fence"}

Encoded == Answered("encode") /\ As!Ok(out.word)

(***************************************************************************)
(* Whatever asm.py encodes, disasm.py names, and asm.py encodes that text  *)
(* back to the same word: two independently written tables of the same     *)
(* encodings (asm.py and disasm.py, every mnemonic but the three of        *)
(* NotNamed) agree, whatever the registers, immediates, rounding modes and *)
(* the XLEN-dependent shift widths.                                        *)
(***************************************************************************)
Reassembles ==
  Encoded => /\ out.text = Ds!Unknown <=> job.i.mn \in NotNamed
             /\ out.text # Ds!Unknown => out.again = out.word /\ Canonical(out.text.mn) = Canonical(job.i.mn)

Executes(i, d) == d.mn = Canonical(i.mn) /\ (HasImmediate(i.mn) => d.imm = i.imm)

(***************************************************************************)
(* ISS.step executes every word asm.py encodes as the instruction the      *)
(* source named, with the same immediate: no branch of step's if/elif      *)
(* chain hides a later one, and the scattered branch and jump offsets are  *)
(* put together the way asm.py took them apart.  rolw is the exception     *)
(* ExecutesAsAssembled is about.                                           *)
(***************************************************************************)
DecodeAgrees == Encoded /\ job.i.mn # "rolw" => Executes(job.i, out.runs)

(***************************************************************************)
(* The same of every mnemonic.  ISS.step has a branch for rolw (iss.py:    *)
(* "elif f7 == 0b0110000 and f3 == 0b001:  # rolw").                       *)
(***************************************************************************)
ExecutesAsAssembled == Encoded => Executes(job.i, out.runs)

(***************************************************************************)
(* A program asm.py assembles reaches the machine whole: load_words reads  *)
(* back, from the image write_mem wrote, the words in order with zeros     *)
(* behind them, and every branch and jump to a label, executed at its own  *)
(* address, lands on the statement after the label's last definition.  A   *)
(* program that names an undefined label, or is larger than the memory, is *)
(* refused rather than cut.                                                *)
(***************************************************************************)
Targets(lines) == {lines[k].to : k \in {j \in DOMAIN lines : "to" \in DOMAIN lines[j]}}
LastDefinition(lines, name) ==
  LET k == CHOOSE k \in DOMAIN lines :
             As!IsLabel(lines[k]) /\ lines[k].label = name
             /\ \A j \in k + 1 .. Len(lines) : ~(As!IsLabel(lines[j]) /\ lines[j].label = name)
  IN Cardinality({j \in 1 .. k : ~As!IsLabel(lines[j])})
ProgramLoads ==
  Answered("program") =>
    LET stmts == As!Statements(job.lines)
        target(k) == (4 * (k - 1) + Dc!decode(out.loaded[k], job.xlen).imm) \div 4
    IN /\ As!Ok(out.words) <=> Targets(job.lines) \subseteq As!defined(job.lines)
       /\ As!Ok(out.file) <=> As!Ok(out.words) /\ 4 * Len(stmts) <= job.size
       /\ As!Ok(out.file) =>
            /\ Len(out.loaded) = job.size \div 4
            /\ \A k \in DOMAIN out.loaded :
                 IF k <= Len(stmts) THEN out.loaded[k] = out.words[k] ELSE out.loaded[k] = As!Word(0, 0, 0, 0, 0, 0)
            /\ \A k \in DOMAIN stmts :
                 "to" \in DOMAIN stmts[k] => target(k) = LastDefinition(job.lines, stmts[k].to)

Fits(s, size) == s.raw # <<>> => s.vma + Len(s.raw) <= size
Holds(img, s) == Im!At(img, s.vma, Len(s.raw)) = s.raw

(***************************************************************************)
(* elf2mem.py puts every section where the linker placed it: for an ELF    *)
(* whose sections do not overlap, the instruction image holds .text.boot   *)
(* and .text.payload at their VMAs and the data image holds .rodata and    *)
(* .data at theirs, with the device tree at DTB_ADDR behind them, or the   *)
(* build is refused because one of them does not fit.                      *)
(***************************************************************************)
SectionsPlaced ==
  Answered("firmware") =>
    /\ IF out.imem = Err THEN \E s \in {"boot", "payload"} : ~Fits(job.elf[s], job.size)
       ELSE Holds(out.imem, job.elf["boot"]) /\ Holds(out.imem, job.elf["payload"])
    /\ IF out.dmem = Err
       THEN DTB_ADDR + Len(job.dtb) > job.size \/ \E s \in {"rodata", "data"} : ~Fits(job.elf[s], job.size)
       ELSE /\ Im!At(out.dmem, DTB_ADDR, Len(job.dtb)) = job.dtb
            /\ \A s \in {"rodata", "data"} :
                 job.elf[s].vma + Len(job.elf[s].raw) <= DTB_ADDR => Holds(out.dmem, job.elf[s])

(***************************************************************************)
(* build_linux_boot.py's placement: when its checks pass, nothing it lays  *)
(* into the images overwrites anything else.  The firmware's code and      *)
(* data, the kernel in both memories, the initramfs and the device tree    *)
(* are all intact at the addresses the firmware and the device tree name.  *)
(***************************************************************************)
BootImageIntact ==
  Answered("linux") /\ out.img # Err =>
    /\ Holds(out.img.imem, job.elf["boot"])
    /\ Holds(out.img.dmem, job.elf["rodata"]) /\ Holds(out.img.dmem, job.elf["data"])
    /\ Im!At(out.img.imem, KERNEL_LOAD_ADDR, Len(job.kernel.bytes)) = job.kernel.bytes
    /\ Im!At(out.img.dmem, KERNEL_LOAD_ADDR, Len(job.kernel.bytes)) = job.kernel.bytes
    /\ Im!At(out.img.dmem, INITRD_ADDR, Len(job.initramfs)) = job.initramfs
    /\ Im!At(out.img.dmem, DTB_ADDR_KERNEL, Len(job.dtb)) = job.dtb

(***************************************************************************)
(* What FdtBuilder writes, parse_and_validate reads: at every step of the  *)
(* validator's pass its cursor stands on the first cell of the builder     *)
(* call it is about to read, the token there is that call's, and a         *)
(* property's name offset leads to its name in the strings block.  No      *)
(* assertion fails, so the pass ends on FDT_END with every call read,      *)
(* whatever the length of the bootargs and whichever initrd bounds are     *)
(* given.                                                                  *)
(***************************************************************************)
TokenOf(c) == CASE c.call = "begin_node" -> 1 [] c.call = "end_node" -> 2 [] c.call = "_prop_raw" -> 3
NameAt(blob, off) == {blob.strings[k].name : k \in {j \in DOMAIN blob.strings : blob.strings[j].off = off}}
Reads(blob, i, c) ==
  /\ Im!cell(blob, i).v = TokenOf(c)
  /\ c.call = "begin_node" => Im!cell(blob, i + 1).s = c.name
  /\ c.call = "_prop_raw" => Im!cell(blob, i + 1).v = c.len /\ NameAt(blob, Im!cell(blob, i + 2).v) = {c.name}
DtbReadsBack ==
  Answered("dtb") => \A blob \in out.blob, p \in out.p :
    CASE p.status = "reading" /\ out.seen < Len(out.calls) ->
           p.i = out.starts[out.seen + 1] /\ Reads(blob, p.i, out.calls[out.seen + 1])
      [] p.status = "reading" /\ out.seen = Len(out.calls) -> Im!cell(blob, p.i).v = Im!FDT_END
      [] OTHER -> p.status = "passed" /\ out.seen = Len(out.calls) + 1

Ended == Answered("bench") /\ AxisSession /\ out.exit # {} /\ job.progs # <<>>
Own(k) == [j \in DOMAIN job.progs |-> <<job.progs[j], <<job.progs[j], Bn!pairs(out.a)[k]>>>>]

(***************************************************************************)
(* bench_runner.py exits with 0 exactly when every benchmark was simulated *)
(* under every configuration of the axis and the number it reports is that *)
(* simulation's own: a run that wrote no output file is never answered     *)
(* from a file an earlier configuration left in the work directory.        *)
(***************************************************************************)
CleanExitMeasuredAll ==
  Ended => (out.exit = {0} <=> \A k \in DOMAIN Bn!keys(out.a) : out.results[Bn!keys(out.a)[k]] = Own(k))

AxisOf(compare) == IF compare = "latency" THEN {"li", "ld"} ELSE {Bn!AxisField[compare]}
NeedsCache == {"replacement", "victim_cache", "burst", "mshr", "l2", "prefetch"}

(***************************************************************************)
(* "a --compare-* flag varies exactly one axis while holding the rest"     *)
(* (bench_runner.py): every delta printed is between two runs of the same  *)
(* benchmark whose configurations differ, on that axis only, and, for the  *)
(* axes that do nothing without the data cache, have it enabled.           *)
(***************************************************************************)
ComparesOneAxis ==
  Ended => \A j \in DOMAIN out.reported :
    LET r == out.reported[j]
        differ == {f \in Bn!Fields : r.from[2][f] # r.to[2][f]}
    IN /\ r.from[1] = r.name /\ r.to[1] = r.name
       /\ differ # {} /\ differ \subseteq AxisOf(job.a.compare)
       /\ job.a.compare \in NeedsCache => r.from[2]["cm"] = 1 /\ r.to[2]["cm"] = 1

Dumped == IF job.run = "a" THEN 19 .. 29 ELSE 19 .. 27
ReportedAs(r) == IF job.run = "a" THEN Pf!reported_a(r) ELSE Pf!reported_b(r)
KernelLines(x) == {k \in DOMAIN x.lines : ~Pf!IsLabel(x.lines[k]) /\ x.lines[k] \in {job.lines[j] : j \in DOMAIN job.lines} /\ k < x.k}

(***************************************************************************)
(* When the instrumented kernel reaches its halt loop, the register        *)
(* profile_kernel reports as an event's count holds pulses of that event   *)
(* of CSR.v only, and one for every statement of the kernel: the second    *)
(* run's counters keep nothing they counted under their reset-default      *)
(* events, and no dump register is overwritten before the loop.            *)
(***************************************************************************)
ProfileCountsOwnEvent ==
  Answered("profile") => \A x \in out.runs : x.lines[x.k] = Pf!Halt =>
    \A r \in Dumped :
      /\ \A c \in x.regs[r] : c[2] = ReportedAs(r)
      /\ \A k \in KernelLines(x) : <<k, ReportedAs(r)>> \in x.regs[r]

-----------------------------------------------------------------------------

\* The builders of elf2mem.py, build_sbi_firmware.py and build_linux_boot.py
\* place every part whole, or refuse.
ImagesIntact == SectionsPlaced /\ BootImageIntact

\* What bench_runner.py reports and how it exits is what it measured, along the
\* one axis that was asked for.
BenchmarksHonest == CleanExitMeasuredAll /\ ComparesOneAxis
=============================================================================
