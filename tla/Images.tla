------------------------------- MODULE Images -------------------------------
(***************************************************************************)
(* The memory images of sim/tools: load_words (debugger.py and             *)
(* bench_runner.py), elf2mem.py, build_sbi_firmware.py and                 *)
(* build_linux_boot.py.  An image is a sequence of bytes, that of address  *)
(* a at index a + 1; an ELF is the record of its sections, each with the   *)
(* VMA the linker gave it and its bytes; addresses are in units the model  *)
(* chooses.  A tool that raises answers Err.                               *)
(***************************************************************************)
EXTENDS Integers, Sequences, SequencesExt

CONSTANTS FW_LINK_SIZE, KERNEL_LOAD_ADDR, INITRD_ADDR, DTB_ADDR_KERNEL,   \* build_linux_boot.py
          DTB_ADDR,                                                      \* build_sbi_firmware.py
          PAGE,                                                          \* its 4096-byte rounding
          Err                                                            \* an exception

Zeros(n) == [k \in 1 .. n |-> 0]
\* buf[off:off + len(blob)] = blob
Put(buf, off, blob) == [k \in DOMAIN buf |-> IF k - off \in DOMAIN blob THEN blob[k - off] ELSE buf[k]]
At(buf, off, n) == SubSeq(buf, off + 1, off + n)

\* load_words(): little-endian words of a .mem file; a trailing partial
\* group is dropped.
word_of(b0, b1, b2, b3) ==
  [op |-> b0 % 128, rd |-> b0 \div 128 + (b1 % 16) * 2, f3 |-> (b1 \div 16) % 8, rs1 |-> b1 \div 128 + (b2 % 16) * 2,
   rs2 |-> b2 \div 16 + (b3 % 2) * 16, f7 |-> b3 \div 2]
load_words(lines) ==
  [k \in 1 .. Len(lines) \div 4 |-> word_of(lines[4 * k - 3], lines[4 * k - 2], lines[4 * k - 1], lines[4 * k])]

-----------------------------------------------------------------------------
(* elf2mem.py: the sections asked for, each at its own VMA.                *)
place(img, vma, raw, size) ==
  IF img = Err THEN Err
  ELSE IF raw = <<>> THEN img
  ELSE IF vma + Len(raw) > size THEN Err
  ELSE Put(img, vma, raw)
imem(elf, imem_sections, imem_size) ==
  FoldLeft(LAMBDA img, s : place(img, elf[s].vma, elf[s].raw, imem_size), Zeros(imem_size), imem_sections)
\* .rodata and .data at _rodata_start and _data_start, their VMAs.
dmem(elf, dmem_size) ==
  place(place(Zeros(dmem_size), elf["rodata"].vma, elf["rodata"].raw, dmem_size), elf["data"].vma, elf["data"].raw, dmem_size)

\* read_mem(): the lines of a .mem file into a buffer of the given size.
read_mem(file, size) == IF Len(file) > size THEN Err ELSE Put(Zeros(size), 0, file)

overlay_dtb_into_dmem(lines, dtb_bytes, dtb_addr) ==
  IF dtb_addr + Len(dtb_bytes) > Len(lines) THEN Err ELSE Put(lines, dtb_addr, dtb_bytes)

\* build_sbi_firmware.py's memory images.
sbi_firmware(elf, dtb_bytes, mem_size) ==
  LET d == dmem(elf, mem_size)
  IN [imem |-> imem(elf, <<"boot", "payload">>, mem_size),
      dmem |-> IF d = Err THEN Err ELSE overlay_dtb_into_dmem(d, dtb_bytes, DTB_ADDR)]

-----------------------------------------------------------------------------
(* build_linux_boot.py: firmware, kernel, initramfs and device tree in one *)
(* image per memory.                                                       *)
linux_checks_no_initrd(kernel, initramfs) ==
  kernel.magic = "RISCV" /\ kernel.text_offset = KERNEL_LOAD_ADDR /\ INITRD_ADDR >= KERNEL_LOAD_ADDR + Len(kernel.bytes)
linux_checks(kernel, initramfs) ==
  /\ kernel.magic = "RISCV"
  /\ kernel.text_offset = KERNEL_LOAD_ADDR
  /\ INITRD_ADDR >= KERNEL_LOAD_ADDR + Len(kernel.bytes)
  /\ DTB_ADDR_KERNEL >= INITRD_ADDR + Len(initramfs)
zero_init_limit(dtb_bytes) == ((DTB_ADDR_KERNEL + Len(dtb_bytes) + PAGE - 1) \div PAGE) * PAGE
linux_boot(elf, kernel, initramfs, dtb_bytes, mem_size) ==
  LET fw_imem == imem(elf, <<"boot">>, FW_LINK_SIZE)
      fw_dmem == dmem(elf, FW_LINK_SIZE)
      limit == zero_init_limit(dtb_bytes)
      base(fw) == Put(Put(Zeros(limit), 0, read_mem(fw, FW_LINK_SIZE)), KERNEL_LOAD_ADDR, kernel.bytes)
  IN IF ~linux_checks(kernel, initramfs) \/ fw_imem = Err \/ fw_dmem = Err \/ DTB_ADDR_KERNEL + Len(dtb_bytes) > mem_size
     THEN Err
     ELSE [imem |-> base(fw_imem),
           dmem |-> Put(Put(base(fw_dmem), INITRD_ADDR, initramfs), DTB_ADDR_KERNEL, dtb_bytes)]

-----------------------------------------------------------------------------
(***************************************************************************)
(* sim/tools/gen_dtb.py: the flattened device tree of this core, written   *)
(* by FdtBuilder call by call and read back by parse_and_validate token by *)
(* token.  The structure block is a sequence of 4-byte cells, a number v   *)
(* or the first cell of the text s; the strings block is the sequence of   *)
(* its names, each with its byte offset.  A 64-bit number is <<hi, lo>>.   *)
(***************************************************************************)
FDT_BEGIN_NODE == 1
FDT_END_NODE == 2
FDT_PROP == 3
FDT_END == 9
HEADER == 40
RSVMAP == 16

Num(n) == [v |-> n, s |-> ""]

_align4_always(len) == len \div 4 + 1           \* cells of len bytes
_align4(len) == (len + 3) \div 4
Text(str) == [k \in 1 .. _align4(Len(str) + 1) |-> IF k = 1 THEN [v |-> 0, s |-> str] ELSE Num(0)]

-----------------------------------------------------------------------------
(* class FdtBuilder: f is [struct, strings].                               *)
new_fdt == [struct |-> <<>>, strings |-> <<>>]
size_strings(f) == IF f.strings = <<>> THEN 0 ELSE Last(f.strings).off + Len(Last(f.strings).name) + 1
known(f, name) == {k \in DOMAIN f.strings : f.strings[k].name = name}
interned(f, name) ==
  IF known(f, name) # {} THEN f ELSE [f EXCEPT !.strings = Append(@, [name |-> name, off |-> size_strings(f)])]
_string_off(f, name) == f.strings[CHOOSE k \in known(f, name) : TRUE].off

Begin(name) == [call |-> "begin_node", name |-> name]
End == [call |-> "end_node", name |-> ""]
_prop_raw(name, len, cells) == [call |-> "_prop_raw", name |-> name, len |-> len, cells |-> cells]
prop_empty(name) == _prop_raw(name, 0, <<>>)
prop_u32(name, val) == _prop_raw(name, 4, <<Num(val)>>)
prop_cells(name, cells) == _prop_raw(name, 4 * Len(cells), [k \in DOMAIN cells |-> Num(cells[k])])
prop_str(name, val) == _prop_raw(name, Len(val) + 1, Text(val))

emit(f, c) ==
  CASE c.call = "begin_node" -> [f EXCEPT !.struct = @ \o <<Num(FDT_BEGIN_NODE)>> \o Text(c.name)]
    [] c.call = "end_node" -> [f EXCEPT !.struct = Append(@, Num(FDT_END_NODE))]
    [] c.call = "_prop_raw" ->
         LET g == interned(f, c.name)
         IN [g EXCEPT !.struct = @ \o <<Num(FDT_PROP), Num(c.len), Num(_string_off(g, c.name))>> \o c.cells]

build(f) ==
  LET struct == Append(f.struct, Num(FDT_END))
      off_strings == HEADER + RSVMAP + 4 * Len(struct)
  IN [off_rsvmap |-> HEADER, off_struct |-> HEADER + RSVMAP, off_strings |-> off_strings,
      totalsize |-> off_strings + size_strings(f), size_strings |-> size_strings(f), size_struct |-> 4 * Len(struct),
      struct |-> struct, strings |-> f.strings]

(* build_this_core_dtb: a is [mem_size, timebase_freq, uart_clock_freq,    *)
(* bootargs, initrd_start, initrd_end], the last two sets of at most one.  *)
If(cond, calls) == IF cond THEN calls ELSE <<>>
The(S) == CHOOSE x \in S : TRUE
cpu_calls(a) ==
  <<Begin("cpus"), prop_u32("#address-cells", 1), prop_u32("#size-cells", 0), prop_u32("timebase-frequency", a.timebase_freq),
    Begin("cpu@0"), prop_u32("phandle", 1), prop_str("device_type", "cpu"), prop_u32("reg", 0), prop_str("status", "okay"),
    prop_str("compatible", "riscv"), prop_str("riscv,isa", "rv64imafd"), prop_str("mmu-type", "riscv,sv39"),
    Begin("interrupt-controller"), prop_u32("#interrupt-cells", 1), prop_empty("interrupt-controller"),
    prop_str("compatible", "riscv,cpu-intc"), prop_u32("phandle", 2), End, End, End>>
soc_calls(a) ==
  <<Begin("soc"), prop_u32("#address-cells", 2), prop_u32("#size-cells", 2), prop_str("compatible", "simple-bus"), prop_empty("ranges"),
    Begin("uart@10000000"), prop_str("compatible", "ns16550a"), prop_cells("reg", <<0, \h10000000, 0, 32>>),
    prop_u32("clock-frequency", a.uart_clock_freq), prop_u32("reg-shift", 2), prop_u32("reg-io-width", 4), End,
    Begin("clint@10100000"), prop_str("compatible", "riscv,clint0"), prop_cells("reg", <<0, \h10100000, 0, \h10000>>),
    prop_cells("interrupts-extended", <<2, 3, 2, 7>>), End, End>>
chosen_calls(a) ==
  <<Begin("chosen"), prop_str("bootargs", a.bootargs), prop_str("stdout-path", "/soc/uart@10000000")>>
  \o If(a.initrd_start # {} /\ a.initrd_end # {},
        <<prop_cells("linux,initrd-start", The(a.initrd_start)), prop_cells("linux,initrd-end", The(a.initrd_end))>>)
  \o <<End>>
build_this_core_dtb(a) ==
  <<Begin(""), prop_u32("#address-cells", 2), prop_u32("#size-cells", 2), prop_str("compatible", "5-stage-pipelined-processor"),
    prop_str("model", "5-stage-pipelined-processor,rv64")>>
  \o cpu_calls(a)
  \o <<Begin("memory@0"), prop_str("device_type", "memory"), prop_cells("reg", <<0, 0, 0, a.mem_size[2]>>), End>>
  \o soc_calls(a) \o chosen_calls(a) \o <<End>>

-----------------------------------------------------------------------------
(* parse_and_validate: p is [i, depth, max_depth, prop_count, status], i   *)
(* the number of cells read.                                               *)
header_ok(blob) ==
  /\ blob.totalsize = HEADER + RSVMAP + 4 * Len(blob.struct) + size_strings(blob)
  /\ blob.off_rsvmap = HEADER /\ blob.off_struct = blob.off_rsvmap + RSVMAP
  /\ blob.off_strings = blob.off_struct + blob.size_struct
  /\ blob.off_strings + blob.size_strings = blob.totalsize
new_parse(blob) ==
  [i |-> 0, depth |-> 0, max_depth |-> 0, prop_count |-> 0, status |-> IF header_ok(blob) THEN "reading" ELSE "AssertionError"]
cell(blob, i) == blob.struct[i + 1]
begin_token(blob, p) ==
  [p EXCEPT !.depth = @ + 1, !.max_depth = IF @ > p.depth THEN @ ELSE p.depth + 1,
            !.i = @ + 1 + (Len(cell(blob, p.i + 1).s) + 1 + 3) \div 4]
end_token(p) == IF p.depth = 0 THEN [p EXCEPT !.status = "AssertionError"] ELSE [p EXCEPT !.depth = @ - 1, !.i = @ + 1]
prop_token(blob, p) ==
  IF cell(blob, p.i + 2).v >= blob.size_strings THEN [p EXCEPT !.status = "AssertionError"]
  ELSE [p EXCEPT !.prop_count = @ + 1, !.i = @ + 3 + (cell(blob, p.i + 1).v + 3) \div 4]
finished(p) == [p EXCEPT !.status = IF p.depth = 0 /\ p.max_depth >= 2 /\ p.prop_count > 0 THEN "passed" ELSE "AssertionError"]
parse_token(blob, p) ==
  LET tok == cell(blob, p.i).v
  IN CASE p.i >= Len(blob.struct) -> [p EXCEPT !.status = "AssertionError"]      \* never reached FDT_END
       [] p.i < Len(blob.struct) /\ tok = FDT_BEGIN_NODE -> begin_token(blob, p)
       [] p.i < Len(blob.struct) /\ tok = FDT_END_NODE -> end_token(p)
       [] p.i < Len(blob.struct) /\ tok = FDT_PROP -> prop_token(blob, p)
       [] p.i < Len(blob.struct) /\ tok = FDT_END -> finished(p)
       [] OTHER -> [p EXCEPT !.status = "AssertionError"]
=============================================================================
