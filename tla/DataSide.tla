------------------------------ MODULE DataSide ------------------------------
(***************************************************************************)
(* The memory stage of design/riscvpipeline.v with CACHE_MODE write-back:  *)
(* the instructions in EX (reg2) and MEM (reg3), the stall and fence       *)
(* control, the scoreboard of registers owed a value by the data cache,    *)
(* and the hierarchy of data cache, optional second level and memory.      *)
(* Address translation is off.  One step is one clock.                     *)
(*                                                                         *)
(* A half-word of memory holds a number that names its address and how     *)
(* often, modulo 2, it was stored to: no two addresses ever hold the same  *)
(* value, and a store always changes what it writes.  No guard depends on  *)
(* data: with TRACK_DATA off, every value is 0 and only control is left.   *)
(***************************************************************************)
EXTENDS Integers, Sequences, FiniteSets

CONSTANTS
  Ops,          \* the instructions that may arrive: op, line, word, half, funct3, dest, src
  MEM_LINES,
  TRACK_DATA,   \* whether memory holds distinguishable values, or only zeros
  WAYS, NUM_SETS, LINE_WORDS, REPLACEMENT_POLICY,
  VICTIM_ENTRIES, MSHR_ENTRIES, PREFETCH_MODE, RUN_BOUND,
  L2_ENABLED, L2_WAYS, L2_NUM_SETS, L2_REPLACEMENT_POLICY

VARIABLES
  clk,                                         \* toggles with every clock
  reg2, reg3,                                  \* the instructions in EX and MEM
  mem_stall_done_r,
  fence_pending_r, fence_flush_started_r,
  l2_flush_pending_r, l2_flush_started_r,
  pending,                                     \* Scoreboard: registers owed a value
  dcache_rdata_captured_r,
  spec,                                        \* memory as the program has left it
  owed,                                        \* accepted loads, oldest first: register and value due
  lines, victim, age, state, hit_r, mshr, mshr_q, hu, fill_word_r, wb, vwb, flush,
  vc, fifo_next_r, pf,
  l2_lines, l2_victim, l2_age, l2_state, l2_hit_r, l2_miss_r, l2_fill_word_r, l2_wb,
  l2_probe_r, l2_flush,
  data_memory, raw_word_r, mem_read_r, req_r, mem_read_pending_r

front == <<reg2, reg3, mem_stall_done_r, fence_pending_r, fence_flush_started_r,
           l2_flush_pending_r, l2_flush_started_r, pending, dcache_rdata_captured_r>>
ghosts == <<spec, owed>>
dcache == <<lines, victim, age, state, hit_r, mshr, mshr_q, hu, fill_word_r, wb, vwb, flush,
            vc, fifo_next_r, pf>>
l2 == <<l2_lines, l2_victim, l2_age, l2_state, l2_hit_r, l2_miss_r, l2_fill_word_r, l2_wb,
        l2_probe_r, l2_flush>>
ram == <<data_memory, raw_word_r, mem_read_r, req_r, mem_read_pending_r>>
vars == <<clk, front, ghosts, dcache, l2, ram>>

Lines == 0..(MEM_LINES - 1)
Words == 0..(LINE_WORDS - 1)
WordAddr == Lines \X Words

D == INSTANCE DCache
L2 == INSTANCE L2Cache WITH
  WAYS <- L2_WAYS, NUM_SETS <- L2_NUM_SETS, REPLACEMENT_POLICY <- L2_REPLACEMENT_POLICY,
  lines <- l2_lines, victim <- l2_victim, age <- l2_age, state <- l2_state, hit_r <- l2_hit_r,
  miss_r <- l2_miss_r, fill_word_r <- l2_fill_word_r, wb <- l2_wb, probe_r <- l2_probe_r,
  flush <- l2_flush
RAM == INSTANCE RamWishboneAdapter WITH Addr <- WordAddr, Zero <- D!ZeroWord

(***************************************************************************)
(* Instructions and their data.                                            *)
(***************************************************************************)
Nop == [op |-> "alu", line |-> 0, word |-> 0, half |-> 0, funct3 |-> "w", dest |-> 0, src |-> 0]

memRead(x) == x.op \in {"load", "fload"}
memWrite(x) == x.op = "store"
regWrite(x) == x.op \in {"load", "alu"}

initial_half(line, word, half) ==
  IF TRACK_DATA THEN 2 * (2 * (line * LINE_WORDS + word) + half) + 1 ELSE 0
rewritten(h) == IF ~TRACK_DATA THEN h ELSE IF h % 2 = 1 THEN h + 1 ELSE h - 1

spec_line(line) == [w \in Words |-> spec[<<line, w>>]]

\* What a store writes, and what a load must read.
store_data(x) ==
  LET word == spec[<<x.line, x.word>>]
      new(pair) == <<rewritten(pair[1]), rewritten(pair[2])>>
  IN  CASE x.funct3 = "h" -> <<rewritten(word[x.half + 1])>>
        [] x.funct3 = "w" -> new(word)
        [] x.funct3 = "d" -> new(word) \o new(spec[<<x.line, x.word + 1>>])
Expected(x) == D!load_from(spec_line(x.line), x.word, x.funct3, x.half)

(***************************************************************************)
(* Wires.                                                                  *)
(***************************************************************************)
ram_cyc == IF L2_ENABLED THEN L2!m_cyc ELSE D!m_cyc
ram_we == IF L2_ENABLED THEN L2!m_we ELSE D!m_we
lsu_ack == RAM!s_ack(ram_cyc, ram_we)

l2d_flush_all == l2_flush_pending_r /\ ~l2_flush_started_r

l2_in ==
  LET found == L2!probe_req /\ D!probe_found(L2!probe_addr)
      copy  == D!probe_line(L2!probe_addr)
  IN  [u_cyc |-> D!m_cyc, u_we |-> D!m_we,
       u_addr |-> IF D!m_cyc THEN D!m_addr ELSE <<0, 0>>,
       u_data_o |-> IF D!m_we THEN D!m_data_o ELSE D!ZeroWord,
       m_ack |-> lsu_ack, m_data_i |-> RAM!s_data_i,
       probe_ack |-> D!probe_ack([probe_req |-> L2!probe_req]),
       probe_dirty |-> found /\ copy.dirty,
       probe_data |-> IF found THEN copy.data ELSE D!NoLine.data,
       flush_all |-> l2d_flush_all]

\* The data cache's ports, given those of the second level.
dcache_in(l2_ports) ==
  [req_read |-> memRead(reg3), req_write |-> memWrite(reg3),
   line |-> reg3.line, word |-> reg3.word, half |-> reg3.half, funct3 |-> reg3.funct3,
   wdata |-> IF memWrite(reg3) THEN store_data(reg3) ELSE D!ZeroWord,
   dest |-> reg3.dest, int_load |-> regWrite(reg3),
   flush_all |-> fence_pending_r /\ ~fence_flush_started_r /\ ~D!mshr_outstanding,
   m_ack |-> IF L2_ENABLED THEN L2!u_ack(l2_ports) ELSE lsu_ack,
   m_data_i |-> IF L2_ENABLED THEN L2!u_data_i(l2_ports) ELSE RAM!s_data_i,
   probe_req |-> L2_ENABLED /\ L2!probe_req,
   probe_line |-> L2!probe_addr]

fence_complete_l1 == flush.done
fence_complete == IF L2_ENABLED THEN l2_flush.done ELSE flush.done

\* From here on i is dcache_in(l2_in).
mem_access_ready(i) == IF fence_pending_r THEN fence_complete ELSE D!resp_ready(i)
mem_trigger(i) ==
  memRead(reg3) \/ (memWrite(reg3) /\ ~D!resp_ready(i)) \/ fence_pending_r
mem_stall(i) == mem_trigger(i) /\ ~mem_stall_done_r /\ ~D!mshr_accept(i)

\* Decode: the instruction in ID waits for a load in EX it reads (Hazard), or
\* for a register the data cache still owes, or comes to owe in this clock.
load_use_stall(x) == reg2.op = "load" /\ reg2.dest = x.src
scoreboard_stall(i, x) ==
  LET owing == pending \cup (IF D!mshr_accept(i) THEN {reg3.dest} \ {0} ELSE {})
  IN  x.src \in owing \/ (regWrite(x) /\ x.dest \in owing)

(***************************************************************************)
(* One clock.                                                              *)
(***************************************************************************)
Init ==
  /\ clk = FALSE
  /\ reg2 = Nop
  /\ reg3 = Nop
  /\ mem_stall_done_r = FALSE
  /\ fence_pending_r = FALSE
  /\ fence_flush_started_r = FALSE
  /\ l2_flush_pending_r = FALSE
  /\ l2_flush_started_r = FALSE
  /\ pending = {}
  /\ dcache_rdata_captured_r = <<0, 0>>
  /\ spec = [a \in WordAddr |-> <<initial_half(a[1], a[2], 0), initial_half(a[1], a[2], 1)>>]
  /\ owed = <<>>
  /\ D!Init
  /\ L2!Init
  /\ RAM!Init(spec, <<0, 0>>)

\* Instruction x, or a bubble, enters EX unless the memory stage holds.
Advance(i) ==
  IF mem_stall(i) THEN UNCHANGED <<reg2, reg3>>
  ELSE /\ reg3' = reg2
       /\ \E x \in Ops \cup {Nop} :
            /\ x = Nop \/ ~(load_use_stall(x) \/ scoreboard_stall(i, x))
            /\ reg2' = x

FenceControl(i) ==
  /\ fence_pending_r' = IF fence_complete THEN FALSE
                        ELSE fence_pending_r \/ (reg2.op = "fence" /\ ~mem_stall(i))
  /\ fence_flush_started_r' = (fence_pending_r /\ (fence_flush_started_r \/ flush.active))
  /\ l2_flush_pending_r' = IF ~L2_ENABLED \/ l2_flush.done THEN FALSE
                           ELSE l2_flush_pending_r \/ flush.done
  /\ l2_flush_started_r' = (l2_flush_pending_r /\ (l2_flush_started_r \/ l2_flush.active))

Scoreboard(i) ==
  LET allocated == IF D!mshr_accept(i) THEN {reg3.dest} ELSE {}
      completed == IF D!mshr_complete(i) THEN {D!head.dest} ELSE {}
  IN  pending' = (pending \ completed) \cup (allocated \ {0})

\* Memory as the program leaves it, and the value an accepted load is owed.
Observe(i) ==
  /\ spec' = IF memWrite(reg3) /\ ~mem_stall(i)
             THEN LET stored == D!store_into(spec_line(reg3.line), reg3.word, reg3.funct3,
                                             reg3.half, store_data(reg3))
                  IN  [a \in WordAddr |-> IF a[1] = reg3.line THEN stored[a[2]] ELSE spec[a]]
             ELSE spec
  /\ owed' = (IF D!mshr_complete(i) THEN Tail(owed) ELSE owed)
               \o (IF D!mshr_accept(i) THEN <<[reg |-> reg3.dest, value |-> Expected(reg3)]>> ELSE <<>>)

Next ==
  LET j == l2_in
      i == dcache_in(j)
      s_addr == IF ~ram_cyc THEN <<0, 0>> ELSE IF L2_ENABLED THEN L2!m_addr ELSE D!m_addr
      s_data == IF ~ram_we THEN D!ZeroWord ELSE IF L2_ENABLED THEN L2!m_data_o ELSE D!m_data_o
  IN  /\ clk' = ~clk
      /\ mem_stall_done_r' = (mem_stall(i) /\ mem_access_ready(i))
      /\ FenceControl(i)
      /\ Scoreboard(i)
      /\ dcache_rdata_captured_r' =
           IF D!resp_ready(i) THEN D!resp_rdata(i) ELSE dcache_rdata_captured_r
      /\ Observe(i)
      /\ D!Cycle(i)
      /\ IF L2_ENABLED THEN L2!Cycle(j) ELSE UNCHANGED l2
      /\ RAM!Cycle(ram_cyc, ram_we, s_addr, s_data)
      /\ Advance(i)

Spec == Init /\ [][Next]_vars

\* The clock never stops.
FairSpec == Spec /\ []<><<TRUE>>_clk

(***************************************************************************)
(* Properties.                                                             *)
(***************************************************************************)
\* Type correctness of the data cache's engine and the memory stage.
TypeOK ==
  /\ reg2 \in Ops \cup {Nop} /\ reg3 \in Ops \cup {Nop}
  /\ state \in {"S_IDLE", "S_HIT_RD", "S_WB", "S_FILL", "S_FLUSH_SCAN"}
  /\ l2_state \in {"S_IDLE", "S_HIT_RD", "S_PROBE_WAIT", "S_WB", "S_FILL", "S_FLUSH_SCAN"}
  /\ fill_word_r \in Words /\ l2_fill_word_r \in Words
  /\ mshr_q \in [head : 0..(MSHR_ENTRIES - 1), tail : 0..(MSHR_ENTRIES - 1), count : 0..MSHR_ENTRIES]
  /\ data_memory \in [WordAddr -> Nat \X Nat]

\* A load that leaves the memory stage with an answer (DCache.v resp_ready and
\* resp_rdata, captured by riscvpipeline.v) carries what the program's stores
\* left at its address, at its width, whichever of the hit, fill, probe and
\* write-back steps of the two caches came between.
LoadValue ==
  LET i == dcache_in(l2_in)
  IN  memRead(reg3) /\ ~mem_stall(i) /\ ~D!mshr_accept(i) => dcache_rdata_captured_r = Expected(reg3)

\* When a fence lets the pipeline go (fence_complete), backing memory holds
\* every store that came before it.
FenceReachesMemory == fence_complete => data_memory = spec

filling(x) == state = "S_FILL" /\ x = D!head_slot
l2_filling(y) == l2_state = "S_FILL" /\ y = L2!miss_slot
memory_line(line) == [w \in Words |-> data_memory[<<line, w>>]]
below(line) ==
  IF L2_ENABLED /\ L2!hit_main(line) THEN l2_lines[L2!hit_line_idx(line)].data ELSE memory_line(line)

\* A line marked clean, which either cache drops without writing it back, is
\* equal to the copy of the level below.
CleanAgrees ==
  /\ \A x \in D!Slots :
       lines[x].valid /\ ~lines[x].dirty /\ ~filling(x) => lines[x].data = below(lines[x].tag)
  /\ \A y \in L2!Slots :
       l2_lines[y].valid /\ ~l2_lines[y].dirty /\ ~l2_filling(y)
         => l2_lines[y].data = memory_line(l2_lines[y].tag)

\* The second level is inclusive: what it drops it has first taken from the
\* data cache by the probe.
Inclusion ==
  L2_ENABLED => \A x \in D!Slots : lines[x].valid => L2!hit_main(lines[x].tag)

\* The levels of the hierarchy of DCache.v and L2Cache.v are typed, inclusive,
\* and differ only where a line is marked dirty.
HierarchyInv == TypeOK /\ CleanAgrees /\ Inclusion

\* No line is in two ways of the data cache, whatever misses, prefetches and
\* promotions overlap: hit_data and hit_line_idx OR the ways that hit.
OneCopy ==
  \A x, y \in D!Slots : lines[x].valid /\ lines[y].valid /\ lines[x].tag = lines[y].tag => x = y

\* The miss queue is a gapless FIFO, and the engine is busy exactly while it
\* is not empty: "state never returns to S_IDLE while any MSHR is outstanding".
MshrQueueConsistent ==
  /\ \A k \in 0..(MSHR_ENTRIES - 1) :
       mshr[(mshr_q.head + k) % MSHR_ENTRIES].valid <=> k < mshr_q.count
  /\ mshr_q.tail = (mshr_q.head + mshr_q.count) % MSHR_ENTRIES
  /\ mshr_q.count > 0 <=> state \in {"S_WB", "S_FILL"} /\ ~flush.active

\* The registers that accepted loads are still to write.
owed_regs ==
  {mshr[m].dest : m \in {n \in DOMAIN mshr :
                          mshr[n].valid /\ mshr[n].early_retired /\ ~mshr[n].is_prefetch}} \ {0}

\* The scoreboard marks exactly the registers the miss queue is to write.
ScoreboardCovers == pending = owed_regs

\* An instruction in EX has read no register the data cache still owes.
ConsumerWaits == reg2.src \notin owed_regs


\* The memory stage always moves on: no miss, fence, probe or write-back waits
\* for another for ever.
StallEnds == []<>(~mem_stall(dcache_in(l2_in)))

\* Every register the data cache owes is written in the end.
OwedArrive == \A r \in {x.dest : x \in Ops} : r \in pending ~> r \notin pending

\* "tags are unique within this buffer by construction" (VictimCache.v), whose
\* lookup ORs the entries that hit.  With MSHRs it does not hold: see README.
VictimTagsUnique ==
  \A e, f \in DOMAIN vc : vc[e].valid /\ vc[f].valid /\ vc[e].tag = vc[f].tag => e = f
=============================================================================
