------------------------------- MODULE DCache -------------------------------
(***************************************************************************)
(* design/DCache.v: the write-back, write-allocate data cache with its     *)
(* queue of outstanding load misses (MSHRs), victim buffer, prefetcher,    *)
(* inclusion probe and fence flush.  One step is one clock.                *)
(*                                                                         *)
(* An address is <<line, word, half>>: the widths the cache tells apart    *)
(* are half, word and double word.  The operand i of an operator holds the *)
(* input ports of the clock.  A register nobody reads until it is written  *)
(* again (the fields of a free MSHR, the latches of an answered hit)       *)
(* returns to its reset value.                                             *)
(***************************************************************************)
EXTENDS CacheArray

CONSTANTS
  VICTIM_ENTRIES, MSHR_ENTRIES,
  PREFETCH_MODE, RUN_BOUND,    \* see Prefetcher
  MEM_LINES                    \* lines of backing memory

VARIABLES
  state,        \* of the fill and write-back engine
  hit_r,        \* the read hit being answered: slot, word, half, funct3, address
  mshr,         \* mshr[m]: the outstanding misses
  mshr_q,       \* head, tail and count of their queue
  hu,           \* hit under miss: pending, data
  fill_word_r,  \* progress of the fill or write-back
  wb,           \* line slot, line address and flush mark of the write-back
  vwb,          \* write-back of a line the victim buffer drops
  flush,        \* scan position, active, done
  vc, fifo_next_r, pf

VC == INSTANCE VictimCache WITH ENTRIES <- VICTIM_ENTRIES
PF == INSTANCE Prefetcher WITH MODE <- PREFETCH_MODE

target_is_dirty(line) == lines[target(line)].valid /\ lines[target(line)].dirty

(***************************************************************************)
(* Widths.  Store data is a sequence of halves, the low one first.         *)
(***************************************************************************)
SignHalf == -1   \* the upper half of a sign-extended half
ZeroHalf == 0
dcache_extend_read(word, funct3, half) ==
  CASE funct3 = "h"  -> <<word[half + 1], SignHalf>>
    [] funct3 = "hu" -> <<word[half + 1], ZeroHalf>>
    [] OTHER         -> word

dcache_merge_write(old, funct3, half, wdata) ==
  IF funct3 = "h" THEN [old EXCEPT ![half + 1] = wdata[1]] ELSE SubSeq(wdata, 1, 2)

\* A store's effect on a line's words.
store_into(data, at, funct3, half, wdata) ==
  [w \in Words |->
     IF w = at THEN dcache_merge_write(data[w], funct3, half, wdata)
     ELSE IF funct3 = "d" /\ w = at + 1 THEN SubSeq(wdata, 3, 4)
     ELSE data[w]]

\* A load's answer from a line's words.
load_from(data, at, funct3, half) ==
  IF funct3 = "d" THEN data[at] \o data[at + 1]
  ELSE dcache_extend_read(data[at], funct3, half)

(***************************************************************************)
(* Combinational outputs and decisions.                                    *)
(***************************************************************************)
vc_lookup_hit(i) == VC!lookup_hit(i.line)
hit(i) == hit_main(i.line) \/ vc_lookup_hit(i)
req_addr(i) == <<i.line, i.word, i.half>>

vc_do_swap(i) == state = "S_IDLE" /\ ~hit_main(i.line) /\ vc_lookup_hit(i)
vc_do_insert(i) ==
  state = "S_IDLE" /\ ~hit_main(i.line) /\ ~vc_lookup_hit(i) /\ lines[target(i.line)].valid
evict_out_dirty(i) == VC!evict_out_dirty(vc_do_insert(i))

head == mshr[mshr_q.head]
head_slot == slot(head.line, head.way)
fill_is_last_word == fill_word_r = LINE_WORDS - 1

\* The head's line as the word arriving now leaves it.
fill_value(i) ==
  IF head.is_write
  THEN store_into([w \in Words |-> i.m_data_i], head.word, head.funct3, head.half, head.wdata)[fill_word_r]
  ELSE i.m_data_i
filled(i) == [lines[head_slot].data EXCEPT ![fill_word_r] = fill_value(i)]

mshr_addr_line_conflict(line) == \E m \in DOMAIN mshr : mshr[m].valid /\ mshr[m].line = line
fresh_dispatch_ok(i) == state = "S_IDLE" /\ ~(i.flush_all /\ ~flush.active)
mshr_fresh_load_miss(i) ==
  fresh_dispatch_ok(i) /\ i.req_read /\ ~i.req_write /\ ~hit(i) /\ i.int_load /\ MSHR_ENTRIES > 1
mshr_busy == state \in {"S_WB", "S_FILL"}
mshr_busy_dispatch_hit(i) == mshr_busy /\ i.req_read /\ ~i.req_write /\ hit_main(i.line)
mshr_room_no_conflict(i) == MSHR_ENTRIES > 1 /\ mshr_q.count < MSHR_ENTRIES
mshr_room(i) ==
  MSHR_ENTRIES > 1 /\ mshr_q.count < MSHR_ENTRIES /\ ~mshr_addr_line_conflict(i.line)
mshr_busy_dispatch_miss(i) ==
  mshr_busy /\ i.req_read /\ ~i.req_write /\ ~hit(i) /\ i.int_load /\ mshr_room(i)
mshr_accept(i) == mshr_fresh_load_miss(i) \/ mshr_busy_dispatch_miss(i)
mshr_complete_now(i) == state = "S_FILL" /\ i.m_ack /\ fill_is_last_word

hit_answers_any(i) == state = "S_HIT_RD" /\ i.req_read
hit_answers(i) == state = "S_HIT_RD" /\ i.req_read /\ req_addr(i) = hit_r.addr
fill_answers(i) ==
  mshr_complete_now(i) /\ ~head.early_retired /\ ~head.is_prefetch
    /\ (i.req_read \/ i.req_write) /\ req_addr(i) = head.orig
resp_ready(i) ==
  (state = "S_IDLE" /\ hit(i) /\ i.req_write) \/ hit_answers(i) \/ fill_answers(i) \/ hu.pending

fill_rdata(i) == load_from(filled(i), head.word, head.funct3, head.half)
resp_rdata(i) ==
  IF hit_answers(i) THEN load_from(lines[hit_r.slot].data, hit_r.word, hit_r.funct3, hit_r.half)
  ELSE IF fill_answers(i) THEN fill_rdata(i)
  ELSE IF hu.pending THEN hu.data
  ELSE ZeroWord

mshr_complete_when_alone(i) == mshr_complete_now(i) /\ head.early_retired /\ ~head.is_prefetch /\ mshr_q.count = 1
mshr_complete(i) == mshr_complete_now(i) /\ head.early_retired /\ ~head.is_prefetch
mshr_outstanding == mshr_q.count # 0

access_hit(i) == (state = "S_IDLE" /\ i.req_write /\ hit(i)) \/ hit_answers(i)
access_miss(i) ==
  (state = "S_IDLE" /\ (i.req_read \/ i.req_write) /\ ~hit(i)) \/ mshr_busy_dispatch_miss(i)

\* The inclusion probe is answered at once, in any state.
probe_ack_idle(i) == i.probe_req /\ state = "S_IDLE"
probe_ack(i) == i.probe_req
probe_found(line) == hit_main(line)
probe_line(line) == lines[hit_line_idx(line)]

m_cyc == state \in {"S_WB", "S_FILL"}
m_we == state = "S_WB"
m_addr == <<IF state = "S_WB" THEN wb.base ELSE head.line, fill_word_r>>
m_data_o == IF vwb.active THEN vwb.data[fill_word_r] ELSE lines[wb.line].data[fill_word_r]

(***************************************************************************)
(* Sequential part.  The blocks outside case(state) come first.            *)
(***************************************************************************)
NoMiss ==
  [valid |-> FALSE, line |-> 0, way |-> 0, word |-> 0, half |-> 0, funct3 |-> "w", dest |-> 0,
   orig |-> <<0, 0, 0>>, is_write |-> FALSE, wdata |-> ZeroWord, early_retired |-> FALSE,
   need_wb |-> FALSE, wb_line |-> 0, wb_base |-> 0, is_prefetch |-> FALSE]
NoHit == [pending |-> FALSE, data |-> ZeroWord]
NoHitRead == [slot |-> 0, word |-> 0, half |-> 0, funct3 |-> "w", addr |-> <<0, 0, 0>>]
NoWriteBack == [line |-> 0, base |-> 0, to_flush |-> FALSE]
NoVictimWriteBack == [pending |-> FALSE, active |-> FALSE, tag |-> 0, data |-> NoLine.data]

Init ==
  /\ InitArray
  /\ state = "S_IDLE"
  /\ hit_r = NoHitRead
  /\ mshr = [m \in 0..(MSHR_ENTRIES - 1) |-> NoMiss]
  /\ mshr_q = [head |-> 0, tail |-> 0, count |-> 0]
  /\ hu = NoHit
  /\ fill_word_r = 0
  /\ wb = NoWriteBack
  /\ vwb = NoVictimWriteBack
  /\ flush = [scan |-> 0, active |-> FALSE, done |-> FALSE]
  /\ VC!Init(NoLine)
  /\ PF!Init

\* The way a hit touches: the one hit, or the one a promoted line goes to.
access_hit_way(i) ==
  IF state = "S_HIT_RD" THEN hit_r.slot % WAYS
  ELSE IF hit_main(i.line) THEN hit_line_idx(i.line) % WAYS
  ELSE victim_target_way(i.line)

Recency(i) ==
  age' = IF REPLACEMENT_POLICY # "lru" THEN age
         ELSE IF access_hit(i) THEN lru_touch(i.line, access_hit_way(i))
         ELSE IF mshr_complete_now(i) THEN lru_touch(head.line, head.way)
         ELSE age

HitUnderMiss(i) ==
  hu' = IF mshr_busy_dispatch_hit(i)
        THEN [pending |-> TRUE,
              data |-> dcache_extend_read(lines[hit_line_idx(i.line)].data[i.word], i.funct3, i.half)]
        ELSE NoHit

fresh_miss(i) == fresh_dispatch_ok(i) /\ (i.req_read \/ i.req_write) /\ ~hit(i)
prefetch_fire ==
  /\ PREFETCH_MODE # "off" /\ MSHR_ENTRIES > 1 /\ PF!pf_valid
  /\ ~hit_main(PF!pf_addr)
  /\ ~mshr_addr_line_conflict(PF!pf_addr)
  /\ ~target_is_dirty(PF!pf_addr)
  /\ mshr_q.count < MSHR_ENTRIES
  /\ PF!pf_addr < MEM_LINES
prefetch_start(i) == fresh_dispatch_ok(i) /\ ~i.req_read /\ ~i.req_write /\ prefetch_fire

\* Whether the load of a new entry leaves the pipeline before its data comes.
retires_early(i) == mshr_accept(i)

\* The entry of a miss on the presented address.
demand_entry(i) ==
  [valid |-> TRUE, line |-> i.line, way |-> victim_target_way(i.line), word |-> i.word,
   half |-> i.half, funct3 |-> i.funct3, dest |-> i.dest, orig |-> req_addr(i),
   is_write |-> i.req_write, wdata |-> IF i.req_write THEN i.wdata ELSE ZeroWord,
   early_retired |-> retires_early(i), need_wb |-> target_is_dirty(i.line),
   wb_line |-> target(i.line), wb_base |-> lines[target(i.line)].tag, is_prefetch |-> FALSE]
prefetch_entry ==
  [NoMiss EXCEPT !.valid = TRUE, !.line = PF!pf_addr, !.way = victim_target_way(PF!pf_addr),
                 !.early_retired = TRUE, !.is_prefetch = TRUE]

mshr_next(m) == IF m = MSHR_ENTRIES - 1 THEN 0 ELSE m + 1
mshr_head_next == mshr_next(mshr_q.head)
mshr_alloc_now(i) == mshr_busy_dispatch_miss(i)

\* The queue of misses: one leaves when its fill ends, one may enter.
MshrQueue(i) ==
  LET enters == mshr_alloc_now(i) \/ fresh_miss(i) \/ prefetch_start(i)
      leaves == mshr_complete_now(i)
      entry  == IF prefetch_start(i) THEN prefetch_entry ELSE demand_entry(i)
  IN  /\ mshr' = [m \in DOMAIN mshr |->
                    IF enters /\ m = mshr_q.tail THEN entry
                    ELSE IF leaves /\ m = mshr_q.head THEN NoMiss
                    ELSE mshr[m]]
      /\ mshr_q' = [head  |-> IF leaves THEN mshr_head_next ELSE mshr_q.head,
                    tail  |-> IF enters THEN mshr_next(mshr_q.tail) ELSE mshr_q.tail,
                    count |-> mshr_q.count + (IF enters THEN 1 ELSE 0) - (IF leaves THEN 1 ELSE 0)]

\* The line array once the probe is done.
Probed(i) ==
  IF i.probe_req /\ probe_found(i.probe_line)
  THEN [lines EXCEPT ![hit_line_idx(i.probe_line)].valid = FALSE]
  ELSE lines

\* flush_done is a pulse: every arm but the end of the scan clears it.
quiet_flush == [flush EXCEPT !.done = FALSE]

(***************************************************************************)
(* The arms of case(state).                                                *)
(***************************************************************************)
FlushStart(i) ==
  /\ state = "S_IDLE" /\ i.flush_all /\ ~flush.active
  /\ state' = "S_FLUSH_SCAN"
  /\ flush' = [scan |-> 0, active |-> TRUE, done |-> FALSE]
  /\ lines' = Probed(i)
  /\ UNCHANGED <<victim, hit_r, fill_word_r, wb, vwb>>

WriteHit(i) ==
  /\ fresh_dispatch_ok(i) /\ i.req_write /\ hit_main(i.line)
  /\ lines' = LET x == hit_line_idx(i.line)
                  stored == store_into(lines[x].data, i.word, i.funct3, i.half, i.wdata)
              IN  [Probed(i) EXCEPT ![x].data = stored, ![x].dirty = TRUE]
  /\ flush' = quiet_flush
  /\ UNCHANGED <<victim, state, hit_r, fill_word_r, wb, vwb>>

latched(i, x) ==
  [slot |-> x, word |-> i.word, half |-> i.half, funct3 |-> i.funct3, addr |-> req_addr(i)]

ReadHit(i) ==
  /\ fresh_dispatch_ok(i) /\ i.req_read /\ ~i.req_write /\ hit_main(i.line)
  /\ state' = "S_HIT_RD"
  /\ hit_r' = latched(i, hit_line_idx(i.line))
  /\ lines' = Probed(i)
  /\ flush' = quiet_flush
  /\ UNCHANGED <<victim, fill_word_r, wb, vwb>>

\* A line found in the victim buffer changes places with the line it displaces.
promotes(i) == fresh_dispatch_ok(i) /\ ~hit_main(i.line) /\ vc_lookup_hit(i)
promoted(i) == VC!lookup(i.line)

PromoteWrite(i) ==
  /\ promotes(i) /\ i.req_write
  /\ lines' = LET p == promoted(i)
                  stored == store_into(p.data, i.word, i.funct3, i.half, i.wdata)
              IN  [Probed(i) EXCEPT ![target(i.line)] = [p EXCEPT !.data = stored, !.dirty = TRUE]]
  /\ victim' = rotated(i.line, victim_target_way(i.line))
  /\ flush' = quiet_flush
  /\ UNCHANGED <<state, hit_r, fill_word_r, wb, vwb>>

PromoteRead(i) ==
  /\ promotes(i) /\ i.req_read /\ ~i.req_write
  /\ lines' = [Probed(i) EXCEPT ![target(i.line)] = promoted(i)]
  /\ victim' = rotated(i.line, victim_target_way(i.line))
  /\ state' = "S_HIT_RD"
  /\ hit_r' = latched(i, target(i.line))
  /\ flush' = quiet_flush
  /\ UNCHANGED <<fill_word_r, wb, vwb>>

\* A miss first writes back the line it displaces, then a dirty line the
\* victim buffer drops for it.
Miss(i) ==
  /\ fresh_miss(i)
  /\ lines' = Probed(i)
  /\ fill_word_r' = 0
  /\ state' = IF target_is_dirty(i.line) \/ evict_out_dirty(i) THEN "S_WB" ELSE "S_FILL"
  /\ wb' = IF target_is_dirty(i.line)
           THEN [line |-> target(i.line), base |-> lines[target(i.line)].tag, to_flush |-> FALSE]
           ELSE IF evict_out_dirty(i) THEN [wb EXCEPT !.base = VC!evict_out.tag]
           ELSE wb
  /\ vwb' = IF evict_out_dirty(i)
            THEN [pending |-> TRUE, active |-> ~target_is_dirty(i.line),
                  tag |-> VC!evict_out.tag, data |-> VC!evict_out.data]
            ELSE NoVictimWriteBack
  /\ flush' = quiet_flush
  /\ UNCHANGED <<victim, hit_r>>

PrefetchStart(i) ==
  /\ prefetch_start(i)
  /\ lines' = Probed(i)
  /\ state' = "S_FILL"
  /\ fill_word_r' = 0
  /\ vwb' = NoVictimWriteBack
  /\ flush' = quiet_flush
  /\ UNCHANGED <<victim, hit_r, wb>>

Idle(i) ==
  /\ fresh_dispatch_ok(i) /\ ~i.req_read /\ ~i.req_write /\ ~prefetch_fire
  /\ lines' = Probed(i)
  /\ flush' = quiet_flush
  /\ UNCHANGED <<victim, state, hit_r, fill_word_r, wb, vwb>>

HitRead(i) ==
  /\ state = "S_HIT_RD"
  /\ state' = "S_IDLE"
  /\ hit_r' = NoHitRead
  /\ lines' = Probed(i)
  /\ flush' = quiet_flush
  /\ UNCHANGED <<victim, fill_word_r, wb, vwb>>
\* The bus has not answered, or has taken a word that is not the last.
BusWord(i) ==
  /\ mshr_busy
  /\ ~i.m_ack \/ ~fill_is_last_word
  /\ fill_word_r' = IF i.m_ack THEN fill_word_r + 1 ELSE fill_word_r
  /\ lines' = IF state = "S_FILL" /\ i.m_ack
              THEN [Probed(i) EXCEPT ![head_slot].data = filled(i)]
              ELSE Probed(i)
  /\ flush' = quiet_flush
  /\ UNCHANGED <<victim, state, hit_r, wb, vwb>>

write_back_ends(i) == state = "S_WB" /\ i.m_ack /\ fill_is_last_word
cleaned(i) == [Probed(i) EXCEPT ![wb.line].dirty = FALSE]

WbVictimDone(i) ==
  /\ write_back_ends(i) /\ vwb.active
  /\ state' = "S_FILL"
  /\ fill_word_r' = 0
  /\ vwb' = NoVictimWriteBack
  /\ wb' = NoWriteBack
  /\ lines' = Probed(i)
  /\ flush' = quiet_flush
  /\ UNCHANGED <<victim, hit_r>>

\* The next step of the scan, after a line that is clean by now.
scan_ends == flush.scan = NUM_LINES - 1
scanned ==
  IF scan_ends THEN [scan |-> 0, active |-> FALSE, done |-> TRUE]
  ELSE [scan |-> flush.scan + 1, active |-> TRUE, done |-> FALSE]
after_scan == IF scan_ends THEN "S_IDLE" ELSE "S_FLUSH_SCAN"

WbFlushDone(i) ==
  /\ write_back_ends(i) /\ ~vwb.active /\ wb.to_flush
  /\ state' = after_scan
  /\ flush' = scanned
  /\ fill_word_r' = 0
  /\ wb' = NoWriteBack
  /\ lines' = cleaned(i)
  /\ UNCHANGED <<victim, hit_r, vwb>>

WbChain(i) ==
  /\ write_back_ends(i) /\ ~vwb.active /\ ~wb.to_flush /\ vwb.pending
  /\ vwb' = [vwb EXCEPT !.active = TRUE]
  /\ wb' = [NoWriteBack EXCEPT !.base = vwb.tag]
  /\ fill_word_r' = 0
  /\ lines' = cleaned(i)
  /\ flush' = quiet_flush
  /\ UNCHANGED <<victim, state, hit_r>>

WbDone(i) ==
  /\ write_back_ends(i) /\ ~vwb.active /\ ~wb.to_flush /\ ~vwb.pending
  /\ state' = "S_FILL"
  /\ fill_word_r' = 0
  /\ wb' = NoWriteBack
  /\ lines' = cleaned(i)
  /\ flush' = quiet_flush
  /\ UNCHANGED <<victim, hit_r, vwb>>

\* The miss served after the one at the head: one accepted in this very
\* clock when the queue would otherwise be empty.
mshr_count_after_complete_no_alloc(i) == mshr_q.count - 1
mshr_count_after_complete(i) == mshr_q.count - 1 + (IF mshr_alloc_now(i) THEN 1 ELSE 0)
new_head(i) ==
  IF mshr_alloc_now(i) /\ mshr_head_next = mshr_q.tail THEN demand_entry(i) ELSE mshr[mshr_head_next]

installed_clean(i) == [valid |-> TRUE, dirty |-> FALSE, tag |-> head.line, data |-> filled(i)]
installed(i) == [valid |-> TRUE, dirty |-> head.is_write, tag |-> head.line, data |-> filled(i)]

FillDone(i) ==
  /\ mshr_complete_now(i)
  /\ lines' = [Probed(i) EXCEPT ![head_slot] = installed(i)]
  /\ victim' = rotated(head.line, head.way)
  /\ fill_word_r' = 0
  /\ LET more == mshr_count_after_complete(i) # 0
         writes_back == more /\ new_head(i).need_wb
     IN  /\ state' = IF ~more THEN "S_IDLE" ELSE IF writes_back THEN "S_WB" ELSE "S_FILL"
         /\ wb' = IF writes_back
                  THEN [line |-> new_head(i).wb_line, base |-> new_head(i).wb_base, to_flush |-> FALSE]
                  ELSE NoWriteBack
  /\ flush' = quiet_flush
  /\ UNCHANGED <<hit_r, vwb>>

ScanWriteBack(i) ==
  /\ state = "S_FLUSH_SCAN" /\ lines[flush.scan].valid /\ lines[flush.scan].dirty
  /\ state' = "S_WB"
  /\ wb' = [line |-> flush.scan, base |-> lines[flush.scan].tag, to_flush |-> TRUE]
  /\ fill_word_r' = 0
  /\ lines' = Probed(i)
  /\ flush' = quiet_flush
  /\ UNCHANGED <<victim, hit_r, vwb>>

ScanNext(i) ==
  /\ state = "S_FLUSH_SCAN" /\ ~(lines[flush.scan].valid /\ lines[flush.scan].dirty)
  /\ state' = after_scan
  /\ flush' = scanned
  /\ lines' = Probed(i)
  /\ UNCHANGED <<victim, hit_r, fill_word_r, wb, vwb>>

Cycle(i) ==
  /\ \/ FlushStart(i) \/ WriteHit(i) \/ ReadHit(i) \/ PromoteWrite(i) \/ PromoteRead(i)
     \/ Miss(i) \/ PrefetchStart(i) \/ Idle(i) \/ HitRead(i) \/ BusWord(i)
     \/ WbVictimDone(i) \/ WbFlushDone(i) \/ WbChain(i) \/ WbDone(i) \/ FillDone(i)
     \/ ScanWriteBack(i) \/ ScanNext(i)
  /\ Recency(i)
  /\ HitUnderMiss(i)
  /\ MshrQueue(i)
  /\ VC!Cycle(i.line, vc_do_swap(i), vc_do_insert(i), lines[target(i.line)])
  /\ PF!Cycle(access_miss(i), i.line)
=============================================================================
