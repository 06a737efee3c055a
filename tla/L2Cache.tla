------------------------------ MODULE L2Cache -------------------------------
(***************************************************************************)
(* design/L2Cache.v: the blocking, inclusive second-level cache under the  *)
(* data cache.  Before it drops a line it asks the data cache for its copy *)
(* (the probe).  Requests are whole words, the only width its caller       *)
(* uses.  The operand i holds the input ports of the clock.                *)
(***************************************************************************)
EXTENDS CacheArray

VARIABLES
  state,
  hit_r,        \* the read hit being answered: slot, address
  miss_r,       \* the miss being served: address, way, is_write, wdata
  fill_word_r,  \* progress of the fill or write-back
  wb,           \* line slot, line address and flush mark of the write-back
  probe_r,      \* the data cache's copy of the line: dirty, data
  flush         \* scan position, active, done

NoHitRead == [slot |-> 0, addr |-> <<0, 0>>]
NoMiss == [addr |-> <<0, 0>>, way |-> 0, is_write |-> FALSE, wdata |-> ZeroWord]
NoWriteBack == [line |-> 0, base |-> 0, to_flush |-> FALSE]
NoProbe == [dirty |-> FALSE, data |-> NoLine.data]

Init ==
  /\ InitArray
  /\ state = "S_IDLE"
  /\ hit_r = NoHitRead
  /\ miss_r = NoMiss
  /\ fill_word_r = 0
  /\ wb = NoWriteBack
  /\ probe_r = NoProbe
  /\ flush = [scan |-> 0, active |-> FALSE, done |-> FALSE]

u_line(i) == i.u_addr[1]
u_word(i) == i.u_addr[2]
hit(i) == hit_main(u_line(i))

fill_is_last_word == fill_word_r = LINE_WORDS - 1
miss_slot == slot(miss_r.addr[1], miss_r.way)
fill_value(i) ==
  IF miss_r.is_write /\ fill_word_r = miss_r.addr[2] THEN miss_r.wdata ELSE i.m_data_i
filled(i) == [lines[miss_slot].data EXCEPT ![fill_word_r] = fill_value(i)]
fill_ends(i) == state = "S_FILL" /\ i.m_ack /\ fill_is_last_word

write_hits(i) == state = "S_IDLE" /\ i.u_cyc /\ i.u_we /\ hit(i)
hit_answers(i) == state = "S_HIT_RD" /\ i.u_addr = hit_r.addr
fill_answers(i) == fill_ends(i) /\ i.u_addr = miss_r.addr

u_ack(i) == write_hits(i) \/ hit_answers(i) \/ fill_answers(i)
u_data_i(i) ==
  IF hit_answers(i) THEN lines[hit_r.slot].data[hit_r.addr[2]]
  ELSE IF fill_answers(i) THEN filled(i)[miss_r.addr[2]]
  ELSE ZeroWord

probe_req == state = "S_PROBE_WAIT"
probe_addr == wb.base

m_cyc == state \in {"S_WB", "S_FILL"}
m_we == state = "S_WB"
m_addr == <<IF state = "S_WB" THEN wb.base ELSE miss_r.addr[1], fill_word_r>>
m_data_o == IF probe_r.dirty THEN probe_r.data[fill_word_r] ELSE lines[wb.line].data[fill_word_r]

Recency(i) ==
  age' = IF REPLACEMENT_POLICY # "lru" THEN age
         ELSE IF write_hits(i) THEN lru_touch(u_line(i), hit_line_idx(u_line(i)) % WAYS)
         ELSE IF hit_answers(i) THEN lru_touch(hit_r.addr[1], hit_r.slot % WAYS)
         ELSE IF fill_ends(i) THEN lru_touch(miss_r.addr[1], miss_r.way)
         ELSE age

quiet_flush == [flush EXCEPT !.done = FALSE]
dispatches(i) == state = "S_IDLE" /\ ~(i.flush_all /\ ~flush.active)

(***************************************************************************)
(* The arms of case(state).                                                *)
(***************************************************************************)
FlushStart(i) ==
  /\ state = "S_IDLE" /\ i.flush_all /\ ~flush.active
  /\ state' = "S_FLUSH_SCAN"
  /\ flush' = [scan |-> 0, active |-> TRUE, done |-> FALSE]
  /\ UNCHANGED <<lines, victim, hit_r, miss_r, fill_word_r, wb, probe_r>>

WriteHit(i) ==
  /\ dispatches(i) /\ write_hits(i)
  /\ lines' = [lines EXCEPT ![hit_line_idx(u_line(i))].data[u_word(i)] = i.u_data_o,
                            ![hit_line_idx(u_line(i))].dirty = TRUE]
  /\ flush' = quiet_flush
  /\ UNCHANGED <<victim, state, hit_r, miss_r, fill_word_r, wb, probe_r>>

ReadHit(i) ==
  /\ dispatches(i) /\ i.u_cyc /\ ~i.u_we /\ hit(i)
  /\ state' = "S_HIT_RD"
  /\ hit_r' = [slot |-> hit_line_idx(u_line(i)), addr |-> i.u_addr]
  /\ flush' = quiet_flush
  /\ UNCHANGED <<lines, victim, miss_r, fill_word_r, wb, probe_r>>

Miss(i) ==
  LET displaced == lines[target(u_line(i))]
  IN  /\ dispatches(i) /\ i.u_cyc /\ ~hit(i)
      /\ miss_r' = [addr |-> i.u_addr, way |-> victim_target_way(u_line(i)), is_write |-> i.u_we,
                    wdata |-> IF i.u_we THEN i.u_data_o ELSE ZeroWord]
      /\ state' = IF displaced.valid THEN "S_PROBE_WAIT" ELSE "S_FILL"
      /\ wb' = IF displaced.valid
               THEN [wb EXCEPT !.line = target(u_line(i)), !.base = displaced.tag]
               ELSE wb
      /\ fill_word_r' = 0
      /\ flush' = quiet_flush
      /\ UNCHANGED <<lines, victim, hit_r, probe_r>>

Idle(i) ==
  /\ dispatches(i) /\ ~i.u_cyc
  /\ flush' = quiet_flush
  /\ UNCHANGED <<lines, victim, state, hit_r, miss_r, fill_word_r, wb, probe_r>>

HitRead(i) ==
  /\ state = "S_HIT_RD"
  /\ state' = "S_IDLE"
  /\ hit_r' = NoHitRead
  /\ flush' = quiet_flush
  /\ UNCHANGED <<lines, victim, miss_r, fill_word_r, wb, probe_r>>

\* A dropped line is written back if either cache has changed it.
ProbeWait(i) ==
  /\ state = "S_PROBE_WAIT"
  /\ IF i.probe_ack
     THEN LET writes_back == lines[wb.line].dirty \/ i.probe_dirty
          IN  /\ probe_r' = IF i.probe_dirty THEN [dirty |-> TRUE, data |-> i.probe_data] ELSE NoProbe
              /\ state' = IF writes_back THEN "S_WB" ELSE "S_FILL"
              /\ wb' = IF writes_back THEN [wb EXCEPT !.to_flush = FALSE] ELSE NoWriteBack
     ELSE UNCHANGED <<probe_r, state, wb>>
  /\ flush' = quiet_flush
  /\ UNCHANGED <<lines, victim, hit_r, miss_r, fill_word_r>>

BusWord(i) ==
  /\ m_cyc
  /\ ~i.m_ack \/ ~fill_is_last_word
  /\ fill_word_r' = IF i.m_ack THEN fill_word_r + 1 ELSE fill_word_r
  /\ lines' = IF state = "S_FILL" /\ i.m_ack THEN [lines EXCEPT ![miss_slot].data = filled(i)] ELSE lines
  /\ flush' = quiet_flush
  /\ UNCHANGED <<victim, state, hit_r, miss_r, wb, probe_r>>

scan_ends == flush.scan = NUM_LINES - 1
scanned ==
  IF scan_ends THEN [scan |-> 0, active |-> FALSE, done |-> TRUE]
  ELSE [scan |-> flush.scan + 1, active |-> TRUE, done |-> FALSE]
after_scan == IF scan_ends THEN "S_IDLE" ELSE "S_FLUSH_SCAN"

WbDone(i) ==
  /\ state = "S_WB" /\ i.m_ack /\ fill_is_last_word
  /\ lines' = [lines EXCEPT ![wb.line].dirty = FALSE]
  /\ state' = IF wb.to_flush THEN after_scan ELSE "S_FILL"
  /\ flush' = IF wb.to_flush THEN scanned ELSE quiet_flush
  /\ fill_word_r' = 0
  /\ wb' = NoWriteBack
  /\ probe_r' = NoProbe
  /\ UNCHANGED <<victim, hit_r, miss_r>>

FillDone(i) ==
  /\ fill_ends(i)
  /\ lines' = [lines EXCEPT ![miss_slot] = [valid |-> TRUE, dirty |-> miss_r.is_write,
                                            tag |-> miss_r.addr[1], data |-> filled(i)]]
  /\ victim' = rotated(miss_r.addr[1], miss_r.way)
  /\ state' = "S_IDLE"
  /\ fill_word_r' = 0
  /\ miss_r' = NoMiss
  /\ flush' = quiet_flush
  /\ UNCHANGED <<hit_r, wb, probe_r>>

\* A flush writes back this cache's own data, never the data cache's.
ScanWriteBack(i) ==
  /\ state = "S_FLUSH_SCAN" /\ lines[flush.scan].valid /\ lines[flush.scan].dirty
  /\ state' = "S_WB"
  /\ wb' = [line |-> flush.scan, base |-> lines[flush.scan].tag, to_flush |-> TRUE]
  /\ probe_r' = NoProbe
  /\ fill_word_r' = 0
  /\ flush' = quiet_flush
  /\ UNCHANGED <<lines, victim, hit_r, miss_r>>

ScanNext(i) ==
  /\ state = "S_FLUSH_SCAN" /\ ~(lines[flush.scan].valid /\ lines[flush.scan].dirty)
  /\ state' = after_scan
  /\ flush' = scanned
  /\ UNCHANGED <<lines, victim, hit_r, miss_r, fill_word_r, wb, probe_r>>

Cycle(i) ==
  /\ \/ FlushStart(i) \/ WriteHit(i) \/ ReadHit(i) \/ Miss(i) \/ Idle(i) \/ HitRead(i)
     \/ ProbeWait(i) \/ BusWord(i) \/ WbDone(i) \/ FillDone(i) \/ ScanWriteBack(i) \/ ScanNext(i)
  /\ Recency(i)
=============================================================================
