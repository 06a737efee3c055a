------------------------- MODULE RamWishboneAdapter -------------------------
(***************************************************************************)
(* design/RamWishboneAdapter.v: the bus slave in front of the data memory. *)
(* A write is acknowledged at once, a read one clock later, once for each  *)
(* request although the master never lowers cyc between the words of a     *)
(* line.                                                                   *)
(***************************************************************************)
CONSTANTS Addr, Zero

VARIABLES
  data_memory, raw_word_r, mem_read_r,   \* DataMemoryBRAM
  req_r,                                 \* the request being served: active, addr, we
  mem_read_pending_r

m_ram == INSTANCE DataMemoryBRAM

s_data_i == m_ram!readData
s_ack(s_cyc, s_we) == (s_cyc /\ s_we) \/ mem_read_pending_r

is_new_request(s_cyc, s_we, s_addr) ==
  s_cyc /\ (~req_r.active \/ s_addr # req_r.addr \/ s_we # req_r.we)

Init(contents, addr0) ==
  /\ data_memory = contents
  /\ raw_word_r = Zero
  /\ mem_read_r = FALSE
  /\ req_r = [active |-> FALSE, addr |-> addr0, we |-> FALSE]
  /\ mem_read_pending_r = FALSE

Cycle(s_cyc, s_we, s_addr, s_data_o) ==
  /\ m_ram!Cycle(s_cyc /\ ~s_we, s_cyc /\ s_we, s_addr, s_data_o)
  /\ IF is_new_request(s_cyc, s_we, s_addr)
     THEN /\ req_r' = [active |-> TRUE, addr |-> s_addr, we |-> s_we]
          /\ mem_read_pending_r' = ~s_we
     ELSE /\ req_r' = IF mem_read_pending_r THEN [req_r EXCEPT !.active = FALSE] ELSE req_r
          /\ mem_read_pending_r' = FALSE
=============================================================================
