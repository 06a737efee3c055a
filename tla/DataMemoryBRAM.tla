--------------------------- MODULE DataMemoryBRAM ---------------------------
(***************************************************************************)
(* design/DataMemoryBRAM.v at word granularity: one synchronous port with  *)
(* a registered read.  The word read is the one before this cycle's write. *)
(***************************************************************************)
CONSTANTS Addr, Zero

VARIABLES data_memory, raw_word_r, mem_read_r

memvars == <<data_memory, raw_word_r, mem_read_r>>

readData == IF mem_read_r THEN raw_word_r ELSE Zero

Init ==
  /\ data_memory = [a \in Addr |-> Zero]
  /\ raw_word_r = Zero
  /\ mem_read_r = FALSE

Cycle(memRead, memWrite, address, writeData) ==
  /\ data_memory' = IF memWrite THEN [data_memory EXCEPT ![address] = writeData]
                    ELSE data_memory
  /\ raw_word_r' = data_memory[address]
  /\ mem_read_r' = memRead
=============================================================================
