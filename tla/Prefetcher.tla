----------------------------- MODULE Prefetcher -----------------------------
(***************************************************************************)
(* design/Prefetcher.v: predicts the next line to miss from the last one   *)
(* and the distance between the last two, which "next_line" never reads.   *)
(***************************************************************************)
EXTENDS Integers

CONSTANTS
  MODE,               \* "off", "next_line", "stride" or "stream"
  RUN_BOUND           \* where the model stops counting confirmations

VARIABLE pf  \* have_last, last_addr, have_stride, last_stride, confirmed, run_count

STREAM_CONFIRM_RUN == 2

pf_valid ==
  CASE MODE = "next_line" -> pf.have_last
    [] MODE = "stride"    -> pf.confirmed
    [] MODE = "stream"    -> pf.run_count >= STREAM_CONFIRM_RUN
    [] OTHER              -> FALSE

pf_addr == IF MODE = "next_line" THEN pf.last_addr + 1 ELSE pf.last_addr + pf.last_stride

Init ==
  pf = [have_last |-> FALSE, last_addr |-> 0, have_stride |-> FALSE,
        last_stride |-> 0, confirmed |-> FALSE, run_count |-> 0]

Cycle(update_valid, update_addr) ==
  LET observed == update_addr - pf.last_addr
      confirms == pf.have_stride /\ observed = pf.last_stride /\ observed # 0
      count    == IF ~confirms THEN 0
                  ELSE IF pf.run_count = RUN_BOUND THEN RUN_BOUND ELSE pf.run_count + 1
  IN  pf' = IF ~update_valid \/ MODE = "off" THEN pf
            ELSE IF pf.have_last /\ MODE # "next_line"
            THEN [have_last |-> TRUE, last_addr |-> update_addr, have_stride |-> TRUE,
                  last_stride |-> observed, confirmed |-> confirms, run_count |-> count]
            ELSE [pf EXCEPT !.have_last = TRUE, !.last_addr = update_addr]
=============================================================================
