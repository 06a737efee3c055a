---------------------------- MODULE VictimCache -----------------------------
(***************************************************************************)
(* design/VictimCache.v: a fully associative buffer for lines evicted from *)
(* the cache above it.  A line is named by its line address, the tag and   *)
(* set index together.  ENTRIES = 0 leaves the buffer out.                 *)
(***************************************************************************)
EXTENDS Integers, FiniteSets

CONSTANT ENTRIES

VARIABLES
  vc,          \* vc[e]: valid, tag, dirty bit and data of entry e
  fifo_next_r  \* the entry the next insertion takes

Entries == 0..(ENTRIES - 1)

vc_hit(lookup_tag) == {e \in Entries : vc[e].valid /\ vc[e].tag = lookup_tag}

lookup_hit(lookup_tag) == vc_hit(lookup_tag) # {}

\* The entry that answers: the indices of the entries that hit are ORed, which
\* gives the larger of two.
hit_entry(lookup_tag) == CHOOSE e \in vc_hit(lookup_tag) : \A f \in vc_hit(lookup_tag) : f <= e

\* Contents that hit are ORed too: halves that differ give a meaningless one.
Garbled == -2
ORed(halves) == IF Cardinality(halves) = 1 THEN CHOOSE h \in halves : TRUE ELSE Garbled
lookup(lookup_tag) ==
  LET hits == {vc[e] : e \in vc_hit(lookup_tag)}
      word(w) == [h \in 1..2 |-> ORed({x.data[w][h] : x \in hits})]
  IN  [valid |-> TRUE, tag |-> lookup_tag, dirty |-> \E x \in hits : x.dirty,
       data |-> [w \in DOMAIN vc[hit_entry(lookup_tag)].data |-> word(w)]]

evict_out_dirty(do_insert) ==
  do_insert /\ ENTRIES > 0 /\ vc[fifo_next_r].valid /\ vc[fifo_next_r].dirty

evict_out == vc[fifo_next_r]

Init(noline) ==
  /\ vc = [e \in Entries |-> noline]
  /\ fifo_next_r = 0

\* The line pushed out of the cache takes the place of the promoted one, or
\* the next place in order.
Cycle(lookup_tag, do_swap, do_insert, outgoing) ==
  /\ vc' = LET incoming == [outgoing EXCEPT !.valid = TRUE]
           IN  IF do_swap THEN [vc EXCEPT ![hit_entry(lookup_tag)] = incoming]
               ELSE IF do_insert /\ ENTRIES > 0 THEN [vc EXCEPT ![fifo_next_r] = incoming]
               ELSE vc
  /\ fifo_next_r' = IF do_insert /\ ENTRIES > 0
                    THEN IF fifo_next_r = ENTRIES - 1 THEN 0 ELSE fifo_next_r + 1
                    ELSE fifo_next_r
=============================================================================
