----------------------------- MODULE CacheArray -----------------------------
(***************************************************************************)
(* The set-associative line array and its replacement state, the same in   *)
(* design/DCache.v and design/L2Cache.v.                                   *)
(*                                                                         *)
(* A line is named by its line address (tag and set index together).  A    *)
(* word is a pair of halves, the low one first.                            *)
(***************************************************************************)
EXTENDS Integers, Sequences

CONSTANTS
  WAYS, NUM_SETS, LINE_WORDS,
  REPLACEMENT_POLICY           \* "rr" (round robin, the same as FIFO) or "lru"

VARIABLES
  lines,        \* lines[x]: valid, dirty, tag and data of line slot x
  victim, age   \* per set: round-robin pointer, recency rank of each way

Ways == 0..(WAYS - 1)
Words == 0..(LINE_WORDS - 1)
Sets == 0..(NUM_SETS - 1)
NUM_LINES == NUM_SETS * WAYS
Slots == 0..(NUM_LINES - 1)

ZeroWord == <<0, 0>>
NoLine == [valid |-> FALSE, dirty |-> FALSE, tag |-> 0, data |-> [w \in Words |-> ZeroWord]]

InitArray ==
  /\ lines = [x \in Slots |-> NoLine]
  /\ victim = [s \in Sets |-> 0]
  /\ age = [s \in Sets |-> [w \in Ways |-> w]]

set_idx(line) == line % NUM_SETS
slot(line, way) == set_idx(line) * WAYS + way

way_hit(line) == {w \in Ways : lines[slot(line, w)].valid /\ lines[slot(line, w)].tag = line}
hit_main(line) == way_hit(line) # {}

\* The slot that answers a hit; a line is in one way only.
hit_line_idx(line) == slot(line, CHOOSE w \in way_hit(line) : TRUE)

lru_way_idx(line) == CHOOSE w \in Ways : age[set_idx(line)][w] = WAYS - 1

\* The way and the slot a line that misses is to take.
victim_target_way(line) ==
  IF REPLACEMENT_POLICY = "lru" THEN lru_way_idx(line) ELSE victim[set_idx(line)]
target(line) == slot(line, victim_target_way(line))

\* The pointers after way takes a new line, the ranks after it is used.
rotated(line, way) == [victim EXCEPT ![set_idx(line)] = IF way = WAYS - 1 THEN 0 ELSE way + 1]
lru_touch(line, way) ==
  [age EXCEPT ![set_idx(line)] = [w \in Ways |->
     IF w = way THEN 0
     ELSE IF @[w] < @[way] THEN @[w] + 1
     ELSE @[w]]]
=============================================================================
