SPECIFICATION FairSpec
CONSTANTS
  Ops <- MissOps
  MEM_LINES = 3
  TRACK_DATA = FALSE
  WAYS = 2
  NUM_SETS = 1
  LINE_WORDS = 2
  REPLACEMENT_POLICY = "rr"
  VICTIM_ENTRIES = 2
  MSHR_ENTRIES = 2
  PREFETCH_MODE = "next_line"
  RUN_BOUND = 2
  L2_ENABLED = FALSE
  L2_WAYS = 2
  L2_NUM_SETS = 1
  L2_REPLACEMENT_POLICY = "rr"
INVARIANTS OneCopy MshrQueueConsistent 
PROPERTY OwedArrive
