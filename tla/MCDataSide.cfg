SPECIFICATION FairSpec
CONSTANTS
  Ops <- BlockingOps
  MEM_LINES = 3
  TRACK_DATA = TRUE
  WAYS = 2
  NUM_SETS = 1
  LINE_WORDS = 2
  REPLACEMENT_POLICY = "rr"
  VICTIM_ENTRIES = 0
  MSHR_ENTRIES = 1
  PREFETCH_MODE = "off"
  RUN_BOUND = 2
  L2_ENABLED = TRUE
  L2_WAYS = 2
  L2_NUM_SETS = 1
  L2_REPLACEMENT_POLICY = "rr"
INVARIANTS LoadValue FenceReachesMemory HierarchyInv
PROPERTY StallEnds
