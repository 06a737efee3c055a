SPECIFICATION Spec
CONSTANTS
  NUM_PREGS = 5
  NUM_AREGS = 3
  ROB_ENTRIES = 3
  Bundles <- OrderedBundles
  MayFault = FALSE
VIEW Live
INVARIANTS
  UniqueRegisters
  MapsReplay
  
