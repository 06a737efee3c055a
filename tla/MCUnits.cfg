SPECIFICATION UnitsLiveSpec
CONSTANTS
  NUM_PREGS = 6
  NUM_AREGS = 3
  Commits <- OrderedCommits
  ROB_ENTRIES = 4
  Inst = {i1, i2}
  NoInst = NoInst
  XLEN = 3
INVARIANTS UnitsInv Conservation DivisionCorrect
PROPERTIES InOrder UnitsProgress
