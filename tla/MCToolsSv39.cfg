SPECIFICATION FairSpec
CONSTANTS
  XLEN = 8
  WORD = 4
  FRAC = 2
  EXPW = 3
  INTW = 4
  FW_LINK_SIZE = 5
  KERNEL_LOAD_ADDR = 6
  INITRD_ADDR = 10
  DTB_ADDR_KERNEL = 12
  DTB_ADDR = 4
  PAGE = 2
  Err = Err
  Jobs = {}
  Configs <- MCSv39
  Directed = {}
CHECK_DEADLOCK FALSE
INVARIANT UserModeTranslates
