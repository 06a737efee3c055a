SPECIFICATION LiveSpec
CONSTANTS
  XLEN = 3
  SP_INIT = 6
  NUM_PREGS = 5
  NUM_AREGS = 3
  ROB_ENTRIES = 3
  RS_ALU_ENTRIES = 2
  RS_DIV_ENTRIES = 2
  LSQ_ENTRIES = 2
  Insts <- Trapping
  Programs <- Traps2
  MemStalls = {FALSE}
  Lines = {}
PROPERTY TrapsResolve
