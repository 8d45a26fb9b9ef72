SPECIFICATION BbSpec
CONSTANTS
  BIGBUFFER_SZ = 3
  MaxAppend = 7
  MaxStream = 10
INVARIANTS
  StreamKept
  HeadsTile
CHECK_DEADLOCK FALSE
