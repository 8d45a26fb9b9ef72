SPECIFICATION Spec
CONSTANTS
  t1 = t1
  t2 = t2
  Threads <- MCThreads
  NoThread = NoThread
  BIGBUFFER_SZ = 3
  Reserve = 1
  TypeSizes <- MCTypeSizes
  MaxAppend = 3
  ASM_BASE = 2
  AddrSpace = 16
  MaxStream <- MCMaxStream
  MaxCalls = 1
INVARIANTS
  CursorInside
  BlocksWhole
  StreamKept
PROPERTIES
  AppendEnds
CHECK_DEADLOCK FALSE
