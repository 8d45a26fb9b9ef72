SPECIFICATION Spec
CONSTANTS
  NPages = 13
  InitKinds <- MCKinds
  PastEofs <- NoPastEof
  PROCMAP_GUARD = 1
  ScratchSz = 1
  LinesPerRead = 4
PROPERTY MapsReadWhole
CHECK_DEADLOCK FALSE
