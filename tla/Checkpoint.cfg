SPECIFICATION FairSpec
CONSTANTS
  NPages = 13
  InitKinds <- MCKinds
  PastEofs <- MCPastEofs
  PROCMAP_GUARD = 1
  ScratchSz = 1
  LinesPerRead = 20
INVARIANTS
  FinishedIsComplete
  SnapshotConsistent
PROPERTY ParentResumes
CHECK_DEADLOCK FALSE
