SPECIFICATION FairSpec
CONSTANTS
  TextSz = 4
  PATCH_SZ = 2
  INT_MAX = 1023
  Envs <- MCEnvs
  Selections <- MCSelections
  Relocs <- MCRelocs
  MaxCalls = 2
INVARIANTS
  ProgramUnharmed
  CheckpointAtEntry
  CheckpointKnowsLog
  PatchInside
  SamplingObeyed
PROPERTY BootEnds
CHECK_DEADLOCK FALSE
