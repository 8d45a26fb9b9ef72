SPECIFICATION Spec
CONSTANTS
  TextSz = 4
  PATCH_SZ = 2
  INT_MAX = 1023
  Envs <- SampledOut
  Selections <- MCSelections
  Relocs <- MCRelocs
  MaxCalls = 2
INVARIANT LogWritable
CHECK_DEADLOCK FALSE
