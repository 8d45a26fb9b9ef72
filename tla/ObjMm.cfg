SPECIFICATION ObjSpec
CONSTANTS
  OBJ_BUCKET_SIZE = 8
  HEAD = 1
  MaxBuckets = 3
  Sizes <- MCSizes
INVARIANTS
  ObjsDisjoint
  ObjsInBucket
CHECK_DEADLOCK FALSE
