SPECIFICATION Spec
CONSTANTS
  t1 = t1
  t2 = t2
  t3 = t3
  t4 = t4
  a1 = a1
  a2 = a2
  a3 = a3
  NoArea = NoArea
  Threads <- MCThreads
  Areas <- MCAreas
  LDT_ENTRIES = 3
  SZ_MAP = 2
  WordBits = 2
SYMMETRY Sym
INVARIANTS
  TypeOK
  RecordsAgree
  SelfResolves
CHECK_DEADLOCK FALSE
