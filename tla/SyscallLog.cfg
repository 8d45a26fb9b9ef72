SPECIFICATION Spec
CONSTANTS
  t1 = t1
  t2 = t2
  Threads <- MCThreads
  Contexts <- MCContexts
  Programs <- MCPrograms
  MaxResult = 2
INVARIANTS
  LogComplete
  SelfDelimiting
  SizeNotOverstated
CHECK_DEADLOCK FALSE
