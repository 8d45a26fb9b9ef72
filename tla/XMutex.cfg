SPECIFICATION FairSpec
CONSTANTS
  t1 = t1
  t2 = t2
  t3 = t3
  Threads <- MCThreads
  Signals <- MCSignals
  RECORD_PROCMASK <- MCProcmask
  UserMask <- MCUserMask
  HandlerMasks <- MCHandlerMasks
  MaxLevel <- MCMaxLevel
INVARIANTS
  MutualExclusion
  NoLostWakeup
  NoSelfDeadlock
  MaskRestored
PROPERTIES
  ImplementsLock
  WaitersServed
CHECK_DEADLOCK FALSE
