SPECIFICATION ExcSpec
CONSTANT MaxDepth = 3
INVARIANTS
  CatchersLive
  NoFault
  CatchIffThrown
PROPERTY FatalNotEaten
CHECK_DEADLOCK FALSE
