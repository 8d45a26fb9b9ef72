SPECIFICATION Spec
CONSTANTS
  PAGE_SIZE = 4
  NPages = 12
  LowPages = 1
  STRINGS = 1000
  LoaderStart = 900
  OldSysinfo = 950
  Starts <- MCStarts
INVARIANTS
  TypeOK
  ImageRight
  NeighboursIntact
  StackForProgram
  AuxvDescribesImage
  InfoRight
CHECK_DEADLOCK FALSE
