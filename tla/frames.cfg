SPECIFICATION FairSpec
CONSTANTS
  FrameSize = 2
  UefiEnd = 12
  BiosEnd = 8
  Boots <- HandOvers
INVARIANTS
  TypeOK
  FramesAscend
  AllocatedNeverUsable
  KernelNeverUsable
  RegionsAscend
  RegionsCoverMap
  NoUsableFrameSkipped
  NoneOnlyWhenExhausted
  NoPanic
PROPERTIES
  CallsReturn
  ImplementsOwnership
CHECK_DEADLOCK FALSE
