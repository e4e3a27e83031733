SPECIFICATION Spec
CONSTANTS
  FrameSize = 2
  UefiEnd = 10
  BiosEnd = 0
  Boots <- HandOvers
INVARIANT
  RamdiskNeverUsable
CHECK_DEADLOCK FALSE
