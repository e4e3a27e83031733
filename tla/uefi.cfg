CONSTANTS
  Base = 3
  Firmwares <- AllFirmwares

SPECIFICATION Spec

INVARIANTS
  SameSource
  ConfigRestored
  SectionCanonical
  FramebufferMeetsMinimum
  PanicReported

CHECK_DEADLOCK FALSE
