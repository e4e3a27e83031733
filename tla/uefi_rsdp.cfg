CONSTANTS
  Base = 3
  Firmwares <- AllFirmwares

SPECIFICATION Spec

INVARIANTS
  RsdpFallback

CHECK_DEADLOCK FALSE
