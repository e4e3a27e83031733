SPECIFICATION Spec
CONSTANTS
  PageSize = 2
  WordSize = 2
  RelaSize = 2
  Kernels <- Files
INVARIANTS
  FileIntact
  ImageCorrect
  FlagsCorrect
  WritesStayPrivate
  LoadsWellFormed
CHECK_DEADLOCK FALSE
