SPECIFICATION Spec
CONSTANTS
  PageSize = 2
  PagesPerEntry = 4
  Entries = 7
  LargePage = 2
  InfoAlign = 1
  Dynamic = Dynamic
  Absent = Absent
  Fresh = Fresh
  StackAlign = 2
  Word = 1
  Boots <- Sound
INVARIANTS
  CollisionsAreConfigured
  MappedEntriesUsed
  GuardPageUnmapped
  WithinDynamicRange
  BootInfoTrue
CHECK_DEADLOCK FALSE
