SPECIFICATION Spec
CONSTANTS
  SectorSize = 4
  BufferSectors = 4
  EntrySize = 1
  Fat12Clusters = 24
  Fat16Clusters = 48
  PageSize = 8
  Stage3Dst = 16
  Stage4Dst = 64
  KernelDst = 128
  MapCapacity = 3
  MaxWidth = 2
  MaxHeight = 2
  Boots <- AllBoots
INVARIANT
  ReadFitsTmpBuf
CHECK_DEADLOCK FALSE
