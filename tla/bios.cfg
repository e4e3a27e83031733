SPECIFICATION Spec
CONSTANTS
  SectorSize = 4
  MB = 16
  FatPadding = 2
  Builds <- SmallBuilds
  Paths = {p1, p2}
  Versions <- TwoVersions
  Configs <- OneConfig
  Destinations = {"boot-stage-3", "bootloader"}
  MaxRebuilds = 1
  MaxCreates = 1
  OldFolders <- OldOrNew
  ChunkSectors = 3
  Paragraph = 2
  Segments = 24
  EntryPoint = 8
  PageSize = 4
  Stage3Dst = 20
  Stage4Dst = 28
  KernelDst = 36
  HugeSize = 8
  GIGABYTE = 16
  MaxTaken = 2
  Machines <- SmallMachines
  MaxFatSectors = 10
INVARIANTS
  ImageFaithful
  StageTwoWhole
  HandOverWellFormed
  LoadedFilesOwned
  FramesReachable
  KernelGetsFiles
SYMMETRY PathSymmetry
VIEW BootView
CHECK_DEADLOCK FALSE
