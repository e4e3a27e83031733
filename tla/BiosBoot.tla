------------------------------ MODULE BiosBoot ------------------------------
(***************************************************************************)
(* The way of a kernel on a BIOS machine, from the builder that writes it  *)
(* to a disk to its start: DiskImage, BootSector, the contract of the      *)
(* second stage and FourthStage put together.  The boot sector is started  *)
(* from an MBR image, what it loads is the second stage, and the BiosInfo  *)
(* of that is what stage 3 and stage 4 work with.                          *)
(***************************************************************************)
EXTENDS DiskImage, BootSector, FourthStage

CONSTANTS
  Machines,        \* the E820 entries of the machines, in the order of the BIOS
  MaxFatSectors    \* first number of sectors that does not fit into 16 bits

VARIABLES
  machine,         \* the entries of the machine that was started
  stage2           \* the second stage: "off", then as in Stage2Contract

vars == <<machine, stage2, image_vars, sector_vars, stage4_vars>>

Init ==
  /\ machine = << >>
  /\ stage2 = "off"
  /\ ImageInit
  /\ SectorInit
  /\ Stage4Init

-----------------------------------------------------------------------------
\* What the second stage finds

LenOf(f) == IF Names[f] \in DOMAIN disk.files THEN disk.files[Names[f]].len ELSE 0

Volume == partition_table[FatPartition(partition_table)]

\* The image is one the second stage can read: the volume is where the table
\* says, its sectors are counted in 16 bits, and files are there and not empty.
SoundImage ==
  /\ HasFatPartition(partition_table)
  /\ Volume.lba * SectorSize = disk.fat.at /\ Volume.sectors < MaxFatSectors
  /\ \A f \in Files \ Optional : Names[f] \in DOMAIN disk.files
  /\ \A f \in Files : Names[f] \in DOMAIN disk.files => LenOf(f) > 0
  /\ LenOf(Stage3) < Stage4Dst - Stage3Dst
  /\ Stage4Dst + LenOf(Stage4) <= KernelDst

NotEmpty(e) == e.len # 0

Given ==
  [sound |-> SoundImage, answering |-> TRUE, lens |-> [f \in Files |-> LenOf(f)],
   entries |-> SelectSeq(machine, NotEmpty)]

Contract == INSTANCE Stage2Contract WITH
  given <- Given, reached <- stage2, info <- bios_info

-----------------------------------------------------------------------------
Build ==
  /\ stage1 = "off"
  /\ ImageNext
  /\ UNCHANGED <<machine, stage2, sector_vars, stage4_vars>>

PowerOn ==
  /\ call = "ok" /\ target = "bios"
  /\ FirstStage(disk.table)
  /\ machine' \in Machines
  /\ UNCHANGED <<stage2, image_vars, stage4_vars>>

RunBootSector ==
  /\ LoadChunk \/ LoadFails
  /\ UNCHANGED <<machine, stage2, image_vars, stage4_vars>>

JumpToStage2 ==
  /\ stage1 = "jumped" /\ stage2 = "off"
  /\ stage2' = "running"
  /\ UNCHANGED <<machine, image_vars, sector_vars, stage4_vars>>

JumpToStage3 ==
  /\ stage2 = "running"
  /\ EnterStage3(BiosInfo(Given.lens, Given.entries))
  /\ UNCHANGED <<machine, image_vars, sector_vars>>
  /\ Contract!HandOver

Stage2Stops ==
  /\ stage2 = "running"
  /\ UNCHANGED <<machine, image_vars, sector_vars, stage4_vars>>
  /\ Contract!Stop

RunStage4 ==
  /\ Stage4Next
  /\ UNCHANGED <<machine, stage2, image_vars, sector_vars>>

Next ==
  \/ Build \/ PowerOn \/ RunBootSector \/ JumpToStage2 \/ JumpToStage3 \/ Stage2Stops
  \/ RunStage4

Spec == Init /\ [][Next]_vars

-----------------------------------------------------------------------------
\* When the second stage is entered, its binary is in memory, whole and in order,
\* and the partition it is going to read its files from holds the FAT volume:
\* create_mbr_disk and first_stage agree on where things are, the partitions
\* do not overlap, and chunks leave no gap.
StageTwoWhole ==
  stage1 = "jumped" =>
    /\ \A k \in 0..(SectorsFor(build.stage2.len) - 1) :
         /\ EntryPoint + k * SectorSize \in DOMAIN low_memory
         /\ SectorAt(disk, low_memory[EntryPoint + k * SectorSize]) = <<"stage2", k>>
    /\ HasFatPartition(partition_table)
    /\ \A k \in 0..(Volume.sectors - 1) : SectorAt(disk, Volume.lba + k) = <<"fat", k>>

\* The kernel is started with the files of the image: stage 4 reports a ramdisk
\* exactly if one was put on the image, at the address where the second stage
\* loaded it and with its length, none of them beyond last_used_addr.
KernelGetsFiles ==
  stage = "kernel" =>
    LET si == system_info.value
    IN  /\ si.ramdisk_addr.some <=> RamdiskName \in DOMAIN disk.files
        /\ si.ramdisk_addr.some =>
             /\ si.ramdisk_len = disk.files[RamdiskName].len
             /\ si.ramdisk_addr.value = boot.ramdisk.start
             /\ boot.kernel.end <= boot.ramdisk.start
             /\ boot.ramdisk.end - 1 <= bios_info.last_used_addr
        /\ boot.kernel.end - boot.kernel.start = disk.files[KernelName].len
        /\ config.value = "file" => ConfigName \in DOMAIN disk.files

=============================================================================
