--------------------------- MODULE PartitionTable ---------------------------
(***************************************************************************)
(* The MBR partition table: what the second stage looks for in it          *)
(* (bios/stage-2/src/main.rs).  An entry has the `type` of a partition,    *)
(* the sector it starts at and the number of its sectors.                  *)
(***************************************************************************)
EXTENDS Integers, Sequences

CONSTANT SectorSize            \* bytes in a sector (512)

SecondStageType == "0x20"     \* BOOTLOADER_SECOND_STAGE_PARTITION_TYPE

FatPartitionTypes == {"fat12", "fat16", "fat32"}

\* The partition behind the first one of the second stage's type
FatPartition(partitions) ==
  LET stages == {k \in 1..Len(partitions) : partitions[k].type = SecondStageType}
  IN  (CHOOSE k \in stages : \A j \in stages : k <= j) + 1

HasFatPartition(partitions) ==
  /\ \E k \in 1..Len(partitions) : partitions[k].type = SecondStageType
  /\ FatPartition(partitions) <= Len(partitions)
  /\ partitions[FatPartition(partitions)].type \in FatPartitionTypes

=============================================================================
