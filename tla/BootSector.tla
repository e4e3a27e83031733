----------------------------- MODULE BootSector -----------------------------
(***************************************************************************)
(* The boot sector (bios/boot_sector): it reads the first partition of the *)
(* disk it was loaded from to the address right behind itself, a few       *)
(* sectors at a time, and jumps there.  Memory is kept by sectors: the     *)
(* address of a sector's first byte, and the sector of the disk it holds.  *)
(***************************************************************************)
EXTENDS PartitionTable

CONSTANTS
  ChunkSectors,     \* most sectors read by one call of the BIOS (32)
  Paragraph,        \* bytes from one segment to the next (16)
  Segments,         \* number of segments (2^16)
  EntryPoint        \* _second_stage_start (0x7e00)

VARIABLES
  partition_table,  \* the one in the boot sector, which the BIOS has loaded
  stage1,           \* where control is: "off", "load", "jumped" or "fail"
  start_lba, number_of_sectors, target_addr,
  low_memory        \* address -> the sector of the disk that was read there

sector_vars == <<partition_table, stage1, start_lba, number_of_sectors, target_addr, low_memory>>

ASSUME BootSectorAssumption ==
  /\ SectorSize \in Nat \ {0} /\ ChunkSectors \in Nat \ {0}
  /\ Paragraph \in Nat \ {0} /\ Segments \in Nat \ {0}
  /\ EntryPoint \in Nat

Entry == [type : STRING, lba : Nat, sectors : Nat]

SectorInit ==
  /\ partition_table = << >>
  /\ stage1 = "off"
  /\ start_lba = 0
  /\ number_of_sectors = 0
  /\ target_addr = 0
  /\ low_memory = << >>

\* The BIOS loads and starts the boot sector; first_stage up to its loop, with
\* get_partition(_, 0)
FirstStage(table) ==
  /\ stage1 = "off"
  /\ partition_table' = table
  /\ stage1' = "load"
  /\ start_lba' = table[1].lba
  /\ number_of_sectors' = table[1].sectors
  /\ target_addr' = EntryPoint
  /\ UNCHANGED low_memory

ChunkLen == IF number_of_sectors < ChunkSectors THEN number_of_sectors ELSE ChunkSectors

Segment == target_addr \div Paragraph

Offset == target_addr % Paragraph

\* perform_load: the BIOS reads the chunk to segment:offset
Buffer == Segment * Paragraph + Offset

ChunkAddresses == {Buffer + k * SectorSize : k \in 0..(ChunkLen - 1)}

\* One round of the loop, and the jump after the last
LoadChunk ==
  /\ stage1 = "load"
  /\ Segment < Segments
  /\ low_memory' = [a \in DOMAIN low_memory \cup ChunkAddresses |->
                      IF a \in ChunkAddresses THEN start_lba + (a - Buffer) \div SectorSize
                      ELSE low_memory[a]]
  /\ start_lba' = start_lba + ChunkLen
  /\ number_of_sectors' = number_of_sectors - ChunkLen
  /\ target_addr' = target_addr + ChunkLen * SectorSize
  /\ stage1' = IF number_of_sectors' = 0 THEN "jumped" ELSE "load"
  /\ UNCHANGED partition_table

\* fail: the segment does not fit into 16 bits ('a') or the BIOS reports an
\* error ('z')
LoadFails ==
  /\ stage1 = "load"
  /\ stage1' = "fail"
  /\ UNCHANGED <<partition_table, start_lba, number_of_sectors, target_addr, low_memory>>

SectorNext ==
  \/ \E table \in Seq(Entry) : Len(table) = 4 /\ FirstStage(table)
  \/ LoadChunk \/ LoadFails

SectorSpec == SectorInit /\ [][SectorNext]_sector_vars

-----------------------------------------------------------------------------
\* When the second stage is entered, the sectors of the first partition are in
\* memory in their order from the entry point on, all of them and no other
\* sector: the chunks of first_stage leave no gap and none overwrites another.
PartitionLoaded ==
  stage1 = "jumped" =>
    LET first == partition_table[1]
        place == [k \in 0..(first.sectors - 1) |-> EntryPoint + k * SectorSize]
    IN  /\ DOMAIN low_memory = {place[k] : k \in DOMAIN place}
        /\ \A k \in DOMAIN place : low_memory[place[k]] = first.lba + k

=============================================================================
