-------------------------- MODULE BootSectorProofs --------------------------
(***************************************************************************)
(* The boot sector's loop loads the whole partition, for every partition   *)
(* table, every sector size and every number of sectors per BIOS call.     *)
(***************************************************************************)
EXTENDS BootSector, TLAPS

\* The address of a partition's k-th sector, counted from 0
Place(k) == EntryPoint + k * SectorSize

\* Sectors of the partition that have been loaded
Done == partition_table[1].sectors - number_of_sectors

\* What the loop of first_stage keeps: the sectors loaded so far are the first
\* Done ones of the partition, start_lba is the next one and target_addr its
\* place.
LoopInv ==
  /\ stage1 \in {"off", "load", "jumped", "fail"}
  /\ stage1 = "off" => low_memory = << >>
  /\ stage1 # "off" =>
       /\ partition_table[1] \in Entry
       /\ number_of_sectors \in Nat /\ Done \in Nat
       /\ start_lba = partition_table[1].lba + Done
       /\ target_addr = Place(Done)
       /\ DOMAIN low_memory = {Place(k) : k \in 0..(Done - 1)}
       /\ \A k \in 0..(Done - 1) : low_memory[Place(k)] = partition_table[1].lba + k
  /\ stage1 = "jumped" => number_of_sectors = 0

\* The places of sectors are addresses, different for different sectors and
\* one sector apart.
LEMMA Places ==
  ASSUME NEW k \in Nat, NEW m \in Nat
  PROVE  /\ Place(k) \in Nat
         /\ Place(k) + m * SectorSize = Place(k + m)
         /\ Place(k) = Place(m) => k = m
         /\ (Place(k + m) - Place(k)) \div SectorSize = m
<1>1. SectorSize \in Nat /\ SectorSize > 0 /\ EntryPoint \in Nat
  BY BootSectorAssumption
<1>2. /\ k * SectorSize \in Nat /\ m * SectorSize \in Nat
      /\ (k + m) * SectorSize = k * SectorSize + m * SectorSize
  BY <1>1
<1>3. k * SectorSize = m * SectorSize => k = m
  BY <1>1
<1>4. (m * SectorSize) \div SectorSize = m
  BY <1>1
<1>5. Place(k + m) - Place(k) = m * SectorSize
  BY <1>1, <1>2 DEF Place
<1> QED
  BY <1>1, <1>2, <1>3, <1>4, <1>5 DEF Place

\* perform_load reads the chunk to the places of its sectors: dividing
\* target_addr into segment and offset loses nothing.
LEMMA ChunkPlaces ==
  ASSUME LoopInv, stage1 = "load"
  PROVE  /\ ChunkLen \in Nat /\ ChunkLen <= number_of_sectors
         /\ Buffer = Place(Done)
         /\ ChunkAddresses = {Place(k) : k \in Done..(Done + ChunkLen - 1)}
<1>1. number_of_sectors \in Nat /\ Done \in Nat /\ target_addr = Place(Done)
  BY DEF LoopInv
<1>2. ChunkLen \in Nat /\ ChunkLen <= number_of_sectors
  BY <1>1, BootSectorAssumption DEF ChunkLen
<1>3. target_addr \in Nat
  BY <1>1, Places
<1>4. Paragraph \in Nat /\ Paragraph > 0
  BY BootSectorAssumption
<1>5. Buffer = target_addr
  BY <1>3, <1>4 DEF Buffer, Segment, Offset
<1>6. \A k \in 0..(ChunkLen - 1) : Buffer + k * SectorSize = Place(Done + k)
  BY <1>1, <1>2, <1>5, Places
<1> HIDE DEF Done, Place, ChunkLen, Buffer
<1>7. ChunkAddresses = {Place(Done + k) : k \in 0..(ChunkLen - 1)}
  BY <1>6 DEF ChunkAddresses
<1>8. {Place(Done + k) : k \in 0..(ChunkLen - 1)} = {Place(k) : k \in Done..(Done + ChunkLen - 1)}
  <2>1. ASSUME NEW k \in 0..(ChunkLen - 1)
        PROVE  Done + k \in Done..(Done + ChunkLen - 1)
    BY <1>1, <1>2
  <2>2. ASSUME NEW k \in Done..(Done + ChunkLen - 1)
        PROVE  k - Done \in 0..(ChunkLen - 1) /\ k = Done + (k - Done)
    BY <1>1, <1>2
  <2> QED
    BY <2>1, <2>2
<1> QED
  BY <1>1, <1>2, <1>5, <1>7, <1>8

\* One round of the loop, and the jump after the last round, keep it.
LEMMA ChunkKeepsInv == LoopInv /\ LoadChunk => LoopInv'
<1> SUFFICES ASSUME LoopInv, LoadChunk PROVE LoopInv'
  OBVIOUS
<1> DEFINE n == Done
           m == ChunkLen
<1>1. /\ stage1 = "load" /\ partition_table' = partition_table
      /\ partition_table[1] \in Entry
      /\ number_of_sectors \in Nat /\ n \in Nat
      /\ start_lba = partition_table[1].lba + n
  BY DEF LoadChunk, LoopInv
<1>2. /\ partition_table[1].lba \in Nat /\ partition_table[1].sectors \in Nat
  BY <1>1 DEF Entry
<1>3. /\ m \in Nat /\ m <= number_of_sectors /\ Buffer = Place(n)
      /\ ChunkAddresses = {Place(k) : k \in n..(n + m - 1)}
  BY <1>1, ChunkPlaces
<1>4. number_of_sectors' = number_of_sectors - m /\ number_of_sectors' \in Nat
  BY <1>1, <1>3 DEF LoadChunk
<1>5. Done' = n + m
  BY <1>1, <1>2, <1>3, <1>4 DEF Done
<1>6. start_lba' = partition_table[1].lba + (n + m)
  BY <1>1, <1>2, <1>3 DEF LoadChunk
<1>7. target_addr' = Place(n + m)
  <2>1. target_addr' = Place(n) + m * SectorSize
    BY <1>1 DEF LoadChunk, LoopInv
  <2> QED
    BY <1>1, <1>3, <2>1, Places
<1>8. DOMAIN low_memory = {Place(k) : k \in 0..(n - 1)}
  BY <1>1 DEF LoopInv
<1>9. \A k \in 0..(n - 1) : low_memory[Place(k)] = partition_table[1].lba + k
  BY <1>1 DEF LoopInv
<1>10. low_memory' = [a \in DOMAIN low_memory \cup ChunkAddresses |->
                        IF a \in ChunkAddresses THEN start_lba + (a - Buffer) \div SectorSize
                        ELSE low_memory[a]]
  BY DEF LoadChunk
<1>11. stage1' = IF number_of_sectors' = 0 THEN "jumped" ELSE "load"
  BY DEF LoadChunk
<1> HIDE DEF n, m
<1>12. \A k \in 0..(n + m - 1) : k \in 0..(n - 1) \/ k \in n..(n + m - 1)
  BY <1>1, <1>3
<1>13. \A k \in 0..(n - 1) : k \in 0..(n + m - 1)
  BY <1>1, <1>3
<1>14. \A k \in n..(n + m - 1) : k \in 0..(n + m - 1)
  BY <1>1, <1>3
<1>15. DOMAIN low_memory' = {Place(k) : k \in 0..(n + m - 1)}
  BY <1>3, <1>8, <1>10, <1>12, <1>13, <1>14
<1>16. ASSUME NEW k \in 0..(n + m - 1)
       PROVE  low_memory'[Place(k)] = partition_table[1].lba + k
  <2>1. Place(k) \in DOMAIN low_memory \cup ChunkAddresses
    BY <1>3, <1>8, <1>12
  <2>2. CASE k \in 0..(n - 1)
    <3>1. ASSUME NEW j \in n..(n + m - 1) PROVE Place(j) # Place(k)
      BY <1>1, <1>3, <2>2, Places
    <3>2. Place(k) \notin ChunkAddresses
      BY <1>3, <3>1
    <3> QED
      BY <1>9, <1>10, <2>1, <2>2, <3>2
  <2>3. CASE k \in n..(n + m - 1)
    <3>1. Place(k) \in ChunkAddresses
      BY <1>3, <2>3
    <3>2. (Place(k) - Buffer) \div SectorSize = k - n
      <4>1. k - n \in Nat /\ n + (k - n) = k
        BY <1>1, <2>3
      <4> QED
        BY <1>1, <1>3, <4>1, Places
    <3>3. low_memory'[Place(k)] = start_lba + (k - n)
      BY <1>10, <2>1, <3>1, <3>2
    <3> QED
      BY <1>1, <1>2, <2>3, <3>3
  <2> QED
    BY <1>12, <2>2, <2>3
<1> QED
  BY <1>1, <1>4, <1>5, <1>6, <1>7, <1>11, <1>15, <1>16, <1>3 DEF LoopInv, Place

\* When the second stage is entered, the whole partition is in memory.
THEOREM BootSectorLoadsPartition == SectorSpec => []PartitionLoaded
<1>1. SectorInit => LoopInv
  BY DEF SectorInit, LoopInv
<1>2. LoopInv /\ [SectorNext]_sector_vars => LoopInv'
  <2> SUFFICES ASSUME LoopInv, [SectorNext]_sector_vars PROVE LoopInv'
    OBVIOUS
  <2>1. ASSUME NEW table \in Seq(Entry), Len(table) = 4, FirstStage(table) PROVE LoopInv'
    <3>1. table[1] \in Entry
      BY <2>1
    <3>2. /\ stage1' = "load" /\ partition_table' = table
          /\ start_lba' = table[1].lba /\ number_of_sectors' = table[1].sectors
          /\ target_addr' = EntryPoint /\ low_memory' = << >>
      BY <2>1 DEF FirstStage, LoopInv
    <3>3. table[1].lba \in Nat /\ table[1].sectors \in Nat
      BY <3>1 DEF Entry
    <3>4. Done' = 0
      BY <3>2, <3>3 DEF Done
    <3>5. Place(0) = EntryPoint
      BY BootSectorAssumption DEF Place
    <3>6. 0..(0 - 1) = {}
      OBVIOUS
    <3>7. DOMAIN low_memory' = {}
      BY <3>2
    <3> QED
      BY <3>1, <3>2, <3>3, <3>4, <3>5, <3>6, <3>7 DEF LoopInv, Place
  <2>2. CASE LoadFails
    BY <2>2 DEF LoadFails, LoopInv, Done, Place
  <2>3. CASE UNCHANGED sector_vars
    BY <2>3 DEF sector_vars, LoopInv, Done, Place
  <2> QED
    BY <2>1, <2>2, <2>3, ChunkKeepsInv DEF SectorNext
<1>3. LoopInv => PartitionLoaded
  <2> SUFFICES ASSUME LoopInv, stage1 = "jumped" PROVE PartitionLoaded
    BY Zenon DEF PartitionLoaded
  <2>1. /\ partition_table[1] \in Entry /\ number_of_sectors = 0
        /\ DOMAIN low_memory = {Place(k) : k \in 0..(Done - 1)}
        /\ \A k \in 0..(Done - 1) : low_memory[Place(k)] = partition_table[1].lba + k
    BY DEF LoopInv
  <2>2. Done = partition_table[1].sectors
    BY <2>1 DEF Done, Entry
  <2> QED
    BY <2>1, <2>2, Zenon DEF PartitionLoaded, Place
<1> QED
  BY <1>1, <1>2, <1>3, PTL DEF SectorSpec

=============================================================================
