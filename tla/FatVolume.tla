----------------------------- MODULE FatVolume ------------------------------
(***************************************************************************)
(* The file system driver of the BIOS second stage: the FAT geometry, the  *)
(* directory lookup and the cluster chain of bios/stage-2/src/fat.rs, and  *)
(* the sector arithmetic of disk.rs, as functions of a volume v.           *)
(*                                                                         *)
(* v.bpb holds the fields of the boot sector, v.fat the entry of every     *)
(* cluster, v.root the directory entries and v.base the byte at which the  *)
(* partition starts.  A sector is known by its number on the disk, a byte  *)
(* by its position on the disk.                                            *)
(***************************************************************************)
EXTENDS PartitionTable, SequencesExt

CONSTANTS
  BufferSectors,   \* sectors DISK_BUFFER holds (32)
  EntrySize,       \* DIRECTORY_ENTRY_BYTES
  Fat12Clusters,   \* a volume with fewer clusters is FAT12 (4085)
  Fat16Clusters    \* with fewer than these, FAT16 (65525), else FAT32

BufferSize == BufferSectors * SectorSize

\* TMP_BUF, the buffer of read_exact
TmpSectors == 2

TmpSize == TmpSectors * SectorSize

ASSUME FatAssumption ==
  /\ {SectorSize, BufferSectors, EntrySize, Fat12Clusters, Fat16Clusters} \subseteq Nat \ {0}
  /\ SectorSize % EntrySize = 0
  /\ Fat12Clusters < Fat16Clusters
  /\ Fat16Clusters < 65527

-----------------------------------------------------------------------------
\* Bpb.  The four bytes at 36 are the FAT size of a FAT32 volume; a FAT12 or
\* FAT16 volume keeps its drive number and boot signature there.

ParsePanics(b) == (b.total_sectors_16 = 0) = (b.total_sectors_32 = 0)

FatSize32(b) == IF b.total_sectors_16 = 0 THEN b.at_36 ELSE 0

FatSizeInSectors(b) ==
  IF b.fat_size_16 # 0 /\ FatSize32(b) = 0 THEN b.fat_size_16 ELSE FatSize32(b)

RootDirSectors(b) == (b.root_entry_count * EntrySize + b.bytes_per_sector - 1) \div b.bytes_per_sector

TotalSectors(b) == IF b.total_sectors_16 # 0 THEN b.total_sectors_16 ELSE b.total_sectors_32

\* the subtraction is checked: a negative result is a panic
DataSectors(b) ==
  TotalSectors(b) - (b.reserved_sector_count + b.num_fats * FatSizeInSectors(b) + RootDirSectors(b))

CountOfClusters(b) == DataSectors(b) \div b.sectors_per_cluster

FatType(b) ==
  CASE CountOfClusters(b) < Fat12Clusters -> 12
    [] CountOfClusters(b) \in Fat12Clusters..(Fat16Clusters - 1) -> 16
    [] OTHER -> 32

RootDirectorySize(b) == b.root_entry_count * EntrySize

RootDirectoryOffset(b) ==
  (b.reserved_sector_count + b.num_fats * b.fat_size_16) * b.bytes_per_sector

MaximumValidCluster(b) == CountOfClusters(b) + 1

FatOffset(b) == b.reserved_sector_count * b.bytes_per_sector

DataOffset(b) ==
  RootDirectorySize(b)
    + (b.reserved_sector_count + FatSizeInSectors(b) * b.num_fats) * b.bytes_per_sector

BytesPerCluster(b) == b.bytes_per_sector * b.sectors_per_cluster

-----------------------------------------------------------------------------
\* DiskAccess: the sectors a read of len bytes at an offset of the partition
\* transfers, and the offset it leaves behind (which includes the base).

SectorsRead(base, offset, len) ==
  LET first == (base + offset) \div SectorSize
      last  == (base + offset + len - 1) \div SectorSize
  IN  [k \in 1..(last + 1 - first) |-> first + k - 1]

OffsetAfter(base, offset, len) == base + offset + len

-----------------------------------------------------------------------------
\* What is on the disk (external: the layout of a FAT volume)

FatSizeOnDisk(v) == IF v.bpb.fat_size_16 # 0 THEN v.bpb.fat_size_16 ELSE v.bpb.at_36

RootStart(v) ==
  v.base \div SectorSize + v.bpb.reserved_sector_count + v.bpb.num_fats * FatSizeOnDisk(v)

DataStart(v) == RootStart(v) + RootDirSectors(v.bpb)

Entry(v, n) == IF n \in DOMAIN v.fat THEN v.fat[n] ELSE 0

\* byte k of the file allocation table: two bytes an entry, or two entries
\* in three bytes
FatByte(v, k) ==
  CASE v.kind = 16 -> IF k % 2 = 0 THEN Entry(v, k \div 2) % 256 ELSE Entry(v, k \div 2) \div 256
    [] v.kind = 12 ->
         LET even == Entry(v, 2 * (k \div 3))
             odd  == Entry(v, 2 * (k \div 3) + 1)
         IN  CASE k % 3 = 0 -> even % 256
               [] k % 3 = 1 -> even \div 256 + 16 * (odd % 16)
               [] k % 3 = 2 -> odd \div 16
    [] OTHER -> 0

DiskByte(v, position) ==
  LET k == position - v.base - FatOffset(v.bpb)
  IN  IF k \in 0..(v.bpb.num_fats * FatSizeOnDisk(v) * SectorSize - 1)
      THEN FatByte(v, k % (FatSizeOnDisk(v) * SectorSize))
      ELSE 0

\* What parse makes of the 32 bytes of an entry: a long name or a normal entry,
\* "stray" where it returns an error (a name that is not UTF-8) and "panic" where
\* slice_to_string slices out of range (a name that begins with a space and has
\* none after that).  "end" and "unused" are told by the first byte.
End == [type |-> "end"]

EntriesPerSector == SectorSize \div EntrySize

\* The entries of a sector.  Those of the root directory are v.root, with zeroes
\* behind; any other sector holds data, whose bytes look like v.elsewhere; and a
\* part of the buffer that nothing was read into (-1) is zero.
EntriesAt(v, sector) ==
  [k \in 1..EntriesPerSector |->
     LET n == (sector - RootStart(v)) * EntriesPerSector + k
     IN  CASE sector = -1 -> End
           [] sector \in RootStart(v)..(DataStart(v) - 1) ->
                IF n <= Len(v.root) THEN v.root[n] ELSE End
           [] OTHER -> v.elsewhere[k]]

-----------------------------------------------------------------------------
\* read_root_dir on a buffer that holds the given sectors, and
\* find_file_in_root_dir on the entries it yields

RawEntries(v, buffer) == FlattenSeq([s \in 1..Len(buffer) |-> EntriesAt(v, buffer[s])])

\* Plausible fault: only unused entries are left out, and what follows the end
\* of the directory is looked at as well.
UntilEndOfBuffer(entries) == SelectSeq(entries, LAMBDA e : e.type # "end")

\* take_while
UntilEnd(entries) ==
  SubSeq(entries, 1, SelectInSeq(entries \o <<End>>, LAMBDA e : e.type = "end") - 1)

\* drop the unused entries and those that do not parse; one that panics does so
\* when it is reached
RootEntries(v, buffer) ==
  SelectSeq(UntilEnd(RawEntries(v, buffer)), LAMBDA e : e.type \in {"long", "normal", "panic"})

Matches(entries, name) ==
  {k \in 1..Len(entries) : entries[k].type # "panic" /\ entries[k].name = name}

Panics(entries) == {k \in 1..Len(entries) : entries[k].type = "panic"}

Panicked == [how |-> "panic"]

None == [how |-> "none"]

\* The first entry of that name, unless parsing one before it panics; a long name
\* belongs to the entry after it.
Lookup(entries, name) ==
  LET stops == Matches(entries, name) \cup Panics(entries)
      found == CHOOSE k \in stops : \A j \in stops : k <= j
      at    == IF entries[found].type = "long" THEN found + 1 ELSE found
  IN  IF stops = {} THEN None
      ELSE IF at > Len(entries) THEN Panicked
      ELSE IF entries[at].type \in {"long", "panic"} THEN Panicked
      ELSE IF entries[at].directory THEN None
      ELSE [how |-> "found", first_cluster |-> entries[at].first_cluster,
            file_size |-> entries[at].file_size]

\* read_root_dir: the geometry may divide by zero or underflow, a FAT32
\* directory is not implemented, a partial sector and a directory larger than
\* the buffer fail the checks of read_exact_into
ReadRootPanics(v) ==
  v.bpb.bytes_per_sector # 0 /\ v.bpb.sectors_per_cluster # 0 =>
    \/ DataSectors(v.bpb) < 0
    \/ FatType(v.bpb) = 32
    \/ RootDirectorySize(v.bpb) % SectorSize # 0
    \/ RootDirectorySize(v.bpb) > BufferSize

-----------------------------------------------------------------------------
\* The cluster chain

Defective(type) == CASE type = 12 -> 4087 [] type = 16 -> 65527 [] OTHER -> 268435447

Classify(type, entry, max) ==
  CASE entry \in 0..1 -> "error"
    [] entry \in 2..max -> "cluster"
    [] entry > max /\ entry <= Defective(type) -> "error"
    [] entry > max /\ entry > Defective(type) -> "end"

ClusterStart(v, n) == DataOffset(v.bpb) + (n - 2) * BytesPerCluster(v.bpb)

\* where the entry of cluster n lies in the table, and the entry in the two
\* bytes found there
EntryPosition(v, n) ==
  FatOffset(v.bpb) + (CASE FatType(v.bpb) = 16 -> 2 * n
                        [] FatType(v.bpb) = 12 -> n + n \div 2)

EntryIn(v, n, low, high) ==
  CASE FatType(v.bpb) = 16 -> low + 256 * high
    [] FatType(v.bpb) = 12 ->
         IF n % 2 = 0 THEN (low + 256 * high) % 4096 ELSE (low + 256 * high) \div 16

=============================================================================
