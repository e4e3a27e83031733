------------------------------- MODULE Stage2 -------------------------------
(***************************************************************************)
(* The BIOS second stage (bios/stage-2/src/main.rs): it finds the FAT      *)
(* partition, loads stage 3, stage 4, the kernel, the ramdisk and the      *)
(* configuration file into memory, asks the BIOS for the memory map and a  *)
(* video mode, and hands a BiosInfo to the third stage.                    *)
(*                                                                         *)
(* Two DiskAccess values walk the same disk: the file system's own (fs),   *)
(* which reads directories and the allocation table, and the loader's      *)
(* (disk), which reads clusters.  A buffer is the sequence of the sectors  *)
(* it holds; a byte of memory is the position on the disk it came from.    *)
(***************************************************************************)
EXTENDS FatVolume, BiosLayout, FiniteSets

CONSTANTS
  MapCapacity,    \* entries of MEMORY_MAP (100)
  MaxWidth, MaxHeight,               \* largest video mode accepted
  Boots           \* the pairs of a disk and a BIOS considered

VARIABLES
  volume, machine,   \* the disk and the BIOS of this boot, never changed
  pc,                \* where control is, or how the stage ended
  file,              \* number of the file being loaded
  fs_offset,         \* current_offset of the file system's DiskAccess
  disk_offset,       \* current_offset of the loader's DiskAccess
  tmp_buf,           \* sectors the last read_exact transferred
  disk_buffer,       \* sectors in DISK_BUFFER
  root_entries,      \* the entries read_root_dir yielded last
  current_entry,     \* Traverser: the next cluster of the chain
  cluster_start, offset, total_offset,   \* try_load_file
  file_size,         \* size of the file being loaded
  lens,              \* file -> length, for the files done with
  memory,            \* address -> position on the disk of the byte loaded there
  answer,            \* number of the BIOS answer or video mode at hand
  memory_map,        \* the entries stored in MEMORY_MAP
  best               \* number of the best video mode so far, 0 for None

disk_vars == <<fs_offset, disk_offset, tmp_buf, disk_buffer, root_entries>>
load_vars == <<current_entry, cluster_start, offset, total_offset, file_size>>
bios_vars == <<answer, memory_map, best>>
vars == <<volume, machine, pc, file, disk_vars, load_vars, lens, memory, bios_vars>>

-----------------------------------------------------------------------------
Init ==
  /\ \E b \in Boots : volume = b[1] /\ machine = b[2]
  /\ pc = "partitions"
  /\ file = Stage3
  /\ fs_offset = 0
  /\ disk_offset = 0
  /\ tmp_buf = << >>
  /\ disk_buffer = [s \in 1..BufferSectors |-> -1]
  /\ root_entries = << >>
  /\ current_entry = 0
  /\ cluster_start = 0
  /\ offset = 0
  /\ total_offset = 0
  /\ file_size = 0
  /\ lens = << >>
  /\ memory = << >>
  /\ answer = 1
  /\ memory_map = << >>
  /\ best = 0

Panic ==
  /\ pc' = "panic"
  /\ UNCHANGED <<volume, machine, file, disk_vars, load_vars, lens, memory, bios_vars>>

\* int 0x13 reports an error: the stage stops in `fail`
DiskFails ==
  /\ pc' = "fail"
  /\ UNCHANGED <<volume, machine, file, disk_vars, load_vars, lens, memory, bios_vars>>

OnDisk(sectors) == \A k \in 1..Len(sectors) : sectors[k] < volume.disk_sectors

\* A read into a buffer of DISK_BUFFER's size leaves the rest as it was
Into(buffer, sectors) == [s \in 1..BufferSectors |-> IF s <= Len(sectors) THEN sectors[s] ELSE buffer[s]]

\* read_exact always transfers two sectors' worth of bytes from where it
\* stands.  In the middle of a sector that takes three sectors, and the last
\* one lands behind TMP_BUF, where the linker may have put DISK_BUFFER.
Spilled(sectors) ==
  IF Len(sectors) > TmpSectors /\ volume.after_tmp = "disk_buffer"
  THEN [disk_buffer EXCEPT ![1] = sectors[TmpSectors + 1]]
  ELSE disk_buffer

ReadExact(position) ==
  LET sectors == SectorsRead(volume.base, position, TmpSize)
  IN  /\ OnDisk(sectors)
      /\ tmp_buf' = sectors
      /\ disk_buffer' = Spilled(sectors)
      /\ fs_offset' = OffsetAfter(volume.base, position, TmpSize)

BootSectors == SectorsRead(volume.base, 0, TmpSize)

\* Parse the partition table and the boot sector
Parse ==
  /\ pc = "partitions"
  /\ HasFatPartition(volume.partitions)
  /\ ~ParsePanics(volume.bpb)
  /\ ReadExact(0)
  /\ pc' = "find"
  /\ UNCHANGED <<volume, machine, file, disk_offset, root_entries, load_vars, lens, memory,
                 bios_vars>>

ParseFails ==
  /\ pc = "partitions"
  /\ \/ ~HasFatPartition(volume.partitions)
     \/ OnDisk(BootSectors) /\ ParsePanics(volume.bpb)
  /\ Panic

-----------------------------------------------------------------------------
\* try_load_file

RootSectors == SectorsRead(volume.base, RootDirectoryOffset(volume.bpb), RootDirectorySize(volume.bpb))

ReadRootDir ==
  /\ pc = "find"
  /\ ~ReadRootPanics(volume)
  /\ OnDisk(RootSectors)
  /\ disk_buffer' = Into(disk_buffer, RootSectors)
  /\ root_entries' = RootEntries(volume, disk_buffer')
  /\ fs_offset' = OffsetAfter(volume.base, RootDirectoryOffset(volume.bpb),
                              RootDirectorySize(volume.bpb))
  /\ pc' = "search"
  /\ UNCHANGED <<volume, machine, file, disk_offset, tmp_buf, load_vars, lens, memory, bios_vars>>

ReadRootFails ==
  /\ pc = "find"
  /\ ReadRootPanics(volume)
  /\ Panic

Found == Lookup(root_entries, Names[file])

FindFile ==
  /\ pc = "search"
  /\ Found.how = "found"
  /\ current_entry' = Found.first_cluster
  /\ file_size' = Found.file_size
  /\ total_offset' = 0
  /\ pc' = "next_cluster"
  /\ UNCHANGED <<volume, machine, file, disk_vars, cluster_start, offset, lens, memory, bios_vars>>

NoOptionalFile ==
  /\ pc = "search"
  /\ Found.how = "none"
  /\ file \in Optional
  /\ file_size' = 0
  /\ pc' = "loaded"
  /\ UNCHANGED <<volume, machine, file, disk_vars, current_entry, cluster_start, offset,
                 total_offset, lens, memory, bios_vars>>

FindFails ==
  /\ pc = "search"
  /\ Found.how = "panic" \/ (Found.how = "none" /\ file \notin Optional)
  /\ Panic

EntryClass == Classify(FatType(volume.bpb), current_entry, MaximumValidCluster(volume.bpb))

\* Byte k of what read_exact returns after a seek to the position
ReadByte(position, k) ==
  LET sectors == SectorsRead(volume.base, position, TmpSize)
      at      == (position % SectorSize) + k
  IN  DiskByte(volume, sectors[1 + at \div SectorSize] * SectorSize + (at % SectorSize))

NextEntry(n) ==
  EntryIn(volume, n, ReadByte(EntryPosition(volume, n), 0), ReadByte(EntryPosition(volume, n), 1))

\* Plausible fault: the traversal stays on its cluster.
NextClusterAgain ==
  /\ pc = "next_cluster"
  /\ EntryClass = "cluster"
  /\ ReadExact(EntryPosition(volume, current_entry))
  /\ cluster_start' = ClusterStart(volume, current_entry)
  /\ offset' = 0
  /\ total_offset' = 0
  /\ pc' = "copy"
  /\ UNCHANGED <<volume, machine, file, disk_offset, root_entries, current_entry, file_size, lens,
                 memory, bios_vars>>

\* Traverser::next_cluster
NextCluster ==
  /\ pc = "next_cluster"
  /\ EntryClass = "cluster"
  /\ ReadExact(EntryPosition(volume, current_entry))
  /\ cluster_start' = ClusterStart(volume, current_entry)
  /\ current_entry' = NextEntry(current_entry)
  /\ offset' = 0
  /\ pc' = "copy"
  /\ UNCHANGED <<volume, machine, file, disk_offset, root_entries, total_offset, file_size, lens,
                 memory, bios_vars>>

EndOfFile ==
  /\ pc = "next_cluster"
  /\ EntryClass = "end"
  /\ pc' = "loaded"
  /\ UNCHANGED <<volume, machine, file, disk_vars, load_vars, lens, memory, bios_vars>>

BadCluster ==
  /\ pc = "next_cluster"
  /\ EntryClass = "error"
  /\ Panic

RangeStart == cluster_start + offset

ClusterEnd == cluster_start + BytesPerCluster(volume.bpb)

RangeLen ==
  IF RangeStart + BufferSize < ClusterEnd THEN BufferSize ELSE ClusterEnd - RangeStart

RangeSectors == SectorsRead(volume.base, RangeStart, BufferSize)

\* copy_to_protected_mode of the first len bytes of the buffer
Copied(buffer, dst, len) ==
  [a \in DOMAIN memory \cup dst..(dst + len - 1) |->
     IF a \in dst..(dst + len - 1)
     THEN buffer[1 + (a - dst) \div SectorSize] * SectorSize + ((a - dst) % SectorSize)
     ELSE memory[a]]

\* One round of the inner loop: a buffer full is read, whatever is left of the
\* cluster, and the part that belongs to the cluster is copied
CopyRange ==
  /\ pc = "copy"
  /\ RangeStart < ClusterEnd
  /\ OnDisk(RangeSectors)
  /\ disk_buffer' = Into(disk_buffer, RangeSectors)
  /\ disk_offset' = OffsetAfter(volume.base, RangeStart, BufferSize)
  /\ memory' = Copied(disk_buffer', Dst(file, lens) + total_offset, RangeLen)
  /\ offset' = offset + RangeLen
  /\ total_offset' = total_offset + RangeLen
  /\ UNCHANGED <<volume, machine, pc, file, fs_offset, tmp_buf, root_entries, current_entry,
                 cluster_start, file_size, lens, bios_vars>>

ClusterDone ==
  /\ pc = "copy"
  /\ RangeStart >= ClusterEnd
  /\ pc' = "next_cluster"
  /\ UNCHANGED <<volume, machine, file, disk_vars, load_vars, lens, memory, bios_vars>>

\* Any of the reads reaches past the end of the disk
ReadFails ==
  /\ \/ pc = "partitions" /\ HasFatPartition(volume.partitions) /\ ~OnDisk(BootSectors)
     \/ pc = "find" /\ ~ReadRootPanics(volume) /\ ~OnDisk(RootSectors)
     \/ /\ pc = "next_cluster"
        /\ EntryClass = "cluster"
        /\ ~OnDisk(SectorsRead(volume.base, EntryPosition(volume, current_entry), TmpSize))
     \/ pc = "copy" /\ RangeStart < ClusterEnd /\ ~OnDisk(RangeSectors)
  /\ DiskFails

\* The file is in memory, or there is none: on to the next one
AssertFails ==
  \/ file = Stage3 /\ ~(Stage4Dst > Stage3Dst + file_size)
  \/ file = Kernel /\ file_size = 0

FileLoaded ==
  /\ pc = "loaded"
  /\ ~AssertFails
  /\ lens' = Append(lens, file_size)
  /\ IF file = Config
     THEN /\ pc' = "memory_map"
          /\ UNCHANGED file
     ELSE /\ pc' = "find"
          /\ file' = file + 1
  /\ UNCHANGED <<volume, machine, disk_vars, load_vars, memory, bios_vars>>

LoadedPanics ==
  /\ pc = "loaded"
  /\ AssertFails
  /\ Panic

-----------------------------------------------------------------------------
\* query_memory_map: one BIOS answer per step, the last one ends the list

Answer == machine.answers[answer]

\* bytes of the buffer that base, length and type take
RegionBytes == 20

Storable(a) == a.written >= RegionBytes /\ a.len # 0

Next820 ==
  IF answer = Len(machine.answers)
  THEN pc' = "vesa" /\ answer' = 1
  ELSE pc' = "memory_map" /\ answer' = answer + 1

\* Plausible fault: the entry is stored over the previous one.
StoreRegionOver ==
  /\ pc = "memory_map"
  /\ Answer.ok
  /\ Storable(Answer)
  /\ Len(memory_map) < MapCapacity
  /\ memory_map' = IF memory_map = << >> THEN <<answer>> ELSE [memory_map EXCEPT ![1] = answer]
  /\ Next820
  /\ UNCHANGED <<volume, machine, file, disk_vars, load_vars, lens, memory, best>>

StoreRegion ==
  /\ pc = "memory_map"
  /\ Answer.ok
  /\ Storable(Answer)
  /\ Len(memory_map) < MapCapacity
  /\ memory_map' = Append(memory_map, answer)
  /\ Next820
  /\ UNCHANGED <<volume, machine, file, disk_vars, load_vars, lens, memory, best>>

SkipRegion ==
  /\ pc = "memory_map"
  /\ Answer.ok
  /\ Answer.written = 0 \/ (Answer.written >= RegionBytes /\ Answer.len = 0)
  /\ Next820
  /\ UNCHANGED <<volume, machine, file, disk_vars, load_vars, lens, memory, memory_map, best>>

\* the call fails, the answer is too short to be split, or the array is full
MapFails ==
  /\ pc = "memory_map"
  /\ \/ ~Answer.ok
     \/ Answer.ok /\ Answer.written \in 1..(RegionBytes - 1)
     \/ Answer.ok /\ Storable(Answer) /\ Len(memory_map) = MapCapacity
  /\ Panic

-----------------------------------------------------------------------------
\* VesaInfo::query, into DISK_BUFFER, then get_best_mode: one video mode per step

QueryVesa ==
  /\ pc = "vesa"
  /\ machine.vesa
  /\ disk_buffer' = [s \in 1..BufferSectors |-> -1]
  /\ pc' = "video"
  /\ UNCHANGED <<volume, machine, file, fs_offset, disk_offset, tmp_buf, root_entries, load_vars, lens,
                 memory, bios_vars>>

Modes == machine.modes

\* a graphics mode with a linear frame buffer, not too large
Suitable(m) == m.linear /\ m.width <= MaxWidth /\ m.height <= MaxHeight

Larger(m, than) ==
  \/ than.width < m.width
  \/ than.width = m.width /\ than.height < m.height

\* Plausible fault: modes of the same width are not told apart.
ReplacesWider(m) == best = 0 \/ ~Modes[best].known \/ Modes[best].width < m.width

Replaces(m) == best = 0 \/ ~Modes[best].known \/ Larger(m, Modes[best])

ConsiderMode ==
  /\ pc = "video"
  /\ answer <= Len(Modes)
  /\ Modes[answer].readable
  /\ best' = IF Suitable(Modes[answer]) /\ Replaces(Modes[answer]) THEN answer ELSE best
  /\ answer' = answer + 1
  /\ UNCHANGED <<volume, machine, pc, file, disk_vars, load_vars, lens, memory, memory_map>>

\* enable the mode, build the BiosInfo and jump to the third stage
EnterStage3 ==
  /\ pc = "video"
  /\ answer > Len(Modes)
  /\ best # 0
  /\ Modes[best].settable
  /\ Modes[best].bytes_per_pixel # 0
  /\ pc' = "stage3"
  /\ UNCHANGED <<volume, machine, file, disk_vars, load_vars, lens, memory, bios_vars>>

\* the BIOS refuses a query or the mode, there is no suitable one, or the
\* stride is divided by zero bytes per pixel
VideoFails ==
  /\ \/ pc = "vesa" /\ ~machine.vesa
     \/ pc = "video" /\ answer <= Len(Modes) /\ ~Modes[answer].readable
     \/ pc = "video" /\ answer > Len(Modes) /\ best = 0
     \/ /\ pc = "video" /\ answer > Len(Modes) /\ best # 0
        /\ ~Modes[best].settable \/ Modes[best].bytes_per_pixel = 0
  /\ Panic

Next ==
  \/ Parse \/ ParseFails
  \/ ReadRootDir \/ ReadRootFails \/ FindFile \/ NoOptionalFile \/ FindFails
  \/ NextCluster \/ EndOfFile \/ BadCluster
  \/ CopyRange \/ ClusterDone \/ ReadFails
  \/ FileLoaded \/ LoadedPanics
  \/ StoreRegion \/ SkipRegion \/ MapFails
  \/ QueryVesa \/ ConsiderMode \/ EnterStage3 \/ VideoFails

Spec == Init /\ [][Next]_vars

\* The stage is a single thread: it goes on as long as it has a next step.
FairSpec == Spec /\ WF_vars(Next)

-----------------------------------------------------------------------------
\* The volumes the image builder of the repository writes, by the rules of the
\* FAT format alone: what the loader is meant to cope with.

Chain(v, n) ==
  LET step[c \in DOMAIN v.fat, left \in 0..Cardinality(DOMAIN v.fat)] ==
        IF left = 0 \/ v.fat[c] \notin DOMAIN v.fat THEN <<c>>
        ELSE <<c>> \o step[v.fat[c], left - 1]
  IN  step[n, Cardinality(DOMAIN v.fat)]

\* The directory's record of a file, found by its long name
Records(v, f) ==
  {k \in 2..Len(v.root) : /\ v.root[k].type = "normal"
                          /\ v.root[k - 1].type = "long"
                          /\ v.root[k - 1].name = Names[f]
                          /\ ~v.root[k].directory}

Record(v, f) == v.root[CHOOSE k \in Records(v, f) : TRUE]

ClustersFor(v, size) == (size + BytesPerCluster(v.bpb) - 1) \div BytesPerCluster(v.bpb)

\* The chain of a file is as long as its size needs, and ends
Complete(v, f) ==
  LET r == Record(v, f)
      c == Chain(v, r.first_cluster)
  IN  /\ r.first_cluster \in DOMAIN v.fat
      /\ Len(c) = ClustersFor(v, r.file_size)
      /\ v.fat[Last(c)] > Defective(v.kind)

Present(v) == {f \in Files : Records(v, f) # {}}

ClustersOnDisk(v) ==
  (v.bpb.total_sectors_16 - (DataStart(v) - v.base \div SectorSize)) \div v.bpb.sectors_per_cluster

KindByClusters(count) ==
  IF count < Fat12Clusters THEN 12 ELSE IF count < Fat16Clusters THEN 16 ELSE 32

\* No entry that parse panics on, and a mark at the end of the directory unless it
\* takes up the whole buffer: otherwise read_root_dir goes on to what an earlier
\* read left behind it
Terminated(v) ==
  /\ \A k \in 1..Len(v.root) : v.root[k].type \in {"long", "normal", "unused", "stray"}
  /\ Len(v.root) < v.bpb.root_entry_count \/ RootDirectorySize(v.bpb) = BufferSize

\* A FAT12 or FAT16 volume whose sectors are counted in 16 bits, with room
\* behind its last used cluster, and whose files are whole
Sound(v) ==
  /\ HasFatPartition(v.partitions)
  /\ v.bpb.bytes_per_sector = SectorSize /\ v.bpb.sectors_per_cluster # 0
  /\ v.bpb.total_sectors_16 # 0 /\ v.bpb.total_sectors_32 = 0
  /\ v.kind \in {12, 16} /\ v.kind = KindByClusters(ClustersOnDisk(v))
  /\ DOMAIN v.fat \subseteq 2..(ClustersOnDisk(v) + 1)
  /\ RootDirectorySize(v.bpb) % SectorSize = 0
  /\ Len(v.root) <= v.bpb.root_entry_count
  /\ RootDirectorySize(v.bpb) <= BufferSize
  /\ Terminated(v)
  /\ \A f \in Files : Cardinality(Records(v, f)) <= 1
  /\ Files \ Optional \subseteq Present(v)
  /\ \A f \in Present(v) : Complete(v, f) /\ Record(v, f).file_size > 0
  /\ \A n \in DOMAIN v.fat :
       DataStart(v) + (n - 2) * v.bpb.sectors_per_cluster + BufferSectors <= v.disk_sectors
  /\ Record(v, Stage3).file_size < Stage4Dst - Stage3Dst
  /\ Stage4Dst + Record(v, Stage4).file_size <= KernelDst

\* A BIOS that answers, with a list that fits and a suitable mode
Regions820(m) == SelectSeq([k \in 1..Len(m.answers) |-> k],
                           LAMBDA k : Storable(m.answers[k]))

Answering(m) ==
  /\ \A k \in 1..Len(m.answers) : m.answers[k].ok /\ m.answers[k].written \notin 1..(RegionBytes - 1)
  /\ Len(Regions820(m)) <= MapCapacity
  /\ m.vesa
  /\ \A k \in 1..Len(m.modes) :
       m.modes[k].readable /\ m.modes[k].settable /\ m.modes[k].bytes_per_pixel # 0
  /\ \E k \in 1..Len(m.modes) : Suitable(m.modes[k])

-----------------------------------------------------------------------------
\* Byte k of a file on the disk
DiskPosition(f, k) ==
  LET r == Record(volume, f)
      c == Chain(volume, r.first_cluster)[1 + k \div BytesPerCluster(volume.bpb)]
  IN  (DataStart(volume) + (c - 2) * volume.bpb.sectors_per_cluster) * SectorSize
        + (k % BytesPerCluster(volume.bpb))

\* Everything already loaded stays in memory, byte for byte, at the address and
\* with the length BiosInfo reports for it: start's load addresses, whole
\* clusters written past the end of a file, fragments and buffer-sized reads
\* never put a file's bytes out of place nor overwrite an earlier file.
FilesIntact ==
  Sound(volume) =>
    \A f \in 1..Len(lens) :
      \A k \in 0..(lens[f] - 1) :
        /\ Dst(f, lens) + k \in DOMAIN memory
        /\ memory[Dst(f, lens) + k] = DiskPosition(f, k)

\* query_memory_map stores every non-empty entry, in the order of the BIOS,
\* nothing else, and never more than the array holds.
MapComplete ==
  /\ Len(memory_map) <= MapCapacity
  /\ pc \in {"vesa", "video", "stage3"} => memory_map = Regions820(machine)

\* get_best_mode never settles for a mode when a later suitable one is larger,
\* and keeps one of unknown pixel format only if no suitable mode follows.
BestModeNotBeaten ==
  pc = "stage3" =>
    /\ Suitable(Modes[best])
    /\ \A k \in (best + 1)..Len(Modes) :
         Suitable(Modes[k]) => Modes[best].known /\ ~Larger(Modes[k], Modes[best])

\* On a sound volume the stage comes to an end: no cluster chain is followed
\* for ever and no loop of the stage goes round in place.
StageEnds == (Sound(volume) /\ pc = "partitions") ~> pc \in {"stage3", "panic", "fail"}

\* What the second stage leaves to the third, as a function of the disk and of
\* the BIOS, is given by Stage2Contract.
Given ==
  [sound     |-> Sound(volume),
   answering |-> Answering(machine),
   lens      |-> IF Sound(volume)
                 THEN [f \in Files |-> IF f \in Present(volume) THEN Record(volume, f).file_size ELSE 0]
                 ELSE << >>,
   entries   |-> Regions820(machine)]

Contract == INSTANCE Stage2Contract WITH
  given   <- Given,
  reached <- CASE pc = "stage3" -> "stage3"
               [] pc \in {"panic", "fail"} -> "stopped"
               [] OTHER -> "running",
  info    <- IF pc = "stage3" THEN BiosInfo(lens, memory_map) ELSE << >>

\* The stage implements its contract: from a sound volume and an answering BIOS
\* it always gets to the third stage, none of its panics and no read error in
\* the way; the lookup has found exactly the files of the root directory, whatever
\* the data that earlier reads left in the buffer looks like, an absent optional
\* file has length 0, and BiosInfo reports their lengths, their
\* addresses, last_used_addr and the memory map of the BIOS.
ImplementsContract == Contract!Spec

\* The assertion of fat_size_in_sectors: a volume taken for FAT32 has no
\* 16-bit FAT size.
FatSizeAsserted ==
  pc = "find" =>
    LET b == volume.bpb
    IN  ~(b.fat_size_16 # 0 /\ FatSize32(b) = 0) => b.fat_size_16 = 0 /\ FatSize32(b) # 0

\* The assertion of read_exact is that what it reads fits into TMP_BUF.
ReadFitsTmpBuf == Len(tmp_buf) <= TmpSectors

=============================================================================
