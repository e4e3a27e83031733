------------------------------ MODULE MCStage2 ------------------------------
(***************************************************************************)
(* Small disks and BIOSes for the second stage.  A sector has 4 bytes and  *)
(* 4 directory entries, DISK_BUFFER 4 sectors, so that a cluster is        *)
(* smaller than the buffer, as large, or larger.                           *)
(***************************************************************************)
EXTENDS Stage2

Ceil(a, b) == (a + b - 1) \div b

-----------------------------------------------------------------------------
\* Directories

LongName(name) == [type |-> "long", name |-> name]

Normal(name, first, size, dir) ==
  [type |-> "normal", name |-> name, first_cluster |-> first, file_size |-> size, directory |-> dir]

Unused == [type |-> "unused"]

ShortNames == <<"BOOT-S~1", "BOOT-S~2", "KERNEL~1", "RAMDISK", "BOOT~1JSON">>

FileEntries(f, first, size) == <<LongName(Names[f]), Normal(ShortNames[f], first, size, FALSE)>>

\* What the data on the disk looks like, taken for directory entries: the two
\* optional files, the end, one that does not parse, one that panics

Bait == FileEntries(Ramdisk, 2, 4) \o FileEntries(Config, 2, 4)

Looks ==
  {<<End, End, End, End>>, <<Unused, [type |-> "stray"], [type |-> "panic"], End>>,
   <<LongName("other"), LongName(Names[Kernel]), Normal("A", 3, 1, FALSE), [type |-> "panic"]>>}

Label == <<Normal("BOOT", 0, 0, FALSE)>>

Efi == <<LongName("efi"), Normal("EFI", 0, 0, TRUE)>>

-----------------------------------------------------------------------------
\* A volume: files of the given sizes (0 for no such file) take the clusters
\* in the given order, one file after the other.

Sizes(sizes, spc) == [f \in 1..5 |-> Ceil(sizes[f], spc * SectorSize)]

Before(counts, f) == SumFunction(SubSeq(counts, 1, f - 1))

Clusters(order, count) ==
  CASE order = "up"     -> [k \in 1..count |-> k + 1]
    [] order = "down"   -> [k \in 1..count |-> count + 2 - k]
    [] order = "spread" -> [k \in 1..count |->
                              IF 2 * k <= count + 1 THEN 2 * k ELSE 2 * (k - (count + 1) \div 2) + 1]

Table(counts, clusters, eof) ==
  LET used == SumFunction(counts)
      pos(n) == CHOOSE k \in 1..used : clusters[k] = n
      ends == {Before(counts, f) + counts[f] : f \in 1..5}
  IN  [n \in {clusters[k] : k \in 1..used} |-> IF pos(n) \in ends THEN eof ELSE clusters[pos(n) + 1]]

FirstCluster(counts, clusters, f) == IF counts[f] = 0 THEN 0 ELSE clusters[Before(counts, f) + 1]

Root(sizes, counts, clusters, noise) ==
  LET entry(f) ==
        IF sizes[f] = 0 THEN << >> ELSE FileEntries(f, FirstCluster(counts, clusters, f), sizes[f])
  IN  CASE noise = "plain" -> entry(1) \o entry(2) \o entry(3) \o entry(4) \o entry(5)
        [] noise = "mixed" -> Label \o entry(3) \o <<Unused>> \o Efi \o entry(5) \o entry(1) \o
                              <<Unused>> \o entry(2) \o entry(4)

Volume(kind, spc, order, sizes, noise, after) ==
  LET counts   == Sizes(sizes, spc)
      count    == IF kind = 12 THEN SumFunction(counts) ELSE Fat12Clusters
      clusters == Clusters(order, count)
      root     == Root(sizes, counts, clusters, noise)
      entries  == Ceil(Len(root) + 1, EntriesPerSector) * EntriesPerSector
      fat_size == Ceil(IF kind = 12 THEN Ceil(3 * (count + 2), 2) ELSE 2 * (count + 2), SectorSize)
      sectors  == 1 + 2 * fat_size + entries \div EntriesPerSector + count * spc
      base     == 3
  IN  [partitions   |-> <<[type |-> SecondStageType], [type |-> "fat16"]>>,
       base         |-> base * SectorSize,
       disk_sectors |-> base + sectors + BufferSectors,
       kind         |-> kind,
       after_tmp    |-> after,
       fat          |-> Table(counts, clusters, IF kind = 12 THEN 4088 ELSE 65535),
       root         |-> root,
       elsewhere    |-> Bait,
       bpb          |-> [bytes_per_sector |-> SectorSize, sectors_per_cluster |-> spc,
                         reserved_sector_count |-> 1, num_fats |-> 2,
                         root_entry_count |-> entries, total_sectors_16 |-> sectors,
                         total_sectors_32 |-> 0, fat_size_16 |-> fat_size, at_36 |-> 128]]

AllFiles == <<9, 12, 17, 8, 5>>
NoRamdisk == <<4, 5, 8, 0, 3>>
Bare == <<3, 8, 16, 0, 0>>

SoundVolumes ==
  {Volume(kind, spc, order, sizes, noise, after) :
     kind \in {12, 16}, spc \in {1, 2, 8}, order \in {"up", "down", "spread"},
     sizes \in {AllFiles, NoRamdisk, Bare}, noise \in {"plain", "mixed"},
     after \in {"disk_buffer", "nothing"}} \cup
  {[Volume(12, spc, "up", sizes, noise, "nothing") EXCEPT !.elsewhere = looks] :
     spc \in {1, 8}, sizes \in {AllFiles, NoRamdisk, Bare}, noise \in {"plain", "mixed"},
     looks \in Looks}

-----------------------------------------------------------------------------
\* BIOSes

Region == [ok |-> TRUE, written |-> 24, len |-> 1]
EmptyRegion == [Region EXCEPT !.len = 0]
NoRegion == [Region EXCEPT !.written = 0]
CutRegion == [Region EXCEPT !.written = 16]
BadRegion == [Region EXCEPT !.ok = FALSE]

Mode(width, height, known) ==
  [linear |-> TRUE, width |-> width, height |-> height, known |-> known,
   readable |-> TRUE, settable |-> TRUE, bytes_per_pixel |-> 3]
TextMode == [Mode(2, 2, TRUE) EXCEPT !.linear = FALSE]

ModeLists ==
  LET modes == {Mode(1, 2, TRUE), Mode(2, 1, TRUE), Mode(2, 2, TRUE), Mode(1, 1, FALSE),
                Mode(2, 1, FALSE), Mode(2, 3, TRUE), TextMode}
  IN  {<<a, b, c>> : a \in modes, b \in modes, c \in modes}

AnswerLists ==
  UNION {[1..n -> {Region, EmptyRegion, NoRegion}] : n \in 1..3} \cup
  {<<Region, BadRegion>>, <<CutRegion, Region>>, <<Region, Region, EmptyRegion, Region>>, <<Region, Region, NoRegion, Region, Region>>}

Bios(answers, modes) == [answers |-> answers, vesa |-> TRUE, modes |-> modes]

PlainBios == Bios(<<Region, EmptyRegion, Region>>, <<TextMode, Mode(1, 2, TRUE), Mode(2, 2, FALSE)>>)

AllBioses ==
  {Bios(PlainBios.answers, modes) : modes \in ModeLists} \cup
  {Bios(answers, PlainBios.modes) : answers \in AnswerLists} \cup
  {[PlainBios EXCEPT !.vesa = FALSE], [PlainBios EXCEPT !.modes[1].readable = FALSE],
   [PlainBios EXCEPT !.modes[3].settable = FALSE],
   [PlainBios EXCEPT !.modes[3].bytes_per_pixel = 0]}

-----------------------------------------------------------------------------
\* Volumes that cannot be booted

OneVolume == Volume(12, 2, "up", AllFiles, "plain", "nothing")

QuickVolume == Volume(12, 8, "up", Bare, "plain", "nothing")

Fat16Volume == Volume(16, 1, "down", Bare, "plain", "nothing")

\* only stage 3, described in the last sector of the only table
ShortDisk ==
  [Fat16Volume EXCEPT !.bpb.num_fats = 1, !.bpb.root_entry_count = EntriesPerSector,
                      !.fat = (Fat12Clusters + 1 :> 65535),
                      !.root = FileEntries(Stage3, Fat12Clusters + 1, 3),
                      !.disk_sectors = 3 + 1 + Fat16Volume.bpb.fat_size_16 + 1]

BrokenVolumes ==
  {[OneVolume EXCEPT !.partitions = <<[type |-> "fat16"], [type |-> SecondStageType]>>],
   [OneVolume EXCEPT !.partitions = <<[type |-> SecondStageType], [type |-> "linux"]>>],
   [OneVolume EXCEPT !.bpb.total_sectors_16 = 0],
   [OneVolume EXCEPT !.bpb.total_sectors_32 = 200, !.bpb.total_sectors_16 = 0],
   [OneVolume EXCEPT !.bpb.total_sectors_16 = 400],
   [OneVolume EXCEPT !.bpb.sectors_per_cluster = 0],
   [OneVolume EXCEPT !.bpb.root_entry_count = 20],
   [OneVolume EXCEPT !.root[3] = Unused],
   [OneVolume EXCEPT !.root[1].type = "panic"],
   [OneVolume EXCEPT !.root[4] = [type |-> "panic"]],
   [OneVolume EXCEPT !.root[4] = LongName("other")],
   [OneVolume EXCEPT !.root = SubSeq(@, 1, 5)],
   [OneVolume EXCEPT !.root[2].directory = TRUE],
   [OneVolume EXCEPT !.root[2].first_cluster = 0],
   [OneVolume EXCEPT !.root[6].file_size = 0],
   [OneVolume EXCEPT !.fat[2] = 0],
   [OneVolume EXCEPT !.fat[2] = 4087],
   [OneVolume EXCEPT !.fat[2] = 4000],
   Volume(12, 2, "up", <<49, 8, 16, 0, 0>>, "plain", "nothing"),
   [OneVolume EXCEPT !.disk_sectors = 4],
   [OneVolume EXCEPT !.disk_sectors = DataStart(OneVolume) - 1],
   [OneVolume EXCEPT !.disk_sectors = DataStart(OneVolume) + 8],
   ShortDisk}

\* A directory that is full but smaller than the buffer: the data behind it is
\* taken for entries
FullVolumes ==
  {[Volume(12, 2, "up", NoRamdisk, "plain", "nothing") EXCEPT !.bpb.root_entry_count = 8,
                                                              !.elsewhere = looks] :
     looks \in Looks \cup {Bait}}

AllBoots ==
  (SoundVolumes \X {PlainBios}) \cup ((BrokenVolumes \cup FullVolumes) \X {PlainBios}) \cup ({QuickVolume} \X AllBioses)

\* A FAT16 volume too large to count its sectors in 16 bits
LargeVolume ==
  [Fat16Volume EXCEPT !.bpb.total_sectors_32 = Fat16Volume.bpb.total_sectors_16,
                      !.bpb.total_sectors_16 = 0]

LargeBoots == {<<LargeVolume, PlainBios>>}

=============================================================================
