------------------------- MODULE FourthStageProofs --------------------------
(***************************************************************************)
(* What stage 4 makes of the second stage's BiosInfo, for every page size, *)
(* every length of the files and every memory map of the BIOS: the frame   *)
(* allocator gets a hand-over it was verified for, and no frame it returns *)
(* or grants holds a byte that is still needed.                            *)
(***************************************************************************)
EXTENDS FourthStage, WellFoundedInduction, TLAPS

\* What the second stage hands over: it does not load stages that are too long,
\* files that have to be there are not empty, and empty regions are dropped.
Lengths ==
  {lens \in [Files -> Nat] :
     /\ \A f \in Files \ Optional : lens[f] # 0
     /\ Stage3Dst + lens[Stage3] <= KernelDst /\ Stage4Dst + lens[Stage4] <= KernelDst}

E820Entry == [start : Nat, len : Nat \ {0}, type : Nat]

Supplied(info) ==
  \E lens \in Lengths, entries \in Seq(E820Entry) : info = BiosInfo(lens, entries)

Stage4Spec ==
  /\ Stage4Init
  /\ [][Stage4Next \/ \E lens \in Lengths, entries \in Seq(E820Entry) :
                        EnterStage3(BiosInfo(lens, entries))]_stage4_vars

\* What `boot` and the frames owned were made from.
HandOverInv ==
  /\ stage # "off" => Supplied(bios_info)
  /\ stage \in {"off", "stage3", "stage4"} => boot = NoBoot /\ usable = {} /\ reclaimable = {}
  /\ \/ boot = NoBoot /\ usable = {} /\ reclaimable = {}
     \/ /\ \E sorted \in Sorted(bios_info.memory_map) : boot = HandedOver(bios_info, sorted)
        /\ usable = Map!AllocatableFrames(boot)
        /\ reclaimable = Map!FreedFrames(boot)
  /\ taken \subseteq usable
  /\ granted \subseteq usable \cup reclaimable

-----------------------------------------------------------------------------
\* Addresses.

\* PhysFrame::containing_address: the frame behind that of an address starts
\* behind the address.
LEMMA NextFrameBehind ==
  ASSUME NEW a \in Nat
  PROVE  /\ Map!FrameOf(a) \in Nat
         /\ Map!StartOf(Map!FrameOf(a) + 1) \in Nat
         /\ a + 1 <= Map!StartOf(Map!FrameOf(a) + 1)
<1>1. PageSize \in Nat /\ PageSize > 0
  BY LayoutAssumption
<1>2. /\ a \div PageSize \in Nat
      /\ a + 1 <= (a \div PageSize + 1) * PageSize
      /\ (a \div PageSize + 1) * PageSize \in Nat
  BY <1>1
<1> QED
  BY <1>2 DEF Map!FrameOf, Map!StartOf

\* PhysFrame::start_address keeps the order of frames.
LEMMA StartsOrdered ==
  ASSUME NEW f \in Nat, NEW g \in Nat, f <= g
  PROVE  Map!StartOf(f) \in Nat /\ Map!StartOf(g) \in Nat /\ Map!StartOf(f) <= Map!StartOf(g)
<1>1. PageSize \in Nat /\ PageSize > 0
  BY LayoutAssumption
<1> QED
  BY <1>1 DEF Map!StartOf

\* The ramdisk is loaded behind the kernel file.
LEMMA KernelBeforeRamdisk ==
  ASSUME NEW len \in Nat \ {0}
  PROVE  RamdiskStart(len) \in Nat /\ KernelDst + len <= RamdiskStart(len)
<1>1. PageSize \in Nat /\ PageSize > 0 /\ KernelDst \in Nat
  BY LayoutAssumption
<1>2. /\ ((len - 1) \div PageSize + 1) * PageSize \in Nat
      /\ len <= ((len - 1) \div PageSize + 1) * PageSize
  BY <1>1
<1> QED
  BY <1>1, <1>2 DEF RamdiskStart, PagesFor

\* Every file ends at last_used_addr or below it, and so do the stages that are
\* still running.
LEMMA FilesBelowLastUsed ==
  ASSUME NEW info, Supplied(info)
  PROVE  /\ info.last_used_addr \in Nat
         /\ KernelDst <= info.last_used_addr + 1
         /\ \A f \in Files : /\ info.files[f].start \in Nat /\ info.files[f].len \in Nat
                             /\ info.files[f].start + info.files[f].len <= info.last_used_addr + 1
         /\ info.files[Kernel].len # 0
<1>1. PICK lens \in Lengths, entries \in Seq(E820Entry) : info = BiosInfo(lens, entries)
  BY DEF Supplied
<1>2. /\ lens[Stage3] \in Nat /\ lens[Stage4] \in Nat /\ lens[Kernel] \in Nat /\ lens[Kernel] > 0
      /\ lens[Ramdisk] \in Nat /\ lens[Config] \in Nat
      /\ Stage3Dst + lens[Stage3] <= KernelDst /\ Stage4Dst + lens[Stage4] <= KernelDst
  BY DEF Lengths, Files, Optional, Stage3, Stage4, Kernel, Ramdisk, Config
<1>3. Stage3Dst \in Nat /\ Stage4Dst \in Nat /\ KernelDst \in Nat
  BY LayoutAssumption
<1>4. RamdiskStart(lens[Kernel]) \in Nat
      /\ KernelDst + lens[Kernel] <= RamdiskStart(lens[Kernel])
  BY <1>2, KernelBeforeRamdisk
<1>5. /\ Dst(Stage3, lens) = Stage3Dst /\ Dst(Stage4, lens) = Stage4Dst
      /\ Dst(Kernel, lens) = KernelDst /\ Dst(Ramdisk, lens) = RamdiskStart(lens[Kernel])
      /\ Dst(Config, lens) = RamdiskStart(lens[Kernel]) + lens[Ramdisk]
  BY DEF Dst, Stage3, Stage4, Kernel, Ramdisk, Config
<1>6. info.last_used_addr = RamdiskStart(lens[Kernel]) + lens[Ramdisk] + lens[Config] - 1
  BY <1>1, <1>5 DEF BiosInfo, LastUsedAddr
<1>7. \A f \in Files : info.files[f].start = Dst(f, lens) /\ info.files[f].len = lens[f]
  BY <1>1 DEF BiosInfo, FileInfo
<1>8. \A f \in Files : f \in {Stage3, Stage4, Kernel, Ramdisk, Config}
  BY DEF Files, Stage3, Stage4, Kernel, Ramdisk, Config
<1>9. Kernel \in Files
  BY DEF Kernel, Files
<1>10. info.last_used_addr \in Nat /\ KernelDst <= info.last_used_addr + 1
  <2> DEFINE start == RamdiskStart(lens[Kernel])
  <2>1. start \in Nat /\ start > 0 /\ KernelDst <= start
    BY <1>2, <1>3, <1>4, SMTT(30)
  <2> HIDE DEF start
  <2>2. ASSUME NEW r \in Nat, NEW c \in Nat
        PROVE  start + r + c - 1 \in Nat /\ KernelDst <= start + r + c - 1 + 1
    BY <1>3, <2>1
  <2>3. info.last_used_addr = start + lens[Ramdisk] + lens[Config] - 1
    BY <1>6 DEF start
  <2> QED
    BY <1>2, <2>2, <2>3, SMTT(30)
<1>11. ASSUME NEW f \in {Stage3, Stage4, Kernel, Ramdisk, Config}
       PROVE  /\ Dst(f, lens) \in Nat /\ lens[f] \in Nat
              /\ Dst(f, lens) + lens[f] <= info.last_used_addr + 1
  <2>1. ASSUME NEW d \in Nat, NEW n \in Nat, NEW s \in Nat, NEW r \in Nat, NEW c \in Nat,
               d + n <= s
        PROVE  d + n <= s + r + c - 1 + 1
    BY <2>1
  <2>2. ASSUME NEW s \in Nat, NEW r \in Nat, NEW c \in Nat
        PROVE  s + r \in Nat /\ s + r <= s + r + c - 1 + 1 /\ s + r + c <= s + r + c - 1 + 1
    OBVIOUS
  <2>3. ASSUME NEW d \in Nat, NEW n \in Nat, NEW l \in Nat, d + n <= KernelDst, KernelDst <= l + 1
        PROVE  d + n <= l + 1
    BY <1>3, <2>3
  <2>4. CASE f = Stage3
    <3>1. Stage3Dst + lens[Stage3] <= info.last_used_addr + 1
      BY <1>2, <1>3, <1>10, <2>3, Zenon
    <3> QED
      BY <1>2, <1>3, <1>5, <2>4, <3>1
  <2>5. CASE f = Stage4
    <3>1. Stage4Dst + lens[Stage4] <= info.last_used_addr + 1
      BY <1>2, <1>3, <1>10, <2>3
    <3> QED
      BY <1>2, <1>3, <1>5, <2>5, <3>1
  <2>6. CASE f = Kernel
    <3>1. KernelDst + lens[Kernel] <= info.last_used_addr + 1
      BY <1>2, <1>3, <1>4, <1>6, <2>1, Zenon
    <3> QED
      BY <1>2, <1>3, <1>5, <2>6, <3>1
  <2>7. CASE f = Ramdisk
    <3>1. RamdiskStart(lens[Kernel]) + lens[Ramdisk] <= info.last_used_addr + 1
      BY <1>2, <1>4, <1>6, <2>2, SMTT(30)
    <3> QED
      BY <1>2, <1>4, <1>5, <2>7, <3>1
  <2>8. CASE f = Config
    <3>1. /\ RamdiskStart(lens[Kernel]) + lens[Ramdisk] \in Nat
          /\ RamdiskStart(lens[Kernel]) + lens[Ramdisk] + lens[Config] <= info.last_used_addr + 1
      BY <1>2, <1>4, <1>6, <2>2, Zenon
    <3> QED
      BY <1>2, <1>5, <2>8, <3>1
  <2> QED
    BY <2>4, <2>5, <2>6, <2>7, <2>8
<1>12. info.files[Kernel].len # 0
  BY <1>2, <1>7, <1>9
<1> QED
  BY <1>7, <1>8, <1>10, <1>11, <1>12, Zenon

-----------------------------------------------------------------------------
\* The hand-over.

\* A sorted map has the entries of the map in an order of ascending starts.
LEMMA SortedEntries ==
  ASSUME NEW entries \in Seq(E820Entry), NEW sorted \in Sorted(entries)
  PROVE  /\ Len(entries) \in Nat
         /\ sorted \in [1..Len(entries) -> E820Entry]
         /\ \A i, j \in 1..Len(entries) : i < j => sorted[i].start <= sorted[j].start
         /\ \E p \in Orders(Len(entries)) : \A i \in 1..Len(entries) : sorted[i] = entries[p[i]]
<1>1. Len(entries) \in Nat /\ \A i \in 1..Len(entries) : entries[i] \in E820Entry
  OBVIOUS
<1>2. PICK p \in Orders(Len(entries)) : sorted = [i \in 1..Len(entries) |-> entries[p[i]]]
  BY DEF Sorted
<1>3. p \in [1..Len(entries) -> 1..Len(entries)]
  BY DEF Orders
<1>4. sorted \in [1..Len(entries) -> E820Entry]
  BY <1>1, <1>2, <1>3
<1>5. \A i, j \in 1..Len(entries) : i < j => sorted[i].start <= sorted[j].start
  BY DEF Sorted
<1> QED
  BY <1>1, <1>2, <1>4, <1>5

\* The descriptors stage 4 hands to the allocator: as many as entries, none of
\* them empty, and none that becomes usable later.
LEMMA DescriptorsOfEntries ==
  ASSUME NEW entries \in Seq(E820Entry), NEW sorted \in Sorted(entries)
  PROVE  /\ Len(sorted) = Len(entries)
         /\ DescriptorsOf(sorted) \in Seq(Map!Descriptor)
         /\ Len(DescriptorsOf(sorted)) = Len(entries)
         /\ \A i \in 1..Len(entries) :
              LET d == DescriptorsOf(sorted)[i]
              IN  /\ d.start = sorted[i].start /\ d.end = sorted[i].start + sorted[i].len
                  /\ d.start < d.end
                  /\ d.kind # "Usable" => ~d.after
<1>1. Len(entries) \in Nat /\ sorted \in [1..Len(entries) -> E820Entry]
  BY SortedEntries
<1>2. sorted \in Seq(E820Entry) /\ Len(sorted) = Len(entries)
  BY <1>1
<1>3. DescriptorsOf(sorted) = [i \in 1..Len(entries) |-> DescriptorOf(sorted[i])]
  BY <1>2 DEF DescriptorsOf
<1>4. ASSUME NEW e \in E820Entry
      PROVE  /\ DescriptorOf(e) \in Map!Descriptor
             /\ DescriptorOf(e).start = e.start /\ DescriptorOf(e).end = e.start + e.len
             /\ DescriptorOf(e).start < DescriptorOf(e).end
             /\ DescriptorOf(e).kind # "Usable" => ~DescriptorOf(e).after
  <2>1. e.start \in Nat /\ e.len \in Nat /\ e.len > 0
    BY DEF E820Entry
  <2>2. CASE e.type = 1
    <3>1. DescriptorOf(e) = [start |-> e.start, end |-> e.start + e.len,
                             kind |-> "Usable", after |-> TRUE]
      BY <2>2, Zenon DEF DescriptorOf
    <3> QED
      BY <2>1, <3>1 DEF Map!Descriptor
  <2>3. CASE e.type # 1
    <3>1. DescriptorOf(e) = [start |-> e.start, end |-> e.start + e.len,
                             kind |-> "Unknown", after |-> FALSE]
      BY <2>3, Zenon DEF DescriptorOf
    <3> QED
      BY <2>1, <3>1 DEF Map!Descriptor
  <2> QED
    BY <2>2, <2>3
<1> HIDE DEF DescriptorOf
<1>5. DescriptorsOf(sorted) \in [1..Len(entries) -> Map!Descriptor]
  BY <1>1, <1>3, <1>4
<1>6. DescriptorsOf(sorted) \in Seq(Map!Descriptor) /\ Len(DescriptorsOf(sorted)) = Len(entries)
  BY <1>1, <1>5
<1> QED
  BY <1>1, <1>2, <1>3, <1>4, <1>6

\* The frame allocator starts behind the last byte that was loaded.
LEMMA FirstFrameBehind ==
  ASSUME NEW info, Supplied(info)
  PROVE  /\ NextFreeFrame(info) \in Nat \ {0}
         /\ Map!StartOf(NextFreeFrame(info)) \in Nat
         /\ info.last_used_addr + 1 <= Map!StartOf(NextFreeFrame(info))
<1>1. info.last_used_addr \in Nat
  BY FilesBelowLastUsed
<1> QED
  BY <1>1, NextFrameBehind, SMTT(30) DEF NextFreeFrame

\* What stage 4 hands over is well formed if the regions of the BIOS are apart.
LEMMA HandedOverWellFormed ==
  ASSUME NEW info, Supplied(info), NEW sorted \in Sorted(info.memory_map),
         EntriesApart(info.memory_map)
  PROVE  Map!WellFormed(HandedOver(info, sorted))
<1> DEFINE b == HandedOver(info, sorted)
           entries == info.memory_map
<1>1. entries \in Seq(E820Entry)
  BY DEF Supplied, BiosInfo
<1>2. /\ b.map = DescriptorsOf(sorted) /\ b.first = NextFreeFrame(info)
      /\ b.kernel = RegionOf(info.files[Kernel]) /\ b.ramdisk = RegionOf(info.files[Ramdisk])
      /\ b.spare = 4
  BY DEF HandedOver, SpareSlots
<1>3. Kernel \in Files /\ Ramdisk \in Files
  BY DEF Kernel, Ramdisk, Files
<1>4. ASSUME NEW f \in Files
      PROVE  /\ RegionOf(info.files[f]) \in Map!Slice
             /\ RegionOf(info.files[f]).end <= info.last_used_addr + 1
  <2>1. /\ info.files[f].start \in Nat /\ info.files[f].len \in Nat
        /\ info.files[f].start + info.files[f].len <= info.last_used_addr + 1
    BY FilesBelowLastUsed
  <2> QED
    BY <2>1 DEF RegionOf, Map!Slice
<1>5. RegionOf(info.files[Kernel]).start < RegionOf(info.files[Kernel]).end
  <2>1. /\ info.files[Kernel].start \in Nat /\ info.files[Kernel].len \in Nat
        /\ info.files[Kernel].len # 0
    BY <1>3, FilesBelowLastUsed
  <2> QED
    BY <2>1 DEF RegionOf
<1>6. /\ b.first \in Nat \ {0} /\ b.kernel.end <= Map!StartOf(b.first)
  <2>1. /\ b.first \in Nat \ {0} /\ Map!StartOf(b.first) \in Nat
        /\ info.last_used_addr + 1 <= Map!StartOf(b.first)
    BY <1>2, FirstFrameBehind
  <2>2. b.kernel.end <= info.last_used_addr + 1 /\ b.kernel.end \in Nat
    BY <1>2, <1>3, <1>4 DEF Map!Slice
  <2>3. info.last_used_addr \in Nat
    BY FilesBelowLastUsed
  <2> QED
    BY <2>1, <2>2, <2>3
<1>7. /\ b.map \in Seq(Map!Descriptor) /\ Len(b.map) = Len(entries) /\ Len(entries) \in Nat
      /\ \A i \in 1..Len(entries) : /\ b.map[i].start = sorted[i].start
                                    /\ b.map[i].end = sorted[i].start + sorted[i].len
                                    /\ b.map[i].start < b.map[i].end
                                    /\ b.map[i].kind # "Usable" => ~b.map[i].after
  BY <1>1, <1>2, DescriptorsOfEntries, SortedEntries, SMTT(30)
<1>8. ASSUME NEW i \in 1..Len(entries), NEW j \in 1..Len(entries), i < j
      PROVE  b.map[i].end <= b.map[j].start
  <2>1. PICK p \in Orders(Len(entries)) : \A k \in 1..Len(entries) : sorted[k] = entries[p[k]]
    BY <1>1, SortedEntries, Zenon
  <2>2. p[i] \in 1..Len(entries) /\ p[j] \in 1..Len(entries) /\ p[i] # p[j]
    <3>1. i # j
      BY <1>7, <1>8
    <3>2. /\ p \in [1..Len(entries) -> 1..Len(entries)]
          /\ p[i] = p[j] => i = j
      BY DEF Orders
    <3> QED
      BY <3>1, <3>2
  <2>3. /\ sorted[i].start \in Nat /\ sorted[i].len \in Nat /\ sorted[i].len > 0
        /\ sorted[j].start \in Nat /\ sorted[j].len \in Nat /\ sorted[j].len > 0
    <3>1. sorted[i] \in E820Entry /\ sorted[j] \in E820Entry
      BY <1>1, SortedEntries, SMTT(30)
    <3> QED
      BY <3>1, SMTT(30) DEF E820Entry
  <2>4. sorted[i].start <= sorted[j].start
    BY <1>1, <1>8, SortedEntries
  <2>5. \/ sorted[i].start + sorted[i].len <= sorted[j].start
        \/ sorted[j].start + sorted[j].len <= sorted[i].start
    BY <2>1, <2>2, Zenon DEF EntriesApart
  <2> QED
    BY <1>7, <2>3, <2>4, <2>5, SMTT(30)
<1> HIDE DEF b
<1>9. /\ b.kernel \in Map!Slice /\ b.ramdisk \in Map!Slice /\ b.spare \in Nat
      /\ b.kernel.start < b.kernel.end
  BY <1>2, <1>3, <1>4, <1>5
<1>10. Map!WellFormed(b)
  BY <1>6, <1>7, <1>8, <1>9, Zenon DEF Map!WellFormed
<1> QED
  BY <1>10 DEF b

\* On a BIOS nothing becomes usable only when the bootloader exits.
LEMMA NothingFreed ==
  ASSUME NEW info, Supplied(info), NEW sorted \in Sorted(info.memory_map)
  PROVE  Map!FreedFrames(HandedOver(info, sorted)) = {}
<1>1. info.memory_map \in Seq(E820Entry)
  BY DEF Supplied, BiosInfo
<1>2. HandedOver(info, sorted).map = DescriptorsOf(sorted)
  BY DEF HandedOver
<1>3. \A i \in 1..Len(DescriptorsOf(sorted)) :
        DescriptorsOf(sorted)[i].kind # "Usable" => ~DescriptorsOf(sorted)[i].after
  BY <1>1, DescriptorsOfEntries
<1> HIDE DEF HandedOver, DescriptorsOf
<1> QED
  BY <1>2, <1>3 DEF Map!FreedFrames

-----------------------------------------------------------------------------
\* The invariant.

\* It holds when the machine is started.
LEMMA InitHandOver == Stage4Init => HandOverInv
  BY DEF Stage4Init, Ownership!Init, HandOverInv

\* Every step keeps it.
LEMMA NextHandOver ==
  ASSUME HandOverInv,
         [Stage4Next \/ \E lens \in Lengths, entries \in Seq(E820Entry) :
                          EnterStage3(BiosInfo(lens, entries))]_stage4_vars
  PROVE  HandOverInv'
<1>1. ASSUME NEW lens \in Lengths, NEW entries \in Seq(E820Entry),
             EnterStage3(BiosInfo(lens, entries))
      PROVE  HandOverInv'
  <2>1. /\ stage = "off" /\ stage' = "stage3" /\ bios_info' = BiosInfo(lens, entries)
        /\ boot' = boot /\ usable' = usable /\ reclaimable' = reclaimable
        /\ taken' = taken /\ granted' = granted
    BY <1>1 DEF EnterStage3, owner_vars
  <2>2. Supplied(bios_info')
    BY <2>1 DEF Supplied
  <2> HIDE DEF Supplied
  <2> QED
    BY <2>1, <2>2 DEF HandOverInv
<1>2. CASE CreateAllocator
  <2>1. /\ stage = "stage4" /\ stage' = "identity" /\ bios_info' = bios_info
        /\ usable' = Map!AllocatableFrames(boot') /\ reclaimable' = Map!FreedFrames(boot')
        /\ taken' = taken /\ granted' = granted
        /\ \E sorted \in Sorted(bios_info.memory_map) : boot' = HandedOver(bios_info, sorted)
    BY <1>2 DEF CreateAllocator
  <2>2. taken = {} /\ granted = {} /\ Supplied(bios_info)
    BY <2>1 DEF HandOverInv
  <2> QED
    BY <2>1, <2>2 DEF HandOverInv
<1>3. CASE CreatePageTables \/ TakeFrame
  <2>1. PICK f \in usable : Ownership!Take(f)
    BY <1>3 DEF CreatePageTables, TakeFrame
  <2>2. /\ taken' = taken \cup {f} /\ usable' = usable /\ reclaimable' = reclaimable
        /\ granted' = granted
    BY <2>1 DEF Ownership!Take
  <2>3. /\ bios_info' = bios_info /\ boot' = boot
        /\ stage \notin {"off", "stage3", "stage4"} /\ stage' \notin {"off", "stage3", "stage4"}
    BY <1>3 DEF CreatePageTables, TakeFrame
  <2> QED
    BY <2>1, <2>2, <2>3 DEF HandOverInv
<1>4. CASE StartKernel
  <2>1. /\ granted' \subseteq usable \cup reclaimable
        /\ taken' = taken /\ usable' = usable /\ reclaimable' = reclaimable
        /\ bios_info' = bios_info /\ boot' = boot
        /\ stage = "load" /\ stage' = "kernel"
    BY <1>4 DEF StartKernel, Ownership!HandOver
  <2> QED
    BY <2>1 DEF HandOverInv
<1>5. CASE EnterStage4 \/ NoMemory \/ IdentityMapRest \/ ReadConfig \/ BuildSystemInfo \/ Panic
  <2>1. /\ bios_info' = bios_info /\ boot' = boot /\ taken' = taken /\ granted' = granted
        /\ usable' = usable /\ reclaimable' = reclaimable
        /\ stage # "off"
        /\ stage' \in {"stage3", "stage4"} => stage \in {"stage3", "stage4"}
        /\ stage' # "off"
    BY <1>5 DEF EnterStage4, NoMemory, IdentityMapRest, ReadConfig, BuildSystemInfo, Panic,
                owner_vars
  <2> QED
    BY <2>1, Zenon DEF HandOverInv
<1>6. CASE UNCHANGED stage4_vars
  BY <1>6 DEF stage4_vars, owner_vars, HandOverInv
<1> QED
  BY <1>1, <1>2, <1>3, <1>4, <1>5, <1>6 DEF Stage4Next

\* The invariant holds throughout.
THEOREM HandOverCorrect == Stage4Spec => []HandOverInv
<1> QED
  BY InitHandOver, NextHandOver, PTL DEF Stage4Spec

-----------------------------------------------------------------------------
\* The properties.

\* Stage 4 hands the allocator what it was verified for, whatever the order of
\* the regions the BIOS reports and whatever the lengths of the files.
THEOREM HandOverSound == Stage4Spec => []HandOverWellFormed
<1>1. HandOverInv => HandOverWellFormed
  <2> SUFFICES ASSUME HandOverInv, boot # NoBoot, EntriesApart(bios_info.memory_map)
               PROVE  Map!WellFormed(boot)
    BY DEF HandOverWellFormed
  <2>1. /\ Supplied(bios_info)
        /\ \E sorted \in Sorted(bios_info.memory_map) : boot = HandedOver(bios_info, sorted)
    BY DEF HandOverInv
  <2> HIDE DEF HandedOver
  <2> QED
    BY <2>1, HandedOverWellFormed
<1> QED
  BY <1>1, HandOverCorrect, PTL

\* No frame that stage 4 takes or grants holds a byte of a file that the second
\* stage loaded, or of the stages below the kernel: it starts behind
\* last_used_addr, and last_used_addr is behind all of them.
THEOREM FilesOwned == Stage4Spec => []LoadedFilesOwned
<1>1. HandOverInv => LoadedFilesOwned
  <2> SUFFICES ASSUME HandOverInv, NEW f \in taken \cup granted
               PROVE  /\ \A file \in Files : ~Map!Overlaps(Map!FrameSlice(f),
                                                          RegionOf(bios_info.files[file]))
                      /\ ~Map!Overlaps(Map!FrameSlice(f), [start |-> 0, end |-> KernelDst])
    BY DEF LoadedFilesOwned
  <2>1. usable \cup reclaimable # {} /\ f \in usable \cup reclaimable
    BY DEF HandOverInv
  <2>2. Supplied(bios_info)
    BY <2>1 DEF HandOverInv
  <2>3. PICK sorted \in Sorted(bios_info.memory_map) : boot = HandedOver(bios_info, sorted)
    BY <2>1 DEF HandOverInv
  <2>4. reclaimable = {} /\ usable = Map!AllocatableFrames(boot)
    BY <2>1, <2>2, <2>3, NothingFreed DEF HandOverInv
  <2>5. boot.first = NextFreeFrame(bios_info)
    BY <2>3 DEF HandedOver
  <2>6. f >= NextFreeFrame(bios_info)
    BY <2>1, <2>4, <2>5 DEF Map!AllocatableFrames
  <2>7. f \in Nat
    <3>1. bios_info.memory_map \in Seq(E820Entry)
      BY <2>2, SMTT(30) DEF Supplied, BiosInfo
    <3>2. boot.map = DescriptorsOf(sorted) /\ DescriptorsOf(sorted) \in Seq(Map!Descriptor)
      BY <2>3, <3>1, DescriptorsOfEntries DEF HandedOver
    <3>3. PICK i \in 1..Len(boot.map) : f \in Map!FramesOf(boot.map, i)
      BY <2>1, <2>4 DEF Map!AllocatableFrames
    <3>4. f \in Int
      BY <3>3 DEF Map!FramesOf
    <3> QED
      BY <2>2, <2>6, <3>4, FirstFrameBehind
  <2>8. bios_info.last_used_addr + 1 <= Map!StartOf(f) /\ Map!StartOf(f) \in Nat
    <3>1. /\ NextFreeFrame(bios_info) \in Nat
          /\ Map!StartOf(NextFreeFrame(bios_info)) \in Nat
          /\ bios_info.last_used_addr + 1 <= Map!StartOf(NextFreeFrame(bios_info))
      BY <2>2, FirstFrameBehind
    <3>2. Map!StartOf(NextFreeFrame(bios_info)) <= Map!StartOf(f) /\ Map!StartOf(f) \in Nat
      BY <2>6, <2>7, <3>1, StartsOrdered
    <3>3. bios_info.last_used_addr \in Nat
      BY <2>2, FilesBelowLastUsed
    <3> QED
      BY <3>1, <3>2, <3>3
  <2>9. Map!FrameSlice(f).start = Map!StartOf(f)
    BY DEF Map!FrameSlice
  <2>10. KernelDst <= bios_info.last_used_addr + 1 /\ bios_info.last_used_addr \in Nat
    BY <2>2, FilesBelowLastUsed
  <2>11. KernelDst \in Nat
    BY LayoutAssumption
  <2>12. ~Map!Overlaps(Map!FrameSlice(f), [start |-> 0, end |-> KernelDst])
    BY <2>8, <2>9, <2>10, <2>11, SMTT(30) DEF Map!Overlaps
  <2>13. ASSUME NEW file \in Files
         PROVE  ~Map!Overlaps(Map!FrameSlice(f), RegionOf(bios_info.files[file]))
    <3>1. /\ bios_info.files[file].start \in Nat /\ bios_info.files[file].len \in Nat
          /\ bios_info.files[file].start + bios_info.files[file].len
               <= bios_info.last_used_addr + 1
      BY <2>2, FilesBelowLastUsed
    <3>2. RegionOf(bios_info.files[file]).end
            = bios_info.files[file].start + bios_info.files[file].len
      BY DEF RegionOf
    <3> QED
      BY <2>8, <2>9, <2>10, <3>1, <3>2, SMTT(30) DEF Map!Overlaps
  <2> QED
    BY <2>12, <2>13
<1> QED
  BY <1>1, HandOverCorrect, PTL

-----------------------------------------------------------------------------
\* The identity mapping.

\* From stage 4 on, what create_mappings has mapped stays mapped.
IdentityInv == stage \notin {"off", "stage3"} => CreateMappings \subseteq identity

\* A quotient is determined by the multiples around the dividend.
LEMMA Quotient ==
  ASSUME NEW a \in Nat, NEW n \in Nat, n > 0, NEW q \in Nat, q * n <= a, a < (q + 1) * n
  PROVE  a \div n = q
<1> DEFINE d == a \div n
<1>1. d \in Nat /\ d * n <= a /\ a < (d + 1) * n
  BY DEF d
<1> HIDE DEF d
<1>2. d < q => (d + 1) * n <= q * n
  BY <1>1
<1>3. q < d => (q + 1) * n <= d * n
  BY <1>1
<1>4. d * n \in Nat /\ q * n \in Nat /\ (d + 1) * n \in Nat /\ (q + 1) * n \in Nat
  BY <1>1
<1>5. d = q
  BY <1>1, <1>2, <1>3, <1>4
<1> QED
  BY <1>5 DEF d

\* The ten level 2 tables map every address below ten gigabytes.
LEMMA MappingsReach ==
  ASSUME NEW a \in Nat, a < 10 * GIGABYTE
  PROVE  HugeFrameOf(a) \in CreateMappings
<1> DEFINE G == GIGABYTE
           H == HugeSize
           g == G \div H
           i == a \div G
           r == a % G
           j == r \div H
<1>1. H \in Nat /\ H > 0 /\ G \in Nat /\ G > 0 /\ G % H = 0
  BY PagingAssumption
<1>2. g \in Nat /\ G = g * H
  BY <1>1
<1>3. i \in Nat /\ r \in Nat /\ r < G /\ a = i * G + r
  BY <1>1
<1>4. i \in 0..9
  <2>1. i >= 10 => i * G >= 10 * G
    BY <1>1, <1>3
  <2> QED
    BY <1>1, <1>3, <2>1
<1>5. j \in Nat /\ j * H <= r /\ r < (j + 1) * H
  BY <1>1, <1>3
<1> DEFINE q == i * g + j
<1> HIDE DEF G, H, g, i, r, j
<1>6. j \in 0..(g - 1)
  <2>1. j >= g => j * H >= g * H
    BY <1>1, <1>2, <1>5
  <2> QED
    BY <1>1, <1>2, <1>3, <1>5, <2>1
<1>7. q \in Nat /\ i * G + j * H = q * H /\ (q + 1) * H = i * G + (j + 1) * H
  <2>1. i \in Nat /\ j \in Nat /\ g \in Nat /\ H \in Nat
    BY <1>1, <1>2, <1>3, <1>5
  <2>2. i * G = (i * g) * H
    BY <1>2, <2>1
  <2>3. (i * g + j) * H = (i * g) * H + j * H /\ (i * g + j + 1) * H = (i * g) * H + (j + 1) * H
    BY <2>1
  <2> QED
    BY <2>1, <2>2, <2>3
<1>8. /\ q * H <= a /\ a < (q + 1) * H
      /\ q * H <= i * G + j * H /\ i * G + j * H < (q + 1) * H
      /\ i * G + j * H \in Nat
  <2>1. i * G \in Nat /\ j * H \in Nat /\ (j + 1) * H \in Nat /\ j * H < (j + 1) * H
    BY <1>1, <1>3, <1>5
  <2> HIDE DEF q
  <2> QED
    BY <1>3, <1>5, <1>7, <2>1
<1>9. a \div H = q /\ (i * G + j * H) \div H = q
  <2> HIDE DEF q
  <2> QED
    BY <1>1, <1>7, <1>8, Quotient
<1> QED
  BY <1>4, <1>6, <1>9 DEF CreateMappings, HugeFrameOf, G, H, g

\* A frame that holds memory below ten gigabytes ends there or before.
LEMMA FrameEndsBelow ==
  ASSUME NEW f \in Nat, NEW e \in Nat, e > 0, e <= 10 * GIGABYTE, f <= Map!FrameOf(e - 1)
  PROVE  Map!StartOf(f + 1) <= 10 * GIGABYTE
<1> DEFINE G == GIGABYTE
           P == PageSize
           h == G \div P
           q == (e - 1) \div P
<1>1. P \in Nat /\ P > 0 /\ G \in Nat /\ G % P = 0
  BY PagingAssumption, LayoutAssumption
<1>2. h \in Nat /\ G = h * P
  BY <1>1
<1>3. q \in Nat /\ q * P <= e - 1 /\ f <= q
  BY <1>1 DEF Map!FrameOf
<1>4. e <= 10 * G
  OBVIOUS
<1> HIDE DEF G, P, h, q
<1>5. q < 10 * h
  <2>1. q >= 10 * h => q * P >= (10 * h) * P
    BY <1>1, <1>2, <1>3
  <2>2. (10 * h) * P = 10 * G
    BY <1>1, <1>2
  <2>3. q * P \in Nat
    BY <1>1, <1>3
  <2> QED
    BY <1>1, <1>2, <1>3, <1>4, <2>1, <2>2, <2>3
<1>6. f + 1 <= 10 * h
  BY <1>2, <1>3, <1>5
<1>7. (f + 1) * P <= (10 * h) * P
  BY <1>1, <1>2, <1>6
<1>8. (10 * h) * P = 10 * G
  BY <1>1, <1>2
<1> QED
  BY <1>7, <1>8 DEF Map!StartOf, G, P

\* A sum is no less than its terms.
LEMMA SumBounds ==
  ASSUME NEW c \in Nat, NEW d \in Nat
  PROVE  c + d \in Nat /\ \A e \in Nat : e <= c \/ e = d => e <= c + d
OBVIOUS

\* A set of natural numbers that is not empty has a least one.
LEMMA LeastExists ==
  ASSUME NEW T, T \subseteq Nat, T # {}
  PROVE  \E x \in T : \A y \in T : x <= y
<1> DEFINE R == OpToRel(<, Nat)
<1>1. IsWellFoundedOn(R, Nat)
  BY NatLessThanWellFounded, Zenon
<1>2. ASSUME NEW x \in Nat, NEW y \in Nat, y < x PROVE <<y, x>> \in R
  BY <1>2 DEF OpToRel
<1> HIDE DEF R
<1>3. PICK x \in T : \A y \in T : ~(<<y, x>> \in R)
  BY <1>1, WFMin, Zenon
<1>4. \A y \in T : ~(y < x)
  BY <1>2, <1>3, Zenon
<1> QED
  BY <1>4

\* max_phys_addr starts from an end that no region of the map exceeds.
LEMMA HighestEndBounds ==
  ASSUME NEW map \in Seq(Map!Descriptor), NEW i \in 1..Len(map)
  PROVE  HighestEnd(map) \in Nat /\ map[i].end <= HighestEnd(map)
<1>1. Len(map) \in Nat /\ \A k \in 1..Len(map) : map[k].end \in Nat
  <2>1. Len(map) \in Nat /\ \A k \in 1..Len(map) : map[k] \in Map!Descriptor
    OBVIOUS
  <2>2. \A d \in Map!Descriptor : d.end \in Nat
    BY DEF Map!Descriptor
  <2> QED
    BY <2>1, <2>2, Zenon
<1> DEFINE Bounds(n) == {b \in Nat : \A k \in 1..n : map[k].end <= b}
<1>2. Bounds(Len(map)) # {}
  <2> SUFFICES ASSUME Bounds(Len(map)) = {} PROVE FALSE
    OBVIOUS
  <2> DEFINE T == {n \in 0..Len(map) : Bounds(n) = {}}
  <2>1. T \subseteq Nat /\ T # {}
    <3>1. Len(map) \in 0..Len(map) /\ 0..Len(map) \subseteq Nat
      BY <1>1
    <3> HIDE DEF Bounds
    <3> QED
      BY <3>1, Zenon
  <2>2. PICK n \in T : \A m \in T : n <= m
    BY <2>1, LeastExists, Zenon
  <2>3. n # 0
    <3>1. 0 \in Bounds(0)
      OBVIOUS
    <3> QED
      BY <3>1
  <2>4. n \in 1..Len(map) /\ n - 1 \in 0..Len(map) /\ ~(n <= n - 1)
    BY <1>1, <2>3
  <2>5. PICK b \in Nat : \A k \in 1..(n - 1) : map[k].end <= b
    BY <2>2, <2>4, Zenon
  <2>6. b + map[n].end \in Bounds(n)
    <3>1. map[n].end \in Nat
      BY <1>1, <2>4
    <3>2. ASSUME NEW k \in 1..n PROVE map[k].end <= b + map[n].end
      <4>1. k \in 1..(n - 1) \/ k = n
        BY <2>4
      <4>2. k \in 1..Len(map)
        BY <1>1, <2>4
      <4>3. map[k].end \in Nat /\ (map[k].end <= b \/ map[k].end = map[n].end)
        BY <1>1, <2>5, <4>1, <4>2, Zenon
      <4> QED
        BY <2>5, <3>1, <4>3, SumBounds, Zenon
    <3>3. b + map[n].end \in Nat
      BY <2>5, <3>1, SumBounds, Zenon
    <3> QED
      BY <3>2, <3>3, Zenon
  <2> QED
    BY <2>2, <2>6
<1>3. PICK b \in Bounds(Len(map)) : \A c \in Bounds(Len(map)) : b <= c
  <2>1. Bounds(Len(map)) \subseteq Nat
    OBVIOUS
  <2> HIDE DEF Bounds
  <2> QED
    BY <1>2, <2>1, LeastExists, Zenon
<1>4. \E k \in 1..Len(map) : map[k].end = b
  <2> SUFFICES ASSUME \A k \in 1..Len(map) : map[k].end # b PROVE FALSE
    OBVIOUS
  <2>1. b \in Nat /\ \A k \in 1..Len(map) : map[k].end \in Nat /\ map[k].end < b
    BY <1>1
  <2>2. b - 1 \in Nat /\ \A k \in 1..Len(map) : map[k].end <= b - 1
    BY <2>1
  <2>3. b - 1 \in Bounds(Len(map)) /\ ~(b <= b - 1)
    BY <2>1, <2>2
  <2> QED
    BY <1>3, <2>3, Zenon
<1>5. b \in {map[k].end : k \in 1..Len(map)} /\ \A k \in 1..Len(map) : map[k].end <= b
  BY <1>4
<1>6. /\ HighestEnd(map) \in {map[k].end : k \in 1..Len(map)}
      /\ \A k \in 1..Len(map) : map[k].end <= HighestEnd(map)
  BY <1>5, Zenon DEF HighestEnd
<1> QED
  BY <1>1, <1>6

\* Every step keeps the mapping.
LEMMA NextIdentity ==
  ASSUME IdentityInv,
         [Stage4Next \/ \E lens \in Lengths, entries \in Seq(E820Entry) :
                          EnterStage3(BiosInfo(lens, entries))]_stage4_vars
  PROVE  IdentityInv'
<1>1. CASE EnterStage4
  BY <1>1 DEF EnterStage4, IdentityInv
<1>2. CASE IdentityMapRest
  BY <1>2 DEF IdentityMapRest, IdentityInv
<1>3. CASE UNCHANGED identity /\ (stage' \notin {"off", "stage3"} => stage \notin {"off", "stage3"})
  BY <1>3 DEF IdentityInv
<1> QED
  BY <1>1, <1>2, <1>3, Zenon
  DEF Stage4Next, EnterStage3, CreateAllocator, NoMemory, CreatePageTables, ReadConfig,
      BuildSystemInfo, TakeFrame, StartKernel, Panic, stage4_vars

\* A frame the loader takes is mapped to itself if it ends at or below ten
\* gigabytes, and all of them are if memory ends there, whatever the sizes of
\* pages and of the tables.
THEOREM FramesMapped == Stage4Spec => []FramesReachable
<1>1. Stage4Init => IdentityInv
  BY DEF Stage4Init, IdentityInv
<1>2. HandOverInv /\ IdentityInv => FramesReachable
  <2> SUFFICES ASSUME HandOverInv, IdentityInv, boot # NoBoot,
                      NEW f \in taken,
                      \/ Map!StartOf(f + 1) <= 10 * GIGABYTE
                      \/ HighestEnd(boot.map) <= 10 * GIGABYTE,
                      NEW a \in Map!StartOf(f)..(Map!StartOf(f + 1) - 1)
               PROVE  HugeFrameOf(a) \in identity
    BY DEF FramesReachable
  <2>1. /\ stage \notin {"off", "stage3", "stage4"} /\ Supplied(bios_info)
        /\ f \in Map!AllocatableFrames(boot)
    BY DEF HandOverInv
  <2>2. PICK sorted \in Sorted(bios_info.memory_map) : boot = HandedOver(bios_info, sorted)
    BY DEF HandOverInv
  <2>3. boot.map \in Seq(Map!Descriptor) /\ \A i \in 1..Len(boot.map) : boot.map[i].start < boot.map[i].end
    <3>1. bios_info.memory_map \in Seq(E820Entry)
      BY <2>1, SMTT(30) DEF Supplied, BiosInfo
    <3>2. boot.map = DescriptorsOf(sorted)
      BY <2>2 DEF HandedOver
    <3> QED
      BY <3>1, <3>2, DescriptorsOfEntries
  <2>4. PICK i \in 1..Len(boot.map) : f \in Map!FramesOf(boot.map, i)
    BY <2>1 DEF Map!AllocatableFrames
  <2> DEFINE e == boot.map[i].end
  <2>5. e \in Nat /\ e > 0 /\ (HighestEnd(boot.map) <= 10 * GIGABYTE => e <= 10 * GIGABYTE)
    <3>1. e <= HighestEnd(boot.map) /\ HighestEnd(boot.map) \in Nat
      BY <2>3, HighestEndBounds
    <3>2. boot.map[i].start \in Nat /\ e \in Nat /\ boot.map[i].start < e
      <4>1. boot.map[i] \in Map!Descriptor
        BY <2>3
      <4>2. \A d \in Map!Descriptor : d.start \in Nat /\ d.end \in Nat
        BY DEF Map!Descriptor
      <4> QED
        BY <2>3, <4>1, <4>2, Zenon
    <3>3. GIGABYTE \in Nat
      BY PagingAssumption
    <3> HIDE DEF e
    <3> QED
      BY <3>1, <3>2, <3>3
  <2>6. f \in Nat /\ f <= Map!FrameOf(e - 1)
    <3>1. f \in Int /\ f <= Map!FrameOf(e - 1)
      BY <2>4 DEF Map!FramesOf, Map!LastFrameOf
    <3>2. boot.first \in Nat /\ f >= boot.first
      BY <2>1, <2>2, FirstFrameBehind DEF Map!AllocatableFrames, HandedOver
    <3> QED
      BY <3>1, <3>2
  <2>7. Map!StartOf(f + 1) <= 10 * GIGABYTE
    BY <2>5, <2>6, FrameEndsBelow
  <2>8. Map!StartOf(f) \in Nat /\ Map!StartOf(f + 1) \in Nat
    BY <2>6, StartsOrdered
  <2>9. a \in Nat /\ a < 10 * GIGABYTE
    BY <2>7, <2>8, PagingAssumption
  <2>10. HugeFrameOf(a) \in CreateMappings
    BY <2>9, MappingsReach
  <2> QED
    BY <2>1, <2>10 DEF IdentityInv
<1> QED
  BY <1>1, <1>2, InitHandOver, NextHandOver, NextIdentity, PTL DEF Stage4Spec

=============================================================================
