---------------------------- MODULE FourthStage -----------------------------
(***************************************************************************)
(* The BIOS stages in 64 bit mode: stage 3 builds an identity mapping and  *)
(* jumps to stage 4 (bios/stage-3/src/paging.rs, bios/stage-4/src/main.rs),*)
(* which sorts the memory map, creates the frame allocator behind the last *)
(* byte that was loaded, and starts the kernel.                            *)
(*                                                                         *)
(* The allocator is what FrameOwnership says of it: FrameAllocator         *)
(* implements that specification for every hand-over that is WellFormed.   *)
(* A frame is taken for a page table, a copied page of the kernel, the     *)
(* stack, the GDT or the boot info; all but the stack are written through  *)
(* the identity mapping.                                                   *)
(***************************************************************************)
EXTENDS BiosLayout, FiniteSets

CONSTANTS
  HugeSize,       \* bytes in a 2MiB page
  GIGABYTE,       \* bytes that a level 2 page table maps
  MaxTaken        \* bound: how many frames are taken

VARIABLES
  bios_info,      \* the BiosInfo of the second stage, NoInfo before it
  stage,          \* where control is, or how it ended
  identity,       \* the 2MiB frames that are mapped to themselves
  boot,           \* what the frame allocator is created from
  max_phys_addr,
  config,         \* the configuration in effect
  system_info,
  usable, reclaimable, taken, granted, phase     \* of FrameOwnership

\* A level 2 table maps whole 2MiB pages, and these hold whole pages.
ASSUME PagingAssumption ==
  /\ HugeSize \in Nat \ {0} /\ GIGABYTE \in Nat
  /\ GIGABYTE % HugeSize = 0 /\ GIGABYTE % PageSize = 0

owner_vars == <<usable, reclaimable, taken, granted, phase>>

stage4_vars == <<bios_info, stage, identity, boot, max_phys_addr, config, system_info, owner_vars>>

Map == INSTANCE FirmwareMap WITH FrameSize <- PageSize

Ownership == INSTANCE FrameOwnership

NoBoot == << >>
None == [some |-> FALSE]
Some(x) == [some |-> TRUE, value |-> x]

Stage4Init ==
  /\ bios_info = << >>
  /\ stage = "off"
  /\ identity = {}
  /\ boot = NoBoot
  /\ max_phys_addr = 0
  /\ config = None
  /\ system_info = None
  /\ usable = {} /\ reclaimable = {}
  /\ Ownership!Init

HugeFrameOf(addr) == addr \div HugeSize

-----------------------------------------------------------------------------
\* Plausible fault: the level 2 tables are filled with the entries of one.
CreateMappingsOnce == 0..(HugeFrameOf(GIGABYTE) - 1)

\* create_mappings: ten level 2 tables
CreateMappings == {HugeFrameOf(i * GIGABYTE + j * HugeSize) :
                     i \in 0..9, j \in 0..(HugeFrameOf(GIGABYTE) - 1)}

\* stage 3, as far as the jump to stage 4
EnterStage3(info) ==
  /\ stage = "off"
  /\ stage' = "stage3"
  /\ bios_info' = info
  /\ UNCHANGED <<identity, boot, max_phys_addr, config, system_info, owner_vars>>

EnterStage4 ==
  /\ stage = "stage3"
  /\ stage' = "stage4"
  /\ identity' = CreateMappings
  /\ UNCHANGED <<bios_info, boot, max_phys_addr, config, system_info, owner_vars>>

-----------------------------------------------------------------------------
\* _start, up to the frame allocator

Orders(n) == {p \in [1..n -> 1..n] : \A i, j \in 1..n : p[i] = p[j] => i = j}

\* Plausible fault: the map stays in the order of the BIOS.
SortedAsIs(entries) == {entries}

\* sort_unstable_by_key: entries with the same start come in any order
Sorted(entries) ==
  {s \in {[i \in 1..Len(entries) |-> entries[p[i]]] : p \in Orders(Len(entries))} :
     \A i, j \in 1..Len(entries) : i < j => s[i].start <= s[j].start}

\* LegacyMemoryRegion for an E820 entry: type 1 is usable, then and afterwards
DescriptorOf(e) ==
  [start |-> e.start, end |-> e.start + e.len,
   kind |-> IF e.type = 1 THEN "Usable" ELSE "Unknown", after |-> e.type = 1]

DescriptorsOf(entries) == [i \in 1..Len(entries) |-> DescriptorOf(entries[i])]

\* Plausible fault: the allocator starts with the frame of the last byte used.
NextFreeFrameUsed(info) == Map!FrameOf(info.last_used_addr)

NextFreeFrame(info) == Map!FrameOf(info.last_used_addr) + 1

RegionOf(file) == [start |-> file.start, end |-> file.start + file.len]

SpareSlots == 4     \* create_boot_info

HandedOver(info, sorted) ==
  [map |-> DescriptorsOf(sorted), first |-> NextFreeFrame(info),
   kernel |-> RegionOf(info.files[Kernel]), ramdisk |-> RegionOf(info.files[Ramdisk]),
   spare |-> SpareSlots]

HighestEnd(map) == CHOOSE e \in {map[i].end : i \in 1..Len(map)} : \A i \in 1..Len(map) : map[i].end <= e

Least(a, b) == IF a < b THEN a ELSE b

CreateAllocator ==
  /\ stage = "stage4"
  /\ bios_info.memory_map # << >>
  /\ bios_info.files[Kernel].start # 0
  /\ \E sorted \in Sorted(bios_info.memory_map) : boot' = HandedOver(bios_info, sorted)
  /\ max_phys_addr' = Least(HighestEnd(boot'.map), 4 * GIGABYTE)
  /\ usable' = Map!AllocatableFrames(boot')
  /\ reclaimable' = Map!FreedFrames(boot')
  /\ stage' = "identity"
  /\ UNCHANGED <<bios_info, identity, config, system_info, taken, granted, phase>>

\* "no physical memory regions found"
NoMemory ==
  /\ stage = "stage4"
  /\ bios_info.memory_map = << >>
  /\ stage' = "panic"
  /\ UNCHANGED <<bios_info, identity, boot, max_phys_addr, config, system_info, owner_vars>>

-----------------------------------------------------------------------------
\* identity-map what stage 3 did not: max_phys_addr is capped below its end, so
\* there is nothing left to map
IdentityMapRest ==
  /\ stage = "identity"
  /\ identity' = identity \cup (HugeFrameOf(10 * GIGABYTE)..HugeFrameOf(max_phys_addr - 1))
  /\ stage' = "tables"
  /\ UNCHANGED <<bios_info, boot, max_phys_addr, config, system_info, owner_vars>>

\* create_page_tables takes a frame for the kernel's level 4 table
CreatePageTables ==
  /\ stage = "tables"
  /\ \E f \in usable : Ownership!Take(f)
  /\ stage' = "parse"
  /\ UNCHANGED <<bios_info, identity, boot, max_phys_addr, config, system_info>>

\* Kernel::parse, the configuration file, which is used if there is one and it
\* can be parsed, and SystemInfo
ReadConfig ==
  /\ stage = "parse"
  /\ \E c \in {"default", "file"} :
       /\ c = "file" => bios_info.files[Config].len # 0
       /\ config' = Some(c)
  /\ stage' = "system"
  /\ UNCHANGED <<bios_info, identity, boot, max_phys_addr, system_info, owner_vars>>

\* Plausible fault: a ramdisk is reported even if there is none.
RamdiskAlways(file) == Some(file.start)

RamdiskAddr(file) == IF file.len = 0 THEN None ELSE Some(file.start)

BuildSystemInfo ==
  /\ stage = "system"
  /\ \E rsdp_addr \in {None, Some("rsdp")} :
       system_info' = Some([ramdisk_addr |-> RamdiskAddr(bios_info.files[Ramdisk]),
                            ramdisk_len |-> bios_info.files[Ramdisk].len,
                            rsdp_addr |-> rsdp_addr])
  /\ stage' = "load"
  /\ UNCHANGED <<bios_info, identity, boot, max_phys_addr, config, owner_vars>>

\* load_and_switch_to_kernel: frames are taken, then construct_memory_map grants
\* the kernel the rest
TakeFrame ==
  /\ stage = "load"
  /\ Cardinality(taken) < MaxTaken
  /\ \E f \in usable : Ownership!Take(f)
  /\ UNCHANGED <<bios_info, stage, identity, boot, max_phys_addr, config, system_info>>

StartKernel ==
  /\ stage = "load"
  /\ granted' \in SUBSET ((usable \cup reclaimable) \ taken)
  /\ Ownership!HandOver
  /\ stage' = "kernel"
  /\ UNCHANGED <<bios_info, identity, boot, max_phys_addr, config, system_info>>

\* no frame is left, the kernel file is no ELF file, or one of the panics of the
\* loader
Panic ==
  /\ \/ stage = "tables" /\ usable \subseteq taken
     \/ stage \in {"parse", "load"}
  /\ stage' = "panic"
  /\ UNCHANGED <<bios_info, identity, boot, max_phys_addr, config, system_info, owner_vars>>

Stage4Next ==
  \/ EnterStage4 \/ CreateAllocator \/ NoMemory \/ IdentityMapRest \/ CreatePageTables
  \/ ReadConfig \/ BuildSystemInfo \/ TakeFrame \/ StartKernel \/ Panic

-----------------------------------------------------------------------------
\* What the BIOS reports: regions that do not overlap
EntriesApart(entries) ==
  \A i, j \in 1..Len(entries) :
    i # j => \/ entries[i].start + entries[i].len <= entries[j].start
             \/ entries[j].start + entries[j].len <= entries[i].start

\* The hand-over of stage 4 is one the frame allocator was verified for: the
\* entries the BIOS lists in any order are sorted, the second stage has dropped
\* the empty ones, and the kernel file lies below the first frame.
HandOverWellFormed ==
  boot # NoBoot /\ EntriesApart(bios_info.memory_map) => Map!WellFormed(boot)

\* None of the frames that are taken or granted holds a byte of what the second
\* stage loaded, be it the configuration file, the ramdisk, the kernel file or
\* the stages that are still running with their page tables and stacks.
LoadedFilesOwned ==
  \A f \in taken \cup granted :
    /\ \A file \in Files : ~Map!Overlaps(Map!FrameSlice(f), RegionOf(bios_info.files[file]))
    /\ ~Map!Overlaps(Map!FrameSlice(f), [start |-> 0, end |-> KernelDst])

\* A frame that is taken can be accessed at its physical address, as
\* phys_offset = 0 assumes, if it ends at or below 10 GiB, however much memory
\* the machine has; on a machine whose memory ends there, every frame can.
FramesReachable ==
  boot # NoBoot =>
    \A f \in taken :
      Map!StartOf(f + 1) <= 10 * GIGABYTE \/ HighestEnd(boot.map) <= 10 * GIGABYTE =>
        {HugeFrameOf(a) : a \in Map!StartOf(f)..(Map!StartOf(f + 1) - 1)} \subseteq identity

=============================================================================
