--------------------------- MODULE FrameAllocator ---------------------------
(***************************************************************************)
(* The physical frame allocator of the bootloader and the memory map it    *)
(* turns into for the kernel (common/src/legacy_memory_region.rs).         *)
(*                                                                         *)
(* The firmware's memory map is a sequence of descriptors, half open byte  *)
(* ranges.  The allocator walks it once: `memory_map` is its iterator,     *)
(* `current_descriptor` the descriptor it is taking frames from and        *)
(* `next_frame` the first frame it has not looked at.  Until the jump to   *)
(* the kernel the loader takes frames one by one (allocate_frame), then    *)
(* construct_memory_map consumes the allocator and writes the regions the  *)
(* kernel sees.  Both contain a loop over descriptors; one iteration is    *)
(* one step here, so that what a loop establishes is an invariant.         *)
(***************************************************************************)
EXTENDS FirmwareMap

CONSTANT Boots           \* the firmware hand-overs considered, see WellFormed

VARIABLES
  boot,                \* the hand-over of this boot, never changed
  memory_map,          \* number of descriptors the iterator has yielded
  current_descriptor,  \* index of the current descriptor, NoDescriptor if None
  next_frame,          \* the frame counter
  pc,                  \* where control is, see TypeOK
  handed_out,          \* history: the frames returned so far, in order
  exhausted,           \* history: allocate_frame has returned None
  index,               \* number of descriptors construct_memory_map has done
  regions              \* the regions it has written

vars == <<boot, memory_map, current_descriptor, next_frame, pc, handed_out,
          exhausted, index, regions>>

allocatorVars == <<memory_map, current_descriptor, next_frame, handed_out>>

NoDescriptor == 0

Kinds == {"Usable", "Bootloader", "Unknown"}

Region == [start : Nat, end : Nat, kind : Kinds]

-----------------------------------------------------------------------------
ASSUME FrameSizeAssumption == FrameSize \in Nat \ {0}

ASSUME BootsAssumption == \A b \in Boots : WellFormed(b)

map == boot.map

-----------------------------------------------------------------------------
\* new_starting_at; `new` is the case boot.first = 1.
Init ==
  /\ boot \in Boots
  /\ memory_map = 0
  /\ current_descriptor = NoDescriptor
  /\ next_frame = boot.first
  /\ pc = "idle"
  /\ handed_out = << >>
  /\ exhausted = FALSE
  /\ index = 0
  /\ regions = << >>

-----------------------------------------------------------------------------
\* allocate_frame_from_descriptor

\* next_frame once it has been moved up to the descriptor's first frame
RaisedFrame(d) ==
  IF next_frame < FirstFrameOf(d) THEN FirstFrameOf(d) ELSE next_frame

\* Plausible fault: the last frame of a descriptor is left out.
HasFrameStrict(d) == RaisedFrame(d) < LastFrameOf(d)

HasFrame(d) == RaisedFrame(d) <= LastFrameOf(d)

\* Plausible fault: the counter is not moved past the frame that is returned.
TakeFrameAgain(d) ==
  /\ HasFrame(d)
  /\ handed_out' = Append(handed_out, RaisedFrame(d))
  /\ next_frame' = RaisedFrame(d)

TakeFrame(d) ==
  /\ HasFrame(d)
  /\ handed_out' = Append(handed_out, RaisedFrame(d))
  /\ next_frame' = RaisedFrame(d) + 1

MissFrame(d) ==
  /\ ~HasFrame(d)
  /\ next_frame' = RaisedFrame(d)
  /\ UNCHANGED handed_out

-----------------------------------------------------------------------------
\* allocate_frame

AllocateFromCurrent ==
  /\ pc = "idle"
  /\ current_descriptor # NoDescriptor
  /\ TakeFrame(map[current_descriptor])
  /\ UNCHANGED <<boot, memory_map, current_descriptor, pc, exhausted, index, regions>>

LeaveCurrent ==
  /\ pc = "idle"
  /\ current_descriptor # NoDescriptor
  /\ MissFrame(map[current_descriptor])
  /\ current_descriptor' = NoDescriptor
  /\ pc' = "search"
  /\ UNCHANGED <<boot, memory_map, exhausted, index, regions>>

NoCurrent ==
  /\ pc = "idle"
  /\ current_descriptor = NoDescriptor
  /\ pc' = "search"
  /\ UNCHANGED <<boot, allocatorVars, exhausted, index, regions>>

\* the descriptor memory_map.next() yields, already counted in memory_map'
Yield ==
  /\ pc = "search"
  /\ memory_map < Len(map)
  /\ memory_map' = memory_map + 1
  /\ UNCHANGED <<boot, exhausted, index, regions>>

\* Plausible fault: memory that becomes usable later is not passed over.
SkipReserved ==
  /\ Yield
  /\ map[memory_map'].kind # "Usable" /\ ~map[memory_map'].after
  /\ UNCHANGED <<pc, current_descriptor, next_frame, handed_out>>

SkipDescriptor ==
  /\ Yield
  /\ map[memory_map'].kind # "Usable"
  /\ UNCHANGED <<pc, current_descriptor, next_frame, handed_out>>

\* Plausible fault: the descriptor is not remembered for the next call.
AllocateAndForget ==
  /\ Yield
  /\ map[memory_map'].kind = "Usable"
  /\ TakeFrame(map[memory_map'])
  /\ current_descriptor' = NoDescriptor
  /\ pc' = "idle"

AllocateFromNext ==
  /\ Yield
  /\ map[memory_map'].kind = "Usable"
  /\ TakeFrame(map[memory_map'])
  /\ current_descriptor' = memory_map'
  /\ pc' = "idle"

MissNext ==
  /\ Yield
  /\ map[memory_map'].kind = "Usable"
  /\ MissFrame(map[memory_map'])
  /\ UNCHANGED <<pc, current_descriptor>>

ReturnNone ==
  /\ pc = "search"
  /\ memory_map = Len(map)
  /\ pc' = "idle"
  /\ exhausted' = TRUE
  /\ UNCHANGED <<boot, allocatorVars, index, regions>>

-----------------------------------------------------------------------------
\* construct_memory_map

next_free == StartOf(next_frame)

\* the `_ => part of the region is used` arm of the match
IsCut(d) == d.kind = "Usable" /\ d.start < next_free /\ next_free < d.end

\* Plausible fault: a descriptor that ends exactly at next_free counts as unused.
KindForStrict(d) ==
  IF d.kind = "Usable"
  THEN IF d.end < next_free THEN "Bootloader" ELSE "Usable"
  ELSE IF d.after THEN "Usable" ELSE d.kind

KindFor(d) ==
  IF d.kind = "Usable"
  THEN IF d.end <= next_free THEN "Bootloader" ELSE "Usable"
  ELSE IF d.after THEN "Usable" ELSE d.kind

\* Plausible fault: the used part is added separately but the rest not shortened.
RegionForWhole(d) == [start |-> d.start, end |-> d.end, kind |-> KindFor(d)]

\* what is left of the descriptor once the used part was added separately
RegionFor(d) ==
  [start |-> IF IsCut(d) THEN next_free ELSE d.start,
   end   |-> d.end,
   kind  |-> KindFor(d)]

UsedRegion(d) == [start |-> d.start, end |-> next_free, kind |-> "Bootloader"]

\* Plausible fault: a kernel at the very start of the region is overlooked.
OverlapsKernelStrict(r) ==
  r.kind = "Usable" /\ boot.kernel.start < r.end /\ r.start < boot.kernel.start

OverlapsKernel(r) == r.kind = "Usable" /\ Overlaps(boot.kernel, r)

\* the two assertions: the kernel does not span several regions
KernelInside(r) == r.start <= boot.kernel.start /\ boot.kernel.end <= r.end

BeforeKernel(r) == [start |-> r.start, end |-> boot.kernel.start, kind |-> r.kind]

KernelRegion == [start |-> boot.kernel.start, end |-> boot.kernel.end,
                 kind |-> "Bootloader"]

AfterKernel(r) == [start |-> boot.kernel.end, end |-> r.end, kind |-> r.kind]

\* Plausible fault: empty regions are not skipped.
AddAnyRegion(rs, r) == Append(rs, r)

\* add_region, apart from its panic
AddRegion(rs, r) == IF r.start = r.end THEN rs ELSE Append(rs, r)

AddUsed(rs, d) == IF IsCut(d) THEN AddRegion(rs, UsedRegion(d)) ELSE rs

\* Plausible fault: the part behind the kernel is not added.
AddRestWithoutTail(rs, r) ==
  IF OverlapsKernel(r)
  THEN AddRegion(AddRegion(rs, BeforeKernel(r)), KernelRegion)
  ELSE AddRegion(rs, r)

AddRest(rs, r) ==
  IF OverlapsKernel(r)
  THEN AddRegion(AddRegion(AddRegion(rs, BeforeKernel(r)), KernelRegion), AfterKernel(r))
  ELSE AddRegion(rs, r)

AddDescriptor(rs, d) == AddRest(AddUsed(rs, d), RegionFor(d))

\* Plausible fault: one slot per descriptor and one more, as UsedLevel4Entries counts.
CapacityPlusOne == Len(map) + 1

\* create_boot_info allocates the slice
Capacity == Len(map) + boot.spare

\* "cannot add region: no more free entries in memory map", or an assertion
MapPanics(d) ==
  \/ OverlapsKernel(RegionFor(d)) /\ ~KernelInside(RegionFor(d))
  \/ Len(AddDescriptor(regions, d)) > Capacity

\* Plausible fault: the first descriptor counts as done.
ConstructFromSecond ==
  /\ pc = "idle"
  /\ pc' = "map"
  /\ index' = index + 1
  /\ UNCHANGED <<boot, allocatorVars, exhausted, regions>>

ConstructMemoryMap ==
  /\ pc = "idle"
  /\ pc' = "map"
  /\ UNCHANGED <<boot, allocatorVars, exhausted, index, regions>>

MapDescriptor ==
  /\ pc = "map"
  /\ index < Len(map)
  /\ ~MapPanics(map[index + 1])
  /\ index' = index + 1
  /\ regions' = AddDescriptor(regions, map[index + 1])
  /\ UNCHANGED <<boot, allocatorVars, exhausted, pc>>

MapPanic ==
  /\ pc = "map"
  /\ index < Len(map)
  /\ MapPanics(map[index + 1])
  /\ pc' = "panic"
  /\ UNCHANGED <<boot, allocatorVars, exhausted, index, regions>>

ReturnRegions ==
  /\ pc = "map"
  /\ index = Len(map)
  /\ pc' = "done"
  /\ UNCHANGED <<boot, allocatorVars, exhausted, index, regions>>

-----------------------------------------------------------------------------
\* The processor keeps executing a loop it has entered; whether and how often
\* the loader asks for frames is not this module's.
LoopStep == SkipDescriptor \/ AllocateFromNext \/ MissNext \/ ReturnNone
            \/ MapDescriptor \/ MapPanic \/ ReturnRegions

Next == AllocateFromCurrent \/ LeaveCurrent \/ NoCurrent \/ ConstructMemoryMap
        \/ LoopStep

Spec == Init /\ [][Next]_vars

FairSpec == Spec /\ WF_vars(LoopStep)

-----------------------------------------------------------------------------
\* The type of the allocator's fields and of the slice it writes.
TypeOK ==
  /\ WellFormed(boot)
  /\ memory_map \in 0..Len(map)
  /\ current_descriptor \in 0..Len(map)
  /\ next_frame \in Nat
  /\ pc \in {"idle", "search", "map", "done", "panic"}
  /\ handed_out \in Seq(Nat)
  /\ exhausted \in BOOLEAN
  /\ index \in 0..Len(map)
  /\ regions \in Seq(Region)

Allocated == {handed_out[i] : i \in 1..Len(handed_out)}

\* allocate_frame never returns a frame twice, and frames come in ascending
\* order: construct_memory_map relies on it when it describes everything the
\* bootloader took by the single number next_frame.
FramesAscend ==
  /\ \A i \in 1..Len(handed_out) : handed_out[i] < next_frame
  /\ \A i, j \in 1..Len(handed_out) : i < j => handed_out[i] < handed_out[j]

\* No frame the bootloader took (page tables, stack, boot info, copied kernel
\* pages) is part of a region that the memory map offers the kernel as Usable.
AllocatedNeverUsable ==
  \A i \in 1..Len(handed_out), r \in 1..Len(regions) :
    regions[r].kind = "Usable" => ~Overlaps(FrameSlice(handed_out[i]), regions[r])

\* No part of the kernel file, whose frames stay mapped into the kernel's
\* address space, is offered to the kernel as Usable.
KernelNeverUsable ==
  \A r \in 1..Len(regions) :
    regions[r].kind = "Usable" => ~Overlaps(boot.kernel, regions[r])

\* The regions are ascending, non-empty and do not overlap, however often
\* descriptors are cut at next_free and around the kernel.
RegionsAscend ==
  /\ \A r \in 1..Len(regions) : regions[r].start < regions[r].end
  /\ \A q, r \in 1..Len(regions) : q < r => regions[q].end <= regions[r].start

Bytes(s) == UNION {s[i].start .. (s[i].end - 1) : i \in 1..Len(s)}

\* Cutting descriptors loses no memory and invents none: the finished map
\* describes exactly the bytes of the firmware's map.
RegionsCoverMap == pc = "done" => Bytes(regions) = Bytes(map)

UsableFrame(frame) == \E i \in 1..Len(map) : /\ map[i].kind = "Usable"
                                            /\ Touches(map[i], frame)

\* Every usable frame from the first one up to next_frame was handed out: the
\* memory the map reports as Bootloader on account of next_frame is in use.
NoUsableFrameSkipped ==
  \A f \in boot.first .. (next_frame - 1) : UsableFrame(f) => f \in Allocated

\* allocate_frame returns None only when no usable frame is left.
NoneOnlyWhenExhausted ==
  exhausted => \A i \in 1..Len(map) :
    map[i].kind = "Usable" =>
      \A f \in FirstFrameOf(map[i])..LastFrameOf(map[i]) :
        f >= boot.first => f \in Allocated

\* Neither assertion of construct_memory_map fails and add_region does not run
\* out of slots: a slice with three spare slots is large enough, the one of
\* create_boot_info has four.  A shorter one is never written past its end.
NoPanic ==
  /\ boot.spare >= 3 => pc # "panic"
  /\ Len(regions) <= Capacity

\* "It also marks any memory regions that the bootloader uses in the memory
\* map": the ramdisk handed to the kernel is not offered as Usable.
RamdiskNeverUsable ==
  \A r \in 1..Len(regions) :
    regions[r].kind = "Usable" => ~Overlaps(boot.ramdisk, regions[r])

\* A call of allocate_frame returns, and one of construct_memory_map returns or
\* panics: neither loop over the descriptors goes on for ever.
CallsReturn ==
  /\ (pc = "search") ~> (pc = "idle")
  /\ (pc = "map") ~> (pc \in {"done", "panic"})

-----------------------------------------------------------------------------
(***************************************************************************)
(* The inductive invariants behind the properties above.                   *)
(***************************************************************************)

\* What the allocator's fields say about the part of the map behind the
\* iterator: the current descriptor is a usable one it yielded, every other
\* usable one it yielded is used up, every frame handed out lies in one of
\* them and None is only returned with the whole map behind the iterator.
AllocationInv ==
  /\ FramesAscend
  /\ NoUsableFrameSkipped
  /\ \A i \in 1..Len(handed_out) : \E j \in 1..memory_map :
       map[j].kind = "Usable" /\ Touches(map[j], handed_out[i])
  /\ current_descriptor # NoDescriptor =>
       /\ current_descriptor <= memory_map
       /\ map[current_descriptor].kind = "Usable"
       /\ pc # "search"
  /\ \A j \in 1..memory_map :
       map[j].kind = "Usable" /\ j # current_descriptor => LastFrameOf(map[j]) < next_frame
  /\ exhausted => memory_map = Len(map) /\ current_descriptor = NoDescriptor

\* A region lies within a descriptor construct_memory_map has handled; a
\* Usable one is free of the kernel file and either what usable memory has from
\* next_free on or memory the allocator never takes from.
RegionOrigin(r, j) ==
  /\ map[j].start <= r.start /\ r.end <= map[j].end
  /\ r.kind = "Usable" =>
       /\ ~Overlaps(boot.kernel, r)
       /\ \/ map[j].kind = "Usable" /\ next_free <= r.start
          \/ map[j].kind # "Usable" /\ map[j].after

\* What construct_memory_map has written after `index` descriptors.
MapInv ==
  /\ pc \in {"idle", "search"} => index = 0
  /\ index = 0 => regions = << >>
  /\ RegionsAscend
  /\ \A r \in 1..Len(regions) : \E j \in 1..index : RegionOrigin(regions[r], j)

\* next_free cuts at most one descriptor in two and the kernel at most one in
\* three, so the first n descriptors yield at most RegionBound(n) regions.
RegionBound(n) ==
  n + (IF \E j \in 1..n : IsCut(map[j]) THEN 1 ELSE 0)
    + (IF \E j \in 1..n : OverlapsKernel(RegionFor(map[j])) THEN 2 ELSE 0)

\* The regions written stay within that bound.
CountInv == Len(regions) <= RegionBound(index)

-----------------------------------------------------------------------------
(***************************************************************************)
(* The refinement of FrameOwnership: the frames of a kind of memory are    *)
(* those its descriptors or regions touch, and the kernel is granted the   *)
(* frames of the Usable regions once construct_memory_map has returned.    *)
(***************************************************************************)
GrantedFrames ==
  IF pc = "done"
  THEN UNION {FramesOf(regions, r) : r \in {q \in 1..Len(regions) : regions[q].kind = "Usable"}}
  ELSE {}

Ownership == INSTANCE FrameOwnership WITH
  usable <- AllocatableFrames(boot),
  reclaimable <- FreedFrames(boot),
  taken <- Allocated,
  granted <- GrantedFrames,
  phase <- IF pc = "done" THEN "kernel" ELSE "boot"

\* The allocator and construct_memory_map implement FrameOwnership: a frame
\* has one owner, before the jump to the kernel and after it.
ImplementsOwnership == Ownership!Spec

=============================================================================
