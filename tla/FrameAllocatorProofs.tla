------------------------ MODULE FrameAllocatorProofs ------------------------
(***************************************************************************)
(* Proofs about FrameAllocator, for every frame size, every well-formed    *)
(* firmware map and every number of spare region slots.                    *)
(***************************************************************************)
EXTENDS FrameAllocator, TLAPS

-----------------------------------------------------------------------------
\* Frames and addresses.

\* StartOf yields addresses and keeps the order of frames.
LEMMA StartOrder ==
  ASSUME NEW f \in Nat, NEW g \in Nat
  PROVE  /\ StartOf(f) \in Nat
         /\ f < g => StartOf(f + 1) <= StartOf(g)
         /\ f <= g => StartOf(f) <= StartOf(g)
         /\ StartOf(f + 1) = StartOf(f) + FrameSize
  BY FrameSizeAssumption, SMT DEF StartOf

\* PhysFrame::containing_address yields the frame whose bytes include it.
LEMMA FrameContains ==
  ASSUME NEW a \in Nat
  PROVE  /\ FrameOf(a) \in Nat
         /\ StartOf(FrameOf(a)) <= a
         /\ a < StartOf(FrameOf(a) + 1)
  BY FrameSizeAssumption, SMT DEF StartOf, FrameOf

\* PhysFrame::containing_address keeps the order of addresses.
LEMMA FrameOrder ==
  ASSUME NEW a \in Nat, NEW b \in Nat, a <= b
  PROVE  FrameOf(a) <= FrameOf(b)
<1>1. /\ FrameOf(a) \in Nat /\ StartOf(FrameOf(a)) <= a
      /\ FrameOf(b) \in Nat /\ b < StartOf(FrameOf(b) + 1)
  BY FrameContains
<1>2. StartOf(FrameOf(a)) \in Nat /\ StartOf(FrameOf(b) + 1) \in Nat
  BY <1>1, StartOrder
<1>3. FrameOf(b) < FrameOf(a) => StartOf(FrameOf(b) + 1) <= StartOf(FrameOf(a))
  BY <1>1, StartOrder
<1> QED
  BY <1>1, <1>2, <1>3

-----------------------------------------------------------------------------
\* The type invariant.

\* A well-formed boot has a sequence of descriptors, a first frame and a number
\* of spare slots.
LEMMA BootFields ==
  ASSUME WellFormed(boot)
  PROVE  /\ map \in Seq(Descriptor) /\ Len(map) \in Nat
         /\ boot.first \in Nat /\ boot.spare \in Nat
<1>1. map \in Seq(Descriptor) /\ boot.first \in Nat /\ boot.spare \in Nat
  BY DEF WellFormed, map
<1> QED
  BY <1>1

\* The descriptors of a well-formed map have the fields the code reads, and
\* their first and last frame are frames in this order.
LEMMA DescriptorFrames ==
  ASSUME WellFormed(boot), NEW i \in 1..Len(map)
  PROVE  /\ map[i] \in Descriptor
         /\ map[i].start \in Nat /\ map[i].end \in Nat
         /\ map[i].start < map[i].end
         /\ map[i].kind \in {"Usable", "Unknown"}
         /\ FirstFrameOf(map[i]) \in Nat /\ LastFrameOf(map[i]) \in Nat
         /\ FirstFrameOf(map[i]) <= LastFrameOf(map[i])
<1>1. map[i] \in Descriptor /\ map[i].start < map[i].end
  BY DEF WellFormed, map
<1>2. /\ map[i].start \in Nat /\ map[i].end \in Nat
      /\ map[i].kind \in {"Usable", "Unknown"}
      /\ map[i].end - 1 \in Nat /\ map[i].start <= map[i].end - 1
  BY <1>1 DEF Descriptor
<1>3. /\ FrameOf(map[i].start) \in Nat /\ FrameOf(map[i].end - 1) \in Nat
      /\ FrameOf(map[i].start) <= FrameOf(map[i].end - 1)
  BY <1>2, FrameContains, FrameOrder, Zenon
<1> QED
  BY <1>1, <1>2, <1>3 DEF FirstFrameOf, LastFrameOf

\* add_region appends at most one region.
LEMMA AddRegionType ==
  ASSUME NEW rs \in Seq(Region), NEW r \in Region
  PROVE  /\ AddRegion(rs, r) \in Seq(Region)
         /\ Len(AddRegion(rs, r)) <= Len(rs) + 1
  BY DEF AddRegion

\* The regions construct_memory_map can add for one descriptor.
LEMMA NewRegionTypes ==
  ASSUME TypeOK, NEW i \in 1..Len(map)
  PROVE  /\ next_free \in Nat
         /\ UsedRegion(map[i]) \in Region
         /\ RegionFor(map[i]) \in Region
         /\ BeforeKernel(RegionFor(map[i])) \in Region
         /\ KernelRegion \in Region
         /\ AfterKernel(RegionFor(map[i])) \in Region
<1>1. WellFormed(boot) /\ next_frame \in Nat
  BY DEF TypeOK
<1>2. /\ map[i].start \in Nat /\ map[i].end \in Nat
      /\ map[i].kind \in {"Usable", "Unknown"}
  BY <1>1, DescriptorFrames
<1>3. next_free \in Nat
  BY <1>1, StartOrder, Zenon DEF next_free
<1>4. boot.kernel.start \in Nat /\ boot.kernel.end \in Nat
  BY <1>1 DEF WellFormed, Slice
<1>5. UsedRegion(map[i]) \in Region /\ RegionFor(map[i]) \in Region
  BY <1>2, <1>3 DEF UsedRegion, RegionFor, KindFor, Region, Kinds
<1>6. KernelRegion \in Region
  BY <1>4 DEF KernelRegion, Region, Kinds
<1>7. BeforeKernel(RegionFor(map[i])) \in Region /\ AfterKernel(RegionFor(map[i])) \in Region
  BY <1>4, <1>5 DEF BeforeKernel, AfterKernel, Region
<1> QED
  BY <1>3, <1>5, <1>6, <1>7

\* Whatever is added for a descriptor, the slice holds regions.
LEMMA AddDescriptorType ==
  ASSUME TypeOK, NEW i \in 1..Len(map)
  PROVE  AddDescriptor(regions, map[i]) \in Seq(Region)
<1>1. regions \in Seq(Region)
  BY DEF TypeOK
<1>2. AddUsed(regions, map[i]) \in Seq(Region)
  BY <1>1, AddRegionType, NewRegionTypes DEF AddUsed
<1>3. AddRegion(AddUsed(regions, map[i]), RegionFor(map[i])) \in Seq(Region)
  BY <1>2, AddRegionType, NewRegionTypes
<1>4. AddRegion(AddUsed(regions, map[i]), BeforeKernel(RegionFor(map[i]))) \in Seq(Region)
  BY <1>2, AddRegionType, NewRegionTypes
<1>5. AddRegion(AddRegion(AddUsed(regions, map[i]), BeforeKernel(RegionFor(map[i]))),
                KernelRegion) \in Seq(Region)
  BY <1>4, AddRegionType, NewRegionTypes
<1>6. AddRegion(AddRegion(AddRegion(AddUsed(regions, map[i]), BeforeKernel(RegionFor(map[i]))),
                          KernelRegion), AfterKernel(RegionFor(map[i]))) \in Seq(Region)
  BY <1>5, AddRegionType, NewRegionTypes
<1> QED
  BY <1>3, <1>6 DEF AddDescriptor, AddRest

\* next_frame as allocate_frame_from_descriptor moves it is a frame number.
LEMMA RaisedFrameType ==
  ASSUME TypeOK, NEW i \in 1..Len(map)
  PROVE  /\ RaisedFrame(map[i]) \in Nat
         /\ next_frame <= RaisedFrame(map[i])
         /\ FirstFrameOf(map[i]) <= RaisedFrame(map[i])
  BY DescriptorFrames, SMTT(30) DEF TypeOK, RaisedFrame

\* A new allocator and an empty slice have their types.
LEMMA InitType == Init => TypeOK
<1> SUFFICES ASSUME Init PROVE TypeOK
  OBVIOUS
<1>1. WellFormed(boot)
  BY BootsAssumption DEF Init
<1>2. Len(map) \in Nat /\ boot.first \in Nat
  BY <1>1, BootFields
<1>3. handed_out \in Seq(Nat) /\ regions \in Seq(Region)
  BY DEF Init
<1>4. /\ memory_map \in 0..Len(map) /\ current_descriptor \in 0..Len(map)
      /\ next_frame \in Nat /\ index \in 0..Len(map)
  BY <1>2 DEF Init, NoDescriptor
<1>5. pc \in {"idle", "search", "map", "done", "panic"}
  BY DEF Init
<1>6. exhausted \in BOOLEAN
  BY Zenon DEF Init
<1> QED
  BY <1>1, <1>3, <1>4, <1>5, <1>6 DEF TypeOK

\* Every step of the allocator and of construct_memory_map keeps the types.
LEMMA NextType == TypeOK /\ [Next]_vars => TypeOK'
<1> SUFFICES ASSUME TypeOK, [Next]_vars PROVE TypeOK'
  BY SMTT(30)
<1>1. WellFormed(boot) /\ Len(map) \in Nat
  BY DEF TypeOK, WellFormed, map
<1>2. boot' = boot
  BY Zenon DEF Next, LoopStep, vars, AllocateFromCurrent, LeaveCurrent, NoCurrent,
         ConstructMemoryMap, SkipDescriptor, AllocateFromNext, MissNext, Yield,
         ReturnNone, MapDescriptor, MapPanic, ReturnRegions
<1>3. WellFormed(boot)' /\ map' = map
  BY <1>1, <1>2 DEF WellFormed, map, LastFrameOf, FirstFrameOf, FrameOf, StartOf
<1>4. CASE AllocateFromCurrent
  BY <1>1, <1>3, <1>4, RaisedFrameType, SMTT(30)
  DEF AllocateFromCurrent, TakeFrame, TypeOK, NoDescriptor
<1>5. CASE LeaveCurrent
  BY <1>1, <1>3, <1>5, RaisedFrameType DEF LeaveCurrent, MissFrame, TypeOK, NoDescriptor
<1>6. CASE NoCurrent
  BY <1>3, <1>6 DEF NoCurrent, allocatorVars, TypeOK
<1>7. CASE ConstructMemoryMap
  BY <1>3, <1>7 DEF ConstructMemoryMap, allocatorVars, TypeOK
<1>8. CASE SkipDescriptor
  BY <1>1, <1>3, <1>8 DEF SkipDescriptor, Yield, TypeOK
<1>9. CASE AllocateFromNext
  BY <1>1, <1>3, <1>9, RaisedFrameType, SMTT(30) DEF AllocateFromNext, Yield, TakeFrame, TypeOK
<1>10. CASE MissNext
  BY <1>1, <1>3, <1>10, RaisedFrameType, SMTT(30) DEF MissNext, Yield, MissFrame, TypeOK
<1>11. CASE ReturnNone
  BY <1>3, <1>11 DEF ReturnNone, allocatorVars, TypeOK
<1>12. CASE MapDescriptor
  <2>1. index + 1 \in 1..Len(map)
    BY <1>1, <1>12 DEF MapDescriptor, TypeOK
  <2>2. regions' \in Seq(Region)
    BY <1>12, <2>1, AddDescriptorType DEF MapDescriptor
  <2> QED
    BY <1>1, <1>3, <1>12, <2>1, <2>2 DEF MapDescriptor, allocatorVars, TypeOK
<1>13. CASE MapPanic
  BY <1>3, <1>13 DEF MapPanic, allocatorVars, TypeOK
<1>14. CASE ReturnRegions
  BY <1>3, <1>14 DEF ReturnRegions, allocatorVars, TypeOK
<1>15. CASE UNCHANGED vars
  BY <1>3, <1>15 DEF vars, TypeOK
<1> QED
  BY <1>4, <1>5, <1>6, <1>7, <1>8, <1>9, <1>10, <1>11, <1>12, <1>13, <1>14, <1>15
  DEF Next, LoopStep

\* The fields of the allocator and the slice keep their types in every boot.
THEOREM TypeCorrect == Spec => []TypeOK
<1> QED
  BY InitType, NextType, PTL DEF Spec

-----------------------------------------------------------------------------
\* allocate_frame

\* The map is sorted, so are the frames its descriptors start with.
LEMMA SortedFrames ==
  ASSUME WellFormed(boot), NEW i \in 1..Len(map), NEW j \in 1..Len(map), i < j
  PROVE  FirstFrameOf(map[i]) <= FirstFrameOf(map[j])
<1>1. map[i].end <= map[j].start
  BY DEF WellFormed, map
<1>2. /\ map[i].start \in Nat /\ map[i].end \in Nat /\ map[j].start \in Nat
      /\ map[i].start < map[i].end
  BY DescriptorFrames
<1> QED
  BY <1>1, <1>2, FrameOrder, SMTT(30) DEF FirstFrameOf

\* A descriptor without a frame left is used up and leaves next_frame alone.
LEMMA MissMeansUsedUp ==
  ASSUME TypeOK, NEW i \in 1..Len(map), ~HasFrame(map[i])
  PROVE  /\ RaisedFrame(map[i]) = next_frame
         /\ LastFrameOf(map[i]) < next_frame
<1>1. /\ FirstFrameOf(map[i]) \in Nat /\ LastFrameOf(map[i]) \in Nat
      /\ FirstFrameOf(map[i]) <= LastFrameOf(map[i])
  BY DescriptorFrames DEF TypeOK
<1> QED
  BY <1>1, SMTT(30) DEF TypeOK, HasFrame, RaisedFrame

\* Taking a frame from a usable descriptor whose usable predecessors are used
\* up yields a new frame and skips none.
LEMMA TakeKeepsOrder ==
  ASSUME TypeOK, FramesAscend, NoUsableFrameSkipped, boot' = boot,
         NEW c \in 1..Len(map), map[c].kind = "Usable", TakeFrame(map[c]),
         \A j \in 1..(c - 1) :
           map[j].kind = "Usable" => LastFrameOf(map[j]) < next_frame
  PROVE  /\ FramesAscend'
         /\ NoUsableFrameSkipped'
         /\ handed_out' = Append(handed_out, RaisedFrame(map[c]))
         /\ Touches(map[c], RaisedFrame(map[c]))
         /\ next_frame < next_frame'
<1> DEFINE f0 == RaisedFrame(map[c])
<1>1. /\ handed_out \in Seq(Nat) /\ next_frame \in Nat /\ WellFormed(boot)
      /\ map' = map /\ Len(map) \in Nat
  <2>1. handed_out \in Seq(Nat) /\ next_frame \in Nat /\ WellFormed(boot)
    BY DEF TypeOK
  <2>2. map' = map /\ Len(map) \in Nat
    BY <2>1 DEF map, WellFormed
  <2> QED
    BY <2>1, <2>2
<1>2. /\ f0 \in Nat /\ next_frame <= f0 /\ FirstFrameOf(map[c]) <= f0
      /\ f0 <= LastFrameOf(map[c])
      /\ handed_out' = Append(handed_out, f0) /\ next_frame' = f0 + 1
  BY RaisedFrameType DEF TakeFrame, HasFrame
<1>3. f0 = next_frame \/ f0 = FirstFrameOf(map[c])
  BY DEF RaisedFrame
<1> HIDE DEF f0
<1>4. /\ Len(handed_out') = Len(handed_out) + 1
      /\ \A i \in 1..Len(handed_out) : handed_out'[i] = handed_out[i]
      /\ handed_out'[Len(handed_out) + 1] = f0
      /\ \A i \in 1..Len(handed_out) : handed_out[i] \in Nat
  BY <1>1, <1>2, SMTT(30)
<1>5. FramesAscend'
  <2>1. \A i \in 1..Len(handed_out') : i \in 1..Len(handed_out) \/ i = Len(handed_out) + 1
    BY <1>1, <1>4
  <2>2. \A i \in 1..Len(handed_out) : handed_out[i] < f0
    <3>1. ASSUME NEW h \in Nat, h < next_frame
          PROVE  h < f0
      BY <1>1, <1>2, <3>1
    <3>2. \A i \in 1..Len(handed_out) : handed_out[i] < next_frame
      BY DEF FramesAscend
    <3> QED
      BY <1>4, <3>1, <3>2
  <2>3. ASSUME NEW i \in 1..Len(handed_out')
        PROVE  handed_out'[i] < next_frame'
    BY <1>2, <1>4, <2>1, <2>2
  <2>4. ASSUME NEW i \in 1..Len(handed_out'), NEW j \in 1..Len(handed_out'), i < j
        PROVE  handed_out'[i] < handed_out'[j]
    <3>1. i \in 1..Len(handed_out)
      BY <1>1, <1>4, <2>4
    <3>2. CASE j \in 1..Len(handed_out)
      BY <1>4, <2>4, <3>1, <3>2 DEF FramesAscend
    <3>3. CASE j = Len(handed_out) + 1
      BY <1>4, <2>2, <3>1, <3>3, Zenon
    <3> QED
      BY <2>1, <3>2, <3>3
  <2> QED
    BY <2>3, <2>4 DEF FramesAscend
<1>6. ASSUME NEW f \in boot.first .. f0, UsableFrame(f)
      PROVE  \E i \in 1..Len(handed_out') : handed_out'[i] = f
  <2>1. boot.first \in Nat /\ f \in Nat
    BY <1>1, <1>2, <1>6 DEF WellFormed
  <2>2. CASE f < next_frame
    <3>1. f \in Allocated
      BY <1>1, <1>6, <2>1, <2>2 DEF NoUsableFrameSkipped
    <3>2. PICK i \in 1..Len(handed_out) : handed_out[i] = f
      BY <3>1 DEF Allocated
    <3> QED
      BY <1>1, <1>4, <3>2
  <2>3. CASE f = f0
    BY <1>1, <1>4, <2>3, SMTT(30)
  <2>4. CASE next_frame <= f /\ f < f0
    <3>1. f < FirstFrameOf(map[c])
      BY <1>1, <1>2, <1>3, <2>1, <2>4
    <3>2. PICK j \in 1..Len(map) : map[j].kind = "Usable" /\ Touches(map[j], f)
      BY <1>6 DEF UsableFrame
    <3>3. /\ FirstFrameOf(map[j]) \in Nat /\ LastFrameOf(map[j]) \in Nat
          /\ FirstFrameOf(map[c]) \in Nat
          /\ FirstFrameOf(map[j]) <= f /\ f <= LastFrameOf(map[j])
      BY <1>1, <3>2, DescriptorFrames, SMTT(30) DEF Touches
    <3>4. j < c => LastFrameOf(map[j]) < next_frame
      BY <1>1, <3>2
    <3>5. c < j => FirstFrameOf(map[c]) <= FirstFrameOf(map[j])
      BY <1>1, SortedFrames
    <3> QED
      BY <1>1, <2>1, <2>4, <3>1, <3>3, <3>4, <3>5
  <2> QED
    BY <1>1, <1>2, <2>1, <2>2, <2>3, <2>4, SMTT(30)
<1>7. NoUsableFrameSkipped'
  <2> SUFFICES ASSUME NEW f \in (boot.first .. (next_frame - 1))', UsableFrame(f)'
               PROVE  f \in Allocated'
    BY DEF NoUsableFrameSkipped
  <2>1. f \in boot.first .. f0 /\ UsableFrame(f)
    <3>1. UsableFrame(f)
      BY <1>1, Zenon DEF UsableFrame, Touches, FirstFrameOf, LastFrameOf, FrameOf
    <3>2. boot.first \in Nat
      BY <1>1 DEF WellFormed
    <3>3. f \in boot.first .. f0
      BY <1>2, <3>2
    <3> QED
      BY <3>1, <3>3
  <2> QED
    BY <1>6, <2>1 DEF Allocated
<1> QED
  BY <1>1, <1>2, <1>5, <1>7 DEF Touches, f0

\* new_starting_at has handed out nothing and skipped nothing.
LEMMA InitAllocation == Init => AllocationInv
<1> SUFFICES ASSUME Init PROVE AllocationInv
  OBVIOUS
<1>1. WellFormed(boot)
  BY BootsAssumption DEF Init
<1>2. boot.first \in Nat
  BY <1>1 DEF WellFormed
<1>3. Len(handed_out) = 0 /\ memory_map = 0 /\ next_frame = boot.first
  BY DEF Init
<1>4. FramesAscend /\ NoUsableFrameSkipped
  BY <1>2, <1>3 DEF FramesAscend, NoUsableFrameSkipped
<1>5. ~exhausted
  BY DEF Init
<1>6. current_descriptor = NoDescriptor
  BY DEF Init
<1> QED
  BY <1>3, <1>4, <1>5, <1>6, SMTT(30) DEF AllocationInv

\* Every step keeps the allocator's fields in agreement with the map.
LEMMA NextAllocation == TypeOK /\ AllocationInv /\ [Next]_vars => AllocationInv'
<1> SUFFICES ASSUME TypeOK, AllocationInv, [Next]_vars PROVE AllocationInv'
  OBVIOUS
<1>1. WellFormed(boot) /\ memory_map \in 0..Len(map) /\ current_descriptor \in 0..Len(map)
      /\ next_frame \in Nat /\ handed_out \in Seq(Nat)
  BY DEF TypeOK
<1>2. Len(map) \in Nat
  BY <1>1, BootFields
<1>3. boot' = boot
  BY DEF Next, LoopStep, vars, AllocateFromCurrent, LeaveCurrent, NoCurrent,
         ConstructMemoryMap, SkipDescriptor, AllocateFromNext, MissNext, Yield,
         ReturnNone, MapDescriptor, MapPanic, ReturnRegions
<1>4. map' = map
  BY <1>3 DEF map
<1>5. FramesAscend /\ NoUsableFrameSkipped
  BY DEF AllocationInv
<1>6. \A i \in 1..Len(map) : LastFrameOf(map[i]) \in Nat
  BY <1>1, DescriptorFrames
<1>7. ASSUME UNCHANGED <<handed_out, next_frame>>
      PROVE  FramesAscend' /\ NoUsableFrameSkipped'
  BY <1>3, <1>4, <1>5, <1>7, Zenon
  DEF FramesAscend, NoUsableFrameSkipped, Allocated, UsableFrame, Touches,
      FirstFrameOf, LastFrameOf, FrameOf
<1>8. CASE AllocateFromCurrent
  <2> DEFINE c == current_descriptor
  <2>1. c \in 1..Len(map) /\ map[c].kind = "Usable" /\ c <= memory_map /\ pc # "search"
    BY <1>1, <1>2, <1>8 DEF AllocationInv, AllocateFromCurrent, NoDescriptor
  <2>2. TakeFrame(map[c]) /\ UNCHANGED <<memory_map, current_descriptor, pc, exhausted>>
    BY <1>8 DEF AllocateFromCurrent
  <2>3. \A j \in 1..(c - 1) : map[j].kind = "Usable" => LastFrameOf(map[j]) < next_frame
    BY <1>1, <1>2, <2>1, SMTT(30) DEF AllocationInv
  <2>4. /\ FramesAscend' /\ NoUsableFrameSkipped'
        /\ handed_out' = Append(handed_out, RaisedFrame(map[c]))
        /\ Touches(map[c], RaisedFrame(map[c])) /\ next_frame < next_frame'
    BY <1>3, <1>5, <2>1, <2>2, <2>3, TakeKeepsOrder
  <2>5. next_frame' \in Nat /\ RaisedFrame(map[c]) \in Nat
    BY <2>1, <2>2, RaisedFrameType DEF TakeFrame
  <2>6. \A i \in 1..Len(handed_out') : \E j \in 1..memory_map :
          map[j].kind = "Usable" /\ Touches(map[j], handed_out'[i])
    <3> SUFFICES ASSUME NEW i \in 1..Len(handed_out')
                 PROVE  \E j \in 1..memory_map :
                          map[j].kind = "Usable" /\ Touches(map[j], handed_out'[i])
      OBVIOUS
    <3>1. CASE i \in 1..Len(handed_out)
      <4>1. handed_out'[i] = handed_out[i]
        BY <1>1, <2>4, <2>5, <3>1
      <4> QED
        BY <3>1, <4>1 DEF AllocationInv
    <3>2. CASE i = Len(handed_out) + 1
      <4>1. handed_out'[i] = RaisedFrame(map[c])
        BY <1>1, <2>4, <2>5, <3>2
      <4>2. c \in 1..memory_map
        BY <1>1, <2>1
      <4> QED
        BY <2>1, <2>4, <4>1, <4>2
    <3> QED
      BY <1>1, <2>4, <2>5, <3>1, <3>2
  <2>7. \A j \in 1..memory_map : map[j].kind = "Usable" /\ j # c => LastFrameOf(map[j]) < next_frame'
    <3> SUFFICES ASSUME NEW j \in 1..memory_map, map[j].kind = "Usable", j # c
                 PROVE  LastFrameOf(map[j]) < next_frame'
      OBVIOUS
    <3>1. LastFrameOf(map[j]) < next_frame
      BY DEF AllocationInv
    <3>2. LastFrameOf(map[j]) \in Nat
      BY <1>1, <1>2, <1>6, SMTT(30)
    <3> QED
      BY <1>1, <2>4, <2>5, <3>1, <3>2, SMTT(30)
  <2>8. exhausted => memory_map = Len(map) /\ c = NoDescriptor
    BY DEF AllocationInv
  <2> QED
    BY <1>4, <2>1, <2>2, <2>4, <2>6, <2>7, <2>8, Zenon
    DEF AllocationInv, Touches, FirstFrameOf, LastFrameOf, FrameOf
<1>9. CASE LeaveCurrent
  <2> DEFINE c == current_descriptor
  <2>1. c \in 1..Len(map)
    BY <1>1, <1>2, <1>9 DEF LeaveCurrent, NoDescriptor
  <2>2. /\ ~HasFrame(map[c]) /\ next_frame' = RaisedFrame(map[c])
        /\ current_descriptor' = NoDescriptor
        /\ UNCHANGED <<memory_map, handed_out, exhausted>>
    BY <1>9 DEF LeaveCurrent, MissFrame
  <2>3. next_frame' = next_frame /\ LastFrameOf(map[c]) < next_frame
    BY <2>1, <2>2, MissMeansUsedUp
  <2>4. FramesAscend' /\ NoUsableFrameSkipped'
    BY <1>7, <2>2, <2>3
  <2> QED
    BY <1>4, <2>2, <2>3, <2>4, SMTT(30)
    DEF AllocationInv, Touches, FirstFrameOf, LastFrameOf, FrameOf
<1>10. CASE SkipDescriptor
  <2>1. /\ memory_map' = memory_map + 1 /\ map[memory_map + 1].kind # "Usable"
        /\ UNCHANGED <<pc, current_descriptor, next_frame, handed_out, exhausted>>
        /\ pc = "search" /\ memory_map < Len(map)
    BY <1>4, <1>10 DEF SkipDescriptor, Yield
  <2>2. FramesAscend' /\ NoUsableFrameSkipped'
    BY <1>7, <2>1, Zenon
  <2> QED
    BY <1>1, <1>2, <1>4, <2>1, <2>2
    DEF AllocationInv, Touches, FirstFrameOf, LastFrameOf, FrameOf
<1>11. CASE AllocateFromNext
  <2> DEFINE c == memory_map + 1
  <2>1. /\ c \in 1..Len(map) /\ map[c].kind = "Usable" /\ TakeFrame(map[c])
        /\ memory_map' = c /\ current_descriptor' = c /\ pc' = "idle"
        /\ exhausted' = exhausted /\ pc = "search" /\ memory_map < Len(map)
    BY <1>1, <1>2, <1>4, <1>11 DEF AllocateFromNext, Yield
  <2>2. current_descriptor = NoDescriptor /\ ~exhausted
    BY <1>1, <1>2, <2>1 DEF AllocationInv
  <2>3. \A j \in 1..(c - 1) : map[j].kind = "Usable" => LastFrameOf(map[j]) < next_frame
    BY <1>1, <2>2, SMTT(30) DEF AllocationInv, NoDescriptor
  <2>4. /\ FramesAscend' /\ NoUsableFrameSkipped'
        /\ handed_out' = Append(handed_out, RaisedFrame(map[c]))
        /\ Touches(map[c], RaisedFrame(map[c])) /\ next_frame < next_frame'
    BY <1>3, <1>5, <2>1, <2>3, TakeKeepsOrder, Zenon
  <2>5. next_frame' \in Nat /\ RaisedFrame(map[c]) \in Nat
    BY <2>1, RaisedFrameType DEF TakeFrame
  <2>6. \A i \in 1..Len(handed_out') : \E j \in 1..c :
          map[j].kind = "Usable" /\ Touches(map[j], handed_out'[i])
    <3> SUFFICES ASSUME NEW i \in 1..Len(handed_out')
                 PROVE  \E j \in 1..c :
                          map[j].kind = "Usable" /\ Touches(map[j], handed_out'[i])
      OBVIOUS
    <3>1. CASE i \in 1..Len(handed_out)
      <4>1. handed_out'[i] = handed_out[i]
        BY <1>1, <2>4, <2>5, <3>1
      <4>2. 1..memory_map \subseteq 1..c
        BY <1>1
      <4> QED
        BY <3>1, <4>1, <4>2 DEF AllocationInv
    <3>2. CASE i = Len(handed_out) + 1
      <4>1. handed_out'[i] = RaisedFrame(map[c]) /\ c \in 1..c
        BY <1>1, <2>4, <2>5, <3>2
      <4> QED
        BY <2>1, <2>4, <4>1
    <3>3. i \in 1..Len(handed_out) \/ i = Len(handed_out) + 1
      BY <1>1, <2>4, <2>5, SMTT(30)
    <3> QED
      BY <3>1, <3>2, <3>3, Zenon
  <2>7. \A j \in 1..c : map[j].kind = "Usable" /\ j # c => LastFrameOf(map[j]) < next_frame'
    <3> SUFFICES ASSUME NEW j \in 1..c, map[j].kind = "Usable", j # c
                 PROVE  LastFrameOf(map[j]) < next_frame'
      OBVIOUS
    <3>1. j \in 1..(c - 1) /\ j \in 1..Len(map)
      BY <1>1, <1>2, <2>1
    <3>2. LastFrameOf(map[j]) < next_frame /\ LastFrameOf(map[j]) \in Nat
      BY <1>6, <2>3, <3>1, Zenon
    <3> QED
      BY <1>1, <2>4, <2>5, <3>2, SMTT(30)
  <2> QED
    BY <1>4, <2>1, <2>2, <2>4, <2>6, <2>7, SMTT(30)
    DEF AllocationInv, Touches, FirstFrameOf, LastFrameOf, FrameOf
<1>12. CASE MissNext
  <2> DEFINE c == memory_map + 1
  <2>1. /\ c \in 1..Len(map) /\ ~HasFrame(map[c]) /\ next_frame' = RaisedFrame(map[c])
        /\ memory_map' = c /\ UNCHANGED <<pc, current_descriptor, handed_out, exhausted>>
        /\ pc = "search" /\ memory_map < Len(map)
    BY <1>1, <1>2, <1>4, <1>12 DEF MissNext, Yield, MissFrame
  <2>2. next_frame' = next_frame /\ LastFrameOf(map[c]) < next_frame
    BY <2>1, MissMeansUsedUp
  <2>3. FramesAscend' /\ NoUsableFrameSkipped'
    BY <1>7, <2>1, <2>2, Zenon
  <2> QED
    BY <1>1, <1>2, <1>4, <2>1, <2>2, <2>3
    DEF AllocationInv, Touches, FirstFrameOf, LastFrameOf, FrameOf
<1>13. CASE ReturnNone
  <2>1. /\ UNCHANGED allocatorVars /\ pc = "search" /\ memory_map = Len(map)
    BY <1>13 DEF ReturnNone
  <2>2. FramesAscend' /\ NoUsableFrameSkipped'
    BY <1>7, <2>1 DEF allocatorVars
  <2> QED
    BY <1>4, <2>1, <2>2, Zenon
    DEF AllocationInv, allocatorVars, Touches, FirstFrameOf, LastFrameOf, FrameOf
<1>14. ASSUME UNCHANGED <<memory_map, current_descriptor, next_frame, handed_out, exhausted>>,
              current_descriptor # NoDescriptor => pc' # "search"
       PROVE  AllocationInv'
  <2>1. FramesAscend' /\ NoUsableFrameSkipped'
    BY <1>7, <1>14
  <2> QED
    BY <1>4, <1>14, <2>1
    DEF AllocationInv, Touches, FirstFrameOf, LastFrameOf, FrameOf
<1>15. CASE NoCurrent
  BY <1>14, <1>15 DEF NoCurrent, allocatorVars
<1>16. CASE ConstructMemoryMap \/ MapDescriptor \/ MapPanic \/ ReturnRegions
  BY <1>14, <1>16, Zenon DEF ConstructMemoryMap, MapDescriptor, MapPanic, ReturnRegions, allocatorVars
<1>17. CASE UNCHANGED vars
  BY <1>14, <1>17 DEF vars, AllocationInv
<1> QED
  BY <1>8, <1>9, <1>10, <1>11, <1>12, <1>13, <1>15, <1>16, <1>17 DEF Next, LoopStep

\* allocate_frame keeps its fields in agreement with the map: the frames handed
\* out are ascending, each is part of a usable descriptor, and the usable
\* frames between the first one and next_frame have all been handed out.
THEOREM AllocationCorrect == Spec => []AllocationInv
<1> QED
  BY InitType, NextType, InitAllocation, NextAllocation, PTL DEF Spec

-----------------------------------------------------------------------------
\* construct_memory_map

Elements(rs) == {rs[q] : q \in 1..Len(rs)}

\* Ascending, non-empty regions that end at `limit` or before.
AscendTo(rs, limit) ==
  /\ \A q \in 1..Len(rs) : rs[q].start < rs[q].end /\ rs[q].end <= limit
  /\ \A p, q \in 1..Len(rs) : p < q => rs[p].end <= rs[q].start

\* add_region keeps the slice ascending when the region starts behind it, and
\* adds nothing but that region.
LEMMA AddRegionAscends ==
  ASSUME NEW rs \in Seq(Region), NEW r \in Region,
         AscendTo(rs, r.start), r.start <= r.end
  PROVE  /\ AddRegion(rs, r) \in Seq(Region)
         /\ AscendTo(AddRegion(rs, r), r.end)
         /\ Elements(AddRegion(rs, r)) \subseteq Elements(rs) \cup {r}
<1>1. r.start \in Nat /\ r.end \in Nat
  BY DEF Region
<1>2. \A q \in 1..Len(rs) : rs[q].start \in Nat /\ rs[q].end \in Nat
  <2>1. \A q \in 1..Len(rs) : rs[q] \in Region
    OBVIOUS
  <2> QED
    BY <2>1, Zenon DEF Region
<1>3. CASE r.start = r.end
  BY <1>3, SMTT(30) DEF AddRegion
<1>4. CASE r.start # r.end
  <2> DEFINE new == Append(rs, r)
  <2>1. AddRegion(rs, r) = new
    BY <1>4, SMTT(30) DEF AddRegion
  <2>2. /\ new \in Seq(Region) /\ Len(new) = Len(rs) + 1 /\ Len(rs) \in Nat
        /\ \A q \in 1..Len(rs) : new[q] = rs[q]
        /\ new[Len(rs) + 1] = r
    OBVIOUS
  <2> HIDE DEF new
  <2>3. \A q \in 1..Len(rs) : rs[q].end <= r.start
    BY DEF AscendTo
  <2>4. \A q \in 1..Len(new) : new[q].start < new[q].end /\ new[q].end <= r.end
    BY <1>1, <1>2, <1>4, <2>2, <2>3, SMTT(30) DEF AscendTo
  <2>5. \A p, q \in 1..Len(new) : p < q => new[p].end <= new[q].start
    BY <2>2, <2>3, SMTT(30) DEF AscendTo
  <2>6. Elements(new) \subseteq Elements(rs) \cup {r}
    BY <2>2 DEF Elements
  <2> QED
    BY <2>1, <2>2, <2>4, <2>5, <2>6 DEF AscendTo
<1> QED
  BY <1>3, <1>4

\* The regions that one iteration of construct_memory_map can add.
NewRegions(d) ==
  (IF IsCut(d) THEN {UsedRegion(d)} ELSE {})
  \cup (IF OverlapsKernel(RegionFor(d))
        THEN {BeforeKernel(RegionFor(d)), KernelRegion, AfterKernel(RegionFor(d))}
        ELSE {RegionFor(d)})

\* One iteration keeps the slice ascending and adds only those regions.
LEMMA AddDescriptorAscends ==
  ASSUME TypeOK, NEW i \in 1..Len(map), AscendTo(regions, map[i].start),
         ~MapPanics(map[i])
  PROVE  /\ AscendTo(AddDescriptor(regions, map[i]), map[i].end)
         /\ Elements(AddDescriptor(regions, map[i]))
              \subseteq Elements(regions) \cup NewRegions(map[i])
<1> DEFINE d == map[i]
           r == RegionFor(d)
           used == AddUsed(regions, d)
<1>1. /\ d.start \in Nat /\ d.end \in Nat /\ d.start < d.end
      /\ next_free \in Nat /\ regions \in Seq(Region)
      /\ boot.kernel.start \in Nat /\ boot.kernel.end \in Nat
      /\ boot.kernel.start < boot.kernel.end
  <2>1. WellFormed(boot) /\ regions \in Seq(Region)
    BY DEF TypeOK
  <2>2. /\ boot.kernel.start \in Nat /\ boot.kernel.end \in Nat
        /\ boot.kernel.start < boot.kernel.end
    BY <2>1 DEF WellFormed, Slice
  <2> QED
    BY <2>1, <2>2, DescriptorFrames, NewRegionTypes, Zenon
<1>2. /\ UsedRegion(d) \in Region /\ r \in Region /\ BeforeKernel(r) \in Region
      /\ KernelRegion \in Region /\ AfterKernel(r) \in Region
  BY NewRegionTypes
<1>3. r.end = d.end /\ r.start = (IF IsCut(d) THEN next_free ELSE d.start)
  BY Zenon DEF RegionFor
<1>4. r.start \in Nat /\ r.end \in Nat /\ r.start < r.end
  BY <1>1, <1>3 DEF IsCut
<1>5. /\ used \in Seq(Region) /\ AscendTo(used, r.start)
      /\ Elements(used) \subseteq Elements(regions)
           \cup (IF IsCut(d) THEN {UsedRegion(d)} ELSE {})
  <2>1. CASE IsCut(d)
    <3>1. /\ UsedRegion(d).start = d.start /\ UsedRegion(d).end = next_free
          /\ d.start <= next_free
      BY <1>1, <2>1, SMTT(30) DEF UsedRegion, IsCut
    <3> QED
      BY <1>1, <1>2, <1>3, <2>1, <3>1, AddRegionAscends, Zenon DEF AddUsed
  <2>2. CASE ~IsCut(d)
    BY <1>1, <1>3, <2>2, Zenon DEF AddUsed
  <2> QED
    BY <2>1, <2>2, Zenon
<1> HIDE DEF used
<1>6. CASE ~OverlapsKernel(r)
  <2>1. AddDescriptor(regions, d) = AddRegion(used, r)
    BY <1>6 DEF AddDescriptor, AddRest, used
  <2>2. r.start <= r.end
    BY <1>4
  <2>3. /\ AscendTo(AddRegion(used, r), r.end)
        /\ Elements(AddRegion(used, r)) \subseteq Elements(used) \cup {r}
    BY <1>2, <1>5, <2>2, AddRegionAscends, Zenon
  <2> QED
    BY <1>3, <1>5, <1>6, <2>1, <2>3, Zenon DEF NewRegions
<1>7. CASE OverlapsKernel(r)
  <2> DEFINE one == AddRegion(used, BeforeKernel(r))
             two == AddRegion(one, KernelRegion)
             three == AddRegion(two, AfterKernel(r))
  <2>1. AddDescriptor(regions, d) = three
    BY <1>7, Zenon DEF AddDescriptor, AddRest, used
  <2>2. r.start <= boot.kernel.start /\ boot.kernel.end <= r.end
    BY <1>7, Zenon DEF MapPanics, KernelInside
  <2>3. /\ BeforeKernel(r).start = r.start /\ BeforeKernel(r).end = boot.kernel.start
        /\ KernelRegion.start = boot.kernel.start /\ KernelRegion.end = boot.kernel.end
        /\ AfterKernel(r).start = boot.kernel.end /\ AfterKernel(r).end = r.end
        /\ boot.kernel.start <= boot.kernel.end
    BY <1>1, SMTT(30) DEF BeforeKernel, KernelRegion, AfterKernel
  <2>4. /\ one \in Seq(Region) /\ AscendTo(one, boot.kernel.start)
        /\ Elements(one) \subseteq Elements(used) \cup {BeforeKernel(r)}
    BY <1>2, <1>5, <2>2, <2>3, AddRegionAscends, Zenon
  <2> HIDE DEF one
  <2>5. /\ two \in Seq(Region) /\ AscendTo(two, boot.kernel.end)
        /\ Elements(two) \subseteq Elements(one) \cup {KernelRegion}
    BY <1>2, <2>3, <2>4, AddRegionAscends, SMTT(30)
  <2> HIDE DEF two
  <2>6. /\ AscendTo(three, r.end)
        /\ Elements(three) \subseteq Elements(two) \cup {AfterKernel(r)}
    BY <1>2, <2>2, <2>3, <2>5, AddRegionAscends, Zenon
  <2> HIDE DEF three
  <2>7. Elements(three) \subseteq Elements(regions) \cup NewRegions(d)
    BY <1>5, <1>7, <2>4, <2>5, <2>6 DEF NewRegions
  <2> QED
    BY <1>3, <2>1, <2>6, <2>7
<1> QED
  BY <1>6, <1>7, Zenon

\* Each region added for a descriptor has the origin RegionOrigin describes.
LEMMA NewRegionOrigin ==
  ASSUME TypeOK, NEW i \in 1..Len(map), ~MapPanics(map[i]), NEW n \in NewRegions(map[i])
  PROVE  RegionOrigin(n, i)
<1> DEFINE d == map[i]
           r == RegionFor(d)
<1>1. /\ d.start \in Nat /\ d.end \in Nat /\ d.start < d.end
      /\ next_free \in Nat
      /\ boot.kernel.start \in Nat /\ boot.kernel.end \in Nat
      /\ boot.kernel.start < boot.kernel.end
      /\ d.kind \in {"Usable", "Unknown"}
  <2>1. WellFormed(boot)
    BY Zenon DEF TypeOK
  <2>2. /\ boot.kernel.start \in Nat /\ boot.kernel.end \in Nat
        /\ boot.kernel.start < boot.kernel.end
    BY <2>1, Zenon DEF WellFormed, Slice
  <2> QED
    BY <2>1, <2>2, DescriptorFrames, NewRegionTypes, Zenon
<1>2. /\ r.end = d.end /\ r.start \in Nat /\ d.start <= r.start
      /\ r.kind = KindFor(d)
      /\ r.kind = "Usable" => \/ d.kind = "Usable" /\ next_free <= r.start
                              \/ d.kind # "Usable" /\ d.after
  BY <1>1, SMTT(30) DEF RegionFor, KindFor, IsCut
<1>3. CASE n = UsedRegion(d) /\ IsCut(d)
  BY <1>1, <1>3, SMTT(30) DEF UsedRegion, IsCut, RegionOrigin
<1>4. CASE n = r /\ ~OverlapsKernel(r)
  BY <1>1, <1>2, <1>4 DEF RegionOrigin, OverlapsKernel
<1>5. CASE OverlapsKernel(r) /\ n \in {BeforeKernel(r), KernelRegion, AfterKernel(r)}
  <2>1. r.start <= boot.kernel.start /\ boot.kernel.end <= r.end
    BY <1>5, Zenon DEF MapPanics, KernelInside
  <2>2. CASE n = BeforeKernel(r)
    <3>1. n.start = r.start /\ n.end = boot.kernel.start /\ n.kind = r.kind
      BY <2>2 DEF BeforeKernel
    <3> QED
      BY <1>1, <1>2, <2>1, <3>1, SMTT(30) DEF RegionOrigin, Overlaps
  <2>3. CASE n = KernelRegion
    <3>1. n.start = boot.kernel.start /\ n.end = boot.kernel.end /\ n.kind = "Bootloader"
      BY <2>3 DEF KernelRegion
    <3> QED
      BY <1>1, <1>2, <2>1, <3>1, SMTT(30) DEF RegionOrigin
  <2>4. CASE n = AfterKernel(r)
    <3>1. n.start = boot.kernel.end /\ n.end = r.end /\ n.kind = r.kind
      BY <2>4 DEF AfterKernel
    <3> QED
      BY <1>1, <1>2, <2>1, <3>1, SMTT(30) DEF RegionOrigin, Overlaps
  <2> QED
    BY <1>5, <2>2, <2>3, <2>4, Zenon
<1> QED
  BY <1>3, <1>4, <1>5, SMTT(30) DEF NewRegions

\* construct_memory_map starts with no region.
LEMMA InitMap == Init => MapInv
<1> SUFFICES ASSUME Init PROVE MapInv
  OBVIOUS
<1>1. regions = << >> /\ Len(regions) = 0 /\ index = 0
  BY DEF Init
<1> QED
  BY <1>1 DEF MapInv, RegionsAscend

\* Every step keeps what the slice says about the descriptors handled so far;
\* the frames are all taken before the first of them is.
LEMMA NextMap == TypeOK /\ MapInv /\ [Next]_vars => MapInv'
<1> SUFFICES ASSUME TypeOK, MapInv, [Next]_vars PROVE MapInv'
  OBVIOUS
<1>1. WellFormed(boot) /\ index \in 0..Len(map) /\ regions \in Seq(Region)
  BY DEF TypeOK
<1>2. Len(map) \in Nat
  BY <1>1, BootFields
<1>3. boot' = boot /\ map' = map
  BY Zenon DEF Next, LoopStep, vars, AllocateFromCurrent, LeaveCurrent, NoCurrent,
         ConstructMemoryMap, SkipDescriptor, AllocateFromNext, MissNext, Yield,
         ReturnNone, MapDescriptor, MapPanic, ReturnRegions, map
<1>4. CASE AllocateFromCurrent \/ LeaveCurrent \/ NoCurrent \/ SkipDescriptor
           \/ AllocateFromNext \/ MissNext \/ ReturnNone
  <2>1. pc \in {"idle", "search"} /\ UNCHANGED <<index, regions>>
    BY <1>4, Zenon DEF AllocateFromCurrent, LeaveCurrent, NoCurrent, SkipDescriptor,
                AllocateFromNext, MissNext, Yield, ReturnNone
  <2>2. index' = 0 /\ regions' = << >>
    BY <2>1 DEF MapInv
  <2>3. Len(regions') = 0
    BY <2>2
  <2> QED
    BY <2>2, <2>3, SMTT(30) DEF MapInv, RegionsAscend
<1>5. CASE MapDescriptor
  <2> DEFINE i == index + 1
  <2>1. /\ i \in 1..Len(map) /\ ~MapPanics(map[i]) /\ index' = i
        /\ regions' = AddDescriptor(regions, map[i])
        /\ next_frame' = next_frame /\ pc' = "map"
    BY <1>1, <1>2, <1>5 DEF MapDescriptor, allocatorVars
  <2>2. next_free' = next_free /\ i # 0
    BY <1>1, <2>1 DEF next_free, StartOf
  <2>3. ASSUME NEW q \in 1..Len(regions)
        PROVE  /\ regions[q].end <= map[i].start
               /\ regions[q].start < regions[q].end
    <3>1. PICK j \in 1..index : RegionOrigin(regions[q], j)
      BY DEF MapInv
    <3>2. j \in 1..Len(map) /\ j < i
      BY <1>1, <1>2, <2>1, SMTT(30)
    <3>3. map[j].end <= map[i].start
      BY <1>1, <2>1, <3>2, Zenon DEF WellFormed, map
    <3>4. regions[q].end <= map[j].end
      BY <3>1 DEF RegionOrigin
    <3>5. regions[q] \in Region
      BY <1>1
    <3>6. regions[q].end \in Nat /\ map[j].end \in Nat /\ map[i].start \in Nat
      BY <1>1, <2>1, <3>2, <3>5, DescriptorFrames, Zenon DEF Region
    <3>7. regions[q].start < regions[q].end
      BY DEF MapInv, RegionsAscend
    <3> QED
      BY <3>3, <3>4, <3>6, <3>7
  <2>4. AscendTo(regions, map[i].start)
    BY <2>3, Zenon DEF AscendTo, MapInv, RegionsAscend
  <2>5. /\ AscendTo(regions', map[i].end)
        /\ Elements(regions') \subseteq Elements(regions) \cup NewRegions(map[i])
    BY <2>1, <2>4, AddDescriptorAscends, Zenon
  <2>6. RegionsAscend'
    BY <2>5 DEF AscendTo, RegionsAscend
  <2>7. ASSUME NEW r \in 1..Len(regions')
        PROVE  \E j \in 1..i : RegionOrigin(regions'[r], j)
    <3>1. regions'[r] \in Elements(regions')
      BY DEF Elements
    <3>2. CASE regions'[r] \in Elements(regions)
      <4>1. PICK q \in 1..Len(regions) : regions'[r] = regions[q]
        BY <3>2 DEF Elements
      <4>2. PICK j \in 1..index : RegionOrigin(regions[q], j)
        BY DEF MapInv
      <4>3. j \in 1..i
        BY <1>1
      <4> QED
        BY <4>1, <4>2, <4>3
    <3>3. CASE regions'[r] \in NewRegions(map[i])
      <4>1. RegionOrigin(regions'[r], i)
        BY <2>1, <3>3, NewRegionOrigin
      <4>2. i \in 1..i
        BY <1>1, SMTT(30)
      <4> QED
        BY <4>1, <4>2
    <3> QED
      BY <2>5, <3>1, <3>2, <3>3
  <2>8. \A r \in 1..Len(regions') : \E j \in 1..index' : RegionOrigin(regions[r], j)'
    BY <1>3, <2>1, <2>2, <2>7, Zenon DEF RegionOrigin, Overlaps
  <2> QED
    BY <2>1, <2>2, <2>6, <2>8 DEF MapInv
<1>6. ASSUME UNCHANGED <<index, regions, next_frame>>,
             pc' \in {"idle", "search"} => pc \in {"idle", "search"}
      PROVE  MapInv'
  <2>1. next_free' = next_free
    BY <1>6 DEF next_free, StartOf
  <2>2. RegionsAscend'
    BY <1>6 DEF MapInv, RegionsAscend
  <2>3. \A r \in 1..Len(regions') : \E j \in 1..index' : RegionOrigin(regions[r], j)'
    BY <1>3, <1>6, <2>1 DEF MapInv, RegionOrigin, Overlaps
  <2> QED
    BY <1>6, <2>2, <2>3 DEF MapInv
<1>7. CASE ConstructMemoryMap \/ MapPanic \/ ReturnRegions
  BY <1>6, <1>7 DEF ConstructMemoryMap, MapPanic, ReturnRegions, allocatorVars
<1>8. CASE UNCHANGED vars
  BY <1>6, <1>8, Zenon DEF vars
<1> QED
  BY <1>4, <1>5, <1>7, <1>8 DEF Next, LoopStep

\* construct_memory_map keeps the slice ascending, and every region in it comes
\* from one of the descriptors handled so far.
THEOREM MapCorrect == Spec => []MapInv
<1> QED
  BY InitType, NextType, InitMap, NextMap, PTL DEF Spec

-----------------------------------------------------------------------------
\* The properties.

\* An allocated frame and a Usable region never overlap: a region of usable
\* memory starts at next_free or later, behind every allocated frame, and any
\* other Usable region shares no frame with memory the allocator takes from.
LEMMA InvImpliesNeverUsable ==
  TypeOK /\ AllocationInv /\ MapInv => AllocatedNeverUsable
<1> SUFFICES ASSUME TypeOK, AllocationInv, MapInv,
                    NEW i \in 1..Len(handed_out), NEW r \in 1..Len(regions),
                    regions[r].kind = "Usable"
             PROVE  ~Overlaps(FrameSlice(handed_out[i]), regions[r])
  BY DEF AllocatedNeverUsable
<1> DEFINE f == handed_out[i]
           fEnd == StartOf(f + 1)
           reg == regions[r]
<1>1. /\ WellFormed(boot) /\ next_frame \in Nat /\ f \in Nat /\ reg \in Region
      /\ memory_map \in 0..Len(map) /\ index \in 0..Len(map)
  BY SMTT(30) DEF TypeOK
<1>2. reg.start \in Nat /\ reg.end \in Nat
  BY <1>1, SMTT(30) DEF Region
<1>3. Len(map) \in Nat
  BY <1>1, BootFields
<1>4. PICK j \in 1..index : RegionOrigin(reg, j)
  BY Zenon DEF MapInv
<1>5. PICK k \in 1..memory_map : map[k].kind = "Usable" /\ Touches(map[k], f)
  BY Zenon DEF AllocationInv
<1>6. f < next_frame /\ reg.kind = "Usable"
  BY Zenon DEF AllocationInv, FramesAscend
<1>7. StartOf(f) \in Nat /\ fEnd \in Nat /\ next_free \in Nat
  <2>1. f + 1 \in Nat
    BY <1>1, SMTT(30)
  <2> QED
    BY <1>1, <2>1, StartOrder, Zenon DEF next_free
<1> SUFFICES fEnd <= reg.start \/ reg.end <= StartOf(f)
  BY <1>2, <1>7, SMTT(30) DEF Overlaps, FrameSlice
<1> HIDE DEF f, fEnd, reg
<1>8. CASE next_free <= reg.start
  <2>1. fEnd <= next_free
    BY <1>1, <1>6, StartOrder DEF next_free, fEnd
  <2> QED
    BY <1>2, <1>7, <1>8, <2>1, SMTT(30)
<1>9. CASE map[j].kind # "Usable" /\ map[j].after
  <2>2. j \in 1..Len(map) /\ k \in 1..Len(map)
    BY <1>1, <1>3, SMTT(30)
  <2>3. \/ LastFrameOf(map[k]) < FirstFrameOf(map[j])
        \/ LastFrameOf(map[j]) < FirstFrameOf(map[k])
    BY <1>1, <1>5, <1>9, <2>2, Zenon DEF WellFormed, map
  <2>4. /\ FirstFrameOf(map[j]) \in Nat /\ LastFrameOf(map[j]) \in Nat
        /\ FirstFrameOf(map[k]) \in Nat /\ LastFrameOf(map[k]) \in Nat
        /\ map[j].start \in Nat /\ map[j].end \in Nat /\ map[j].start < map[j].end
    BY <1>1, <2>2, DescriptorFrames, Zenon
  <2>5. f < FirstFrameOf(map[j]) \/ LastFrameOf(map[j]) < f
    <3>1. FirstFrameOf(map[k]) <= f /\ f <= LastFrameOf(map[k])
      BY <1>5 DEF Touches
    <3>2. ASSUME NEW a \in Nat, NEW b \in Nat, NEW x \in Nat, NEW y \in Nat, NEW g \in Nat,
                 a <= g, g <= b, b < x \/ y < a
          PROVE  g < x \/ y < g
      BY <3>2
    <3> QED
      BY <1>1, <2>3, <2>4, <3>1, <3>2, Zenon
  <2>6. /\ StartOf(FirstFrameOf(map[j])) <= map[j].start
        /\ map[j].end - 1 < StartOf(LastFrameOf(map[j]) + 1)
    <3>1. map[j].start \in Nat /\ map[j].end - 1 \in Nat
      <4>1. ASSUME NEW a \in Nat, NEW e \in Nat, a < e
            PROVE  e - 1 \in Nat
        BY <4>1
      <4> QED
        BY <2>4, <4>1, Zenon
    <3> QED
      BY <3>1, FrameContains, Zenon DEF FirstFrameOf, LastFrameOf
  <2>7. /\ StartOf(FirstFrameOf(map[j])) \in Nat
        /\ StartOf(LastFrameOf(map[j]) + 1) \in Nat
    <3>1. LastFrameOf(map[j]) + 1 \in Nat
      BY <2>4, SMTT(30)
    <3> QED
      BY <2>4, <3>1, StartOrder, Zenon
  <2>8. map[j].start <= reg.start /\ reg.end <= map[j].end
    BY <1>4 DEF RegionOrigin
  <2>9. CASE f < FirstFrameOf(map[j])
    <3>1. fEnd <= StartOf(FirstFrameOf(map[j]))
      BY <1>1, <2>4, <2>9, StartOrder, SMTT(30) DEF fEnd
    <3>2. /\ StartOf(FirstFrameOf(map[j])) <= map[j].start
          /\ StartOf(FirstFrameOf(map[j])) \in Nat /\ map[j].start \in Nat
          /\ fEnd \in Nat
      BY <1>7, <2>4, <2>6, <2>7
    <3>3. ASSUME NEW a \in Nat, NEW b \in Nat, NEW c \in Nat, a <= b, b <= c
          PROVE  a <= c
      BY <3>3
    <3>4. fEnd <= map[j].start
      BY <3>1, <3>2, <3>3, Zenon
    <3>5. fEnd <= reg.start
      BY <1>2, <1>7, <2>4, <2>8, <3>3, <3>4, Zenon
    <3> QED
      BY <3>5, Zenon
  <2>10. CASE LastFrameOf(map[j]) < f
    <3>1. StartOf(LastFrameOf(map[j]) + 1) <= StartOf(f)
      BY <1>1, <2>4, <2>10, StartOrder, Zenon
    <3>2. map[j].end <= StartOf(f)
      <4>1. ASSUME NEW e \in Nat, NEW s \in Nat, NEW t \in Nat, e - 1 < s, s <= t
            PROVE  e <= t
        BY <4>1
      <4> QED
        BY <1>7, <2>4, <2>6, <2>7, <3>1, <4>1, Zenon
    <3>3. ASSUME NEW a \in Nat, NEW e \in Nat, NEW t \in Nat, a <= e, e <= t
          PROVE  a <= t
      BY <3>3
    <3>4. reg.end <= StartOf(f)
      BY <1>2, <1>7, <2>4, <2>8, <3>2, <3>3, Zenon
    <3> QED
      BY <3>4
  <2> QED
    BY <2>5, <2>9, <2>10
<1> QED
  BY <1>4, <1>6, <1>8, <1>9, Zenon DEF RegionOrigin

\* The memory map never offers the kernel a frame that the bootloader took.
THEOREM AllocatedFramesSafe == Spec => []AllocatedNeverUsable
<1> QED
  BY TypeCorrect, AllocationCorrect, MapCorrect, InvImpliesNeverUsable, PTL

\* No frame is returned twice by allocate_frame, and frames come in order.
THEOREM FramesUnique == Spec => []FramesAscend
<1>1. AllocationInv => FramesAscend
  BY DEF AllocationInv
<1> QED
  BY <1>1, AllocationCorrect, PTL

\* The kernel file is never offered as Usable.
THEOREM KernelFileSafe == Spec => []KernelNeverUsable
<1>1. MapInv => KernelNeverUsable
  BY DEF MapInv, RegionOrigin, KernelNeverUsable
<1> QED
  BY <1>1, MapCorrect, PTL

\* The regions are ascending, not empty and free of overlaps.
THEOREM RegionsSound == Spec => []RegionsAscend
<1>1. MapInv => RegionsAscend
  BY DEF MapInv
<1> QED
  BY <1>1, MapCorrect, PTL

\* allocate_frame skips no usable frame.
THEOREM NoFrameSkipped == Spec => []NoUsableFrameSkipped
<1>1. AllocationInv => NoUsableFrameSkipped
  BY DEF AllocationInv
<1> QED
  BY <1>1, AllocationCorrect, PTL

\* allocate_frame returns None only when every usable frame from the first one
\* on has been handed out.
THEOREM AllocatorExhaustive == Spec => []NoneOnlyWhenExhausted
<1>1. TypeOK /\ AllocationInv => NoneOnlyWhenExhausted
  <2> SUFFICES ASSUME TypeOK, AllocationInv, exhausted,
                      NEW i \in 1..Len(map), map[i].kind = "Usable",
                      NEW f \in FirstFrameOf(map[i])..LastFrameOf(map[i]), f >= boot.first
               PROVE  f \in Allocated
    BY DEF NoneOnlyWhenExhausted
  <2>1. WellFormed(boot) /\ next_frame \in Nat
    BY SMTT(30) DEF TypeOK
  <2>2. /\ FirstFrameOf(map[i]) \in Nat /\ LastFrameOf(map[i]) \in Nat
        /\ boot.first \in Nat
    BY <2>1, DescriptorFrames, Zenon DEF WellFormed
  <2>3. memory_map = Len(map) /\ current_descriptor = 0
    BY Zenon DEF AllocationInv, NoDescriptor
  <2>4. i # current_descriptor
    BY <2>3
  <2>5. LastFrameOf(map[i]) < next_frame
    BY <2>3, <2>4, Zenon DEF AllocationInv
  <2>6. f \in boot.first .. (next_frame - 1)
    BY <2>1, <2>2, <2>5
  <2>7. UsableFrame(f)
    BY <2>2 DEF UsableFrame, Touches
  <2> QED
    BY <2>6, <2>7, Zenon DEF AllocationInv, NoUsableFrameSkipped
<1> QED
  BY <1>1, TypeCorrect, AllocationCorrect, PTL

-----------------------------------------------------------------------------
\* The slice is large enough.

FirstInv == boot.first <= next_frame

\* The allocator starts at the frame it was given.
LEMMA InitFirst == Init => FirstInv
<1> SUFFICES ASSUME Init PROVE FirstInv
  OBVIOUS
<1>1. boot.first \in Nat /\ next_frame = boot.first
  BY BootsAssumption, Zenon DEF Init, WellFormed
<1> QED
  BY <1>1 DEF FirstInv

\* next_frame never decreases.
LEMMA NextFirst == TypeOK /\ FirstInv /\ [Next]_vars => FirstInv'
<1> SUFFICES ASSUME TypeOK, FirstInv, [Next]_vars PROVE FirstInv'
  OBVIOUS
<1>1. WellFormed(boot) /\ memory_map \in 0..Len(map) /\ current_descriptor \in 0..Len(map)
      /\ next_frame \in Nat
  BY DEF TypeOK
<1>2. Len(map) \in Nat /\ boot.first \in Nat
  BY <1>1, BootFields, Zenon
<1>3. boot' = boot /\ map' = map
  BY Zenon DEF Next, LoopStep, vars, AllocateFromCurrent, LeaveCurrent, NoCurrent,
         ConstructMemoryMap, SkipDescriptor, AllocateFromNext, MissNext, Yield,
         ReturnNone, MapDescriptor, MapPanic, ReturnRegions, map
<1>4. CASE AllocateFromCurrent \/ LeaveCurrent
  <2>1. current_descriptor \in 1..Len(map)
    BY <1>1, <1>2, <1>4 DEF AllocateFromCurrent, LeaveCurrent, NoDescriptor
  <2>2. next_frame' \in {RaisedFrame(map[current_descriptor]) + 1,
                         RaisedFrame(map[current_descriptor])}
    BY <1>4 DEF AllocateFromCurrent, LeaveCurrent, TakeFrame, MissFrame
  <2> QED
    BY <1>1, <1>2, <1>3, <2>1, <2>2, RaisedFrameType, SMTT(30) DEF FirstInv
<1>5. CASE AllocateFromNext \/ MissNext
  <2>1. memory_map + 1 \in 1..Len(map)
    BY <1>1, <1>2, <1>5 DEF AllocateFromNext, MissNext, Yield
  <2>2. next_frame' \in {RaisedFrame(map[memory_map + 1]) + 1,
                         RaisedFrame(map[memory_map + 1])}
    BY <1>3, <1>5 DEF AllocateFromNext, MissNext, Yield, TakeFrame, MissFrame
  <2> QED
    BY <1>1, <1>2, <1>3, <2>1, <2>2, RaisedFrameType, SMTT(30) DEF FirstInv
<1>6. CASE UNCHANGED next_frame
  BY <1>3, <1>6, SMTT(30) DEF FirstInv
<1> QED
  BY <1>4, <1>5, <1>6
  DEF Next, LoopStep, vars, NoCurrent, ConstructMemoryMap, SkipDescriptor, ReturnNone,
      MapDescriptor, MapPanic, ReturnRegions, allocatorVars

\* The assertions of construct_memory_map hold: a Usable region that overlaps
\* the kernel file contains it.
LEMMA KernelFitsRegion ==
  ASSUME TypeOK, FirstInv, NEW i \in 1..Len(map), OverlapsKernel(RegionFor(map[i]))
  PROVE  KernelInside(RegionFor(map[i]))
<1> DEFINE d == map[i]
           r == RegionFor(d)
<1>1. WellFormed(boot) /\ next_frame \in Nat
  BY SMTT(30) DEF TypeOK
<1>2. /\ boot.kernel.start \in Nat /\ boot.kernel.end \in Nat /\ boot.first \in Nat
      /\ boot.kernel.start < boot.kernel.end
  BY <1>1, Zenon DEF WellFormed, Slice
<1>3. /\ d.start \in Nat /\ d.end \in Nat /\ d.start < d.end
      /\ next_free \in Nat /\ d.kind \in {"Usable", "Unknown"}
  BY <1>1, DescriptorFrames, NewRegionTypes, Zenon
<1>4. /\ r.end = d.end /\ r.start = (IF IsCut(d) THEN next_free ELSE d.start)
      /\ r.kind = KindFor(d)
  BY Zenon DEF RegionFor
<1>5. /\ boot.kernel.start < r.end /\ r.start < boot.kernel.end /\ r.kind = "Usable"
  BY Zenon DEF OverlapsKernel, Overlaps
<1>6. \/ d.kind = "Usable" /\ next_free <= r.start /\ d.start <= r.start
      \/ d.kind # "Usable" /\ d.after /\ r.start = d.start
  BY <1>3, <1>4, <1>5, SMTT(30) DEF KindFor, IsCut
<1> HIDE DEF r
<1>7. r.start \in Nat
  BY <1>3, <1>4, Zenon
<1>8. CASE /\ boot.kernel.end <= StartOf(boot.first)
           /\ \A k \in 1..Len(map) : map[k].kind # "Usable" => ~map[k].after
  <2>1. next_free <= r.start
    BY <1>6, <1>8
  <2>2. StartOf(boot.first) <= next_free /\ StartOf(boot.first) \in Nat
    BY <1>1, <1>2, StartOrder, Zenon DEF FirstInv, next_free
  <2> QED
    BY <1>2, <1>3, <1>5, <1>7, <1>8, <2>1, <2>2, SMTT(30)
<1>9. CASE \E k \in 1..Len(map) : /\ map[k].kind # "Usable"
                                  /\ map[k].start <= boot.kernel.start
                                  /\ boot.kernel.end <= map[k].end
  <2>1. PICK k \in 1..Len(map) : /\ map[k].kind # "Usable"
                                 /\ map[k].start <= boot.kernel.start
                                 /\ boot.kernel.end <= map[k].end
    BY <1>9, Zenon
  <2>2. map[k].start \in Nat /\ map[k].end \in Nat
    BY <1>1, DescriptorFrames
  <2>3. k < i => map[k].end <= d.start
    BY <1>1, Zenon DEF WellFormed, map
  <2>4. i < k => d.end <= map[k].start
    BY <1>1, Zenon DEF WellFormed, map
  <2>5. k = i
    <3>1. d.start <= r.start
      BY <1>3, <1>6, SMTT(30)
    <3>2. ~(k < i)
      BY <1>2, <1>3, <1>5, <1>7, <2>1, <2>2, <2>3, <3>1, SMTT(30)
    <3>3. ~(i < k)
      BY <1>2, <1>3, <1>4, <1>5, <2>1, <2>2, <2>4, SMTT(30)
    <3> QED
      BY <3>2, <3>3, SMTT(30)
  <2>6. r.start <= boot.kernel.start /\ boot.kernel.end <= r.end
    BY <1>4, <1>6, <2>1, <2>5, Zenon
  <2> QED
    BY <2>6 DEF KernelInside, r
<1> QED
  BY <1>1, <1>8, <1>9, Zenon DEF WellFormed, map

\* At most one descriptor is cut by next_free.
LEMMA CutOnce ==
  ASSUME TypeOK, NEW i \in 1..Len(map), NEW j \in 1..Len(map), j < i,
         IsCut(map[i]), IsCut(map[j])
  PROVE  FALSE
<1>1. WellFormed(boot)
  BY DEF TypeOK
<1>2. map[j].end <= map[i].start
  BY <1>1, Zenon DEF WellFormed, map
<1>3. map[j].end \in Nat /\ map[i].start \in Nat /\ next_free \in Nat
  BY <1>1, DescriptorFrames, NewRegionTypes, Zenon
<1> QED
  BY <1>2, <1>3, SMTT(30) DEF IsCut

\* At most one descriptor is split around the kernel file.
LEMMA SplitOnce ==
  ASSUME TypeOK, FirstInv, NEW i \in 1..Len(map), NEW j \in 1..Len(map), j < i,
         OverlapsKernel(RegionFor(map[i])), OverlapsKernel(RegionFor(map[j]))
  PROVE  FALSE
<1>1. WellFormed(boot)
  BY DEF TypeOK
<1>2. map[j].end <= map[i].start
  BY <1>1, Zenon DEF WellFormed, map
<1>3. /\ map[j].end \in Nat /\ map[i].start \in Nat /\ next_free \in Nat
      /\ boot.kernel.start \in Nat /\ boot.kernel.end \in Nat
      /\ boot.kernel.start < boot.kernel.end
  <2>1. boot.kernel.start \in Nat /\ boot.kernel.end \in Nat
        /\ boot.kernel.start < boot.kernel.end
    BY <1>1 DEF WellFormed, Slice
  <2> QED
    BY <1>1, <2>1, DescriptorFrames, NewRegionTypes, Zenon
<1>4. RegionFor(map[i]).start <= boot.kernel.start /\ boot.kernel.end <= RegionFor(map[j]).end
  BY KernelFitsRegion, Zenon DEF KernelInside
<1>5. map[i].start <= boot.kernel.start
  BY <1>3, <1>4, SMTT(30) DEF RegionFor, IsCut
<1>6. boot.kernel.end <= map[j].end
  BY <1>4, Zenon DEF RegionFor
<1> QED
  BY <1>2, <1>3, <1>5, <1>6, SMTT(30)

\* One iteration of construct_memory_map adds one region, one more if
\* next_free cuts the descriptor and two more if the kernel splits it.
LEMMA AddDescriptorCount ==
  ASSUME TypeOK, NEW i \in 1..Len(map)
  PROVE  Len(AddDescriptor(regions, map[i]))
           <= Len(regions) + 1 + (IF IsCut(map[i]) THEN 1 ELSE 0)
                + (IF OverlapsKernel(RegionFor(map[i])) THEN 2 ELSE 0)
<1> DEFINE r == RegionFor(map[i])
           used == AddUsed(regions, map[i])
           one == AddRegion(used, BeforeKernel(r))
           two == AddRegion(one, KernelRegion)
           three == AddRegion(two, AfterKernel(r))
<1>1. regions \in Seq(Region)
  BY DEF TypeOK
<1>2. /\ UsedRegion(map[i]) \in Region /\ r \in Region /\ BeforeKernel(r) \in Region
      /\ KernelRegion \in Region /\ AfterKernel(r) \in Region
  BY NewRegionTypes
<1>3. used \in Seq(Region) /\ Len(used) <= Len(regions) + (IF IsCut(map[i]) THEN 1 ELSE 0)
  BY <1>1, <1>2, AddRegionType DEF AddUsed
<1> HIDE DEF used
<1>4. AddRegion(used, r) \in Seq(Region) /\ Len(AddRegion(used, r)) <= Len(used) + 1
  BY <1>2, <1>3, AddRegionType
<1>5. one \in Seq(Region) /\ Len(one) <= Len(used) + 1
  BY <1>2, <1>3, AddRegionType
<1> HIDE DEF one
<1>6. two \in Seq(Region) /\ Len(two) <= Len(one) + 1
  BY <1>2, <1>5, AddRegionType
<1> HIDE DEF two
<1>7. three \in Seq(Region) /\ Len(three) <= Len(two) + 1
  BY <1>2, <1>6, AddRegionType, Zenon
<1>8. AddDescriptor(regions, map[i]) = IF OverlapsKernel(r) THEN three ELSE AddRegion(used, r)
  BY DEF AddDescriptor, AddRest, used, one, two
<1> HIDE DEF three
<1>9. /\ Len(regions) \in Nat /\ Len(used) \in Nat /\ Len(one) \in Nat /\ Len(two) \in Nat
      /\ Len(three) \in Nat /\ Len(AddRegion(used, r)) \in Nat
  BY <1>1, <1>3, <1>4, <1>5, <1>6, <1>7, SMTT(30)
<1> QED
  BY <1>3, <1>4, <1>5, <1>6, <1>7, <1>8, <1>9, SMTT(30)

\* The iteration for descriptor n + 1 keeps the count within its bound.
LEMMA CountStep ==
  ASSUME TypeOK, FirstInv, CountInv, index + 1 \in 1..Len(map)
  PROVE  Len(AddDescriptor(regions, map[index + 1])) <= RegionBound(index + 1)
<1> DEFINE i == index + 1
           cutBefore == \E j \in 1..index : IsCut(map[j])
           cutNow == \E j \in 1..i : IsCut(map[j])
           splitBefore == \E j \in 1..index : OverlapsKernel(RegionFor(map[j]))
           splitNow == \E j \in 1..i : OverlapsKernel(RegionFor(map[j]))
<1>1. index \in 0..Len(map) /\ regions \in Seq(Region) /\ WellFormed(boot)
  BY DEF TypeOK
<1>2. Len(map) \in Nat /\ index \in Nat
  BY <1>1 DEF WellFormed, map
<1>3. 1..i = (1..index) \cup {i} /\ \A j \in 1..index : j \in 1..Len(map) /\ j < i
  BY <1>2
<1>4. cutNow <=> cutBefore \/ IsCut(map[i])
  BY <1>3
<1>5. ~(cutBefore /\ IsCut(map[i]))
  BY <1>3, CutOnce
<1>6. splitNow <=> splitBefore \/ OverlapsKernel(RegionFor(map[i]))
  BY <1>3
<1>7. ~(splitBefore /\ OverlapsKernel(RegionFor(map[i])))
  BY <1>3, SplitOnce
<1>8. /\ Len(regions) \in Nat
      /\ Len(regions) <= index + (IF cutBefore THEN 1 ELSE 0) + (IF splitBefore THEN 2 ELSE 0)
      /\ RegionBound(i) = i + (IF cutNow THEN 1 ELSE 0) + (IF splitNow THEN 2 ELSE 0)
  BY <1>1 DEF CountInv, RegionBound
<1>9. Len(AddDescriptor(regions, map[i]))
        <= Len(regions) + 1 + (IF IsCut(map[i]) THEN 1 ELSE 0)
             + (IF OverlapsKernel(RegionFor(map[i])) THEN 2 ELSE 0)
  BY AddDescriptorCount
<1>10. Len(AddDescriptor(regions, map[i])) \in Nat
  BY AddDescriptorType
<1> HIDE DEF cutBefore, cutNow, splitBefore, splitNow
<1> QED
  BY <1>2, <1>4, <1>5, <1>6, <1>7, <1>8, <1>9, <1>10

\* A slice with three slots to spare (the one of create_boot_info has four) is
\* large enough and neither assertion fails: construct_memory_map does not
\* panic.  It never writes past the end of any slice.
THEOREM SliceLargeEnough == Spec => []NoPanic
<1> DEFINE Inv == CountInv /\ NoPanic
<1>1. Init => Inv
  <2> SUFFICES ASSUME Init PROVE Inv
    OBVIOUS
  <2>1. Len(regions) = 0 /\ index = 0 /\ pc = "idle"
    BY Zenon DEF Init
  <2>2. Capacity \in Nat
    BY BootsAssumption DEF Init, WellFormed, map, Capacity
  <2> QED
    BY <2>1, <2>2 DEF CountInv, NoPanic, RegionBound
<1>2. TypeOK /\ MapInv /\ FirstInv /\ Inv /\ [Next]_vars => Inv'
  <2> SUFFICES ASSUME TypeOK, MapInv, FirstInv, CountInv, NoPanic, [Next]_vars PROVE Inv'
    OBVIOUS
  <2>1. /\ index \in 0..Len(map) /\ regions \in Seq(Region) /\ WellFormed(boot)
    BY Zenon DEF TypeOK
  <2>2. Len(map) \in Nat /\ boot.spare \in Nat /\ Capacity = Len(map) + boot.spare
    BY <2>1, SMTT(30) DEF WellFormed, map, Capacity
  <2>3. boot' = boot /\ map' = map /\ Capacity' = Capacity
    BY Zenon DEF Next, LoopStep, vars, Capacity, AllocateFromCurrent, LeaveCurrent, NoCurrent,
           ConstructMemoryMap, SkipDescriptor, AllocateFromNext, MissNext, Yield,
           ReturnNone, MapDescriptor, MapPanic, ReturnRegions, map
  <2>4. CASE AllocateFromCurrent \/ LeaveCurrent \/ NoCurrent \/ SkipDescriptor
             \/ AllocateFromNext \/ MissNext \/ ReturnNone
    <3>1. /\ pc \in {"idle", "search"} /\ UNCHANGED <<index, regions>>
          /\ pc' \in {"idle", "search"}
      BY <2>4, Zenon DEF AllocateFromCurrent, LeaveCurrent, NoCurrent, SkipDescriptor,
                  AllocateFromNext, MissNext, Yield, ReturnNone
    <3>2. index' = 0 /\ Len(regions') = 0
      BY <3>1, SMTT(30) DEF MapInv
    <3> QED
      BY <2>2, <2>3, <3>1, <3>2, SMTT(30) DEF CountInv, NoPanic, RegionBound
  <2>5. ASSUME UNCHANGED <<next_frame, index>>
        PROVE  RegionBound(index)' = RegionBound(index) /\ RegionBound(index + 1)' = RegionBound(index + 1)
    BY <2>3, <2>5, Zenon DEF RegionBound, IsCut, OverlapsKernel, RegionFor, KindFor, Overlaps,
                      next_free, StartOf
  <2>6. CASE MapDescriptor
    <3>1. /\ index + 1 \in 1..Len(map) /\ index' = index + 1 /\ next_frame' = next_frame
          /\ regions' = AddDescriptor(regions, map[index + 1]) /\ pc' = "map"
      BY <2>1, <2>2, <2>6 DEF MapDescriptor, allocatorVars
    <3>2. Len(regions') <= RegionBound(index + 1)
      BY <3>1, CountStep, SMTT(30)
    <3>3. CountInv'
      BY <2>3, <3>1, <3>2, Zenon
      DEF CountInv, RegionBound, IsCut, OverlapsKernel, RegionFor, KindFor, Overlaps,
          next_free, StartOf
    <3>4. Len(regions') <= Capacity
      <4>1. ~(Len(AddDescriptor(regions, map[index + 1])) > Capacity)
        BY <2>6 DEF MapDescriptor, MapPanics
      <4>2. Len(AddDescriptor(regions, map[index + 1])) \in Nat
        BY <3>1, AddDescriptorType
      <4> QED
        BY <2>2, <3>1, <4>1, <4>2, SMTT(30)
    <3> QED
      BY <2>3, <3>1, <3>3, <3>4 DEF NoPanic
  <2>7. CASE MapPanic
    <3>1. index + 1 \in 1..Len(map) /\ MapPanics(map[index + 1])
      BY <2>1, <2>2, <2>7 DEF MapPanic
    <3>2. OverlapsKernel(RegionFor(map[index + 1])) => KernelInside(RegionFor(map[index + 1]))
      BY <3>1, KernelFitsRegion
    <3>3. Len(AddDescriptor(regions, map[index + 1])) <= RegionBound(index + 1)
      BY <3>1, CountStep
    <3>4. RegionBound(index + 1) <= Len(map) + 3 /\ RegionBound(index + 1) \in Nat
      BY <2>1, <2>2, <3>1, SMTT(30) DEF RegionBound
    <3>5. Len(AddDescriptor(regions, map[index + 1])) \in Nat
      BY <3>1, AddDescriptorType
    <3>6. ~(boot.spare >= 3)
      BY <2>2, <3>1, <3>2, <3>3, <3>4, <3>5, SMTT(30) DEF MapPanics
    <3>7. UNCHANGED <<next_frame, index, regions>>
      BY <2>7 DEF MapPanic, allocatorVars
    <3> QED
      BY <2>3, <2>5, <3>6, <3>7 DEF CountInv, NoPanic
  <2>8. CASE ConstructMemoryMap \/ ReturnRegions \/ UNCHANGED vars
    <3>1. UNCHANGED <<next_frame, index, regions>> /\ (pc' = "panic" => pc = "panic")
      BY <2>8 DEF ConstructMemoryMap, ReturnRegions, vars, allocatorVars
    <3> QED
      BY <2>3, <2>5, <3>1 DEF CountInv, NoPanic
  <2> QED
    BY <2>4, <2>6, <2>7, <2>8 DEF Next, LoopStep
<1>3. Inv => NoPanic
  OBVIOUS
<1> QED
  BY <1>1, <1>2, <1>3, InitType, NextType, InitFirst, NextFirst, InitMap, NextMap, PTL DEF Spec

-----------------------------------------------------------------------------
\* The finished map describes the firmware's memory, all of it and no more.

Within(b, s) == s.start <= b /\ b < s.end

\* A byte lies in one of the first n elements of a map.
Held(b, s, n) == \E i \in 1..n : Within(b, s[i])

\* After `index` descriptors the regions hold the bytes of those descriptors.
CoverInv ==
  /\ \A b \in Nat : Held(b, regions, Len(regions)) <=> Held(b, map, index)
  /\ pc = "done" => index = Len(map)

\* add_region adds the bytes of the region, also when it leaves out an empty one.
LEMMA AddRegionHolds ==
  ASSUME NEW rs \in Seq(Region), NEW r \in Region, NEW b \in Nat
  PROVE  Held(b, AddRegion(rs, r), Len(AddRegion(rs, r)))
           <=> Held(b, rs, Len(rs)) \/ Within(b, r)
<1>1. r.start \in Nat /\ r.end \in Nat
  BY DEF Region
<1>2. CASE r.start = r.end
  <2>1. ~Within(b, r)
    BY <1>1, <1>2 DEF Within
  <2> QED
    BY <1>2, <2>1, Zenon DEF AddRegion
<1>3. CASE r.start # r.end
  <2> DEFINE new == Append(rs, r)
  <2>1. AddRegion(rs, r) = new
    BY <1>3 DEF AddRegion
  <2>2. /\ Len(new) = Len(rs) + 1 /\ Len(rs) \in Nat
        /\ \A q \in 1..Len(rs) : new[q] = rs[q]
        /\ new[Len(rs) + 1] = r
    OBVIOUS
  <2> HIDE DEF new
  <2>3. Held(b, new, Len(new)) <=> Held(b, rs, Len(rs)) \/ Within(b, r)
    <3>1. \A q \in 1..Len(new) : q \in 1..Len(rs) \/ q = Len(rs) + 1
      BY <2>2
    <3>2. Len(rs) + 1 \in 1..Len(new) /\ \A q \in 1..Len(rs) : q \in 1..Len(new)
      BY <2>2
    <3> QED
      BY <2>2, <3>1, <3>2, Zenon DEF Held
  <2> QED
    BY <2>1, <2>3
<1> QED
  BY <1>2, <1>3

\* Cutting a descriptor at next_free and around the kernel file loses no byte.
LEMMA AddDescriptorHolds ==
  ASSUME TypeOK, NEW i \in 1..Len(map), ~MapPanics(map[i]), NEW b \in Nat
  PROVE  Held(b, AddDescriptor(regions, map[i]), Len(AddDescriptor(regions, map[i])))
           <=> Held(b, regions, Len(regions)) \/ Within(b, map[i])
<1> DEFINE d == map[i]
           r == RegionFor(d)
           used == AddUsed(regions, d)
           H(rs) == Held(b, rs, Len(rs))
<1>1. /\ d.start \in Nat /\ d.end \in Nat /\ d.start < d.end
      /\ next_free \in Nat /\ regions \in Seq(Region)
      /\ boot.kernel.start \in Nat /\ boot.kernel.end \in Nat
      /\ boot.kernel.start < boot.kernel.end
  <2>1. WellFormed(boot) /\ regions \in Seq(Region)
    BY DEF TypeOK
  <2>2. /\ boot.kernel.start \in Nat /\ boot.kernel.end \in Nat
        /\ boot.kernel.start < boot.kernel.end
    BY <2>1 DEF WellFormed, Slice
  <2> QED
    BY <2>1, <2>2, DescriptorFrames, NewRegionTypes, Zenon
<1>2. /\ UsedRegion(d) \in Region /\ r \in Region /\ BeforeKernel(r) \in Region
      /\ KernelRegion \in Region /\ AfterKernel(r) \in Region
  BY NewRegionTypes
<1>3. r.end = d.end /\ r.start = (IF IsCut(d) THEN next_free ELSE d.start)
  BY Zenon DEF RegionFor
<1>4. used \in Seq(Region) /\ (H(used) \/ Within(b, r) <=> H(regions) \/ Within(b, d))
  <2>1. CASE IsCut(d)
    <3>1. used = AddRegion(regions, UsedRegion(d))
      BY <2>1 DEF AddUsed
    <3>2. /\ AddRegion(regions, UsedRegion(d)) \in Seq(Region)
          /\ H(AddRegion(regions, UsedRegion(d))) <=> H(regions) \/ Within(b, UsedRegion(d))
      BY <1>1, <1>2, AddRegionType, AddRegionHolds, Zenon
    <3>3. Within(b, UsedRegion(d)) \/ Within(b, r) <=> Within(b, d)
      <4>1. UsedRegion(d).start = d.start /\ UsedRegion(d).end = next_free
        BY DEF UsedRegion
      <4>2. d.start < next_free /\ next_free < d.end
        BY <2>1 DEF IsCut
      <4>3. r.start = next_free
        BY <1>3, <2>1
      <4> HIDE DEF d, r
      <4> QED
        BY <1>1, <1>3, <4>1, <4>2, <4>3 DEF Within
    <3> QED
      BY <3>1, <3>2, <3>3
  <2>2. CASE ~IsCut(d)
    <3>1. used = regions
      BY <2>2 DEF AddUsed
    <3>2. r.start = d.start
      BY <1>3, <2>2
    <3> QED
      BY <1>1, <1>3, <3>1, <3>2, Zenon DEF Within
  <2> QED
    BY <2>1, <2>2, Zenon
<1> HIDE DEF used
<1>5. CASE ~OverlapsKernel(r)
  <2>1. AddDescriptor(regions, d) = AddRegion(used, r)
    BY <1>5 DEF AddDescriptor, AddRest, used
  <2>2. H(AddRegion(used, r)) <=> H(used) \/ Within(b, r)
    BY <1>2, <1>4, AddRegionHolds, Zenon
  <2> QED
    BY <1>4, <2>1, <2>2
<1>6. CASE OverlapsKernel(r)
  <2> DEFINE one == AddRegion(used, BeforeKernel(r))
             two == AddRegion(one, KernelRegion)
             three == AddRegion(two, AfterKernel(r))
  <2>1. AddDescriptor(regions, d) = three
    BY <1>6, Zenon DEF AddDescriptor, AddRest, used
  <2>2. one \in Seq(Region) /\ (H(one) <=> H(used) \/ Within(b, BeforeKernel(r)))
    BY <1>2, <1>4, AddRegionType, AddRegionHolds, Zenon
  <2> HIDE DEF one
  <2>3. two \in Seq(Region) /\ (H(two) <=> H(one) \/ Within(b, KernelRegion))
    BY <1>2, <2>2, AddRegionType, AddRegionHolds, Zenon
  <2> HIDE DEF two
  <2>4. H(three) <=> H(two) \/ Within(b, AfterKernel(r))
    BY <1>2, <2>3, AddRegionHolds, Zenon
  <2> HIDE DEF three
  <2>5. Within(b, r) <=> \/ Within(b, BeforeKernel(r))
                         \/ Within(b, KernelRegion)
                         \/ Within(b, AfterKernel(r))
    <3>1. r.start <= boot.kernel.start /\ boot.kernel.end <= r.end
      BY <1>6, Zenon DEF MapPanics, KernelInside
    <3>2. /\ BeforeKernel(r).start = r.start /\ BeforeKernel(r).end = boot.kernel.start
          /\ KernelRegion.start = boot.kernel.start /\ KernelRegion.end = boot.kernel.end
          /\ AfterKernel(r).start = boot.kernel.end /\ AfterKernel(r).end = r.end
      BY DEF BeforeKernel, KernelRegion, AfterKernel
    <3>3. r.start \in Nat /\ r.end \in Nat
      BY <1>2 DEF Region
    <3> HIDE DEF r
    <3> QED
      BY <1>1, <3>1, <3>2, <3>3 DEF Within
  <2> QED
    BY <1>4, <2>1, <2>2, <2>3, <2>4, <2>5, Zenon
<1> QED
  BY <1>5, <1>6, Zenon

\* No step disturbs what the regions hold.
LEMMA NextCover == TypeOK /\ MapInv /\ CoverInv /\ [Next]_vars => CoverInv'
<1> SUFFICES ASSUME TypeOK, MapInv, CoverInv, [Next]_vars PROVE CoverInv'
  OBVIOUS
<1>1. WellFormed(boot) /\ index \in 0..Len(map) /\ Len(map) \in Nat
  BY BootFields DEF TypeOK
<1>2. boot' = boot /\ map' = map
  BY Zenon DEF Next, LoopStep, vars, AllocateFromCurrent, LeaveCurrent, NoCurrent,
         ConstructMemoryMap, SkipDescriptor, AllocateFromNext, MissNext, Yield,
         ReturnNone, MapDescriptor, MapPanic, ReturnRegions, map
<1>3. CASE MapDescriptor
  <2>1. /\ index + 1 \in 1..Len(map) /\ ~MapPanics(map[index + 1]) /\ index' = index + 1
        /\ regions' = AddDescriptor(regions, map[index + 1]) /\ pc' = "map"
    BY <1>1, <1>3 DEF MapDescriptor
  <2>2. ASSUME NEW b \in Nat
        PROVE  Held(b, regions', Len(regions')) <=> Held(b, map, index + 1)
    <3>1. Held(b, regions', Len(regions'))
            <=> Held(b, regions, Len(regions)) \/ Within(b, map[index + 1])
      BY <2>1, AddDescriptorHolds, Zenon
    <3>2. Held(b, regions, Len(regions)) <=> Held(b, map, index)
      BY Zenon DEF CoverInv
    <3>3. Held(b, map, index + 1) <=> Held(b, map, index) \/ Within(b, map[index + 1])
      <4>1. /\ \A j \in 1..(index + 1) : j \in 1..index \/ j = index + 1
            /\ \A j \in 1..index : j \in 1..(index + 1)
            /\ index + 1 \in 1..(index + 1)
        BY <1>1
      <4> QED
        BY <4>1, Zenon DEF Held
    <3> QED
      BY <3>1, <3>2, <3>3, Zenon
  <2> QED
    BY <1>2, <2>1, <2>2 DEF CoverInv
<1>4. CASE ReturnRegions
  BY <1>2, <1>4, Zenon DEF ReturnRegions, CoverInv
<1>5. CASE UNCHANGED <<index, regions>> /\ (pc' = "done" => pc = "done")
  BY <1>2, <1>5, Zenon DEF CoverInv
<1> QED
  BY <1>3, <1>4, <1>5
  DEF Next, LoopStep, vars, AllocateFromCurrent, LeaveCurrent, NoCurrent, ConstructMemoryMap,
      SkipDescriptor, AllocateFromNext, MissNext, Yield, ReturnNone, MapPanic

\* When construct_memory_map returns, its regions describe exactly the bytes of
\* the firmware's map, however the descriptors were cut.
THEOREM MemoryMapComplete == Spec => []RegionsCoverMap
<1>1. Init => CoverInv
  <2> SUFFICES ASSUME Init PROVE CoverInv
    OBVIOUS
  <2>1. Len(regions) = 0 /\ index = 0 /\ pc # "done"
    BY DEF Init
  <2> QED
    BY <2>1 DEF CoverInv, Held
<1>2. TypeOK /\ CoverInv => RegionsCoverMap
  <2> SUFFICES ASSUME TypeOK, CoverInv, pc = "done"
               PROVE  Bytes(regions) = Bytes(map)
    BY DEF RegionsCoverMap
  <2>1. \A b \in Nat : Held(b, regions, Len(regions)) <=> Held(b, map, Len(map))
    BY Zenon DEF CoverInv
  <2>2. ASSUME NEW s, \A i \in 1..Len(s) : s[i].start \in Nat /\ s[i].end \in Nat
        PROVE  Bytes(s) = {b \in Nat : Held(b, s, Len(s))}
    <3>1. ASSUME NEW i \in 1..Len(s), NEW b
          PROVE  b \in s[i].start .. (s[i].end - 1) <=> b \in Nat /\ Within(b, s[i])
      BY <2>2 DEF Within
    <3> QED
      BY <3>1, Zenon DEF Bytes, Held
  <2>3. \A i \in 1..Len(map) : map[i].start \in Nat /\ map[i].end \in Nat
    BY DescriptorFrames, Zenon DEF TypeOK
  <2>4. \A i \in 1..Len(regions) : regions[i].start \in Nat /\ regions[i].end \in Nat
    <3>1. \A i \in 1..Len(regions) : regions[i] \in Region
      BY DEF TypeOK
    <3> QED
      BY <3>1, Zenon DEF Region
  <2> QED
    BY <2>1, <2>2, <2>3, <2>4, Zenon
<1> QED
  BY <1>1, <1>2, InitType, NextType, InitMap, NextMap, NextCover, PTL DEF Spec

=============================================================================
