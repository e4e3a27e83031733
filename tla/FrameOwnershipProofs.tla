------------------------ MODULE FrameOwnershipProofs ------------------------
(***************************************************************************)
(* The proof that FrameAllocator implements FrameOwnership, for every      *)
(* frame size and every well-formed firmware map.  A step that returns a   *)
(* frame is a Take, the return of construct_memory_map is the HandOver,    *)
(* every other step leaves the ownership of the frames as it is.           *)
(***************************************************************************)
EXTENDS FrameAllocatorProofs

\* What the steps of FrameOwnership rest on.
OwnershipInv == TypeOK /\ AllocationInv /\ MapInv /\ FirstInv

\* The frames of a region lie between those of its first and its last byte.
LEMMA RegionFrames ==
  ASSUME OwnershipInv, NEW r \in 1..Len(regions), NEW f \in FramesOf(regions, r)
  PROVE  /\ regions[r].start \in Nat /\ regions[r].end \in Nat /\ regions[r].end - 1 \in Nat
         /\ f \in Nat
         /\ FrameOf(regions[r].start) <= f /\ f <= FrameOf(regions[r].end - 1)
<1>1. regions \in Seq(Region) /\ regions[r].start < regions[r].end
  BY DEF OwnershipInv, TypeOK, MapInv, RegionsAscend
<1>2. regions[r] \in Region
  BY <1>1
<1>3. regions[r].start \in Nat /\ regions[r].end \in Nat /\ regions[r].end - 1 \in Nat
  BY <1>1, <1>2, SMTT(30) DEF Region
<1>4. FrameOf(regions[r].start) \in Nat /\ FrameOf(regions[r].end - 1) \in Nat
  BY <1>3, FrameContains, Zenon
<1> QED
  BY <1>3, <1>4 DEF FramesOf, FirstFrameOf, LastFrameOf

\* The frames of a region are frames of the descriptor it comes from.
LEMMA RegionWithinDescriptor ==
  ASSUME OwnershipInv, NEW r \in 1..Len(regions), NEW f \in FramesOf(regions, r),
         NEW j \in 1..Len(map),
         map[j].start <= regions[r].start, regions[r].end <= map[j].end
  PROVE  f \in FramesOf(map, j)
<1>1. /\ regions[r].start \in Nat /\ regions[r].end - 1 \in Nat /\ f \in Nat
      /\ FrameOf(regions[r].start) <= f /\ f <= FrameOf(regions[r].end - 1)
  BY RegionFrames
<1>2. map[j].start \in Nat /\ map[j].end \in Nat /\ map[j].start < map[j].end
  BY DescriptorFrames, Zenon DEF OwnershipInv, TypeOK
<1>3. regions[r].end \in Int
  BY RegionFrames
<1>4. regions[r].end - 1 <= map[j].end - 1 /\ map[j].end - 1 \in Nat
  BY <1>1, <1>2, <1>3, SMTT(30)
<1>5. /\ FrameOf(map[j].start) <= FrameOf(regions[r].start)
      /\ FrameOf(regions[r].end - 1) <= FrameOf(map[j].end - 1)
  BY <1>1, <1>2, <1>4, FrameOrder, Zenon
<1>6. /\ FrameOf(map[j].start) \in Nat /\ FrameOf(map[j].end - 1) \in Nat
      /\ FrameOf(regions[r].start) \in Nat /\ FrameOf(regions[r].end - 1) \in Nat
  BY <1>1, <1>2, <1>4, FrameContains, Zenon
<1> QED
  BY <1>1, <1>5, <1>6, SMTT(30) DEF FramesOf, FirstFrameOf, LastFrameOf

\* What a Usable region grants is usable or reclaimable and was not taken: it
\* lies behind every frame taken, or shares no frame with usable memory.
LEMMA GrantIsFree ==
  ASSUME OwnershipInv, NEW r \in 1..Len(regions), regions[r].kind = "Usable",
         NEW f \in FramesOf(regions, r)
  PROVE  f \in (AllocatableFrames(boot) \cup FreedFrames(boot)) \ Allocated
<1>1. /\ WellFormed(boot) /\ next_frame \in Nat /\ handed_out \in Seq(Nat)
      /\ memory_map \in 0..Len(map) /\ index \in 0..Len(map)
  BY DEF OwnershipInv, TypeOK
<1>2. Len(map) \in Nat /\ boot.first \in Nat
  BY <1>1, BootFields
<1>3. PICK j \in 1..index : RegionOrigin(regions[r], j)
  BY DEF OwnershipInv, MapInv
<1>4. j \in 1..Len(map)
  BY <1>1, <1>2
<1>5. f \in FramesOf(map, j)
  BY <1>3, <1>4, RegionWithinDescriptor DEF RegionOrigin
<1>6. CASE map[j].kind = "Usable" /\ next_free <= regions[r].start
  <2>1. /\ regions[r].start \in Nat /\ f \in Nat /\ FrameOf(regions[r].start) <= f
    BY RegionFrames
  <2>2. FrameOf(regions[r].start) \in Nat /\ next_frame <= FrameOf(regions[r].start)
    <3>1. /\ FrameOf(regions[r].start) \in Nat
          /\ regions[r].start < StartOf(FrameOf(regions[r].start) + 1)
      BY <2>1, FrameContains, Zenon
    <3>2. /\ FrameOf(regions[r].start) < next_frame =>
               StartOf(FrameOf(regions[r].start) + 1) <= StartOf(next_frame)
          /\ StartOf(next_frame) \in Nat
          /\ StartOf(FrameOf(regions[r].start) + 1) \in Nat
      <4>1. FrameOf(regions[r].start) + 1 \in Nat
        BY <3>1
      <4> QED
        BY <1>1, <3>1, <4>1, StartOrder, Zenon
    <3>3. ASSUME NEW a \in Nat, NEW b \in Nat, NEW c \in Nat, a < b, b <= c, c <= a
          PROVE  FALSE
      BY <3>3
    <3>4. ~(FrameOf(regions[r].start) < next_frame)
      BY <1>6, <2>1, <3>1, <3>2, <3>3, Zenon DEF next_free
    <3> QED
      BY <1>1, <3>1, <3>4
  <2>3. next_frame <= f
    <3>1. ASSUME NEW n \in Nat, NEW s \in Nat, NEW g \in Nat, n <= s, s <= g
          PROVE  n <= g
      BY <3>1
    <3> QED
      BY <1>1, <2>1, <2>2, <3>1
  <2>4. f >= boot.first
    BY <1>1, <1>2, <2>1, <2>3, SMTT(30) DEF OwnershipInv, FirstInv
  <2>5. f \in AllocatableFrames(boot)
    BY <1>4, <1>5, <1>6, <2>4 DEF AllocatableFrames, map
  <2>6. f \notin Allocated
    BY <1>1, <2>1, <2>3, SMTT(30) DEF Allocated, OwnershipInv, AllocationInv, FramesAscend
  <2> QED
    BY <2>5, <2>6
<1>7. CASE map[j].kind # "Usable" /\ map[j].after
  <2>1. f \in FreedFrames(boot)
    BY <1>4, <1>5, <1>7 DEF FreedFrames, map
  <2>2. ASSUME NEW i \in 1..Len(handed_out), handed_out[i] = f
        PROVE  FALSE
    <3>1. PICK k \in 1..memory_map : map[k].kind = "Usable" /\ Touches(map[k], f)
      BY <2>2 DEF OwnershipInv, AllocationInv
    <3>2. k \in 1..Len(map)
      BY <1>1, <1>2
    <3>3. \/ LastFrameOf(map[k]) < FirstFrameOf(map[j])
          \/ LastFrameOf(map[j]) < FirstFrameOf(map[k])
      BY <1>1, <1>4, <1>7, <3>1, <3>2, Zenon DEF WellFormed, map
    <3>4. /\ FirstFrameOf(map[j]) \in Nat /\ LastFrameOf(map[j]) \in Nat
          /\ FirstFrameOf(map[k]) \in Nat /\ LastFrameOf(map[k]) \in Nat
      BY <1>1, <1>4, <3>2, DescriptorFrames
    <3> QED
      BY <1>5, <3>1, <3>3, <3>4, SMTT(30) DEF FramesOf, Touches
  <2> QED
    BY <2>1, <2>2 DEF Allocated
<1> QED
  BY <1>3, <1>6, <1>7 DEF RegionOrigin

\* A frame returned by allocate_frame is a usable one that nobody has taken.
LEMMA ReturnedIsFree ==
  ASSUME OwnershipInv, NEW i \in 1..Len(map), map[i].kind = "Usable", HasFrame(map[i])
  PROVE  RaisedFrame(map[i]) \in AllocatableFrames(boot) \ Allocated
<1> DEFINE f == RaisedFrame(map[i])
<1>1. WellFormed(boot) /\ next_frame \in Nat /\ handed_out \in Seq(Nat)
  BY Zenon DEF OwnershipInv, TypeOK
<1>2. FirstFrameOf(map[i]) \in Nat /\ LastFrameOf(map[i]) \in Nat /\ boot.first \in Nat
  BY <1>1, DescriptorFrames DEF WellFormed
<1>3. f \in Nat /\ next_frame <= f /\ FirstFrameOf(map[i]) <= f /\ f <= LastFrameOf(map[i])
  BY <1>1, <1>2 DEF RaisedFrame, HasFrame
<1>4. f >= boot.first
  BY <1>1, <1>2, <1>3, SMTT(30) DEF OwnershipInv, FirstInv
<1>5. f \in FramesOf(map, i)
  BY <1>2, <1>3 DEF FramesOf
<1>6. f \notin Allocated
  BY <1>1, <1>3, SMTT(30) DEF Allocated, OwnershipInv, AllocationInv, FramesAscend
<1> HIDE DEF f
<1>7. f \in AllocatableFrames(boot)
  BY <1>4, <1>5 DEF AllocatableFrames, map
<1> QED
  BY <1>6, <1>7 DEF f

\* Appending a frame to the history adds it to the frames taken.
LEMMA AppendTakes ==
  ASSUME handed_out \in Seq(Nat), NEW f \in Nat, handed_out' = Append(handed_out, f)
  PROVE  Allocated' = Allocated \cup {f}
<1>1. /\ Len(handed_out') = Len(handed_out) + 1 /\ Len(handed_out) \in Nat
      /\ \A i \in 1..Len(handed_out) : handed_out'[i] = handed_out[i]
      /\ handed_out'[Len(handed_out) + 1] = f
  OBVIOUS
<1> DEFINE n == Len(handed_out)
<1> HIDE DEF n
<1>2. /\ n \in Nat /\ Len(handed_out') = n + 1 /\ handed_out'[n + 1] = f
      /\ \A i \in 1..n : handed_out'[i] = handed_out[i]
  BY <1>1 DEF n
<1>3. Allocated = {handed_out[i] : i \in 1..n} /\ Allocated' = {handed_out'[i] : i \in 1..(n + 1)}
  BY <1>2 DEF Allocated, n
<1>4. 1..(n + 1) = (1..n) \cup {n + 1}
  BY <1>2
<1>5. ASSUME NEW x \in Allocated'
      PROVE  x \in Allocated \cup {f}
  <2>1. PICK i \in (1..n) \cup {n + 1} : x = handed_out'[i]
    BY <1>3, <1>4, Zenon
  <2>2. CASE i \in 1..n
    BY <1>2, <1>3, <2>1, <2>2
  <2>3. CASE i = n + 1
    BY <1>2, <2>1, <2>3
  <2> QED
    BY <2>2, <2>3
<1>6. ASSUME NEW x \in Allocated
      PROVE  x \in Allocated'
  <2>1. PICK i \in 1..n : x = handed_out[i]
    BY <1>3
  <2> QED
    BY <1>2, <1>3, <1>4, <2>1
<1>7. f \in Allocated'
  BY <1>2, <1>3, <1>4
<1> QED
  BY <1>5, <1>6, <1>7, Zenon

\* A step that returns a frame takes it.
LEMMA ReturnIsTake ==
  ASSUME OwnershipInv, NEW i \in 1..Len(map), map[i].kind = "Usable", TakeFrame(map[i]),
         pc # "done", pc' # "done", boot' = boot
  PROVE  Ownership!Next
<1> DEFINE f == RaisedFrame(map[i])
<1>1. handed_out \in Seq(Nat) /\ f \in Nat
  BY RaisedFrameType DEF OwnershipInv, TypeOK
<1>2. f \in AllocatableFrames(boot) \ Allocated
  BY ReturnedIsFree DEF TakeFrame
<1>3. Allocated' = Allocated \cup {f}
  BY <1>1, AppendTakes, Zenon DEF TakeFrame
<1>4. AllocatableFrames(boot)' = AllocatableFrames(boot) /\ FreedFrames(boot)' = FreedFrames(boot)
  BY DEF AllocatableFrames, FreedFrames
<1>5. GrantedFrames' = GrantedFrames
  BY DEF GrantedFrames
<1> HIDE DEF f
<1>6. Ownership!Take(f)
  BY <1>2, <1>3, <1>4, <1>5 DEF Ownership!Take
<1> QED
  BY <1>2, <1>6 DEF Ownership!Next

\* Every step of the allocator and of construct_memory_map is a step of
\* FrameOwnership or leaves its variables as they are.
LEMMA StepRefines == OwnershipInv /\ [Next]_vars => [Ownership!Next]_(Ownership!vars)
<1> SUFFICES ASSUME OwnershipInv, [Next]_vars PROVE [Ownership!Next]_(Ownership!vars)
  OBVIOUS
<1>1. /\ memory_map \in 0..Len(map) /\ current_descriptor \in 0..Len(map)
      /\ WellFormed(boot)
  BY DEF OwnershipInv, TypeOK
<1>2. Len(map) \in Nat
  BY <1>1, BootFields
<1>3. CASE AllocateFromCurrent
  <2>1. /\ current_descriptor \in 1..Len(map) /\ map[current_descriptor].kind = "Usable"
        /\ TakeFrame(map[current_descriptor])
        /\ pc # "done" /\ pc' # "done" /\ boot' = boot
    BY <1>1, <1>2, <1>3 DEF AllocateFromCurrent, OwnershipInv, AllocationInv, NoDescriptor
  <2> QED
    BY <2>1, ReturnIsTake
<1>4. CASE AllocateFromNext
  <2>1. /\ memory_map + 1 \in 1..Len(map) /\ map[memory_map + 1].kind = "Usable"
        /\ TakeFrame(map[memory_map + 1])
        /\ pc # "done" /\ pc' # "done" /\ boot' = boot
    BY <1>1, <1>2, <1>4 DEF AllocateFromNext, Yield, map
  <2> QED
    BY <2>1, ReturnIsTake
<1>5. CASE ReturnRegions
  <2>1. /\ pc = "map" /\ pc' = "done" /\ boot' = boot /\ handed_out' = handed_out
        /\ regions' = regions
    BY <1>5 DEF ReturnRegions, allocatorVars
  <2>2. GrantedFrames' =
          UNION {FramesOf(regions, r) : r \in {q \in 1..Len(regions) : regions[q].kind = "Usable"}}
    BY <2>1 DEF GrantedFrames, FramesOf
  <2>3. GrantedFrames' \subseteq (AllocatableFrames(boot) \cup FreedFrames(boot)) \ Allocated
    BY <2>2, GrantIsFree
  <2>4. /\ AllocatableFrames(boot)' = AllocatableFrames(boot)
        /\ FreedFrames(boot)' = FreedFrames(boot)
        /\ Allocated' = Allocated
    BY <2>1 DEF AllocatableFrames, FreedFrames, Allocated
  <2>5. Ownership!HandOver
    BY <2>1, <2>3, <2>4 DEF Ownership!HandOver
  <2> QED
    BY <2>5 DEF Ownership!Next
<1>6. CASE /\ boot' = boot /\ handed_out' = handed_out
           /\ \/ pc # "done" /\ pc' # "done"
              \/ pc' = pc /\ regions' = regions
  <2>1. /\ AllocatableFrames(boot)' = AllocatableFrames(boot)
        /\ FreedFrames(boot)' = FreedFrames(boot)
        /\ Allocated' = Allocated
    BY <1>6 DEF AllocatableFrames, FreedFrames, Allocated
  <2>2. GrantedFrames' = GrantedFrames
    BY <1>6, Zenon DEF GrantedFrames, FramesOf
  <2> QED
    BY <1>6, <2>1, <2>2 DEF Ownership!vars
<1>7. CASE LeaveCurrent \/ NoCurrent \/ ConstructMemoryMap \/ SkipDescriptor \/ MissNext
           \/ ReturnNone \/ MapDescriptor \/ MapPanic
  <2>1. boot' = boot /\ handed_out' = handed_out /\ pc # "done" /\ pc' # "done"
    BY <1>7 DEF LeaveCurrent, NoCurrent, ConstructMemoryMap, SkipDescriptor, MissNext, Yield,
                MissFrame, ReturnNone, MapDescriptor, MapPanic, allocatorVars
  <2> QED
    BY <1>6, <2>1
<1>8. CASE UNCHANGED vars
  BY <1>6, <1>8 DEF vars
<1> QED
  BY <1>3, <1>4, <1>5, <1>7, <1>8 DEF Next, LoopStep

\* allocate_frame and construct_memory_map give every frame at most one owner:
\* whatever the firmware's map, the frames taken are usable ones that were free,
\* and the kernel is granted only frames that the bootloader did not take.
THEOREM AllocatorImplementsOwnership == Spec => ImplementsOwnership
<1>1. Init => Ownership!Init
  BY DEF Init, Ownership!Init, Allocated, GrantedFrames
<1>2. Spec => []FirstInv
  <2>1. FirstInv /\ TypeOK /\ [Next]_vars => FirstInv'
    BY NextFirst
  <2> QED
    BY <2>1, InitFirst, TypeCorrect, PTL DEF Spec
<1>3. Spec => []OwnershipInv
  BY <1>2, TypeCorrect, AllocationCorrect, MapCorrect, PTL DEF OwnershipInv
<1> QED
  BY <1>1, <1>3, StepRefines, PTL DEF Spec, ImplementsOwnership, Ownership!Spec

=============================================================================
