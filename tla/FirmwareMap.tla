---------------------------- MODULE FirmwareMap -----------------------------
(***************************************************************************)
(* Frames, the firmware's memory map and what the frame allocator is       *)
(* handed over by its callers (common/src/legacy_memory_region.rs,         *)
(* uefi/src/main.rs, bios/stage-4/src/main.rs).                            *)
(***************************************************************************)
EXTENDS Integers, Sequences

CONSTANT FrameSize     \* bytes in a frame

\* `after` is usable_after_bootloader_exit; start + len is `end`.
Descriptor == [start : Nat, end : Nat, kind : {"Usable", "Unknown"}, after : BOOLEAN]

Slice == [start : Nat, end : Nat]

-----------------------------------------------------------------------------
\* Frames and addresses.

FrameOf(addr) == addr \div FrameSize        \* PhysFrame::containing_address

StartOf(frame) == frame * FrameSize         \* PhysFrame::start_address

FirstFrameOf(d) == FrameOf(d.start)

LastFrameOf(d) == FrameOf(d.end - 1)

Touches(d, frame) == FirstFrameOf(d) <= frame /\ frame <= LastFrameOf(d)

Overlaps(a, b) == a.start < b.end /\ b.start < a.end

FrameSlice(frame) == [start |-> StartOf(frame), end |-> StartOf(frame + 1)]

FramesOf(s, i) == FirstFrameOf(s[i])..LastFrameOf(s[i])

-----------------------------------------------------------------------------
(***************************************************************************)
(* What the callers hand over.  Both sort the map by start address         *)
(* (uefi/src/main.rs, stage-4) and neither passes an empty descriptor (the *)
(* E820 query drops them).  Firmware maps are taken to be free of          *)
(* overlaps, and memory that is usable only after the bootloader's exit    *)
(* shares no frame with usable memory: UEFI descriptors consist of whole   *)
(* pages and BIOS has no such memory.  The kernel file was loaded either   *)
(* below the first frame the allocator may use (BIOS, where no memory      *)
(* becomes usable later) or into one descriptor that is not usable yet     *)
(* (UEFI).  `spare` counts the slots that create_boot_info's region slice  *)
(* has beyond one per descriptor.                                          *)
(***************************************************************************)
WellFormed(b) ==
  /\ b.map \in Seq(Descriptor)
  /\ b.first \in Nat \ {0}
  /\ b.kernel \in Slice
  /\ b.ramdisk \in Slice
  /\ b.spare \in Nat
  /\ b.kernel.start < b.kernel.end
  /\ \A i \in 1..Len(b.map) : b.map[i].start < b.map[i].end
  /\ \A i, j \in 1..Len(b.map) : i < j => b.map[i].end <= b.map[j].start
  /\ \A i, j \in 1..Len(b.map) :
       /\ b.map[i].kind = "Usable"
       /\ b.map[j].kind # "Usable" /\ b.map[j].after
       => \/ LastFrameOf(b.map[i]) < FirstFrameOf(b.map[j])
          \/ LastFrameOf(b.map[j]) < FirstFrameOf(b.map[i])
  /\ \/ /\ b.kernel.end <= StartOf(b.first)
        /\ \A i \in 1..Len(b.map) : b.map[i].kind # "Usable" => ~b.map[i].after
     \/ \E i \in 1..Len(b.map) : /\ b.map[i].kind # "Usable"
                                 /\ b.map[i].start <= b.kernel.start
                                 /\ b.kernel.end <= b.map[i].end

\* The frames the allocator may take: those that usable memory touches, from the
\* first one on
AllocatableFrames(b) ==
  {f \in UNION {FramesOf(b.map, i) : i \in {j \in 1..Len(b.map) : b.map[j].kind = "Usable"}} :
     f >= b.first}

\* The frames of memory that becomes usable when the bootloader exits
FreedFrames(b) ==
  UNION {FramesOf(b.map, i) : i \in {j \in 1..Len(b.map) : b.map[j].kind # "Usable" /\ b.map[j].after}}

=============================================================================
