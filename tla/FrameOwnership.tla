--------------------------- MODULE FrameOwnership ---------------------------
(***************************************************************************)
(* What a kernel may rely on: who owns which physical frame.  Until the    *)
(* hand-over the bootloader takes usable frames, each at most once; the    *)
(* hand-over then grants the kernel a set of frames, none of which the     *)
(* bootloader took, and nothing changes any more.  FrameAllocator is shown *)
(* to implement this specification.                                        *)
(***************************************************************************)

VARIABLES
  usable,       \* frames of memory that is usable while the bootloader runs
  reclaimable,  \* frames of memory that is usable once it has exited
  taken,        \* frames the bootloader has taken
  granted,      \* frames the memory map offers to the kernel
  phase         \* "boot", then "kernel"

vars == <<usable, reclaimable, taken, granted, phase>>

Init ==
  /\ taken = {}
  /\ granted = {}
  /\ phase = "boot"

\* The bootloader takes a usable frame that it does not have yet.
Take(f) ==
  /\ phase = "boot"
  /\ f \in usable \ taken
  /\ taken' = taken \cup {f}
  /\ UNCHANGED <<usable, reclaimable, granted, phase>>

\* The kernel is started and may use what the bootloader leaves it.
HandOver ==
  /\ phase = "boot"
  /\ granted' \subseteq (usable \cup reclaimable) \ taken
  /\ phase' = "kernel"
  /\ UNCHANGED <<usable, reclaimable, taken>>

Next == HandOver \/ \E f \in usable : Take(f)

Spec == Init /\ [][Next]_vars

=============================================================================
