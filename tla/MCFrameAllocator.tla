-------------------------- MODULE MCFrameAllocator --------------------------
(***************************************************************************)
(* Small firmware hand-overs for FrameAllocator: physical memory below an  *)
(* end is cut into four pieces in every possible way, each piece is a      *)
(* descriptor of some type or a hole of the map.  UEFI pieces are whole    *)
(* pages, BIOS ones are byte-granular.                                     *)
(***************************************************************************)
EXTENDS FrameAllocator

CONSTANTS
  UefiEnd,    \* end of physical memory on a UEFI machine, 0 for no such machine
  BiosEnd     \* end of physical memory on a BIOS machine, 0 for no such machine

\* kind and usable_after_bootloader_exit of a descriptor, per firmware: memory
\* that is conventional, the loader's own, or reserved; BIOS has no second.
BiosConventional == [kind |-> "Usable", after |-> TRUE]
UefiConventional == [kind |-> "Usable", after |-> FALSE]
LoaderData == [kind |-> "Unknown", after |-> TRUE]
Reserved == [kind |-> "Unknown", after |-> FALSE]
Hole == [kind |-> "Hole", after |-> FALSE]

PageCuts == {a \in 0..UefiEnd : a % FrameSize = 0}

Cuttings(points, end) ==
  {<<0, c[1], c[2], c[3], end>> :
     c \in {t \in points \X points \X points :
              0 < t[1] /\ t[1] < t[2] /\ t[2] < t[3] /\ t[3] < end}}

IsDescriptor(p) == p.kind # "Hole"

MapOf(cut, types) ==
  SelectSeq([i \in 1..4 |-> [start |-> cut[i], end |-> cut[i + 1],
                             kind |-> types[i].kind, after |-> types[i].after]],
            IsDescriptor)

Maps(points, end, types) ==
  {MapOf(c, t) : c \in Cuttings(points, end), t \in [1..4 -> types \cup {Hole}]}

\* UEFI: the loader allocated pages for the kernel and behind it, in the same
\* descriptor if it has room, for the ramdisk; the kernel file need not fill
\* its last page.
RamdiskBehind(kernelEnd, d) ==
  LET page == ((kernelEnd + FrameSize - 1) \div FrameSize) * FrameSize
  IN [start |-> page, end |-> IF page < d.end THEN page + FrameSize ELSE page]

\* The slice of create_boot_info has 4 spare slots.  For two descriptors also
\* the least that suffices, and shorter ones.
Spares(m) == IF Len(m) = 2 THEN {0, 1, 3, 4} ELSE {4}

\* A map and the index of a descriptor of it that belongs to the loader
LoaderPlaces(maps) ==
  {p \in maps \X (1..4) : /\ p[2] <= Len(p[1])
                         /\ p[1][p[2]].kind # "Usable" /\ p[1][p[2]].after}

KernelsBelow(end) ==
  {k \in [start : PageCuts, end : 1..end] : k.start < k.end}

Uefi(end) ==
  LET maps == Maps(PageCuts, end, {UefiConventional, LoaderData, Reserved})
      choices == {c \in LoaderPlaces(maps) \X KernelsBelow(end) \X {0, 1, 3, 4} :
                    LET m == c[1][1]  d == m[c[1][2]]
                    IN  d.start <= c[2].start /\ c[2].end <= d.end /\ c[3] \in Spares(m)}
  IN  {[map |-> c[1][1], first |-> 1, kernel |-> c[2],
        ramdisk |-> RamdiskBehind(c[2].end, c[1][1][c[1][2]]), spare |-> c[3]] : c \in choices}

\* BIOS: kernel and ramdisk were loaded below the allocator's first frame.
Bios(end) ==
  {[map |-> m, first |-> f, kernel |-> [start |-> 1, end |-> FrameSize],
    ramdisk |-> [start |-> FrameSize, end |-> StartOf(f)], spare |-> 4] :
     m \in Maps(0..end, end, {BiosConventional, Reserved}), f \in 1..3}

HandOvers == Bios(BiosEnd) \cup Uefi(UefiEnd)

=============================================================================
