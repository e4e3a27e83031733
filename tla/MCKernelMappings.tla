-------------------------- MODULE MCKernelMappings --------------------------
(***************************************************************************)
(* Small boots for KernelMappings: pages of two bytes, level 4 entries of  *)
(* four pages, large pages of two.                                         *)
(***************************************************************************)
EXTENDS KernelMappings

\* two segments linked into the second entry; position independent ones that
\* need two entries
Linked == <<[start |-> 8, end |-> 11], [start |-> 12, end |-> 15]>>
Relocatable == <<[start |-> 2, end |-> 5], [start |-> 6, end |-> 11]>>

BootWith(aslr, pie, stack, fb, fb_offset, ramdisk, physical, recursive, info, range, sizes) ==
  [aslr |-> aslr, pie |-> pie,
   segments |-> IF pie THEN Relocatable ELSE Linked,
   mapping |-> [o \in Objects |->
                  CASE o = "stack" -> stack
                    [] o = "framebuffer" -> fb
                    [] o = "ramdisk" -> ramdisk
                    [] o = "physical" -> physical
                    [] o = "boot_info" -> info],
   size |-> sizes, info_marked |-> 2, fb_addr |-> 70 + fb_offset, ramdisk_addr |-> 36,
   recursive |-> recursive, range_start |-> range[1], range_end |-> range[2],
   code |-> 1, gdt |-> 3, own |-> PagesPerEntry]

Sizes(stack, physical) ==
  [o \in Objects |-> CASE o = "stack" -> stack
                       [] o = "physical" -> physical
                       [] o = "framebuffer" -> 5
                       [] OTHER -> 3]

\* Without ASLR: fixed and dynamic mappings in all combinations, fixed ones
\* that overlap, that are misaligned or that share an entry among them.
Ordered ==
  {BootWith(FALSE, pie, stack, fb, off, ramdisk, physical, recursive, info, range, Sizes(3, 6)) :
     pie \in BOOLEAN, stack \in {Dynamic, 16, 21, 26}, fb \in {Absent, Dynamic, 18},
     off \in {0, 1}, ramdisk \in {Absent, Dynamic, 20}, physical \in {Absent, Dynamic, 40},
     recursive \in {Absent, Dynamic, 48, 17}, info \in {Dynamic, 1, 29},
     range \in {<<Absent, Absent>>, <<12, 54>>, <<16, 47>>}}

\* With ASLR
Randomised ==
  {BootWith(TRUE, pie, stack, fb, 1, Absent, physical, recursive, Dynamic, range, Sizes(1, 3)) :
     pie \in BOOLEAN, stack \in {Dynamic, 20}, fb \in {Absent, 18},
     physical \in {Absent, Dynamic},
     recursive \in {Absent, Dynamic}, range \in {<<Absent, Absent>>, <<12, 54>>}}

\* The boots within what UsedLevel4Entries accounts for
Sound == {b \in Ordered \cup Randomised : Accounted(b) /\ Placeable(b)}

\* A fixed ramdisk, everything else dynamic
FixedRamdisk ==
  {BootWith(FALSE, FALSE, Dynamic, Absent, 0, r, Absent, Absent, Dynamic, <<Absent, Absent>>,
            Sizes(3, 6)) : r \in 16..31}

=============================================================================
