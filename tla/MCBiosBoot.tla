----------------------------- MODULE MCBiosBoot -----------------------------
(***************************************************************************)
(* A small machine for BiosBoot.  Sectors, pages and the second stage's    *)
(* chunks have a few bytes, a gigabyte has 16: memory ends below 4 GiB,    *)
(* between 4 and 10 GiB, or behind.                                        *)
(***************************************************************************)
EXTENDS BiosBoot

Bytes(data, len) == [data |-> data, len |-> len]

BuildWith(stage2_len) ==
  [stage2 |-> Bytes("stage 2", stage2_len), stage3 |-> Bytes("stage 3", 5),
   stage4 |-> Bytes("stage 4", 8), efi |-> Bytes("efi", 3)]

SmallBuilds == {BuildWith(len) : len \in {5, 24, 26}}

TwoVersions == {Bytes("v1", 4), Bytes("v2", 7)}

OneConfig == {Bytes("json", 2)}

OldOrNew == {<< >>, RamdiskName :> Bytes("old", 6)}

Ram(start, end) == [start |-> start, len |-> end - start, type |-> 1]
Rom(start, end) == [start |-> start, len |-> end - start, type |-> 2]

SmallMachines ==
  {<<Ram(0, 8), Rom(8, 12), Ram(12, 70)>>,
   <<Ram(30, 62), Rom(62, 66), Ram(0, 18), Ram(66, 66)>>,
   <<Rom(58, 61), Ram(0, 58), Ram(61, 68)>>,
   <<Ram(0, 56), Ram(168, 176)>>,
   <<Ram(0, 20)>>,
   <<Ram(5, 5)>>}

\* Two kernel files are alike
PathSymmetry == Permutations(Paths)

\* Once the machine is started, only the disk counts of what the builder knows
BootView ==
  IF stage1 = "off" THEN <<image_vars>>
  ELSE <<machine, stage2, build, disk, sector_vars, stage4_vars>>

=============================================================================
