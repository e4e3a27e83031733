----------------------------- MODULE BiosLayout -----------------------------
(***************************************************************************)
(* Where the BIOS second stage puts the files it loads and what it reports *)
(* of them (bios/stage-2/src/main.rs, BiosInfo).  Stage2 loads them,       *)
(* Stage2Contract promises them and stage 4 relies on them.                *)
(***************************************************************************)
EXTENDS Integers, Sequences

CONSTANTS
  PageSize,                          \* bytes in a page
  Stage3Dst, Stage4Dst, KernelDst    \* load addresses

Names == <<"boot-stage-3", "boot-stage-4", "kernel-x86_64", "ramdisk", "boot.json">>

Stage3 == 1
Stage4 == 2
Kernel == 3
Ramdisk == 4
Config == 5
Files == 1..5

Optional == {Ramdisk, Config}

ASSUME LayoutAssumption ==
  /\ PageSize \in Nat \ {0}
  /\ Stage3Dst \in Nat \ {0} /\ Stage4Dst \in Nat /\ KernelDst \in Nat
  /\ Stage3Dst < Stage4Dst /\ Stage4Dst < KernelDst
  /\ KernelDst % PageSize = 0

PagesFor(len) == (len - 1) \div PageSize + 1

\* Plausible fault: the ramdisk starts right behind the kernel's last page
\* counted from zero.
RamdiskStartEarly(kernel_len) == KernelDst + ((kernel_len - 1) \div PageSize) * PageSize

RamdiskStart(kernel_len) == KernelDst + PagesFor(kernel_len) * PageSize

\* The address of a file, given the lengths of those before it
Dst(f, lens) ==
  CASE f = Stage3 -> Stage3Dst
    [] f = Stage4 -> Stage4Dst
    [] f = Kernel -> KernelDst
    [] f = Ramdisk -> RamdiskStart(lens[Kernel])
    [] f = Config -> RamdiskStart(lens[Kernel]) + lens[Ramdisk]

LastUsedAddr(lens) == Dst(Config, lens) + lens[Config] - 1

\* The part of BiosInfo that describes the files
FileInfo(lens) ==
  [f \in Files |-> [start |-> Dst(f, lens), len |-> lens[f]]]

BiosInfo(lens, entries) ==
  [files |-> FileInfo(lens), last_used_addr |-> LastUsedAddr(lens), memory_map |-> entries]

=============================================================================
