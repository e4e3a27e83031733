# A TLA+ model of the bootloader

The bootloader takes an x86-64 machine from its firmware, BIOS or UEFI, to the
entry point of a 64-bit kernel. This directory models the way from the host tool
that writes a disk image to the kernel's first instruction: what lies where in
memory, who may use it and what the kernel is told about it. TLC checks the models
on small instances; TLAPS proves the safety properties of the frame allocator, the
kernel's address space, the ELF loader, the boot sector, the hand-over of stage 4,
the UEFI loader with the kernel's configuration section, and the framebuffer logger
for all instances.

## The system

| Part | Source | Model | Proofs |
| --- | --- | --- | --- |
| frame allocator, kernel memory map | `common/src/legacy_memory_region.rs` | `FirmwareMap`, `FrameAllocator`, `FrameOwnership` | `FrameAllocatorProofs`, `FrameOwnershipProofs` |
| level 4 entry allocator | `common/src/level_4_entries.rs` | `Level4Entries` | `KernelMappingsProofs` |
| kernel address space, boot info, jump | `common/src/lib.rs` | `KernelMappings` | `KernelMappingsProofs` |
| kernel ELF loader | `common/src/load_kernel.rs` | `KernelLoader` | `KernelLoaderProofs` |
| disk image builder | `src/*.rs` | `DiskImage`, `PartitionTable` | |
| BIOS boot sector | `bios/boot_sector` | `BootSector`, `PartitionTable` | `BootSectorProofs` |
| BIOS stage 2 | `bios/stage-2/src/*.rs` | `FatVolume`, `Stage2`, `BiosLayout`, `Stage2Contract` | |
| BIOS stages 3 and 4 | `bios/stage-3`, `bios/stage-4` | `FourthStage` | `FourthStageProofs` |
| the BIOS boot as a whole | | `BiosBoot` | |
| UEFI loader | `uefi/src/main.rs` | `UefiBoot` | `UefiBootProofs` |
| kernel configuration section | `api/src/config.rs` | `BootloaderConfig` | `UefiBootProofs` |
| boot configuration file | `common/config/src/lib.rs` | in `UefiBoot` | |
| logger, framebuffer text, panic handlers | `common/src/{logger,framebuffer}.rs` | `Console` | `ConsoleProofs` |

On BIOS machines the boot sector loads stage 2, which loads all files, asks the
BIOS for the memory map and a video mode and passes a `BiosInfo` through stage 3
to stage 4. On UEFI machines one program does the corresponding work with boot
services. Both end in `load_and_switch_to_kernel`: a frame allocator over the
firmware's memory map serves the ELF loader and the set-up of the kernel's
address space, and is finally turned into the memory map of the boot info.

## Modules

**FirmwareMap** has frames, descriptors and `WellFormed`, what the callers hand
over to the allocator.

**FrameAllocator.** State: the allocator's fields (`memory_map`, the position of
the iterator, `current_descriptor`, `next_frame`), the regions written so far,
and as history the frames handed out. `AllocateFromCurrent`, `LeaveCurrent` and
`NoCurrent` are the beginning of `allocate_frame`; `SkipDescriptor`,
`AllocateFromNext`, `MissNext` and `ReturnNone` its loop;
`ConstructMemoryMap`, `MapDescriptor`, `MapPanic` and `ReturnRegions` are
`construct_memory_map`. One iteration of a loop is one step. `WellFormed` says
what the callers hand over: a sorted map of non-empty descriptors that do not
overlap, and a kernel file that lies below the first frame (BIOS) or inside one
descriptor that is not usable yet (UEFI).

**FrameOwnership** is the abstract specification: frames are taken once, then
the kernel is granted frames that were not taken. `FrameAllocator` implements it
under the mapping at the end of that module.

**Level4Entries** and **KernelMappings.** `UsedLevel4Entries` as a set of used
entries; addresses found by ASLR are a nondeterministic choice among all the code
could draw. `KernelMappings` maps kernel, stack, identity mapped code and GDT,
framebuffer, ramdisk, physical memory, recursive entry and boot info in the order
of the code, one step each, with the panics for misalignment, lack of entries,
lack of frames and pages that are already mapped. A page table entry is reduced
to what the page is mapped for and its frame. `WriteBootInfo` and
`SwitchToKernel` are the end of `create_boot_info` and the context switch.

**KernelLoader.** The page table, the contents of frames as symbolic bytes (a
byte of the file, of a relocated word, zero, junk) and the loader's position. One
step per page mapped, zeroed or relocated.

**FatVolume** and **Stage2.** `FatVolume` has the arithmetic of `fat.rs` and
`disk.rs` as operators, beside the layout of a FAT volume on disk as external
definitions. `Stage2` runs `start`: directory lookup, cluster chain, reads through
the shared buffer, placement of the five files, E820 and VESA loops. A byte of
memory is the position on the disk it came from. `read_root_dir` looks at the whole
buffer, which is larger than most directories and shared with the files' data:
`elsewhere` is what the bytes of a data sector look like as directory entries, and may
be any entry, the end of the directory, one with the name of a file, one that `parse`
refuses or one on which `slice_to_string` panics.

**BiosLayout** and **Stage2Contract.** `BiosLayout` is where the second stage puts
files and the `BiosInfo` it makes of them. `Stage2Contract` is what those that come
after it may rely on, in three actions: it hands over a true `BiosInfo` of a disk it
supports, it stops on a BIOS or disk it does not, and nothing is said of what it
does with the rest. `Stage2` implements it (`ImplementsContract`).

**DiskImage.** The builder's map of files, and the three calls that write an image,
file by file. The host's files may change or vanish between any two steps
(`HostChanges`), and every operation may fail (`Fails`, `WriteDiskFails`). A content
is a name and a length. `Fits` is what is assumed of the `fatfs` crate.

**BootSector.** `first_stage`: one step per chunk of sectors, with the segment and
offset the BIOS call gets.

**FourthStage.** Stage 3's identity mapping and `_start` of stage 4, one step per
part of it. The frame allocator is the one of `FrameOwnership`: what is taken and
granted is any choice that specification allows, which covers what
`FrameAllocator` does because that implements it.

**BiosBoot** composes `DiskImage`, `BootSector`, `Stage2Contract` and `FourthStage`:
`PowerOn` gives the boot sector the partition table of the written disk, `Given`
tells the second stage's contract what is on that disk, and its `BiosInfo` is what
stage 3 and 4 get.

**BootloaderConfig** and **UefiBoot.** `serialize` and `deserialize` over a list
of typed fields, and `main_inner` of the UEFI program. The firmware is a record
of what its protocols would answer. `Concat` is the chain of generated `concat_`
functions, `Before` the position deserialize has reached before a field; both are
recursive functions. `IsConfig` is what the types of Rust allow a configuration to
be.

**Console.** `LockedLogger` with the cursor of `FrameBufferWriter`, the writer's
lock and the panic handler. One step per character; a panic may come from the boot
code, from the pixel format or from an index, the latter two inside the logger.

The `MC*` modules define the instances for TLC. Definitions marked "Plausible
fault" are variants of the definition below them that contain a likely mistake;
they show that a property would notice it and are used by no specification.

## What is checked

| Run | Shows |
| --- | --- |
| `frames` | frames are handed out once and in order; the kernel's map ascends, covers exactly the firmware's map and offers neither allocated frames nor the kernel file; no usable frame is skipped; no panic with `len + 4` slots; both loops end; `FrameOwnership` is implemented |
| `mappings` | a dynamic mapping collides with nothing, every mapped page is in a used entry, the guard page stays unmapped, dynamic mappings keep to the dynamic range; at the kernel's entry the boot info is true in its page table and the stack pointer is on the stack |
| `loader` | a well formed kernel sees its image and permissions, the file is never written, no physical byte is seen at two addresses |
| `stage2` | files are loaded byte for byte and stay intact; E820 and VESA loops return the right entries; the stage ends; `Stage2Contract` is implemented |
| `uefi` | files come from one source, the kernel's configuration is restored, a section that is accepted is the one `serialize` writes for the configuration read from it, the minimum resolution is met if possible, panics are reported |
| `console` | characters stay on the screen; a panic at any moment is reported in full on every enabled output and ends with a halted processor |
| `bios` | an image reported as written holds every file whole; the boot sector loads the whole second stage, which finds the FAT volume; stage 4's hand-over is `WellFormed`; no frame taken or granted holds a loaded file; frames taken below 10 GiB are identity mapped; the kernel is told of the files of the image |

Five runs show a disagreement between code and a comment, document or assertion:

- `frames_ramdisk`: the UEFI ramdisk is reported as usable memory
  (`api/src/info.rs:27`).
- `mappings_fixed_ramdisk`: a fixed ramdisk address is not marked as used
  (`level_4_entries.rs:30`).
- `stage2_large_volume`: a FAT16 volume of 65536 sectors or more is taken for
  FAT32, against the assertion in `fat.rs:82`.
- `stage2_tmp_buf`: an unaligned `read_exact` transfers three sectors into a
  two-sector buffer, in spite of the assertion in `disk.rs:18`.
- `uefi_rsdp`: ACPI 1 tables are never found (`uefi/src/main.rs:162`).

Observations that no run is devoted to:

- The document comment of `construct_memory_map` asks for a slice of `len` plus 1
  (`legacy_memory_region.rs:106`), which is too short for a map that is cut at
  `next_free` and around the kernel. `len` plus 3 is always enough
  (`SliceLargeEnough`); the caller provides `len` plus 4.
- On a BIOS map whose descriptors do not consist of whole frames the allocator
  rounds usable ones outwards, so a frame may hold bytes of a reserved neighbour.
- The offset of a framebuffer within its first frame is not part of the address in
  the boot info (`lib.rs:290`); `BootInfoTrue` is stated for one that starts a page.
  A configured stack of less than 16 bytes has its first word on the guard page.
- A root directory that is full and smaller than the buffer has no end mark, and
  `read_root_dir` (`bios/stage-2/src/fat.rs:222`) goes on to what an earlier read left
  behind it: file data may end the search, match a name or panic there. The
  contract of stage 2 excludes such volumes (`Terminated`). The image builder
  does not write them: the directories `fatfs` makes have 512 entries unless asked
  otherwise, which fill the buffer. The `stage2` run has four of them, of which nothing is required.
- Stage 4 caps `max_phys_addr` at 4 GiB, so its own identity mapping loop never
  runs, and frames above 10 GiB are taken but not mapped if nothing below is left,
  although `bios/stage-4/src/main.rs:63` says that all memory is identity mapped.
  `FramesReachable` speaks of the frames below.
- The version in a kernel's section is read and compared with nothing, although
  `api/src/config.rs:14` says that it is "Checked on deserialization to ensure that
  the kernel and bootloader use the same API version"; `config.rs:193` has a TODO
  in its place. A section whose version, sizes or addresses are changed is accepted as
  that of another configuration.
- A TFTP folder keeps files of earlier images, and a user file named `bootloader`
  replaces the loader in it, while disk images refuse such names.
- With `log_level` Error and an unsupported pixel format, the panic of the pixel
  format takes the place of the one that was to be logged (`PanicShown` allows
  it). With Off a panic is silent. On a screen lower than a character the
  handler panics again and again (`Roomy`).

## Bounds

- *frames*: frames of two bytes, so that a boundary can lie inside a frame; six
  UEFI frames or eight BIOS bytes cut into four pieces, each of any type or a
  hole. Four pieces allow a cut at `next_free`, a split around the kernel, and
  neighbours on both sides of either. The proofs remove these bounds.
- *mappings*: seven level 4 entries of four pages; fixed addresses chosen so that
  objects overlap, share an entry or are misaligned. Two assumptions restrict the
  boots: `Accounted` (what `new` marks for a fixed object covers what is mapped)
  excludes a fixed stack or boot info whose last page crosses into another entry
  and a fixed ramdisk, the subject of `mappings_fixed_ramdisk`; `Placeable`
  excludes random placement of whole multiples of an entry.
- *loader*: pages, words and table entries of two bytes, so that words straddle
  pages; segments of up to a few pages, two relocations at every pair of targets.
- *stage2*: sectors of four bytes, a buffer of four sectors, clusters of one, two
  and eight sectors; limits between FAT types scaled to 24 and 48 clusters.
  FAT12 and FAT16 entries keep their 12 and 16 bits. Data that looks like the two
  optional files is behind every directory, and other looks behind some.
- *uefi*: words of two bytes over a small base; each part of the boot is varied
  with the others fixed, because they meet only in the record of the firmware.

- *console*: glyphs of 2 by 3 pixels, records of up to nine characters after the
  level, so that a record fills the smallest screens and wraps and clears; six
  modes, among them padded scanlines, one whose length is no multiple of a pixel,
  unsupported formats and a screen without room.
- *bios*: sectors and pages of four bytes, chunks of three sectors and second
  stages of two to seven, so that the loop runs once, exactly twice and more; a
  gigabyte of 16 bytes, with memory ending below 4, between 4 and 10, and above 10
  of them; E820 lists out of order, with empty entries, and without memory. One
  image, one change on the host, two host paths, which are symmetric
  (`PathSymmetry`). `BootView` leaves out what the builder remembers once the
  machine is started: from then on only the disk is read and no action changes it.

All runs but `console` disable the deadlock check: every component ends, in the
next stage or in a panic. A halted processor stays in its loop in `Console`, so
there a deadlock would be one.

## Fairness

`FairSpec` of `FrameAllocator` is weak fairness of the loop steps only: a
processor that has entered a loop goes on, but nothing says that the loader ever
asks for a frame. `FairSpec` of `Stage2` and the specification of `Console` have
weak fairness of the whole step: both are one thread without interrupts that waits
for nothing but BIOS calls, or for a lock that only the thread itself can hold.
`StageEnds` is claimed for sound volumes only; a cyclic cluster chain is followed
for ever by the code.

## What is proved

`FrameAllocatorProofs` proves, for every frame size, every set of well formed
hand-overs and any number of allocations:

- `TypeCorrect`: `TypeOK`;
- `AllocationCorrect`: `AllocationInv`. That frames ascend is not inductive by
  itself: it must be known that all usable descriptors behind the iterator, except
  the current one, are used up, and that the current one is behind the iterator.
  `AllocationInv` says so, together with where handed-out frames lie. From it
  follow `FramesUnique`, `NoFrameSkipped` and `AllocatorExhaustive` (None is
  returned only when every usable frame was handed out);
- `MapCorrect`: `MapInv`. Each region comes from a descriptor handled before, and a
  Usable one is clear of the kernel and either starts at `next_free` or later or
  is memory the allocator never takes from. From it follow `RegionsSound` and
  `KernelFileSafe`, and with `AllocationInv` `AllocatedFramesSafe`: no allocated
  frame is offered to the kernel;
- `MemoryMapComplete`: the finished map describes exactly the firmware's memory.
  `CoverInv` says it of the descriptors handled so far, byte by byte, so that a cut
  at `next_free` and a split around the kernel are shown to lose nothing;
- `SliceLargeEnough`: with three spare slots there is no panic. `next_free` cuts at
  most one descriptor, the kernel lies in at most one region, and the regions
  written are counted by `CountInv`.

`FrameOwnershipProofs` proves `AllocatorImplementsOwnership`: initial states map
to initial states, `AllocateFromCurrent` and `AllocateFromNext` to `Take`,
`ReturnRegions` to `HandOver` and every other step to a stutter. That a frame was
not taken before follows from `AllocationInv`, that granted frames were not taken
from `MapInv`, plus the fact that no frame below the first one is ever handed out.
The assumptions of both modules are `FrameSizeAssumption` and `BootsAssumption`,
which says that hand-overs are `WellFormed`.

`KernelMappingsProofs` proves `OnlyConfiguredCollide`, `EntriesAccounted`,
`GuardPageKept` and `RangeRespected` for every size of the tables and every boot
that is `Accounted` and `Placeable` (see Bounds), ASLR included. None of the four
is inductive. The argument divides the level 4 entries: `NewEntries` belong to
what is configured, all other objects are placed in entries that were unused and
are marked before anything is mapped there. `MappingInv` says that each mapped page
lies in a marked entry, outside of `NewEntries` if it belongs to something that is
not configured, and the same of the stack's guard page; `MappingCorrect` proves it. `FreeRanges` staying
inside the window of entries it found is where `Placeable` is needed.

The module also proves `BootInfoCorrect`, for every boot: what the boot info says is
true in the page table the kernel starts with. `InfoInv` says of each object, from its
own step on, that its pages are mapped to its frames in order and that its address is
the one remembered for the boot info; a later object cannot take a page away
because mapping a page twice is a panic. `MappingsAssumption` has that stack and boot
info always get a mapping (the code's configuration has no way to leave them out) and
that a page is a multiple of the stack's alignment.

`KernelLoaderProofs` proves all five properties of the ELF loader, for every page,
word and table entry size and every file, with any number of program headers and
relocations (`LoaderAssumption` only gives the fields their types):

- `FileNeverWritten`, for malformed files as well. `FileInv` says that the frames of
  the file hold the file, that new frames lie behind them, and that the frame of a
  page with the COPIED flag is not one of the file's.
- `WellFormedLoads`, `FlagsAreCorrect`, `ImageIsCorrect` and `WritesArePrivate` rest
  on `LoadInv`, which for a well formed file is a description of the
  whole state in terms of the loader's position: which pages are mapped
  (`TableInv`), with which flags (`FlagInv`), what each byte that was reached holds:
  file, zero or the relocated word (`ContentInv`), and that two pages share a frame
  only if it is one of the file (`MemInv`). The hard steps are the first page of `.bss`, which is
  copied when it holds data too, and a relocated word over two pages, each of
  which may have been copied before.

`UefiBootProofs` proves all five properties of the UEFI loader for every machine
allowed by `FirmwareAssumption`, which types the answers of the firmware and says
of a kernel compiled with this crate that its section is what `serialize` makes of a
configuration (`IsConfig`). Other sections are any sequence of bytes.

- `SectionIsCanonical` and `ConfigIsRestored` are about the layout of the section.
  Each field survives being written and read (`RestoreField`), and a field that is
  accepted is written back as the same bytes (`WriteField`), for every base of a byte
  greater than 2. `Layout` shows that `serialize` puts each field where `deserialize`
  looks for it, from which follow `RoundTrip` and `Canonical`. `KernelInv` carries
  that to the boot: the configuration is that of the section of the current source.
- `OneSource`: `SourceInv` says that the source changes to TFTP only while nothing
  is loaded and the disk has no kernel.
- `PanicIsReported`: `ReportInv` says which of console, logger and boot services
  are there at each point of `main_inner`.
- `MinimumIsMet`: `DisplayInv` says that the framebuffer is the mode `init_logger`
  chooses by the merged minima. That the last acceptable mode is a mode of the list
  needs an induction over its length (`LastAcceptable`).

`BootSectorProofs` proves `BootSectorLoadsPartition` for every partition table
and all sizes, with the loop invariant that the sectors done are in place, in order,
and the rest is what `start_lba` and `number_of_sectors` say.

`FourthStageProofs` proves that stage 4 establishes what `FrameAllocator` assumes
(`HandOverSound`), that nothing loaded is taken or granted (`FilesOwned`) and that a
frame that is taken is identity mapped if it ends at or below 10 GiB, as all do if
memory ends there (`FramesMapped`), for every `BiosInfo` that `BiosLayout` makes of lengths the second stage accepts
(stages 3 and 4 end below the kernel, which is not empty) and every list of E820
entries that are not empty. `HandOverInv` ties the allocator's frames to the sorted
map. `HandOverSound` needs that the entries do not overlap, which is up to the BIOS.
`FramesMapped` needs that a gigabyte is a whole number of huge pages and of pages
(`PagingAssumption`).

`ConsoleProofs` proves `LoggerStaysOnScreen` for all screens and records. Its
invariant says in addition that all lines drawn are above the cursor's or on it.
`PanicRecordShown` proves `PanicShown` for every screen that is wide enough for one
character (`LineFits`), whatever its height: `RecordInv` follows the record from the
panic through the outputs, also when the handler meets a second panic on the way. On
a narrower screen the property is left to the run.

What the proofs assume of constants are the named `ASSUME`s of the components'
modules; TLC evaluates each on a run.

Induction over numbers is available to the proofs only through the well-foundedness
of the naturals (`LeastExists` and `EveryNumber`, which speak of sets instead of
predicates). With it `UefiBootProofs` shows that the recursive functions `Before` and
`Concat` are defined and what they compute.

Only model-checked: `StageTwoWhole`, `KernelGetsFiles` and `ImageFaithful` of the BIOS
boot as a whole (of its parts, boot sector and stage 4 have proofs); the properties of
`Stage2` and that it implements `Stage2Contract`, which need that following a cluster
chain and scanning a directory byte by byte compute what is on the volume; and all
liveness properties (the prover does not handle fairness).

## What is not modelled

- On UEFI machines `WellFormed` is assumed of the hand-over, not derived: it is up
  to the firmware's own memory map. On BIOS machines it is proved.
- The `fatfs` and `gpt` crates, FAT details such as case folding of names (a user
  file named `BOOT-STAGE-3` passes the test of `src/lib.rs:209` and replaces the stage;
  names in the model are compared as they are) and the
  space a volume needs for its tables (an image that is short of space ends in an
  error in the model as in the code), and FAT32 in stage 2, whose root directory
  the code does not read.
- In the ELF loader, sums of a load offset and an address of the file that leave
  the 64 bits or are not canonical, on which the code panics: addresses in the
  model have no upper end. No linker writes such a file.
- Processor modes, descriptor tables, control registers and assembly (hardware
  state without decisions); the RSDP search of stage 4 (a library, its result is a
  choice); entropy (a choice).
- JSON parsing, the font, the serial port, the text of messages.
- `build.rs`, `src/disk_image.rs` (not part of the crate), the thin wrappers
  `BiosBoot` and `UefiBoot` of the crate, and the types and entry point macro of
  `api`, which have no behaviour of their own.
