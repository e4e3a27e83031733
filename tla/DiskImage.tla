----------------------------- MODULE DiskImage ------------------------------
(***************************************************************************)
(* The host side: DiskImageBuilder (src/lib.rs) collects the files of an   *)
(* image and writes it, as a FAT volume on an MBR disk (fat.rs, mbr.rs)    *)
(* for BIOS, on a GPT disk (gpt.rs) for UEFI, or as a TFTP folder.         *)
(*                                                                         *)
(* A content is a record of some data and its length.  Files on the host   *)
(* may be replaced or removed at any time, also while an image is written: *)
(* len and copy_to of a FileDataSource look at them separately.            *)
(***************************************************************************)
EXTENDS PartitionTable, FiniteSetsExt, SequencesExt, TLC

CONSTANTS
  MB, FatPadding, \* the units of the size of the FAT volume
  Builds,         \* the embedded binaries: stage2, stage3, stage4, efi
  Paths,          \* host paths of files
  Versions,       \* what a file on the host may contain
  Configs,        \* serialized boot configurations
  Destinations,   \* names that set_file and set_file_contents are called with
  MaxRebuilds,    \* bound: how often a file on the host changes
  MaxCreates,     \* bound: how many images are created
  OldFolders      \* what a TFTP folder may contain before

VARIABLES
  build,          \* the binaries embedded in the builder, never changed
  host,           \* path -> content, or Missing
  rebuilds,       \* number of changes of the host's files so far
  creates,        \* number of calls that create an image so far
  since,          \* history: path -> its contents since the call began
  files,          \* DiskImageBuilder::files
  call,           \* what the builder is doing, or how the last call ended
  target,         \* the kind of image being created
  todo,           \* the files of local_map not copied yet
  fat_size,       \* fat_size_padded_and_rounded
  out,            \* name -> content, in the volume or folder being written
  disk,           \* the image at image_path, NoDisk, or Torn
  folder          \* the TFTP folder

image_vars ==
  <<build, host, rebuilds, creates, since, files, call, target, todo, fat_size, out, disk, folder>>

Missing == [data |-> "missing", len |-> 0]
NoDisk == [kind |-> "none"]
Torn == [kind |-> "torn"]

KernelName == "kernel-x86_64"
RamdiskName == "ramdisk"
ConfigName == "boot.json"
Stage3Name == "boot-stage-3"
Stage4Name == "boot-stage-4"
EfiName == "efi/boot/bootx64.efi"
TftpName == "bootloader"

Targets == {"bios", "uefi", "tftp"}

\* the order of a BTreeMap with these keys
InOrder == <<Stage3Name, Stage4Name, ConfigName, TftpName, EfiName, KernelName, RamdiskName>>

ASSUME DestinationsAssumption == Destinations \subseteq ToSet(InOrder)

Running == {"begin", "copy", "disk"}

ImageInit ==
  /\ build \in Builds
  /\ host \in [Paths -> Versions]
  /\ rebuilds = 0 /\ creates = 0
  /\ since = [p \in Paths |-> {}]
  /\ files = << >>
  /\ call = "idle"
  /\ target = "bios"
  /\ todo = << >>
  /\ fat_size = 0
  /\ out = << >>
  /\ disk = NoDisk
  /\ folder \in OldFolders

-----------------------------------------------------------------------------
\* FileDataSource

FileSource(path) == [kind |-> "File", path |-> path]
DataSource(content) == [kind |-> "Data", content |-> content]
BytesSource(content) == [kind |-> "Bytes", content |-> content]

Content(source) == IF source.kind = "File" THEN host[source.path] ELSE source.content

Readable(source) == Content(source) # Missing

-----------------------------------------------------------------------------
\* The methods that collect files, all through set_file_source

SetFileSource(name, source) ==
  /\ call \notin Running /\ creates < MaxCreates
  /\ files' = (name :> source) @@ files
  /\ call' = "idle"
  /\ since' = [p \in Paths |-> {}]
  /\ UNCHANGED <<build, host, rebuilds, creates, target, todo, fat_size, out, disk, folder>>

SetKernel(path) == SetFileSource(KernelName, FileSource(path))

SetRamdisk(path) == SetFileSource(RamdiskName, FileSource(path))

SetBootConfig(config) == SetFileSource(ConfigName, DataSource(config))

SetFileContents(name, content) == SetFileSource(name, DataSource(content))

SetFile(name, path) == SetFileSource(name, FileSource(path))

\* DiskImageBuilder::empty; `new` is empty and set_kernel
Empty ==
  /\ call \notin Running /\ creates < MaxCreates
  /\ files' = << >>
  /\ call' = "idle"
  /\ since' = [p \in Paths |-> {}]
  /\ UNCHANGED <<build, host, rebuilds, creates, target, todo, fat_size, out, disk, folder>>

\* A file on the host is written or removed, by whoever builds the kernel
HostChanges(path) ==
  /\ rebuilds < MaxRebuilds
  /\ rebuilds' = rebuilds + 1
  /\ \E c \in (Versions \cup {Missing}) \ {host[path]} :
       /\ host' = [host EXCEPT ![path] = c]
       /\ since' = [since EXCEPT ![path] = IF call \in Running THEN @ \cup {c} ELSE @]
  /\ UNCHANGED <<build, creates, files, call, target, todo, fat_size, out, disk, folder>>

-----------------------------------------------------------------------------
\* create_bios_image, create_uefi_image and create_uefi_tftp_folder

Internal(t) ==
  CASE t = "bios" -> (Stage3Name :> BytesSource(build.stage3)) @@ (Stage4Name :> BytesSource(build.stage4))
    [] t = "uefi" -> (EfiName :> BytesSource(build.efi))
    [] t = "tftp" -> << >>

\* Plausible fault: an internal file is not checked against the user's.
OverwritesNothing(t) == FALSE

OverwritesInternal(t) == DOMAIN files \cap DOMAIN Internal(t) # {}

LocalMap(t) == Internal(t) @@ files

Create(t) ==
  /\ call \notin Running
  /\ creates < MaxCreates
  /\ creates' = creates + 1
  /\ target' = t
  /\ IF OverwritesInternal(t)
     THEN call' = "error" /\ UNCHANGED <<todo, since>>
     ELSE /\ call' = "begin"
          /\ todo' = LocalMap(t)
          /\ since' = [p \in Paths |-> {host[p]}]
  /\ UNCHANGED <<build, host, rebuilds, files, fat_size, out, disk, folder>>

\* create_uefi_tftp_folder writes the loader first
WriteLoader ==
  /\ call = "begin" /\ target = "tftp"
  /\ folder' = (TftpName :> build.efi) @@ folder
  /\ call' = "copy"
  /\ UNCHANGED <<build, host, rebuilds, creates, since, files, target, todo, fat_size, out, disk>>

Total(lens) == FoldSet(LAMBDA n, sum : lens[n] + sum, 0, DOMAIN lens)

NeededSize == Total([n \in DOMAIN todo |-> Content(todo[n]).len])

\* create_fat_filesystem adds up the lengths of all sources and formats a volume
Measure ==
  /\ call = "begin" /\ target # "tftp"
  /\ \A n \in DOMAIN todo : Readable(todo[n])
  /\ fat_size' = ((NeededSize + FatPadding - 1) \div MB + 1) * MB
  /\ call' = "copy"
  /\ UNCHANGED <<build, host, rebuilds, creates, since, files, target, todo, out, disk, folder>>

NextName == SelectSeq(InOrder, LAMBDA n : n \in DOMAIN todo)[1]

Written == Total([n \in DOMAIN out |-> out[n].len])

\* A volume cannot hold more than its size; a folder can
Fits(content) == target # "tftp" => Written + content.len <= fat_size

Put(name, content) ==
  IF target = "tftp"
  THEN folder' = (name :> content) @@ folder /\ UNCHANGED out
  ELSE out' = (name :> content) @@ out /\ UNCHANGED folder

Without(name) == [n \in DOMAIN todo \ {name} |-> todo[n]]

\* One round of add_files_to_image or of the loop over the folder's files
Copy ==
  /\ call = "copy" /\ todo # << >>
  /\ Readable(todo[NextName])
  /\ Fits(Content(todo[NextName]))
  /\ Put(NextName, Content(todo[NextName]))
  /\ todo' = Without(NextName)
  /\ UNCHANGED <<build, host, rebuilds, creates, since, files, call, target, fat_size, disk>>

CopiesDone ==
  /\ call = "copy" /\ todo = << >>
  /\ call' = IF target = "tftp" THEN "ok" ELSE "disk"
  /\ UNCHANGED <<build, host, rebuilds, creates, since, files, target, todo, fat_size, out, disk, folder>>

\* What is left of the temporary volume once the call returns: nothing
Returns(result) == call' = result /\ todo' = << >> /\ fat_size' = 0 /\ out' = << >>

\* The file of a folder that is being written
Unfinished ==
  {n \in DOMAIN todo \cup {TftpName} :
     target = "tftp" /\ IF call = "begin" THEN n = TftpName ELSE todo # << >> /\ n = NextName}

\* A source cannot be read or does not fit any more, or an operation of the host
\* fails: the call returns the error at once.  In a folder, the file that was
\* being written may have been emptied.
Fails ==
  /\ call \in {"begin", "copy"}
  /\ Returns("error")
  /\ folder' \in {folder} \cup {(n :> [Missing EXCEPT !.data = "empty"]) @@ folder : n \in Unfinished}
  /\ UNCHANGED <<build, host, rebuilds, creates, since, files, target, disk>>

-----------------------------------------------------------------------------
\* create_mbr_disk and create_gpt_disk

SectorsFor(len) == (len - 1) \div SectorSize + 1

Unused == [type |-> "unused", lba |-> 0, sectors |-> 0]

\* Plausible fault: the volume starts with the last sector of the second stage.
MbrTableShort(stage2_len, size) ==
  <<[type |-> SecondStageType, lba |-> 1, sectors |-> SectorsFor(stage2_len)],
    [type |-> "fat32", lba |-> 1 + stage2_len \div SectorSize, sectors |-> SectorsFor(size)],
    Unused, Unused>>

MbrTable(stage2_len, size) ==
  <<[type |-> SecondStageType, lba |-> 1, sectors |-> SectorsFor(stage2_len)],
    [type |-> "fat32", lba |-> 1 + SectorsFor(stage2_len), sectors |-> SectorsFor(size)],
    Unused, Unused>>

MbrDisk ==
  [kind |-> "mbr", table |-> MbrTable(build.stage2.len, fat_size),
   stage2 |-> [at |-> 1 * SectorSize, len |-> build.stage2.len],
   fat |-> [at |-> MbrTable(build.stage2.len, fat_size)[2].lba * SectorSize, len |-> fat_size],
   files |-> out]

\* the partition is where the gpt crate puts it
GptDisk == [kind |-> "gpt", fat |-> [len |-> fat_size], files |-> out]

NewDisk == IF target = "bios" THEN MbrDisk ELSE GptDisk

WriteDisk ==
  /\ call = "disk"
  /\ disk' = NewDisk
  /\ Returns("ok")
  /\ UNCHANGED <<build, host, rebuilds, creates, since, files, target, folder>>

\* An operation fails before the disk is created and truncated, after that, or
\* when the temporary volume is deleted
WriteDiskFails ==
  /\ call = "disk"
  /\ disk' \in {disk, Torn, NewDisk}
  /\ Returns("error")
  /\ UNCHANGED <<build, host, rebuilds, creates, since, files, target, folder>>

\* What a sector of an MBR disk holds: the volume is written last
SectorAt(d, lba) ==
  CASE lba * SectorSize \in d.fat.at..(d.fat.at + d.fat.len - 1) ->
         <<"fat", lba - d.fat.at \div SectorSize>>
    [] /\ lba * SectorSize \in d.stage2.at..(d.stage2.at + d.stage2.len - 1)
       /\ lba * SectorSize \notin d.fat.at..(d.fat.at + d.fat.len - 1) -> <<"stage2", lba - 1>>
    [] OTHER -> <<"other", lba>>

ImageNext ==
  \/ \E p \in Paths : SetKernel(p) \/ SetRamdisk(p) \/ HostChanges(p)
  \/ Empty
  \/ \E c \in Configs : SetBootConfig(c)
  \/ \E n \in Destinations : \/ \E p \in Paths : SetFile(n, p)
                             \/ \E c \in Configs : SetFileContents(n, c)
  \/ \E t \in Targets : Create(t)
  \/ WriteLoader \/ Measure \/ Copy \/ CopiesDone \/ Fails
  \/ WriteDisk \/ WriteDiskFails

-----------------------------------------------------------------------------
\* The contents a source had while the last call ran
Offered(source) == IF source.kind = "File" THEN since[source.path] ELSE {source.content}

\* A call that succeeds has written every file that was set, with a content its
\* source had during the call, and the loader's own files as they were embedded,
\* whatever names the user chose (fatfs ignores their case, so names here differ in
\* more than that) and whatever happened on the host meanwhile:
\* nothing is missing or cut off and a disk has no other file.  (In a TFTP folder
\* a file named "bootloader" replaces the loader, and older files remain.)
ImageFaithful ==
  call = "ok" =>
    LET loader  == IF target = "tftp" THEN TftpName :> BytesSource(build.efi) ELSE Internal(target)
        written == IF target = "tftp" THEN folder ELSE disk.files
    IN  /\ DOMAIN files \cup DOMAIN loader \subseteq DOMAIN written
        /\ \A n \in DOMAIN files : written[n] \in Offered(files[n]) \ {Missing}
        /\ \A n \in DOMAIN loader \ DOMAIN files : written[n] = loader[n].content
        /\ target # "tftp" => /\ DOMAIN written = DOMAIN files \cup DOMAIN loader
                              /\ DOMAIN files \cap DOMAIN loader = {}

=============================================================================
