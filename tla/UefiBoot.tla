------------------------------ MODULE UefiBoot ------------------------------
(***************************************************************************)
(* The UEFI bootloader (uefi/src/main.rs) up to the call of the common     *)
(* load_and_switch_to_kernel: load the kernel from disk or else over TFTP, *)
(* take its configuration out of it, load the configuration file and the   *)
(* ramdisk, set up the frame buffer, leave the boot services, create the   *)
(* page tables and find the ACPI tables.                                   *)
(*                                                                         *)
(* The firmware is external: a record of which protocols can be opened,    *)
(* the state of each file on disk and on the TFTP server, the contents of  *)
(* the kernel's section and of the configuration file, the video modes,    *)
(* the configuration tables and the number of free frames.                 *)
(***************************************************************************)
EXTENDS BootloaderConfig

CONSTANT Firmwares   \* the machines considered

NoConfig == [type |-> "no config"]

DefaultConfig == [minimum_framebuffer_height |-> None, minimum_framebuffer_width |-> None]

\* What the kernel's author sets, and the uuid that goes with it
WithUuid(built) == [name \in DOMAIN built \cup {"uuid"} |-> IF name = "uuid" THEN Uuid ELSE built[name]]

\* The section of a kernel that was built with a configuration is what serialize
\* makes of it, other sections are any bytes.  The firmware lists finitely many
\* video modes, each with its size.  A configuration file that can be parsed
\* sets both minima, if only to None.
ASSUME FirmwareAssumption ==
  \A f \in Firmwares :
    /\ f.modes \in Seq([width : Nat, height : Nat, settable : BOOLEAN, supported : BOOLEAN])
    /\ \A mode \in {"Disk", "Tftp"} :
         /\ f.json[mode].ok => DOMAIN f.json[mode].value = DOMAIN DefaultConfig
         /\ f.section[mode] \in Seq(Bytes)
         /\ f.built[mode] # NoConfig =>
              /\ f.built[mode] = [name \in Names \ {"uuid"} |-> f.built[mode][name]]
              /\ IsConfig(WithUuid(f.built[mode]))
              /\ f.section[mode] = serialize(WithUuid(f.built[mode]))

VARIABLES
  firmware,       \* the machine of this boot, never changed
  pc,             \* where control is, or how the boot ended
  boot_mode,      \* "Disk" or "Tftp"
  console,        \* SYSTEM_TABLE is set: a panic is printed by the firmware
  services,       \* the boot services are still there
  loaded,         \* file -> the boot mode it was loaded by
  kernel_config,  \* kernel.config
  config,         \* the BootConfig
  logger,         \* the logger is initialised
  framebuffer,    \* number of the video mode in use, 0 for None
  frames,         \* frames taken from the allocator
  rsdp            \* number of the configuration table entry chosen, 0 for None

vars == <<firmware, pc, boot_mode, console, services, loaded, kernel_config, config, logger,
          framebuffer, frames, rsdp>>

\* load_file_from_disk: None without the protocol or the file.  A volume that
\* cannot be opened, a directory, an empty file (the page count underflows) and
\* a failing query, allocation or read are panics.
FromDisk(file) ==
  CASE ~firmware.disk.protocol -> "none"
    [] ~firmware.disk.volume -> "panic"
    [] firmware.disk.files[file] = "missing" -> "none"
    [] firmware.disk.files[file] \in {"directory", "empty", "unreadable"} -> "panic"
    [] firmware.disk.files[file] = "regular" -> "loaded"

\* load_file_from_tftp_boot_server, which asserts that DHCP has answered
FromTftp(file) ==
  CASE ~firmware.tftp.protocol -> "none"
    [] ~firmware.tftp.dhcp_ack_received -> "panic"
    [] firmware.tftp.files[file] = "missing" -> "none"
    [] firmware.tftp.files[file] \in {"empty", "unreadable"} -> "panic"
    [] firmware.tftp.files[file] = "regular" -> "loaded"

\* load_file_from_boot_method
Attempt(file, mode) == IF mode = "Disk" THEN FromDisk(file) ELSE FromTftp(file)

-----------------------------------------------------------------------------
Init ==
  /\ firmware \in Firmwares
  /\ pc = "kernel"
  /\ boot_mode = "Disk"
  /\ console = TRUE
  /\ services = TRUE
  /\ loaded = << >>
  /\ kernel_config = NoConfig
  /\ config = NoConfig
  /\ logger = FALSE
  /\ framebuffer = 0
  /\ frames = 0
  /\ rsdp = 0

Panic ==
  /\ pc' = "panic"
  /\ UNCHANGED <<firmware, boot_mode, console, services, loaded, kernel_config, config, logger,
                 framebuffer, frames, rsdp>>

\* add the file to those loaded
Load(file, mode) ==
  loaded' = [f \in DOMAIN loaded \cup {file} |-> IF f = file THEN mode ELSE loaded[f]]

\* The .bootloader-config section of the kernel file, empty when the file is
\* not an ELF file or has no such section; Kernel::parse panics on these too.
Section == firmware.section[boot_mode]

LoadKernel ==
  /\ pc = "kernel"
  /\ Attempt("kernel", boot_mode) = "loaded"
  /\ deserialize(Section).ok
  /\ Load("kernel", boot_mode)
  /\ kernel_config' = deserialize(Section).value
  /\ pc' = "config"
  /\ UNCHANGED <<firmware, boot_mode, console, services, config, logger, framebuffer, frames, rsdp>>

TryTftp ==
  /\ pc = "kernel"
  /\ boot_mode = "Disk"
  /\ Attempt("kernel", boot_mode) = "none"
  /\ boot_mode' = "Tftp"
  /\ UNCHANGED <<firmware, pc, console, services, loaded, kernel_config, config, logger,
                 framebuffer, frames, rsdp>>

KernelFails ==
  /\ pc = "kernel"
  /\ \/ Attempt("kernel", boot_mode) = "panic"
     \/ Attempt("kernel", boot_mode) = "loaded" /\ ~deserialize(Section).ok
     \/ Attempt("kernel", boot_mode) = "none" /\ boot_mode = "Tftp"
  /\ Panic

-----------------------------------------------------------------------------
\* The configuration file.  A missing file and one that cannot be parsed give
\* the default; the kernel's minimum frame buffer size fills in what is not set.

FileConfig ==
  IF Attempt("config", boot_mode) = "loaded" /\ firmware.json[boot_mode].ok
  THEN firmware.json[boot_mode].value ELSE DefaultConfig

\* Plausible fault: the kernel's minimum wins over the configuration file's.
MergedKernelFirst(file, kernel) ==
  [f \in DOMAIN file |-> IF kernel[f] # None THEN kernel[f] ELSE file[f]]

Merged(file, kernel) == [f \in DOMAIN file |-> IF file[f] = None THEN kernel[f] ELSE file[f]]

LoadConfig ==
  /\ pc = "config"
  /\ Attempt("config", boot_mode) # "panic"
  /\ IF Attempt("config", boot_mode) = "loaded" THEN Load("config", boot_mode) ELSE UNCHANGED loaded
  /\ config' = Merged(FileConfig, kernel_config)
  /\ pc' = "logger"
  /\ UNCHANGED <<firmware, boot_mode, console, services, kernel_config, logger, framebuffer, frames,
                 rsdp>>

-----------------------------------------------------------------------------
\* init_logger

Modes == firmware.modes

AtLeast(size, minimum) == IF minimum = None THEN TRUE ELSE size >= minimum.value

Acceptable(k) ==
  /\ AtLeast(Modes[k].height, config.minimum_framebuffer_height)
  /\ AtLeast(Modes[k].width, config.minimum_framebuffer_width)

\* the last acceptable mode; without a minimum no mode is asked for
Wanted ==
  IF DefaultConfig = config THEN {}
  ELSE {k \in 1..Len(Modes) : Acceptable(k) /\ \A j \in (k + 1)..Len(Modes) : ~Acceptable(j)}

NewMode == IF Wanted = {} THEN firmware.current_mode ELSE CHOOSE k \in Wanted : TRUE

\* set_mode succeeds if it is called, and the pixel format is RGB or BGR
ModeWorks == (Wanted # {} => Modes[NewMode].settable) /\ Modes[NewMode].supported

\* Plausible fault: the console is kept for later panics.
InitLoggerKeepConsole ==
  /\ pc = "logger"
  /\ IF Modes = << >>
     THEN UNCHANGED <<framebuffer, logger>>
     ELSE /\ ModeWorks
          /\ framebuffer' = NewMode
          /\ logger' = TRUE
  /\ pc' = "ramdisk"
  /\ UNCHANGED <<firmware, boot_mode, console, services, loaded, kernel_config, config, frames, rsdp>>

\* Without a graphics protocol there is neither a frame buffer nor a logger.
InitLogger ==
  /\ pc = "logger"
  /\ IF Modes = << >>
     THEN UNCHANGED <<framebuffer, logger>>
     ELSE /\ ModeWorks
          /\ framebuffer' = NewMode
          /\ logger' = TRUE
  /\ console' = FALSE
  /\ pc' = "ramdisk"
  /\ UNCHANGED <<firmware, boot_mode, services, loaded, kernel_config, config, frames, rsdp>>

ModeFails ==
  /\ pc = "logger"
  /\ Modes # << >>
  /\ ~ModeWorks
  /\ Panic

-----------------------------------------------------------------------------
\* Plausible fault: the ramdisk is searched on the disk.
LoadRamdiskFromDisk ==
  /\ pc = "ramdisk"
  /\ Attempt("ramdisk", "Disk") # "panic"
  /\ IF Attempt("ramdisk", "Disk") = "loaded" THEN Load("ramdisk", "Disk") ELSE UNCHANGED loaded
  /\ pc' = "exit"
  /\ UNCHANGED <<firmware, boot_mode, console, services, kernel_config, config, logger, framebuffer,
                 frames, rsdp>>

LoadRamdisk ==
  /\ pc = "ramdisk"
  /\ Attempt("ramdisk", boot_mode) # "panic"
  /\ IF Attempt("ramdisk", boot_mode) = "loaded" THEN Load("ramdisk", boot_mode) ELSE UNCHANGED loaded
  /\ pc' = "exit"
  /\ UNCHANGED <<firmware, boot_mode, console, services, kernel_config, config, logger, framebuffer,
                 frames, rsdp>>

\* loading the configuration file or the ramdisk panics
FileFails ==
  /\ \/ pc = "config" /\ Attempt("config", boot_mode) = "panic"
     \/ pc = "ramdisk" /\ Attempt("ramdisk", boot_mode) = "panic"
  /\ Panic

ExitBootServices ==
  /\ pc = "exit"
  /\ services' = FALSE
  /\ pc' = "page_tables"
  /\ UNCHANGED <<firmware, boot_mode, console, loaded, kernel_config, config, logger, framebuffer,
                 frames, rsdp>>

\* create_page_tables: a frame for the bootloader's new level 4 table, which
\* is activated, and then one for the kernel's
PageTableFrames == 2

AllocateTable ==
  /\ pc = "page_tables"
  /\ frames < firmware.free_frames
  /\ frames' = frames + 1
  /\ pc' = IF frames' = PageTableFrames THEN "rsdp" ELSE "page_tables"
  /\ UNCHANGED <<firmware, boot_mode, console, services, loaded, kernel_config, config, logger,
                 framebuffer, rsdp>>

NoFrame ==
  /\ pc = "page_tables"
  /\ frames = firmware.free_frames
  /\ Panic

-----------------------------------------------------------------------------
\* The ACPI tables.  The first search has used up the iterator when it fails,
\* so that the second one sees nothing.

Tables == firmware.tables

First(guid, from) ==
  LET hits == {k \in from..Len(Tables) : Tables[k] = guid}
  IN  IF hits = {} THEN 0 ELSE CHOOSE k \in hits : \A j \in hits : k <= j

RsdpEntry == IF First("ACPI2", 1) # 0 THEN First("ACPI2", 1) ELSE First("ACPI", Len(Tables) + 1)

FindRsdp ==
  /\ pc = "rsdp"
  /\ rsdp' = RsdpEntry
  /\ pc' = "switch"
  /\ UNCHANGED <<firmware, boot_mode, console, services, loaded, kernel_config, config, logger,
                 framebuffer, frames>>

Next ==
  \/ LoadKernel \/ TryTftp \/ KernelFails
  \/ LoadConfig \/ FileFails
  \/ InitLogger \/ ModeFails
  \/ LoadRamdisk
  \/ ExitBootServices
  \/ AllocateTable \/ NoFrame
  \/ FindRsdp

Spec == Init /\ [][Next]_vars

-----------------------------------------------------------------------------
\* Everything that is loaded comes from the source the kernel came from, and
\* nothing comes over TFTP when the disk has a kernel ("Ramdisk must load from
\* same source, or not at all.").
SameSource ==
  /\ \A f, g \in DOMAIN loaded : loaded[f] = loaded[g]
  /\ loaded # << >> => Attempt("kernel", "Disk") = IF boot_mode = "Disk" THEN "loaded" ELSE "none"

\* The bootloader works with the configuration the kernel was compiled with:
\* Kernel::parse gets it back from the section serialize wrote, field by field.
ConfigRestored ==
  kernel_config # NoConfig /\ firmware.built[boot_mode] # NoConfig =>
    [name \in DOMAIN kernel_config \ {"uuid"} |-> kernel_config[name]] = firmware.built[boot_mode]

\* A section that deserialize accepts is, byte for byte, what serialize makes of
\* the configuration read from it: no byte is skipped or normalised, so two
\* different sections never give the same configuration.  (Damage that turns a
\* section into that of another configuration cannot be noticed: only the length,
\* the UUID and the bytes that tell the variants apart are redundant.)
SectionCanonical == kernel_config # NoConfig => serialize(kernel_config) = Section

\* The minimum frame buffer size of the configuration file, or else of the
\* kernel, is met whenever the firmware has a mode that meets it.
FramebufferMeetsMinimum ==
  framebuffer # 0 =>
    LET minimum == [f \in DOMAIN DefaultConfig |->
                      IF FileConfig[f] # None THEN FileConfig[f] ELSE kernel_config[f]]
        meets(k) == /\ AtLeast(Modes[k].height, minimum.minimum_framebuffer_height)
                    /\ AtLeast(Modes[k].width, minimum.minimum_framebuffer_width)
    IN  (\E k \in 1..Len(Modes) : meets(k)) => meets(framebuffer)

\* A panic on a machine with a display is reported, by the firmware's console or
\* by the logger: SYSTEM_TABLE is cleared no earlier than the logger is there.
\* Yet the console is never kept longer than the boot services, with which it
\* vanishes, not even on a machine without a display.
PanicReported ==
  /\ pc = "panic" /\ Modes # << >> => console \/ logger
  /\ console => services

\* "if no ACPI2 RSDP is found, look for a ACPI1 RSDP"
RsdpFallback ==
  pc = "switch" /\ (\E k \in 1..Len(Tables) : Tables[k] \in {"ACPI2", "ACPI"}) => rsdp # 0

=============================================================================
