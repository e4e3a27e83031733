----------------------------- MODULE MCUefiBoot -----------------------------
(***************************************************************************)
(* Machines for UefiBoot: one family per part of the boot, each varying    *)
(* what that part depends on and fixing the rest.                          *)
(***************************************************************************)
EXTENDS UefiBoot

Files == {"kernel", "config", "ramdisk"}

\* every word of a different value where that can be, every option set
Configured ==
  [version_major |-> 0, version_minor |-> 4, version_patch |-> 7, pre_release |-> TRUE,
   kernel_stack_size |-> 5,
   kernel_stack |-> FixedAddress(1), boot_info |-> Dynamic, framebuffer |-> FixedAddress(0),
   physical_memory |-> Some(FixedAddress(2)), page_table_recursive |-> Some(Dynamic),
   aslr |-> FALSE,
   dynamic_range_start |-> Some(3), dynamic_range_end |-> Some(0),
   ramdisk_memory |-> FixedAddress(8),
   minimum_framebuffer_height |-> Some(1), minimum_framebuffer_width |-> Some(6)]

\* BootloaderConfig::new_default, with another version
Unconfigured ==
  [version_major |-> 1, version_minor |-> 0, version_patch |-> 0, pre_release |-> FALSE,
   kernel_stack_size |-> 8,
   kernel_stack |-> Dynamic, boot_info |-> Dynamic, framebuffer |-> Dynamic,
   physical_memory |-> None, page_table_recursive |-> None,
   aslr |-> FALSE,
   dynamic_range_start |-> None, dynamic_range_end |-> None,
   ramdisk_memory |-> Dynamic,
   minimum_framebuffer_height |-> None, minimum_framebuffer_width |-> None]

\* configurations between the two: any one field, or any two, of the other
Configs ==
  {[f \in DOMAIN Configured |-> IF f \in {g, h} THEN Configured[f] ELSE Unconfigured[f]] :
     g, h \in DOMAIN Configured}
  \cup {[f \in DOMAIN Configured |-> IF f \in {g, h} THEN Unconfigured[f] ELSE Configured[f]] :
     g, h \in DOMAIN Configured}

Compiled(built) == serialize(WithUuid(built))

\* what may become of a section: one byte changed, one byte lost or added
Damaged(section) ==
  {[section EXCEPT ![k] = b] : k \in 1..Len(section), b \in Bytes}
  \cup {Tail(section), section \o <<0>>, << >>}

Minima == {None, Some(1), Some(2)}

Minimum(height, width) == [minimum_framebuffer_height |-> height, minimum_framebuffer_width |-> width]

Mode(width, height) == [width |-> width, height |-> height, settable |-> TRUE, supported |-> TRUE]

\* a machine on which everything is found on the disk
Plain ==
  [disk |-> [protocol |-> TRUE, volume |-> TRUE, files |-> [f \in Files |-> "regular"]],
   tftp |-> [protocol |-> FALSE, dhcp_ack_received |-> FALSE, files |-> [f \in Files |-> "missing"]],
   section |-> [Disk |-> Compiled(Unconfigured), Tftp |-> Compiled(Configured)],
   built |-> [Disk |-> Unconfigured, Tftp |-> Configured],
   json |-> [Disk |-> Ok(Minimum(Some(2), None)), Tftp |-> Error],
   modes |-> <<Mode(1, 1), Mode(2, 2)>>,
   current_mode |-> 1,
   tables |-> <<"ACPI", "ACPI2">>,
   free_frames |-> 2]

Kernels ==
  {[Plain EXCEPT !.section.Disk = Compiled(c), !.built.Disk = c] : c \in Configs}
  \cup UNION {{[Plain EXCEPT !.section.Disk = s, !.built.Disk = NoConfig] : s \in Damaged(Compiled(c))} :
           c \in {Configured, Unconfigured}}

DiskFiles == [kernel : {"missing", "directory", "empty", "unreadable", "regular"},
              config : {"missing", "unreadable", "regular"},
              ramdisk : {"missing", "empty", "regular"}]

TftpFiles == [kernel : {"missing", "unreadable", "regular"},
              config : {"missing", "empty", "regular"},
              ramdisk : {"missing", "empty", "regular"}]

Sources ==
  {[Plain EXCEPT !.disk.files = d, !.tftp = [protocol |-> TRUE, dhcp_ack_received |-> TRUE, files |-> t]] :
     d \in DiskFiles, t \in TftpFiles}
  \cup {[Plain EXCEPT !.disk.protocol = p, !.disk.volume = v,
                      !.tftp = [protocol |-> q, dhcp_ack_received |-> a, files |-> Plain.disk.files]] :
          p, v, q, a \in BOOLEAN}

ModeLists ==
  {<< >>, <<Mode(1, 1)>>, <<Mode(1, 2), Mode(2, 1)>>, <<Mode(2, 2), Mode(1, 1)>>,
   <<Mode(2, 1), Mode(2, 2), Mode(1, 2)>>,
   <<Mode(1, 1), [Mode(2, 2) EXCEPT !.settable = FALSE]>>,
   <<Mode(1, 1), [Mode(2, 2) EXCEPT !.supported = FALSE]>>,
   <<[Mode(1, 1) EXCEPT !.supported = FALSE], Mode(2, 2)>>}

Displays ==
  {LET c == [Unconfigured EXCEPT !.minimum_framebuffer_height = h, !.minimum_framebuffer_width = w]
   IN  [Plain EXCEPT !.section.Disk = Compiled(c), !.built.Disk = c, !.json.Disk = j, !.modes = m] :
     h, w \in Minima, m \in ModeLists, j \in {Error} \cup {Ok(Minimum(x, y)) : x, y \in Minima}}

TableLists == UNION {[1..n -> {"ACPI2", "ACPI", "other"}] : n \in 0..3}

Platforms ==
  {[Plain EXCEPT !.tables = t, !.free_frames = n, !.modes = m] :
     t \in TableLists, n \in 0..3, m \in {<< >>, Plain.modes}}

AllFirmwares == Kernels \cup Sources \cup Displays \cup Platforms
=============================================================================
