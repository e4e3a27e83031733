--------------------------- MODULE KernelMappings ---------------------------
(***************************************************************************)
(* The kernel's address space and the way into it (common/src/lib.rs:      *)
(* set_up_mappings, create_boot_info and switch_to_kernel, on top of       *)
(* Level4Entries).                                                         *)
(*                                                                         *)
(* One after the other the kernel, its stack, the identity mapped context  *)
(* switch code and GDT, the framebuffer, the ramdisk, the physical memory, *)
(* the recursive entry and the boot info get their virtual addresses and   *)
(* are entered into the kernel's page table.  An address is fixed by the   *)
(* kernel's configuration or found in unused level 4 entries.  Then the    *)
(* boot info is written, the page table switched and the kernel entered.   *)
(***************************************************************************)
EXTENDS Level4Entries, Sequences

CONSTANTS
  LargePage,      \* pages in a 2MiB page
  InfoAlign,      \* alignment of a BootInfo with its memory regions
  Dynamic,        \* Mapping::Dynamic; any other mapping is a fixed address
  Absent,         \* None: no such mapping is wanted
  Fresh,          \* a frame taken from the frame allocator
  StackAlign,     \* alignment of the stack (16)
  Word,           \* what `push` pushes (8)
  Boots           \* configurations and system informations, see WellFormed

VARIABLES
  boot,           \* those of this boot, never changed
  pc,             \* what is mapped next, or how it ended
  entry_state,    \* the used level 4 entries
  page_table,     \* page -> what it is mapped for, and to which frame
  address,        \* what has been given an address -> that address
  clash,          \* after a collision: who collided
  boot_info,      \* the addresses in the BootInfo, once written
  rsp             \* the kernel's stack pointer, once switched to

vars == <<boot, pc, entry_state, page_table, address, clash, boot_info, rsp>>

\* What is mapped, in the order of the code
Order == <<"kernel", "stack", "identity", "framebuffer", "ramdisk", "physical",
           "recursive", "boot_info", "write_info", "switch", "entered">>

Objects == {"stack", "framebuffer", "ramdisk", "physical", "boot_info"}

NextOf(o) == Order[(CHOOSE i \in 1..(Len(Order) - 1) : Order[i] = o) + 1]

LargeSize == LargePage * PageSize

RoundUp(n, unit) == ((n + unit - 1) \div unit) * unit

-----------------------------------------------------------------------------
(***************************************************************************)
(* A boot has the configured mapping of every object, the sizes of the     *)
(* objects, the kernel's segments [start, end) as linked, and whether the  *)
(* kernel is position independent; fb_addr and ramdisk_addr are physical   *)
(* addresses.  `info_marked` is the size of the boot info with len + 1     *)
(* memory regions, `boot_info` with len + 4; the bootloader's own page     *)
(* table maps the pages below `own`.                                       *)
(***************************************************************************)

\* How far an object extends from its address.  The stack has a guard page
\* in front, a framebuffer may start within its first frame and the physical
\* memory is mapped in large pages.
Extent(b, o) ==
  CASE o = "stack" -> PageSize + b.size["stack"]
    [] o = "framebuffer" -> (b.fb_addr % PageSize) + b.size["framebuffer"]
    [] o = "physical" -> RoundUp(b.size["physical"], LargeSize)
    [] OTHER -> b.size[o]

\* What the code asks get_free_address for.
Requested(b, o) ==
  IF o = "stack" THEN PageSize + b.size["stack"] ELSE b.size[o]

Alignment(o) ==
  CASE o = "physical" -> LargeSize
    [] o = "boot_info" -> InfoAlign
    [] OTHER -> PageSize

\* The size UsedLevel4Entries::new assumes for a fixed mapping.
Marked(b, o) == IF o = "boot_info" THEN b.info_marked ELSE b.size[o]

IsFixed(mapping) == mapping \notin {Dynamic, Absent}

FixedObjects(b) == {o \in Objects : IsFixed(b.mapping[o])}

\* Plausible fault: the stack starts at its address.
PagesWithoutGuard(b, o, addr) == PagesOf(addr, addr + Extent(b, o))

\* Where an object is entered into the page table.  The stack's first page
\* is the guard page and stays unmapped.
PagesFor(b, o, addr) ==
  IF o = "stack"
  THEN PagesOf(addr + PageSize, addr + Extent(b, o))
  ELSE PagesOf(addr, addr + Extent(b, o))

-----------------------------------------------------------------------------
(***************************************************************************)
(* UsedLevel4Entries::new.  The ramdisk is not among the ranges it marks.  *)
(***************************************************************************)
MarkFixed(b, o) == MarkRange({}, b.mapping[o], b.mapping[o] + Marked(b, o))

FixedEntries(b) == UNION {MarkFixed(b, o) : o \in FixedObjects(b) \ {"ramdisk"}}

RecursiveEntry(b) == IF IsFixed(b.recursive) THEN {P4Index(b.recursive)} ELSE {}

BelowEntries(b) == IF b.range_start = Absent THEN {} ELSE BelowRange(b.range_start)

AboveEntries(b) == IF b.range_end = Absent THEN {} ELSE AboveRange(b.range_end)

\* Plausible fault: the statically configured ranges are not marked.
NewEntriesUnmarked(b) == {0} \cup BelowEntries(b) \cup AboveEntries(b)

NewEntries(b) ==
  {0} \cup FixedEntries(b) \cup RecursiveEntry(b) \cup BelowEntries(b) \cup AboveEntries(b)

-----------------------------------------------------------------------------
(***************************************************************************)
(* What is assumed of a boot.  There always are a stack and a boot info;   *)
(* what there is is not empty; objects at fixed addresses,                 *)
(* and a kernel that is not position independent, lie in the address       *)
(* space; the identity mapped frames are below the end of the first level  *)
(* 4 entry and distinct; a ramdisk starts a page; the boot info is not     *)
(* configured to lie in the recursive entry; a framebuffer that starts     *)
(* within a frame does not fill its last level 4 entry to the last page.   *)
(***************************************************************************)
Mappings == {Dynamic, Absent} \cup 0..(Entries * EntrySize - 1)

Boot ==
  [aslr : BOOLEAN, pie : BOOLEAN,
   segments : Seq([start : Nat, end : Nat]),
   mapping : [Objects -> Mappings],
   size : [Objects -> Nat \ {0}],
   info_marked : Nat \ {0},
   fb_addr : Nat, ramdisk_addr : Nat,
   recursive : Mappings,
   range_start : Mappings \ {Dynamic},
   range_end : Mappings \ {Dynamic},
   code : Nat, gdt : Nat, own : 0..PagesPerEntry]

InSpace(b) ==
  /\ \A o \in FixedObjects(b) : b.mapping[o] + Extent(b, o) <= Entries * EntrySize
  /\ \A i \in 1..Len(b.segments) :
       /\ b.segments[i].start < b.segments[i].end
       /\ b.segments[i].end <= Entries * EntrySize

\* Segments that share a page are a matter of KernelLoader.
SegmentsApart(b) ==
  \A i, j \in 1..Len(b.segments) :
    i # j => PagesOf(b.segments[i].start, b.segments[i].end)
               \cap PagesOf(b.segments[j].start, b.segments[j].end) = {}

LowestOf(segments) ==
  CHOOSE s \in {segments[i].start : i \in 1..Len(segments)} :
    \A i \in 1..Len(segments) : s <= segments[i].start

HighestOf(segments) ==
  CHOOSE e \in {segments[i].end : i \in 1..Len(segments)} :
    \A i \in 1..Len(segments) : segments[i].end <= e

WellFormed(b) ==
  /\ b \in Boot
  /\ b.segments # << >>
  /\ InSpace(b)
  /\ SegmentsApart(b)
  /\ Absent \notin {b.mapping["stack"], b.mapping["boot_info"]}
  /\ {b.code, b.code + 1, b.gdt} \subseteq EntryPages(0)
  /\ b.gdt \notin {b.code, b.code + 1}
  /\ b.ramdisk_addr % PageSize = 0
  /\ Extent(b, "framebuffer") <= EntriesFor(b.size["framebuffer"]) * EntrySize
  /\ IsFixed(b.recursive) /\ IsFixed(b.mapping["boot_info"]) =>
       P4Index(b.recursive) \notin
         MarkRange({}, b.mapping["boot_info"], b.mapping["boot_info"] + Extent(b, "boot_info"))

\* Every entry a fixed object really extends to is marked by `new`.
Accounted(b) ==
  \A o \in FixedObjects(b) :
    MarkRange({}, b.mapping[o], b.mapping[o] + Extent(b, o)) \subseteq NewEntries(b)

\* What is placed at random is no whole number of entries.
Placeable(b) ==
  b.aslr =>
    /\ \A o \in Objects : b.mapping[o] = Dynamic => Requested(b, o) % EntrySize # 0
    /\ b.pie => (HighestOf(b.segments) - LowestOf(b.segments)) % EntrySize # 0

ASSUME MappingsAssumption ==
  /\ LargePage \in Nat \ {0}
  /\ InfoAlign \in Nat \ {0}
  /\ StackAlign \in Nat \ {0} /\ Word \in 1..StackAlign
  /\ PageSize % StackAlign = 0
  /\ PagesPerEntry % LargePage = 0
  /\ Dynamic \notin Nat /\ Absent \notin Nat /\ Dynamic # Absent
  /\ \A b \in Boots : WellFormed(b)

-----------------------------------------------------------------------------
Init ==
  /\ boot \in Boots
  /\ pc = "kernel"
  /\ entry_state = NewEntries(boot)
  /\ page_table = << >>
  /\ address = << >>
  /\ clash = {}
  /\ boot_info = << >>
  /\ rsp = 0

-----------------------------------------------------------------------------
\* map_to for each of the pages, or its PageAlreadyMapped panic.  The boot info
\* is entered into the bootloader's own page table as well, which maps the
\* lowest memory to itself.
OwnPages(o) == IF o = "boot_info" THEN 0..(boot.own - 1) ELSE {}

\* Plausible fault: the frames of the ramdisk are those behind its start.
FrameForNext(o, nth) ==
  CASE o = "framebuffer" -> PageOf(boot.fb_addr) + nth
    [] o = "ramdisk" -> PageOf(boot.ramdisk_addr) + 1 + nth
    [] o = "physical" -> nth
    [] OTHER -> Fresh

\* The frame for the nth page of an object
FrameFor(o, nth) ==
  CASE o = "framebuffer" -> PageOf(boot.fb_addr) + nth
    [] o = "ramdisk" -> PageOf(boot.ramdisk_addr) + nth
    [] o = "physical" -> nth
    [] OTHER -> Fresh

\* the entries for pages that start with the page `from`
Translations(o, pages, from) == [p \in pages |-> [owner |-> o, frame |-> FrameFor(o, p - from)]]

Enter(o, entries) ==
  /\ DOMAIN entries \cap (DOMAIN page_table \cup OwnPages(o)) = {}
  /\ page_table' = [p \in DOMAIN page_table \cup DOMAIN entries |->
                      IF p \in DOMAIN entries THEN entries[p] ELSE page_table[p]]
  /\ pc' = NextOf(o)
  /\ UNCHANGED clash

Collide(o, entries) ==
  /\ DOMAIN entries \cap (DOMAIN page_table \cup OwnPages(o)) # {}
  /\ clash' = {o} \cup {page_table[p].owner : p \in DOMAIN entries \cap DOMAIN page_table}
                  \cup {"identity" : p \in DOMAIN entries \cap OwnPages(o)}
  /\ pc' = "collision"
  /\ UNCHANGED page_table

Locate(o, addr) ==
  address' = [x \in DOMAIN address \cup {o} |-> IF x = o THEN addr ELSE address[x]]

-----------------------------------------------------------------------------
\* load_kernel: a position independent kernel is moved to a free address,
\* then mark_segments marks what the segments occupy.

Segments == boot.segments

Lowest == LowestOf(Segments)      \* min_addr

Highest == HighestOf(Segments)    \* max_addr

\* virtual_address_offset, with the entries used once it is chosen
KernelOffsets ==
  IF boot.pie
  THEN {[offset |-> r.addr - Lowest, used |-> r.used] :
          r \in FreeRanges(entry_state, Highest - Lowest, PageSize, boot.aslr)}
  ELSE {[offset |-> 0, used |-> entry_state]}

\* Plausible fault: the segments are not marked.
MarkNoSegments(used, offset) == used

MarkSegments(used, offset) ==
  used \cup UNION {MarkRange({}, offset + Segments[i].start, offset + Segments[i].end) :
                     i \in 1..Len(Segments)}

SegmentPages(offset) ==
  UNION {PagesOf(offset + Segments[i].start, offset + Segments[i].end) :
           i \in 1..Len(Segments)}

LoadKernel ==
  /\ pc = "kernel"
  /\ \E k \in KernelOffsets :
       /\ entry_state' = MarkSegments(k.used, k.offset)
       /\ Locate("kernel", k.offset + Lowest)
       /\ Enter("kernel", Translations("kernel", SegmentPages(k.offset), PageOf(k.offset + Lowest)))
  /\ UNCHANGED <<boot, boot_info, rsp>>

-----------------------------------------------------------------------------
\* mapping_addr, for the objects whose mapping it resolves
Ranges(o) ==
  IF IsFixed(boot.mapping[o])
  THEN {[addr |-> boot.mapping[o], used |-> entry_state]}
  ELSE FreeRanges(entry_state, Requested(boot, o), Alignment(o), boot.aslr)

Aligned(o, addr) == addr % Alignment(o) = 0

MapObject(o) ==
  /\ pc = o
  /\ boot.mapping[o] # Absent
  /\ \E r \in Ranges(o) :
       /\ Aligned(o, r.addr)
       /\ entry_state' = r.used
       /\ Locate(o, r.addr)
       /\ LET entries == Translations(o, PagesFor(boot, o, r.addr), PageOf(r.addr))
          IN  Enter(o, entries) \/ Collide(o, entries)
  /\ UNCHANGED <<boot, boot_info, rsp>>

Misaligned(o) ==
  /\ pc = o
  /\ boot.mapping[o] # Absent
  /\ \E r \in Ranges(o) : ~Aligned(o, r.addr)
  /\ pc' = "misaligned"
  /\ UNCHANGED <<boot, entry_state, page_table, address, clash, boot_info, rsp>>

SkipObject(o) ==
  /\ pc = o
  /\ boot.mapping[o] = Absent
  /\ pc' = NextOf(o)
  /\ UNCHANGED <<boot, entry_state, page_table, address, clash, boot_info, rsp>>

\* the two panics of get_free_address: no free entries, no offset to draw
NoRoom ==
  /\ \/ pc = "kernel" /\ KernelOffsets = {}
     \/ pc \in Objects /\ boot.mapping[pc] # Absent /\ Ranges(pc) = {}
     \/ pc = "recursive" /\ boot.recursive = Dynamic /\ FreeWindows(entry_state, 1) = {}
  /\ pc' = "no_room"
  /\ UNCHANGED <<boot, entry_state, page_table, address, clash, boot_info, rsp>>

\* There is no frame left for what is mapped or for a page table.
OutOfFrames ==
  /\ \/ pc \in {"kernel", "identity"}
     \/ pc \in Objects /\ boot.mapping[pc] # Absent
  /\ pc' = "no_frames"
  /\ UNCHANGED <<boot, entry_state, page_table, address, clash, boot_info, rsp>>

-----------------------------------------------------------------------------
\* The context switch code, two frames of it, and the GDT.
IdentityPages ==
  [p \in {boot.code, boot.code + 1, boot.gdt} |-> [owner |-> "identity", frame |-> p]]

IdentityMap ==
  /\ pc = "identity"
  /\ Enter("identity", IdentityPages) \/ Collide("identity", IdentityPages)
  /\ UNCHANGED <<boot, entry_state, address, boot_info, rsp>>

-----------------------------------------------------------------------------
\* The recursive entry: entry.is_unused() holds iff no page of it is mapped.
RecursiveIndices ==
  IF boot.recursive = Dynamic
  THEN FreeEntries(entry_state, 1, boot.aslr)
  ELSE {P4Index(boot.recursive)}

RecursiveAligned == IsFixed(boot.recursive) => boot.recursive % EntrySize = 0

MapRecursive ==
  /\ pc = "recursive"
  /\ boot.recursive # Absent
  /\ RecursiveAligned
  /\ \E i \in RecursiveIndices :
       /\ entry_state' = IF boot.recursive = Dynamic THEN entry_state \cup {i} ELSE entry_state
       /\ Locate("recursive", i * EntrySize)
       /\ LET entries == Translations("recursive", EntryPages(i), i * PagesPerEntry)
          IN  Enter("recursive", entries) \/ Collide("recursive", entries)
  /\ UNCHANGED <<boot, boot_info, rsp>>

RecursiveMisaligned ==
  /\ pc = "recursive"
  /\ boot.recursive # Absent
  /\ ~RecursiveAligned
  /\ pc' = "misaligned"
  /\ UNCHANGED <<boot, entry_state, page_table, address, clash, boot_info, rsp>>

SkipRecursive ==
  /\ pc = "recursive"
  /\ boot.recursive = Absent
  /\ pc' = NextOf("recursive")
  /\ UNCHANGED <<boot, entry_state, page_table, address, clash, boot_info, rsp>>

-----------------------------------------------------------------------------
\* create_boot_info writes what set_up_mappings has found, then switch_to_kernel
\* and context_switch: the stack ends at an aligned address and gets a word.

Reported == {"framebuffer", "ramdisk", "physical", "recursive"}

WriteBootInfo ==
  /\ pc = "write_info"
  /\ boot_info' = [o \in Reported |-> IF o \in DOMAIN address THEN address[o] ELSE Absent]
  /\ pc' = "switch"
  /\ UNCHANGED <<boot, entry_state, page_table, address, clash, rsp>>

StackTop == LET end == address["stack"] + PageSize + boot.size["stack"]
            IN  end - (end % StackAlign)

SwitchToKernel ==
  /\ pc = "switch"
  /\ rsp' = StackTop - Word
  /\ pc' = "entered"
  /\ UNCHANGED <<boot, entry_state, page_table, address, clash, boot_info>>

-----------------------------------------------------------------------------
Next ==
  \/ LoadKernel
  \/ \E o \in Objects : MapObject(o) \/ Misaligned(o) \/ SkipObject(o)
  \/ IdentityMap
  \/ MapRecursive \/ RecursiveMisaligned \/ SkipRecursive
  \/ NoRoom \/ OutOfFrames
  \/ WriteBootInfo \/ SwitchToKernel

Spec == Init /\ [][Next]_vars

-----------------------------------------------------------------------------
\* What has an address the kernel's configuration or its linker chose.
Configured(o) ==
  \/ o = "identity"
  \/ o = "kernel" /\ ~boot.pie
  \/ o = "recursive" /\ IsFixed(boot.recursive)
  \/ o \in FixedObjects(boot)

\* Mappings collide only if both sides were configured to: what is placed
\* dynamically never hits anything, whatever the order of the mappings,
\* because `new` marks the statically configured ranges as used.
CollisionsAreConfigured == \A o \in clash : Configured(o)

\* Every page that is mapped lies in a level 4 entry that is marked as used,
\* and so does the guard page: later dynamic mappings stay clear of them.
MappedEntriesUsed ==
  /\ \A p \in DOMAIN page_table : EntryOfPage(p) \in entry_state
  /\ "stack" \in DOMAIN address => P4Index(address["stack"]) \in entry_state

\* The page below the stack is unmapped, so that a stack overflow faults,
\* unless a fixed stack and another fixed mapping were configured to overlap.
GuardPageUnmapped ==
  "stack" \in DOMAIN address /\ PageOf(address["stack"]) \in DOMAIN page_table =>
    Configured("stack") /\ Configured(page_table[PageOf(address["stack"])].owner)

\* Dynamic mappings stay between dynamic_range_start and dynamic_range_end,
\* also when these cut a level 4 entry in two.
WithinDynamicRange ==
  \A p \in DOMAIN page_table :
    ~Configured(page_table[p].owner) =>
      /\ boot.range_start # Absent => PageOf(boot.range_start) <= p
      /\ boot.range_end # Absent => p <= PageOf(boot.range_end)

\* The physical address that a virtual one leads to
Translate(addr) == page_table[PageOf(addr)].frame * PageSize + (addr % PageSize)

\* Where an object starts in physical memory
PhysicalStart(o) ==
  CASE o = "framebuffer" -> boot.fb_addr [] o = "ramdisk" -> boot.ramdisk_addr [] o = "physical" -> 0

\* When the kernel is entered, what its boot info says is true in its page table:
\* every byte of the framebuffer, the ramdisk and the physical memory is
\* at the address given, and exactly what was wanted is given.  The
\* processor goes on with the identity mapped code, has pushed its word to the
\* stack and not to the guard page, and can read the boot info.  (For a
\* framebuffer that starts a page, and a stack with room for a word.)
BootInfoTrue ==
  pc = "entered" =>
    /\ \A o \in Reported \ {"recursive"} :
         /\ boot_info[o] = Absent <=> boot.mapping[o] = Absent
         /\ boot_info[o] # Absent /\ PhysicalStart(o) % PageSize = 0 =>
              \A k \in 0..(boot.size[o] - 1) :
                /\ page_table[PageOf(boot_info[o] + k)].owner = o
                /\ Translate(boot_info[o] + k) = PhysicalStart(o) + k
    /\ boot_info["recursive"] # Absent =>
         \A p \in EntryPages(P4Index(boot_info["recursive"])) : page_table[p].owner = "recursive"
    /\ \A p \in {boot.code, boot.code + 1, boot.gdt} : page_table[p].frame = p
    /\ boot.size["stack"] >= StackAlign => \A k \in 0..(Word - 1) : page_table[PageOf(rsp + k)].owner = "stack"
    /\ \A k \in 0..(boot.size["boot_info"] - 1) :
         page_table[PageOf(address["boot_info"] + k)].owner = "boot_info"

=============================================================================
