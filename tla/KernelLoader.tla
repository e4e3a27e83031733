---------------------------- MODULE KernelLoader ----------------------------
(***************************************************************************)
(* Loading the kernel's ELF file (common/src/load_kernel.rs).              *)
(*                                                                         *)
(* The file lies in memory, in the frames 0 .. FileFrames - 1.  Its        *)
(* segments are mapped in place; a page that has to be changed (.bss that  *)
(* shares a page with data, relocations) is first copied to a frame of its *)
(* own and flagged COPIED.  Loops over pages take one step per page, and   *)
(* the processor's view of memory is the page table over the contents of   *)
(* the frames.                                                             *)
(***************************************************************************)
EXTENDS Integers, Sequences

CONSTANTS
  PageSize,    \* bytes in a page
  WordSize,    \* bytes a relocation writes
  RelaSize,    \* bytes of an entry of the relocation table
  Kernels      \* the kernel files considered, see WellFormed

VARIABLES
  kernel,      \* the file loaded in this boot, never changed
  pc,          \* where control is, or how loading ended
  header,      \* number of the program header, or relocation, at hand
  i,           \* number of the page at hand
  page_table,  \* page -> [frame, writable, executable, copied]
  frames,      \* frame -> the bytes in it
  next_frame,  \* the next frame the allocator returns
  tls_template \* number of the TLS header found, 0 for None

\* A kernel file as the loader sees it: what xmas_elf reads from its headers, its
\* dynamic section and its relocation table, and the virtual_address_offset
\* chosen for it, which is negative for a kernel that is moved down.
ProgramHeader ==
  [type : STRING, offset : Nat, vaddr : Nat, file_size : Nat, mem_size : Nat,
   write : BOOLEAN, execute : BOOLEAN]

KernelFile ==
  [aligned : BOOLEAN, base : Int, len : Nat,
   headers : Seq(ProgramHeader),
   relocations : Seq([target : Nat, addend : Nat, relative : BOOLEAN]),
   rela : Nat, rela_offset : Nat,
   tags : [rela : Nat, size : Nat, ent : Nat, ent_size : Nat]]

ASSUME LoaderAssumption ==
  /\ PageSize \in Nat \ {0} /\ WordSize \in Nat \ {0} /\ RelaSize \in Nat \ {0}
  /\ Kernels \subseteq KernelFile

vars == <<kernel, pc, header, i, page_table, frames, next_frame, tls_template>>

-----------------------------------------------------------------------------
\* Bytes: of the file, of a relocated word, zero, or whatever was in memory.

FileByte(o) == <<"file", o>>

WordByte(value, o) == <<"word", value, o>>

Zero == <<"zero">>

Junk == <<"junk">>

Offsets == 0..(PageSize - 1)

PageOf(addr) == addr \div PageSize

OffsetOf(addr) == addr % PageSize

-----------------------------------------------------------------------------
\* The file.  `base` is the virtual_address_offset chosen for it.

Headers == kernel.headers

Loads == {Headers[h] : h \in {g \in 1..Len(Headers) : Headers[g].type = "Load"}}

Start(seg) == kernel.base + seg.vaddr

ZeroStart(seg) == Start(seg) + seg.file_size

End(seg) == Start(seg) + seg.mem_size

PagesIn(start, end) == PageOf(start)..PageOf(end - 1)

FileFrames == (kernel.len + PageSize - 1) \div PageSize

FrameBytes(f) ==
  [o \in Offsets |-> IF f * PageSize + o < kernel.len THEN FileByte(f * PageSize + o) ELSE Junk]

\* The processor's view of the kernel's address space
IsMapped(page) == page \in DOMAIN page_table

ByteAt(addr) == frames[page_table[PageOf(addr)].frame][OffsetOf(addr)]

-----------------------------------------------------------------------------
Init ==
  /\ kernel \in Kernels
  /\ pc = "new"
  /\ header = 1
  /\ i = 0
  /\ page_table = << >>
  /\ frames = [f \in 0..(FileFrames - 1) |-> FrameBytes(f)]
  /\ next_frame = FileFrames
  /\ tls_template = 0

Stop(how) ==
  /\ pc' = how
  /\ UNCHANGED <<kernel, header, i, page_table, frames, next_frame, tls_template>>

Goto(where) ==
  /\ pc' = where
  /\ i' = 0

\* map_to
MapTo(page, entry) ==
  page_table' = [p \in DOMAIN page_table \cup {page} |->
                   IF p = page THEN entry ELSE page_table[p]]

SegmentEntry(seg, f) ==
  [frame |-> f, writable |-> seg.write, executable |-> seg.execute, copied |-> FALSE]

\* Loader::new: the file is page aligned and of a supported type
New ==
  /\ pc = "new"
  /\ kernel.aligned
  /\ Goto("headers")
  /\ UNCHANGED <<kernel, header, page_table, frames, next_frame, tls_template>>

NewFails ==
  /\ pc = "new"
  /\ ~kernel.aligned
  /\ Stop("error")

-----------------------------------------------------------------------------
\* load_segments, first pass

TakeHeader(type) == pc = "headers" /\ header <= Len(Headers) /\ Headers[header].type = type

BeginLoad ==
  /\ TakeHeader("Load")
  /\ Goto("map")
  /\ UNCHANGED <<kernel, header, page_table, frames, next_frame, tls_template>>

\* handle_tls_segment
HandleTls ==
  /\ TakeHeader("Tls")
  /\ tls_template = 0
  /\ tls_template' = header
  /\ header' = header + 1
  /\ UNCHANGED <<kernel, pc, i, page_table, frames, next_frame>>

SecondTls ==
  /\ TakeHeader("Tls")
  /\ tls_template # 0
  /\ Stop("error")

SkipHeader ==
  /\ pc = "headers"
  /\ header <= Len(Headers)
  /\ Headers[header].type \notin {"Load", "Tls"}
  /\ header' = header + 1
  /\ UNCHANGED <<kernel, pc, i, page_table, frames, next_frame, tls_template>>

HeadersDone ==
  /\ pc = "headers"
  /\ header > Len(Headers)
  /\ header' = 0
  /\ Goto("dynamic")
  /\ UNCHANGED <<kernel, page_table, frames, next_frame, tls_template>>

-----------------------------------------------------------------------------
\* handle_load_segment, for the frame i of the segment at hand

Segment == Headers[header]

StartFrame(seg) == seg.offset \div PageSize

\* Plausible fault: the end of the data is taken to be inclusive.
EndFrameInclusive(seg) == (seg.offset + seg.file_size) \div PageSize

EndFrame(seg) == (seg.offset + seg.file_size - 1) \div PageSize

MapFrame ==
  /\ pc = "map"
  /\ StartFrame(Segment) + i <= EndFrame(Segment)
  /\ ~IsMapped(PageOf(Start(Segment)) + i)
  /\ MapTo(PageOf(Start(Segment)) + i, SegmentEntry(Segment, StartFrame(Segment) + i))
  /\ i' = i + 1
  /\ UNCHANGED <<kernel, pc, header, frames, next_frame, tls_template>>

MapFrameFails ==
  /\ pc = "map"
  /\ StartFrame(Segment) + i <= EndFrame(Segment)
  /\ IsMapped(PageOf(Start(Segment)) + i)
  /\ Stop("error")

SegmentMapped ==
  /\ pc = "map"
  /\ StartFrame(Segment) + i > EndFrame(Segment)
  /\ IF Segment.mem_size > Segment.file_size
     THEN Goto("bss") /\ UNCHANGED header
     ELSE Goto("headers") /\ header' = header + 1
  /\ UNCHANGED <<kernel, page_table, frames, next_frame, tls_template>>

-----------------------------------------------------------------------------
\* make_mut, together with the write it is called for: the bytes in the domain
\* of `bytes` are written to the page, in a frame of its own.

MutFrame(page) ==
  IF page_table[page].copied THEN page_table[page].frame ELSE next_frame

\* Plausible fault: the frame of the file is changed in place.
WriteInPlace(page, bytes) ==
  /\ frames' = [frames EXCEPT ![page_table[page].frame] =
                  [o \in Offsets |-> IF o \in DOMAIN bytes THEN bytes[o] ELSE @[o]]]
  /\ UNCHANGED <<page_table, next_frame>>

\* Plausible fault: the rest of the page is not copied.
WriteFresh(page, bytes) ==
  /\ frames' = [f \in DOMAIN frames \cup {MutFrame(page)} |->
                  IF f = MutFrame(page)
                  THEN [o \in Offsets |-> IF o \in DOMAIN bytes THEN bytes[o] ELSE Junk]
                  ELSE frames[f]]
  /\ MapTo(page, [frame |-> MutFrame(page),
                  writable |-> page_table[page].writable,
                  executable |-> page_table[page].executable,
                  copied |-> TRUE])
  /\ next_frame' = IF page_table[page].copied THEN next_frame ELSE next_frame + 1

WritePage(page, bytes) ==
  /\ frames' = [f \in DOMAIN frames \cup {MutFrame(page)} |->
                  IF f = MutFrame(page)
                  THEN [o \in Offsets |-> IF o \in DOMAIN bytes THEN bytes[o]
                                          ELSE frames[page_table[page].frame][o]]
                  ELSE frames[f]]
  /\ MapTo(page, [frame |-> MutFrame(page),
                  writable |-> page_table[page].writable,
                  executable |-> page_table[page].executable,
                  copied |-> TRUE])
  /\ next_frame' = IF page_table[page].copied THEN next_frame ELSE next_frame + 1

-----------------------------------------------------------------------------
\* handle_bss_section

\* the page with the last byte of data, whose rest is to be zero
LastPage(seg) == PageOf(ZeroStart(seg) - 1)

ZeroRest ==
  /\ pc = "bss"
  /\ OffsetOf(ZeroStart(Segment)) # 0
  /\ IsMapped(LastPage(Segment))
  /\ WritePage(LastPage(Segment), [o \in OffsetOf(ZeroStart(Segment))..(PageSize - 1) |-> Zero])
  /\ Goto("bss_pages")
  /\ UNCHANGED <<kernel, header, tls_template>>

NothingToZero ==
  /\ pc = "bss"
  /\ OffsetOf(ZeroStart(Segment)) = 0
  /\ Goto("bss_pages")
  /\ UNCHANGED <<kernel, header, page_table, frames, next_frame, tls_template>>

BssPage(seg) == PageOf(ZeroStart(seg) + PageSize - 1) + i

\* Plausible fault: the frame is not taken from the allocator.
MapBssShared ==
  /\ pc = "bss_pages"
  /\ BssPage(Segment) <= PageOf(End(Segment) - 1)
  /\ ~IsMapped(BssPage(Segment))
  /\ MapTo(BssPage(Segment), SegmentEntry(Segment, next_frame))
  /\ frames' = [f \in DOMAIN frames \cup {next_frame} |->
                  IF f = next_frame THEN [o \in Offsets |-> Zero] ELSE frames[f]]
  /\ i' = i + 1
  /\ UNCHANGED <<kernel, pc, header, next_frame, tls_template>>

MapBssPage ==
  /\ pc = "bss_pages"
  /\ BssPage(Segment) <= PageOf(End(Segment) - 1)
  /\ ~IsMapped(BssPage(Segment))
  /\ MapTo(BssPage(Segment), SegmentEntry(Segment, next_frame))
  /\ frames' = [f \in DOMAIN frames \cup {next_frame} |->
                  IF f = next_frame THEN [o \in Offsets |-> Zero] ELSE frames[f]]
  /\ next_frame' = next_frame + 1
  /\ i' = i + 1
  /\ UNCHANGED <<kernel, pc, header, tls_template>>

MapBssFails ==
  /\ pc = "bss_pages"
  /\ BssPage(Segment) <= PageOf(End(Segment) - 1)
  /\ IsMapped(BssPage(Segment))
  /\ Stop("error")

BssDone ==
  /\ pc = "bss_pages"
  /\ BssPage(Segment) > PageOf(End(Segment) - 1)
  /\ header' = header + 1
  /\ Goto("headers")
  /\ UNCHANGED <<kernel, page_table, frames, next_frame, tls_template>>

-----------------------------------------------------------------------------
(***************************************************************************)
(* handle_dynamic_segment: the dynamic section has so many Rela, RelaSize  *)
(* and RelaEnt entries, the last of these says ent_size, and the table     *)
(* holds kernel.relocations.  `header` counts the relocations done.        *)
(***************************************************************************)
Tags == kernel.tags

NoRelocations == Tags.rela = 0 /\ Tags.size = 0 /\ Tags.ent = 0

GoodTags == Tags.rela = 1 /\ Tags.size = 1 /\ Tags.ent = 1 /\ Tags.ent_size = RelaSize

Relocations == IF GoodTags THEN kernel.relocations ELSE << >>

DynamicFails ==
  /\ pc = "dynamic"
  /\ ~NoRelocations /\ ~GoodTags
  /\ Stop("error")

BeginRelocation ==
  /\ pc = "dynamic"
  /\ NoRelocations \/ GoodTags
  /\ Goto("relocate")
  /\ UNCHANGED <<kernel, header, page_table, frames, next_frame, tls_template>>

\* read_relocation, through the kernel's address space
EntryAddr == kernel.base + kernel.rela + RelaSize * header

EntryBytes == [o \in 0..(RelaSize - 1) |-> ByteAt(EntryAddr + o)]

ReadsBack == EntryBytes = [o \in 0..(RelaSize - 1) |-> FileByte(kernel.rela_offset + RelaSize * header + o)]

EntryMapped == \A p \in PagesIn(EntryAddr, EntryAddr + RelaSize) : IsMapped(p)

Relocation == Relocations[header + 1]

\* check_is_in_load
IsInLoad(addr) == \E seg \in Loads : seg.vaddr <= addr /\ addr < seg.vaddr + seg.mem_size

Target == kernel.base + Relocation.target

RelocatedByte(addr) == WordByte(kernel.base + Relocation.addend, addr - Target)

\* copy_to, for the page i of the word
WordPage == PageOf(Target) + i

WordPart ==
  [o \in {a \in Offsets : WordPage * PageSize + a \in Target..(Target + WordSize - 1)} |->
     RelocatedByte(WordPage * PageSize + o)]

RelocatePage ==
  /\ pc = "relocate"
  /\ header < Len(Relocations)
  /\ i = 0 => EntryMapped /\ ReadsBack
  /\ Relocation.relative /\ IsInLoad(Relocation.target)
  /\ WordPage <= PageOf(Target + WordSize - 1)
  /\ IsMapped(WordPage)
  /\ WritePage(WordPage, WordPart)
  /\ i' = i + 1
  /\ UNCHANGED <<kernel, pc, header, tls_template>>

\* the table or the target is not mapped, the relocation is not relative or
\* uses the symbol table, or its target is in no segment
RelocationFails ==
  /\ pc = "relocate"
  /\ header < Len(Relocations)
  /\ \/ i = 0 /\ ~EntryMapped
     \/ i = 0 /\ EntryMapped /\ ReadsBack
          /\ ~(Relocation.relative /\ IsInLoad(Relocation.target))
     \/ /\ i = 0 => EntryMapped /\ ReadsBack
        /\ WordPage <= PageOf(Target + WordSize - 1)
        /\ ~IsMapped(WordPage)
  /\ Stop("error")

RelocationDone ==
  /\ pc = "relocate"
  /\ header < Len(Relocations)
  /\ WordPage > PageOf(Target + WordSize - 1)
  /\ header' = header + 1
  /\ i' = 0
  /\ UNCHANGED <<kernel, pc, page_table, frames, next_frame, tls_template>>

AllRelocated ==
  /\ pc = "relocate"
  /\ header = Len(Relocations)
  /\ Goto("relro")
  /\ UNCHANGED <<kernel, header, page_table, frames, next_frame, tls_template>>

\* The table was overwritten by a relocation; what is read then is arbitrary.
TableOverwritten ==
  /\ pc = "relocate"
  /\ header < Len(Relocations)
  /\ i = 0 /\ EntryMapped /\ ~ReadsBack
  /\ Stop("garbage")

-----------------------------------------------------------------------------
\* handle_relro_segment, for all of them

HeaderPages(type) ==
  UNION {PagesIn(Start(Headers[h]), End(Headers[h])) :
           h \in {g \in 1..Len(Headers) : Headers[g].type = type}}

ProtectRelro ==
  /\ pc = "relro"
  /\ \A p \in HeaderPages("GnuRelro") : IsMapped(p)
  /\ page_table' = [p \in DOMAIN page_table |->
                      [frame |-> page_table[p].frame,
                       writable |-> page_table[p].writable /\ p \notin HeaderPages("GnuRelro"),
                       executable |-> page_table[p].executable,
                       copied |-> page_table[p].copied]]
  /\ Goto("flags")
  /\ UNCHANGED <<kernel, header, frames, next_frame, tls_template>>

RelroUnmapped ==
  /\ pc = "relro"
  /\ \E p \in HeaderPages("GnuRelro") : ~IsMapped(p)
  /\ Stop("error")

\* Plausible fault: only pages with data from the file are cleaned.
CleanDataPages ==
  /\ pc = "flags"
  /\ page_table' = [p \in DOMAIN page_table |->
                      [frame |-> page_table[p].frame,
                       writable |-> page_table[p].writable,
                       executable |-> page_table[p].executable,
                       copied |-> page_table[p].copied /\
                                  \A seg \in Loads : p \notin PagesIn(Start(seg), ZeroStart(seg))]]
  /\ Goto("done")
  /\ UNCHANGED <<kernel, header, frames, next_frame, tls_template>>

\* remove_copied_flags
RemoveCopiedFlags ==
  /\ pc = "flags"
  /\ \A p \in HeaderPages("Load") : IsMapped(p)
  /\ page_table' = [p \in DOMAIN page_table |->
                      [frame |-> page_table[p].frame,
                       writable |-> page_table[p].writable,
                       executable |-> page_table[p].executable,
                       copied |-> page_table[p].copied /\ p \notin HeaderPages("Load")]]
  /\ Goto("done")
  /\ UNCHANGED <<kernel, header, frames, next_frame, tls_template>>

FlagsUnmapped ==
  /\ pc = "flags"
  /\ \E p \in HeaderPages("Load") : ~IsMapped(p)
  /\ Stop("error")

-----------------------------------------------------------------------------
\* The frame allocator may run out of frames, for a copy, for .bss or for a
\* page table; every such failure ends the boot.
OutOfFrames ==
  /\ pc \in {"map", "bss", "bss_pages", "relocate"}
  /\ Stop("no_frames")

Next ==
  \/ New \/ NewFails
  \/ BeginLoad \/ HandleTls \/ SecondTls \/ SkipHeader \/ HeadersDone
  \/ MapFrame \/ MapFrameFails \/ SegmentMapped
  \/ ZeroRest \/ NothingToZero \/ MapBssPage \/ MapBssFails \/ BssDone
  \/ DynamicFails \/ BeginRelocation
  \/ RelocatePage \/ RelocationFails \/ RelocationDone \/ AllRelocated \/ TableOverwritten
  \/ ProtectRelro \/ RelroUnmapped
  \/ RemoveCopiedFlags \/ FlagsUnmapped
  \/ OutOfFrames

Spec == Init /\ [][Next]_vars

-----------------------------------------------------------------------------
(***************************************************************************)
(* A file a linker produces: segments are congruent to their place in the  *)
(* file, have disjoint parts of it and share no page; relocated words do   *)
(* not overlap, lie in a segment and not in the relocation table, which is *)
(* data of a segment; RELRO is part of a segment; there is at most one TLS *)
(* segment.                                                                *)
(***************************************************************************)
Bytes(start, size) == start..(start + size - 1)

HeadersOf(k, type) == {h \in 1..Len(k.headers) : k.headers[h].type = type}

Congruent(k, seg) ==
  /\ OffsetOf(k.base + seg.vaddr) = OffsetOf(seg.offset)
  /\ seg.offset + seg.file_size <= k.len
  /\ seg.file_size <= seg.mem_size /\ seg.mem_size > 0

Apart(k, g, h) ==
  LET a == k.headers[g]  b == k.headers[h] IN
  /\ Bytes(a.offset, a.file_size) \cap Bytes(b.offset, b.file_size) = {}
  /\ PagesIn(k.base + a.vaddr, k.base + a.vaddr + a.mem_size)
       \cap PagesIn(k.base + b.vaddr, k.base + b.vaddr + b.mem_size) = {}

RelocationsFit(k) ==
  /\ \A r, s \in 1..Len(k.relocations) :
       r # s => Bytes(k.relocations[r].target, WordSize)
                  \cap Bytes(k.relocations[s].target, WordSize) = {}
  /\ \A r \in 1..Len(k.relocations) :
       /\ k.relocations[r].relative
       /\ \E h \in HeadersOf(k, "Load") :
            Bytes(k.relocations[r].target, WordSize)
              \subseteq Bytes(k.headers[h].vaddr, k.headers[h].mem_size)
       /\ Bytes(k.relocations[r].target, WordSize)
            \cap Bytes(k.rela, RelaSize * Len(k.relocations)) = {}
  /\ k.relocations # << >> =>
       \E h \in HeadersOf(k, "Load") :
         /\ Bytes(k.rela, RelaSize * Len(k.relocations))
              \subseteq Bytes(k.headers[h].vaddr, k.headers[h].file_size)
         /\ k.rela_offset = k.headers[h].offset + (k.rela - k.headers[h].vaddr)

WellFormed(k) ==
  /\ k.aligned
  /\ \A h \in HeadersOf(k, "Load") : Congruent(k, k.headers[h])
  /\ \A g, h \in HeadersOf(k, "Load") : g # h => Apart(k, g, h)
  /\ \A h \in HeadersOf(k, "GnuRelro") : \E g \in HeadersOf(k, "Load") :
       /\ k.headers[h].mem_size > 0
       /\ Bytes(k.headers[h].vaddr, k.headers[h].mem_size)
            \subseteq Bytes(k.headers[g].vaddr, k.headers[g].mem_size)
  /\ \A g, h \in HeadersOf(k, "Tls") : g = h
  /\ \/ k.relocations = << >> /\ k.tags.rela = 0 /\ k.tags.size = 0 /\ k.tags.ent = 0
     \/ /\ k.tags.rela = 1 /\ k.tags.size = 1 /\ k.tags.ent = 1
        /\ k.tags.ent_size = RelaSize
  /\ RelocationsFit(k)

-----------------------------------------------------------------------------
Ends == {"done", "error", "garbage", "no_frames"}

\* The frames of the kernel file are never written: two segments may share
\* one, and the relocation table and the boot info refer to the file.
FileIntact ==
  \A f \in 0..(FileFrames - 1) : frames[f] = FrameBytes(f)

\* What the ELF file says a byte of a segment is.
ImageByte(seg, addr) ==
  IF \E r \in 1..Len(Relocations) : addr - kernel.base \in Bytes(Relocations[r].target, WordSize)
  THEN LET r == CHOOSE r \in 1..Len(Relocations) :
                  addr - kernel.base \in Bytes(Relocations[r].target, WordSize)
       IN WordByte(kernel.base + Relocations[r].addend,
                   addr - kernel.base - Relocations[r].target)
  ELSE IF addr < ZeroStart(seg) THEN FileByte(seg.offset + (addr - Start(seg))) ELSE Zero

\* A kernel that was loaded sees its image: data from the file, zeroes for
\* .bss and the relocated words, also where these share pages.
ImageCorrect ==
  pc = "done" /\ WellFormed(kernel) =>
    \A seg \in Loads : \A addr \in Bytes(Start(seg), seg.mem_size) :
      ByteAt(addr) = ImageByte(seg, addr)

\* A loaded kernel's pages have the permissions of their segment, without
\* write access under RELRO, and no COPIED flag is left in the page table.
FlagsCorrect ==
  pc = "done" /\ WellFormed(kernel) =>
    \A seg \in Loads : \A p \in PagesIn(Start(seg), End(seg)) :
      /\ page_table[p].writable = (seg.write /\ p \notin HeaderPages("GnuRelro"))
      /\ page_table[p].executable = seg.execute
      /\ ~page_table[p].copied

\* A write of the kernel to its memory changes nothing else of its image:
\* no two bytes of segments are the same byte of physical memory.
WritesStayPrivate ==
  pc = "done" /\ WellFormed(kernel) =>
    \A s, t \in Loads : \A a \in Bytes(Start(s), s.mem_size), b \in Bytes(Start(t), t.mem_size) :
      a # b => \/ page_table[PageOf(a)].frame # page_table[PageOf(b)].frame
               \/ OffsetOf(a) # OffsetOf(b)

\* Loading a well formed kernel fails only for want of memory.
LoadsWellFormed == WellFormed(kernel) => pc \notin {"error", "garbage"}

=============================================================================
