---------------------------- MODULE Level4Entries ----------------------------
(***************************************************************************)
(* The level 4 page table entries in use (common/src/level_4_entries.rs).  *)
(* `used` is the set of indices i with entry_state[i] = true.  Virtual     *)
(* addresses are numbered through, 0 .. Entries * EntrySize - 1: the       *)
(* non-canonical hole between the halves is left out, as it is between     *)
(* consecutive level 4 indices.                                            *)
(***************************************************************************)
EXTENDS Integers

CONSTANTS
  PageSize,       \* bytes in a page
  PagesPerEntry,  \* pages a level 4 entry covers
  Entries         \* entries of the level 4 table

ASSUME SizesAssumption ==
  /\ PageSize \in Nat \ {0}
  /\ PagesPerEntry \in Nat \ {0}
  /\ Entries \in Nat \ {0}

EntrySize == PageSize * PagesPerEntry       \* LEVEL_4_SIZE

Indices == 0..(Entries - 1)

PageOf(addr) == addr \div PageSize          \* Page::containing_address

P4Index(addr) == addr \div EntrySize

PagesOf(start, end) == PageOf(start)..PageOf(end - 1)

EntryPages(i) == (i * PagesPerEntry)..((i + 1) * PagesPerEntry - 1)

EntryOfPage(page) == page \div PagesPerEntry

-----------------------------------------------------------------------------
\* mark_range_as_used, for the range [start, end)
MarkRange(used, start, end) == used \cup (P4Index(start)..P4Index(end - 1))

\* Plausible fault: only the entries before the one the range starts in are marked.
BelowRangeEntry(start) == 0..(P4Index(start) - 1)

\* Mark everything before the dynamic range as unusable.
BelowRange(start) ==
  IF PageOf(start) = 0 THEN {} ELSE 0..EntryOfPage(PageOf(start) - 1)

\* Mark everything after the dynamic range as unusable.
AboveRange(end) == EntryOfPage(PageOf(end) + 1)..(Entries - 1)

-----------------------------------------------------------------------------
\* get_free_entries

Window(i, num) == i..(i + num - 1)

\* the indices that `windows(num)` finds with all entries unused
FreeWindows(used, num) ==
  {i \in Indices : Window(i, num) \subseteq Indices \ used}

\* random with ASLR, the first without; none if no window is free (a panic)
FreeEntries(used, num, aslr) ==
  {i \in FreeWindows(used, num) :
     aslr \/ \A j \in FreeWindows(used, num) : i <= j}

-----------------------------------------------------------------------------
\* get_free_address

\* level_4_entries
EntriesFor(size) == (size + (EntrySize - 1)) \div EntrySize

\* the number of offsets Uniform draws from; it panics if there is none
OffsetCount(size, alignment) == (EntrySize - (size % EntrySize)) \div alignment

FreeOffsets(size, alignment, aslr) ==
  IF aslr THEN {k * alignment : k \in 0..(OffsetCount(size, alignment) - 1)} ELSE {0}

\* the addresses it may return, each with the entries used after the call
FreeRanges(used, size, alignment, aslr) ==
  {[addr |-> i * EntrySize + o, used |-> used \cup Window(i, EntriesFor(size))] :
     i \in FreeEntries(used, EntriesFor(size), aslr),
     o \in FreeOffsets(size, alignment, aslr)}

=============================================================================
