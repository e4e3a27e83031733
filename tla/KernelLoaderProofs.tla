------------------------- MODULE KernelLoaderProofs -------------------------
(***************************************************************************)
(* What load_kernel leaves in memory: proofs about KernelLoader for every  *)
(* file, every number of segments and relocations and every page size.     *)
(***************************************************************************)
EXTENDS KernelLoader, TLAPS

-----------------------------------------------------------------------------
\* Pages and offsets.

\* An address is its page and its offset in the page.
LEMMA AddressParts ==
  ASSUME NEW a \in Int
  PROVE  /\ PageOf(a) \in Int /\ OffsetOf(a) \in Offsets
         /\ OffsetOf(a) \in Nat /\ OffsetOf(a) < PageSize
         /\ a = PageOf(a) * PageSize + OffsetOf(a)
<1>1. PageSize \in Nat /\ PageSize > 0
  BY LoaderAssumption
<1> QED
  BY <1>1 DEF PageOf, OffsetOf, Offsets

\* Page and offset are determined by the address.
LEMMA PartsOfSum ==
  ASSUME NEW p \in Int, NEW o \in Int, 0 <= o, o < PageSize
  PROVE  PageOf(p * PageSize + o) = p /\ OffsetOf(p * PageSize + o) = o
<1> DEFINE P == PageSize
           a == p * P + o
           q == PageOf(a)
           m == OffsetOf(a)
<1>1. P \in Nat /\ P > 0
  BY LoaderAssumption
<1>2. p * P \in Int /\ a \in Int
  BY <1>1
<1>3. q \in Int /\ m \in Nat /\ m < P /\ a = q * P + m
  BY <1>2, AddressParts
<1>4. p * P + o = q * P + m /\ o < P
  BY <1>3
<1> HIDE DEF P, q, m, a
<1>5. q < p => (q + 1) * P <= p * P
  BY <1>1, <1>3
<1>6. p < q => (p + 1) * P <= q * P
  BY <1>1, <1>3
<1>7. (q + 1) * P = q * P + P /\ (p + 1) * P = p * P + P /\ q * P \in Int
  BY <1>1, <1>3
<1>8. q = p
  BY <1>1, <1>2, <1>3, <1>4, <1>5, <1>6, <1>7
<1>9. m = o
  BY <1>2, <1>3, <1>4, <1>8
<1> QED
  BY <1>8, <1>9 DEF P, q, m, a

\* Higher addresses are on higher pages.
LEMMA PageOrder ==
  ASSUME NEW a \in Int, NEW b \in Int, a <= b
  PROVE  PageOf(a) \in Int /\ PageOf(b) \in Int /\ PageOf(a) <= PageOf(b)
<1> DEFINE P == PageSize
           x == PageOf(a)
           y == PageOf(b)
           m == OffsetOf(a)
           n == OffsetOf(b)
<1>1. P \in Nat /\ P > 0
  BY LoaderAssumption
<1>2. /\ x \in Int /\ y \in Int /\ m \in Nat /\ n \in Nat /\ m < P /\ n < P
      /\ a = x * P + m /\ b = y * P + n
  BY AddressParts
<1> HIDE DEF P, x, y, m, n
<1>3. y < x => (y + 1) * P <= x * P
  BY <1>1, <1>2
<1>4. (y + 1) * P = y * P + P /\ y * P \in Int /\ x * P \in Int
  BY <1>1, <1>2
<1>5. x <= y
  BY <1>1, <1>2, <1>3, <1>4
<1> QED
  BY <1>2, <1>5 DEF x, y

\* The page of a byte is among the pages of what it belongs to.
LEMMA PageOfByte ==
  ASSUME NEW a \in Int, NEW start \in Int, NEW end \in Int, start <= a, a < end
  PROVE  PageOf(a) \in PagesIn(start, end)
<1>1. end - 1 \in Int /\ a <= end - 1
  OBVIOUS
<1>2. /\ PageOf(start) \in Int /\ PageOf(a) \in Int /\ PageOf(end - 1) \in Int
      /\ PageOf(start) <= PageOf(a) /\ PageOf(a) <= PageOf(end - 1)
  BY <1>1, PageOrder
<1> HIDE DEF PageOf
<1> QED
  BY <1>2 DEF PagesIn

\* The first whole page behind the data, and the page with its last byte.
LEMMA FirstBehind ==
  ASSUME NEW z \in Int
  PROVE  /\ PageOf(z - 1) \in Int
         /\ PageOf(z + PageSize - 1) = PageOf(z - 1) + 1
         /\ OffsetOf(z) # 0 => PageOf(z - 1) = PageOf(z)
         /\ OffsetOf(z) = 0 => PageOf(z + PageSize - 1) = PageOf(z)
<1> DEFINE P == PageSize
           q == PageOf(z - 1)
           m == OffsetOf(z - 1)
<1>1. P \in Nat /\ P > 0
  BY LoaderAssumption
<1>2. /\ q \in Int /\ m \in Nat /\ m < P /\ z - 1 = q * P + m
  BY AddressParts
<1> HIDE DEF q, m
<1>3. (q + 1) * P = q * P + P /\ q * P \in Int /\ (q + 1) * P \in Int
  BY <1>1, <1>2
<1>4. z + P - 1 = (q + 1) * P + m
  BY <1>1, <1>2, <1>3
<1>5. PageOf((q + 1) * P + m) = q + 1
  <2>1. q + 1 \in Int /\ m \in Int /\ 0 <= m /\ m < PageSize
    BY <1>2
  <2> QED
    BY <2>1, PartsOfSum, Zenon
<1>6. CASE m + 1 < P
  <2>1. z = q * P + (m + 1)
    BY <1>2, <1>3
  <2>2. PageOf(q * P + (m + 1)) = q /\ OffsetOf(q * P + (m + 1)) = m + 1
    <3>1. q \in Int /\ m + 1 \in Int /\ 0 <= m + 1 /\ m + 1 < PageSize
      BY <1>2, <1>6
    <3> QED
      BY <3>1, PartsOfSum, Zenon
  <2>3. OffsetOf(z) # 0 /\ PageOf(z) = q
    BY <1>2, <2>1, <2>2
  <2> QED
    BY <1>2, <1>4, <1>5, <2>3 DEF q
<1>7. CASE m + 1 = P
  <2>1. z = (q + 1) * P + 0
    BY <1>1, <1>2, <1>3, <1>7
  <2>2. PageOf((q + 1) * P + 0) = q + 1 /\ OffsetOf((q + 1) * P + 0) = 0
    <3>1. q + 1 \in Int /\ 0 \in Int /\ 0 <= 0 /\ 0 < PageSize
      BY <1>1, <1>2
    <3> QED
      BY <3>1, PartsOfSum, Zenon
  <2>3. OffsetOf(z) = 0 /\ PageOf(z) = q + 1
    BY <2>1, <2>2
  <2> QED
    BY <1>2, <1>4, <1>5, <2>3 DEF q
<1> QED
  BY <1>1, <1>2, <1>6, <1>7

-----------------------------------------------------------------------------
(***************************************************************************)
(* The file.  Only frames from the allocator and pages that were copied    *)
(* are written, and the frame of a copied page is not one of the file.     *)
(***************************************************************************)
FileInv ==
  /\ kernel \in KernelFile
  /\ next_frame \in Nat /\ FileFrames <= next_frame
  /\ 0..(FileFrames - 1) \subseteq DOMAIN frames
  /\ \A p \in DOMAIN page_table :
       page_table[p].copied => page_table[p].frame \notin 0..(FileFrames - 1)
  /\ FileIntact

\* The file has so many frames.
LEMMA FileFramesType ==
  ASSUME kernel \in KernelFile
  PROVE  FileFrames \in Nat
<1>1. PageSize \in Nat /\ PageSize > 0 /\ kernel.len \in Nat
  BY LoaderAssumption DEF KernelFile
<1>2. kernel.len + PageSize - 1 \in Nat
  BY <1>1
<1> QED
  BY <1>1, <1>2 DEF FileFrames

\* The same file has the same contents.
LEMMA SameFile ==
  ASSUME kernel' = kernel
  PROVE  FileFrames' = FileFrames /\ \A f : FrameBytes(f)' = FrameBytes(f)
  BY Zenon DEF FileFrames, FrameBytes

\* What a write with make_mut does.
LEMMA WriteKeepsFile ==
  ASSUME FileInv, kernel' = kernel, NEW page \in DOMAIN page_table, NEW bytes,
         WritePage(page, bytes)
  PROVE  FileInv'
<1> DEFINE F == 0..(FileFrames - 1)
           m == MutFrame(page)
<1>1. FileFrames \in Nat /\ next_frame \in Nat /\ FileFrames <= next_frame
  BY FileFramesType DEF FileInv
<1>2. m \notin F
  <2>1. next_frame \notin F
    BY <1>1
  <2> QED
    BY <2>1, Zenon DEF FileInv, MutFrame
<1>3. next_frame' \in Nat /\ FileFrames <= next_frame'
  <2>1. next_frame' = next_frame \/ next_frame' = next_frame + 1
    BY Zenon DEF WritePage
  <2> QED
    BY <1>1, <2>1
<1>4. F \subseteq DOMAIN frames /\ \A f \in F : frames[f] = FrameBytes(f)
  BY Zenon DEF FileInv, FileIntact
<1> HIDE DEF F, m
<1>5. F \subseteq DOMAIN frames' /\ \A f \in F : frames'[f] = FrameBytes(f)
  BY <1>2, <1>4, Zenon DEF WritePage, m
<1>6. \A p \in DOMAIN page_table' : page_table'[p].copied => page_table'[p].frame \notin F
  <2>1. \A p \in DOMAIN page_table' :
          \/ page_table'[p].frame = m
          \/ p \in DOMAIN page_table /\ page_table'[p] = page_table[p]
    BY DEF WritePage, MapTo, m
  <2>2. \A p \in DOMAIN page_table : page_table[p].copied => page_table[p].frame \notin F
    BY Zenon DEF FileInv, F
  <2> QED
    BY <1>2, <2>1, <2>2, Zenon
<1>7. FileFrames' = FileFrames /\ \A f : FrameBytes(f)' = FrameBytes(f)
  BY SameFile
<1>8. FileIntact'
  BY <1>5, <1>7, Zenon DEF FileIntact, F
<1> QED
  BY <1>3, <1>5, <1>6, <1>7, <1>8, Zenon DEF FileInv, F

\* Mapping a page without COPIED, possibly to a frame that was just allocated.
LEMMA MapKeepsFile ==
  ASSUME FileInv, kernel' = kernel, NEW page, NEW entry, ~entry.copied, MapTo(page, entry),
         \/ UNCHANGED <<frames, next_frame>>
         \/ /\ next_frame' = next_frame + 1
            /\ \E bytes : frames' = [f \in DOMAIN frames \cup {next_frame} |->
                                       IF f = next_frame THEN bytes ELSE frames[f]]
  PROVE  FileInv'
<1> DEFINE F == 0..(FileFrames - 1)
<1>1. FileFrames \in Nat /\ next_frame \in Nat /\ FileFrames <= next_frame
  BY FileFramesType DEF FileInv
<1>2. next_frame \notin F
  BY <1>1
<1>3. next_frame' \in Nat /\ FileFrames <= next_frame'
  <2>1. next_frame' = next_frame \/ next_frame' = next_frame + 1
    BY Zenon
  <2> QED
    BY <1>1, <2>1
<1>4. F \subseteq DOMAIN frames /\ \A f \in F : frames[f] = FrameBytes(f)
  BY Zenon DEF FileInv, FileIntact
<1> HIDE DEF F
<1>5. F \subseteq DOMAIN frames' /\ \A f \in F : frames'[f] = FrameBytes(f)
  BY <1>2, <1>4, Zenon
<1>6. \A p \in DOMAIN page_table' : page_table'[p].copied => page_table'[p].frame \notin F
  <2>1. \A p \in DOMAIN page_table' :
          ~page_table'[p].copied \/ (p \in DOMAIN page_table /\ page_table'[p] = page_table[p])
    BY Zenon DEF MapTo
  <2>2. \A p \in DOMAIN page_table : page_table[p].copied => page_table[p].frame \notin F
    BY Zenon DEF FileInv, F
  <2> QED
    BY <2>1, <2>2, Zenon
<1>7. FileFrames' = FileFrames /\ \A f : FrameBytes(f)' = FrameBytes(f)
  BY SameFile
<1>8. FileIntact'
  BY <1>5, <1>7, Zenon DEF FileIntact, F
<1> QED
  BY <1>3, <1>5, <1>6, <1>7, <1>8, Zenon DEF FileInv, F

\* Changing the flags of pages, without setting COPIED.
LEMMA FlagsKeepFile ==
  ASSUME FileInv, UNCHANGED <<kernel, frames, next_frame>>,
         DOMAIN page_table' = DOMAIN page_table,
         \A p \in DOMAIN page_table : /\ page_table'[p].frame = page_table[p].frame
                                      /\ page_table'[p].copied => page_table[p].copied
  PROVE  FileInv'
<1>1. FileFrames' = FileFrames /\ \A f : FrameBytes(f)' = FrameBytes(f)
  BY SameFile
<1>2. FileIntact'
  BY <1>1, Zenon DEF FileInv, FileIntact
<1> QED
  BY <1>1, <1>2, Zenon DEF FileInv

\* Every step keeps the invariant, whatever the file looks like.
LEMMA NextKeepsFile ==
  ASSUME FileInv, [Next]_vars
  PROVE  FileInv'
<1>0. \A seg, f : ~SegmentEntry(seg, f).copied
  BY DEF SegmentEntry
<1>1. CASE UNCHANGED <<kernel, page_table, frames, next_frame>>
  BY <1>1, FlagsKeepFile, Zenon
<1>2. CASE MapFrame
  BY <1>2, <1>0, MapKeepsFile, Zenon DEF MapFrame
<1>3. CASE MapBssPage
  BY <1>3, <1>0, MapKeepsFile, Zenon DEF MapBssPage
<1>4. CASE ZeroRest
  BY <1>4, WriteKeepsFile, Zenon DEF ZeroRest, IsMapped
<1>5. CASE RelocatePage
  BY <1>5, WriteKeepsFile, Zenon DEF RelocatePage, IsMapped
<1>6. CASE ProtectRelro
  BY <1>6, FlagsKeepFile DEF ProtectRelro
<1>7. CASE RemoveCopiedFlags
  BY <1>7, FlagsKeepFile, Zenon DEF RemoveCopiedFlags
<1> QED
  BY <1>1, <1>2, <1>3, <1>4, <1>5, <1>6, <1>7, Zenon
  DEF Next, New, NewFails, BeginLoad, HandleTls, SecondTls, SkipHeader, HeadersDone, MapFrameFails,
      SegmentMapped, NothingToZero, MapBssFails, BssDone, DynamicFails, BeginRelocation,
      RelocationFails, RelocationDone, AllRelocated, TableOverwritten, RelroUnmapped,
      FlagsUnmapped, OutOfFrames, Stop, vars

\* It holds at the start.
LEMMA InitFile ==
  ASSUME Init
  PROVE  FileInv
<1>1. kernel \in KernelFile
  BY LoaderAssumption DEF Init
<1>2. FileFrames \in Nat /\ next_frame = FileFrames
  BY <1>1, FileFramesType DEF Init
<1>3. next_frame \in Nat /\ FileFrames <= next_frame
  BY <1>2
<1>4. DOMAIN page_table = {} /\ frames = [f \in 0..(FileFrames - 1) |-> FrameBytes(f)]
  BY DEF Init
<1> QED
  BY <1>1, <1>3, <1>4, Zenon DEF FileInv, FileIntact

\* Loading any file, well formed or not, leaves the file as it is.
THEOREM FileNeverWritten == Spec => []FileIntact
<1>1. Init => FileInv
  BY InitFile
<1>2. FileInv => FileIntact
  BY DEF FileInv
<1> QED
  BY <1>1, <1>2, NextKeepsFile, PTL DEF Spec

-----------------------------------------------------------------------------
(***************************************************************************)
(* The kernel's view of memory, for a file that is well formed.  Pages     *)
(* share a frame only if it is one of the file.                            *)
(***************************************************************************)
MemInv ==
  /\ DOMAIN frames = 0..(next_frame - 1)
  /\ \A p \in DOMAIN page_table : page_table[p].frame \in 0..(next_frame - 1)
  /\ \A p, q \in DOMAIN page_table :
       p # q /\ page_table[p].frame = page_table[q].frame =>
         page_table[p].frame \in 0..(FileFrames - 1)

\* A write with make_mut changes the bytes it is meant for, on its page, and
\* no other byte of the kernel's address space.
LEMMA WriteView ==
  ASSUME FileInv, MemInv, kernel' = kernel, NEW page \in DOMAIN page_table, NEW bytes,
         WritePage(page, bytes)
  PROVE  /\ MemInv'
         /\ DOMAIN page_table' = DOMAIN page_table
         /\ \A p \in DOMAIN page_table : /\ page_table'[p].writable = page_table[p].writable
                                         /\ page_table'[p].executable = page_table[p].executable
         /\ \A a \in Int : PageOf(a) \in DOMAIN page_table =>
              ByteAt(a)' = IF PageOf(a) = page /\ OffsetOf(a) \in DOMAIN bytes
                           THEN bytes[OffsetOf(a)] ELSE ByteAt(a)
<1> DEFINE m == MutFrame(page)
           N == 0..(next_frame - 1)
           F == 0..(FileFrames - 1)
<1>1. /\ FileFrames \in Nat /\ next_frame \in Nat /\ FileFrames <= next_frame
      /\ FileFrames' = FileFrames
  BY FileFramesType, SameFile DEF FileInv
<1>2. /\ DOMAIN frames = N
      /\ \A p \in DOMAIN page_table : page_table[p].frame \in N
      /\ \A p, q \in DOMAIN page_table :
           p # q /\ page_table[p].frame = page_table[q].frame => page_table[p].frame \in F
      /\ \A p \in DOMAIN page_table : page_table[p].copied => page_table[p].frame \notin F
  BY Zenon DEF MemInv, FileInv
<1>3. next_frame \notin N /\ next_frame \notin F
  BY <1>1
<1>4. m \notin F /\ \A q \in DOMAIN page_table : q # page => page_table[q].frame # m
  BY <1>2, <1>3, Zenon DEF MutFrame
<1>5. /\ N \cup {m} = 0..(next_frame' - 1) /\ N \subseteq 0..(next_frame' - 1)
  <2>1. CASE page_table[page].copied
    <3>1. m \in N /\ next_frame' = next_frame
      BY <1>2, <2>1, Zenon DEF MutFrame, WritePage
    <3> QED
      BY <3>1, Zenon
  <2>2. CASE ~page_table[page].copied
    <3>1. m = next_frame /\ next_frame' = next_frame + 1
      BY <2>2, Zenon DEF MutFrame, WritePage
    <3> HIDE DEF m
    <3> QED
      BY <1>1, <3>1
  <2> QED
    BY <2>1, <2>2
<1> DEFINE new == [o \in Offsets |-> IF o \in DOMAIN bytes THEN bytes[o]
                                      ELSE frames[page_table[page].frame][o]]
<1>6. frames' = [f \in DOMAIN frames \cup {m} |-> IF f = m THEN new ELSE frames[f]]
  BY Zenon DEF WritePage
<1>7. /\ DOMAIN page_table' = DOMAIN page_table
      /\ page_table'[page].frame = m
      /\ page_table'[page].writable = page_table[page].writable
      /\ page_table'[page].executable = page_table[page].executable
      /\ \A p \in DOMAIN page_table : p # page => page_table'[p] = page_table[p]
  BY DEF WritePage, MapTo
<1> HIDE DEF m, N, F, new
<1>8. MemInv'
  <2>1. DOMAIN frames' = 0..(next_frame' - 1)
    BY <1>2, <1>5, <1>6
  <2>2. \A p \in DOMAIN page_table : page_table'[p].frame \in 0..(next_frame' - 1)
    BY <1>2, <1>5, <1>7, Zenon
  <2>3. \A p, q \in DOMAIN page_table :
          p # q /\ page_table'[p].frame = page_table'[q].frame => page_table'[p].frame \in F
    BY <1>2, <1>4, <1>7, Zenon
  <2> QED
    BY <1>1, <1>7, <2>1, <2>2, <2>3, Zenon DEF MemInv, F
<1>9. ASSUME NEW a \in Int, PageOf(a) \in DOMAIN page_table
      PROVE  ByteAt(a)' = IF PageOf(a) = page /\ OffsetOf(a) \in DOMAIN bytes
                          THEN bytes[OffsetOf(a)] ELSE ByteAt(a)
  <2>1. OffsetOf(a) \in Offsets
    BY AddressParts, Zenon
  <2>2. ByteAt(a)' = frames'[page_table'[PageOf(a)].frame][OffsetOf(a)]
    BY DEF ByteAt, PageOf, OffsetOf
  <2>3. ByteAt(a) = frames[page_table[PageOf(a)].frame][OffsetOf(a)]
    BY DEF ByteAt
  <2>4. CASE PageOf(a) = page
    <3>1. ByteAt(a)' = new[OffsetOf(a)]
      <4>1. frames'[m] = new
        BY <1>6, Zenon
      <4> QED
        BY <1>7, <2>2, <2>4, <4>1
    <3>2. new[OffsetOf(a)] = IF OffsetOf(a) \in DOMAIN bytes THEN bytes[OffsetOf(a)]
                             ELSE frames[page_table[page].frame][OffsetOf(a)]
      BY <2>1, Zenon DEF new
    <3> QED
      BY <2>3, <2>4, <3>1, <3>2
  <2>5. CASE PageOf(a) # page
    <3>1. page_table'[PageOf(a)] = page_table[PageOf(a)] /\ page_table[PageOf(a)].frame # m
      BY <1>4, <1>7, <1>9, <2>5, Zenon
    <3>2. page_table[PageOf(a)].frame \in DOMAIN frames
      BY <1>2, <1>9, Zenon
    <3>3. frames'[page_table[PageOf(a)].frame] = frames[page_table[PageOf(a)].frame]
      BY <1>6, <3>1, <3>2, Zenon
    <3> QED
      BY <2>2, <2>3, <2>5, <3>1, <3>3
  <2> QED
    BY <2>4, <2>5
<1>10. \A p \in DOMAIN page_table : /\ page_table'[p].writable = page_table[p].writable
                                    /\ page_table'[p].executable = page_table[p].executable
  BY <1>7, Zenon
<1> QED
  BY <1>7, <1>8, <1>9, <1>10, Zenon

\* Mapping another page, to a frame of the file or to one just allocated.
LEMMA MapView ==
  ASSUME FileInv, MemInv, kernel' = kernel, NEW page, page \notin DOMAIN page_table,
         NEW entry, MapTo(page, entry),
         next_frame' \in Nat, next_frame <= next_frame', DOMAIN frames' = 0..(next_frame' - 1),
         \A f \in 0..(next_frame - 1) : frames'[f] = frames[f],
         entry.frame \in 0..(next_frame' - 1),
         entry.frame \in 0..(FileFrames - 1) \/ entry.frame \notin 0..(next_frame - 1)
  PROVE  /\ MemInv'
         /\ DOMAIN page_table' = DOMAIN page_table \cup {page} /\ page_table'[page] = entry
         /\ \A p \in DOMAIN page_table : page_table'[p] = page_table[p]
         /\ \A a \in Int : PageOf(a) \in DOMAIN page_table => ByteAt(a)' = ByteAt(a)
<1> DEFINE N == 0..(next_frame - 1)
           F == 0..(FileFrames - 1)
<1>1. /\ FileFrames \in Nat /\ next_frame \in Nat /\ FileFrames <= next_frame
      /\ FileFrames' = FileFrames
  BY FileFramesType, SameFile DEF FileInv
<1>2. /\ DOMAIN frames = N
      /\ \A p \in DOMAIN page_table : page_table[p].frame \in N
      /\ \A p, q \in DOMAIN page_table :
           p # q /\ page_table[p].frame = page_table[q].frame => page_table[p].frame \in F
  BY Zenon DEF MemInv
<1>3. N \subseteq 0..(next_frame' - 1)
  <2>1. \A m, n \in Nat : m <= n => 0..(m - 1) \subseteq 0..(n - 1)
    OBVIOUS
  <2> QED
    BY <1>1, <2>1, Zenon
<1>4. /\ DOMAIN frames' = 0..(next_frame' - 1) /\ N \subseteq 0..(next_frame' - 1)
      /\ entry.frame \in 0..(next_frame' - 1)
      /\ entry.frame \in F \/ entry.frame \notin N
      /\ \A f \in N : frames'[f] = frames[f]
  BY <1>3, Zenon
<1> HIDE DEF N, F
<1>5. /\ DOMAIN page_table' = DOMAIN page_table \cup {page} /\ page_table'[page] = entry
      /\ \A p \in DOMAIN page_table : page_table'[p] = page_table[p]
  BY Zenon DEF MapTo
<1>6. MemInv'
  <2>1. \A p \in DOMAIN page_table' : page_table'[p].frame \in 0..(next_frame' - 1)
    BY <1>2, <1>4, <1>5, Zenon
  <2>2. ASSUME NEW p \in DOMAIN page_table', NEW q \in DOMAIN page_table', p # q,
               page_table'[p].frame = page_table'[q].frame
        PROVE  page_table'[p].frame \in F
    <3>1. CASE p \in DOMAIN page_table /\ q \in DOMAIN page_table
      BY <1>2, <1>5, <2>2, <3>1, Zenon
    <3>2. CASE p = page /\ q \in DOMAIN page_table
      BY <1>2, <1>4, <1>5, <2>2, <3>2, Zenon
    <3>3. CASE p \in DOMAIN page_table /\ q = page
      BY <1>2, <1>4, <1>5, <2>2, <3>3, Zenon
    <3> QED
      BY <1>5, <2>2, <3>1, <3>2, <3>3, Zenon
  <2> QED
    BY <1>1, <1>4, <2>1, <2>2, Zenon DEF MemInv, F
<1>7. ASSUME NEW a \in Int, PageOf(a) \in DOMAIN page_table PROVE ByteAt(a)' = ByteAt(a)
  <2>1. page_table'[PageOf(a)].frame = page_table[PageOf(a)].frame
    BY <1>5, <1>7, Zenon
  <2>2. frames'[page_table[PageOf(a)].frame] = frames[page_table[PageOf(a)].frame]
    BY <1>2, <1>4, <1>7, Zenon
  <2> QED
    BY <2>1, <2>2 DEF ByteAt, PageOf, OffsetOf
<1> QED
  BY <1>5, <1>6, <1>7, Zenon

\* Changing flags changes no byte.
LEMMA FlagsView ==
  ASSUME FileInv, MemInv, UNCHANGED <<kernel, frames, next_frame>>,
         DOMAIN page_table' = DOMAIN page_table,
         \A p \in DOMAIN page_table : page_table'[p].frame = page_table[p].frame
  PROVE  MemInv' /\ \A a \in Int : PageOf(a) \in DOMAIN page_table => ByteAt(a)' = ByteAt(a)
<1>1. FileFrames' = FileFrames
  BY SameFile
<1>2. MemInv'
  BY <1>1, Zenon DEF MemInv
<1>3. ASSUME NEW a \in Int, PageOf(a) \in DOMAIN page_table PROVE ByteAt(a)' = ByteAt(a)
  <2>1. page_table'[PageOf(a)].frame = page_table[PageOf(a)].frame
    BY <1>3, Zenon
  <2> QED
    BY <2>1 DEF ByteAt, PageOf, OffsetOf
<1> QED
  BY <1>2, <1>3, Zenon

-----------------------------------------------------------------------------
(***************************************************************************)
(* Loading a well formed file.  The invariant says, at every point, which  *)
(* pages of which segments are mapped, with which flags, and what a byte   *)
(* of the image is by then.                                                *)
(***************************************************************************)
InSegment == {"map", "bss", "bss_pages"}

Loading == {"new", "headers"} \cup InSegment

Later == {"dynamic", "relocate", "relro", "flags", "done"}

LoadHeaders == HeadersOf(kernel, "Load")

SegmentPages(h) == PagesIn(Start(Headers[h]), End(Headers[h]))

FirstBss(seg) == PageOf(ZeroStart(seg) + PageSize - 1)

\* the first page of the segment at hand that is still to be mapped
Frontier(seg) ==
  IF pc = "map" THEN PageOf(Start(seg)) + i
  ELSE IF pc = "bss" THEN FirstBss(seg) ELSE FirstBss(seg) + i

\* the pages of segment h that are mapped
Reached(h, p) ==
  \/ pc \in Later \/ h < header
  \/ pc \in InSegment /\ h = header /\ p < Frontier(Headers[h])

Has(h) == {p \in SegmentPages(h) : Reached(h, p)}

ControlInv ==
  /\ header \in Nat /\ i \in Nat
  /\ pc \in Loading => header >= 1
  /\ pc \in InSegment => header \in LoadHeaders
  /\ pc = "map" => PageOf(Start(Segment)) + i <= FirstBss(Segment)
  /\ pc \in {"bss", "bss_pages"} => Segment.mem_size > Segment.file_size
  /\ pc = "dynamic" => header = 0
  /\ pc = "relocate" => header <= Len(kernel.relocations)
  /\ pc \in Loading /\ tls_template # 0 =>
       tls_template \in HeadersOf(kernel, "Tls") /\ tls_template < header

\* all pages of a segment are mapped before the loader leaves it
TableInv == DOMAIN page_table = UNION {Has(h) : h \in LoadHeaders}

FlagInv ==
  /\ \A h \in LoadHeaders : \A p \in Has(h) :
       /\ page_table[p].executable = Headers[h].execute
       /\ page_table[p].writable =
            (Headers[h].write /\ (pc \in {"flags", "done"} => p \notin HeaderPages("GnuRelro")))
  /\ pc = "done" => \A p \in DOMAIN page_table : ~page_table[p].copied

\* relocation r has been written to address a
InWord(r, a) == a - kernel.base \in Bytes(kernel.relocations[r].target, WordSize)

Written(r, a) ==
  /\ InWord(r, a)
  /\ \/ pc \in {"relro", "flags", "done"}
     \/ pc = "relocate" /\ r <= header
     \/ pc = "relocate" /\ r = header + 1 /\ PageOf(a) < WordPage

\* the rest of the last page of data has been zeroed, where a is part of it
Settled(h, a) == a < ZeroStart(Headers[h]) \/ ~(pc \in {"map", "bss"} /\ h = header)

FromFile(h, a) ==
  IF a < ZeroStart(Headers[h]) THEN FileByte(Headers[h].offset + (a - Start(Headers[h]))) ELSE Zero

FromWord(r, a) ==
  WordByte(kernel.base + kernel.relocations[r].addend,
           a - kernel.base - kernel.relocations[r].target)

ContentInv ==
  \A h \in LoadHeaders : \A a \in Bytes(Start(Headers[h]), Headers[h].mem_size) :
    PageOf(a) \in Has(h) =>
      /\ \A r \in DOMAIN kernel.relocations : Written(r, a) => ByteAt(a) = FromWord(r, a)
      /\ Settled(h, a) /\ (\A r \in DOMAIN kernel.relocations : ~Written(r, a)) =>
           ByteAt(a) = FromFile(h, a)

Progress ==
  /\ pc \in Loading \cup Later
  /\ ControlInv /\ MemInv /\ TableInv /\ FlagInv /\ ContentInv

LoadInv == WellFormed(kernel) => pc = "no_frames" \/ Progress

-----------------------------------------------------------------------------
\* Segments.

\* What the fields of a segment are.
LEMMA SegmentType ==
  ASSUME kernel \in KernelFile, NEW h \in LoadHeaders
  PROVE  /\ h \in Nat /\ h >= 1 /\ h <= Len(Headers) /\ Headers[h].type = "Load"
         /\ Headers[h].offset \in Nat /\ Headers[h].vaddr \in Nat
         /\ Headers[h].file_size \in Nat /\ Headers[h].mem_size \in Nat
         /\ Headers[h].write \in BOOLEAN /\ Headers[h].execute \in BOOLEAN
         /\ kernel.base \in Int /\ Start(Headers[h]) \in Int
         /\ ZeroStart(Headers[h]) \in Int /\ End(Headers[h]) \in Int
<1>1. h \in 1..Len(Headers) /\ Headers[h].type = "Load"
  BY DEF LoadHeaders, HeadersOf, Headers
<1>2. Headers \in Seq(ProgramHeader) /\ kernel.base \in Int
  BY DEF KernelFile, Headers
<1>3. Headers[h] \in ProgramHeader /\ h \in Nat /\ h >= 1 /\ h <= Len(Headers)
  BY <1>1, <1>2
<1>4. \A s \in ProgramHeader : /\ s.offset \in Nat /\ s.vaddr \in Nat /\ s.file_size \in Nat
                               /\ s.mem_size \in Nat /\ s.write \in BOOLEAN /\ s.execute \in BOOLEAN
  BY DEF ProgramHeader
<1>5. \A b \in Int, v, f, m \in Nat : b + v \in Int /\ b + v + f \in Int /\ b + v + m \in Int
  OBVIOUS
<1> QED
  BY <1>1, <1>2, <1>3, <1>4, <1>5, Zenon DEF Start, ZeroStart, End

\* Data comes first, then .bss; the pages of both follow each other.
LEMMA SegmentShape ==
  ASSUME kernel \in KernelFile, WellFormed(kernel), NEW h \in LoadHeaders
  PROVE  /\ Start(Headers[h]) <= ZeroStart(Headers[h])
         /\ ZeroStart(Headers[h]) <= End(Headers[h])
         /\ Start(Headers[h]) < End(Headers[h])
         /\ PageOf(Start(Headers[h])) \in Int /\ PageOf(End(Headers[h]) - 1) \in Int
         /\ FirstBss(Headers[h]) \in Int
         /\ FirstBss(Headers[h]) = LastPage(Headers[h]) + 1
         /\ PageOf(Start(Headers[h])) <= FirstBss(Headers[h])
         /\ FirstBss(Headers[h]) <= PageOf(End(Headers[h]) - 1) + 1
<1> DEFINE S == Headers[h]
           x == Start(S)
           z == ZeroStart(S)
           e == End(S)
<1>1. Congruent(kernel, S)
  BY Zenon DEF WellFormed, LoadHeaders, Headers
<1>2. /\ S.file_size \in Nat /\ S.mem_size \in Nat /\ x \in Int /\ z \in Int /\ e \in Int
      /\ S.file_size <= S.mem_size /\ S.mem_size > 0
      /\ z = x + S.file_size /\ e = x + S.mem_size
  BY <1>1, SegmentType, Zenon DEF Congruent, ZeroStart, End
<1> HIDE DEF S, x, z, e
<1>3. x <= z /\ z <= e /\ x < e
  BY <1>2
<1>4. PageSize \in Nat /\ PageSize > 0
  BY LoaderAssumption
<1>5. /\ z - 1 \in Int /\ e - 1 \in Int /\ z + PageSize - 1 \in Int
      /\ z - 1 <= e - 1 /\ x <= z + PageSize - 1
  BY <1>2, <1>3, <1>4
<1>6. PageOf(z - 1) \in Int /\ PageOf(z + PageSize - 1) = PageOf(z - 1) + 1
  BY <1>2, FirstBehind, Zenon
<1>7. PageOf(x) \in Int /\ PageOf(z + PageSize - 1) \in Int /\ PageOf(x) <= PageOf(z + PageSize - 1)
  BY <1>2, <1>5, PageOrder, Zenon
<1>8. PageOf(e - 1) \in Int /\ PageOf(z - 1) <= PageOf(e - 1)
  BY <1>5, PageOrder, Zenon
<1> HIDE DEF PageOf
<1>9. PageOf(z + PageSize - 1) <= PageOf(e - 1) + 1
  BY <1>6, <1>8
<1> QED
  BY <1>3, <1>6, <1>7, <1>8, <1>9, Zenon DEF S, x, z, e, FirstBss, LastPage

\* The frames of the data match its pages, and lie in the file.
LEMMA FramesMatchPages ==
  ASSUME kernel \in KernelFile, WellFormed(kernel), NEW h \in LoadHeaders, NEW n \in Nat
  PROVE  /\ StartFrame(Headers[h]) \in Nat /\ EndFrame(Headers[h]) \in Int
         /\ StartFrame(Headers[h]) + n <= EndFrame(Headers[h])
              <=> PageOf(Start(Headers[h])) + n < FirstBss(Headers[h])
         /\ StartFrame(Headers[h]) + n <= EndFrame(Headers[h]) =>
              StartFrame(Headers[h]) + n \in 0..(FileFrames - 1)
         /\ \A a \in Int : PageOf(a) = PageOf(Start(Headers[h])) + n =>
              (StartFrame(Headers[h]) + n) * PageSize + OffsetOf(a)
                = Headers[h].offset + (a - Start(Headers[h]))
<1> DEFINE S == Headers[h]
           x == Start(S)
           P == PageSize
           b == StartFrame(S)
           u == PageOf(x)
           o == OffsetOf(x)
           last == S.offset + S.file_size - 1
           t == EndFrame(S)
           m == OffsetOf(last)
<1>1. Congruent(kernel, S)
  BY Zenon DEF WellFormed, LoadHeaders, Headers
<1>2. /\ S.offset \in Nat /\ S.file_size \in Nat /\ x \in Int
      /\ ZeroStart(S) = x + S.file_size
      /\ o = OffsetOf(S.offset) /\ S.offset + S.file_size <= kernel.len
  BY <1>1, SegmentType, Zenon DEF Congruent, ZeroStart, Start
<1>3. P \in Nat /\ P > 0 /\ kernel.len \in Nat
  BY LoaderAssumption DEF KernelFile
<1> HIDE DEF S, x
<1>4. last \in Int /\ S.offset \in Int
  BY <1>2
<1>5. u \in Int /\ o \in Nat /\ o < P /\ x = u * P + o
  BY <1>2, AddressParts, Zenon
<1>6. b \in Int /\ S.offset = b * P + o
  BY <1>2, <1>4, AddressParts, Zenon DEF StartFrame, PageOf
<1>7. b \in Nat
  BY <1>2, <1>3 DEF StartFrame
<1>8. t \in Int /\ m \in Nat /\ m < P /\ last = t * P + m
  BY <1>4, AddressParts, Zenon DEF EndFrame, PageOf
<1> HIDE DEF P, b, u, o, t, m
<1>9. ZeroStart(S) - 1 = (t + u - b) * P + m
  <2>1. u * P \in Int /\ b * P \in Int /\ t * P \in Int /\ (t + u - b) * P = t * P + u * P - b * P
    BY <1>3, <1>5, <1>7, <1>8
  <2>2. ZeroStart(S) - 1 = u * P + o + S.file_size - 1 /\ b * P + o + S.file_size - 1 = t * P + m
    BY <1>2, <1>5, <1>6, <1>8
  <2> QED
    BY <1>2, <1>5, <1>8, <2>1, <2>2
<1>10. LastPage(S) = t + u - b
  <2>1. t + u - b \in Int /\ m \in Int /\ 0 <= m /\ m < PageSize
    BY <1>5, <1>7, <1>8 DEF P
  <2> QED
    BY <1>9, <2>1, PartsOfSum, Zenon DEF LastPage, P
<1>11. b + n <= t <=> u + n < FirstBss(S)
  <2>1. FirstBss(S) = LastPage(S) + 1
    BY SegmentShape, Zenon DEF S
  <2> QED
    BY <1>5, <1>7, <1>8, <1>10, <2>1
<1>12. t <= FileFrames - 1
  <2>1. kernel.len \in Int /\ kernel.len - 1 \in Int /\ last <= kernel.len - 1
    BY <1>2, <1>3
  <2>2. PageOf(last) <= PageOf(kernel.len - 1) /\ PageOf(kernel.len - 1) \in Int
    BY <1>4, <2>1, PageOrder, Zenon
  <2>3. PageOf(kernel.len + PageSize - 1) = PageOf(kernel.len - 1) + 1
    BY <2>1, FirstBehind, Zenon
  <2>4. FileFrames = PageOf(kernel.len - 1) + 1 /\ t = PageOf(last)
    BY <2>3, Zenon DEF FileFrames, t, EndFrame, PageOf
  <2> HIDE DEF last
  <2> QED
    BY <1>8, <2>2, <2>4
<1>13. b + n <= t => b + n \in 0..(FileFrames - 1)
  <2>1. FileFrames \in Nat
    BY FileFramesType
  <2> QED
    BY <1>7, <1>8, <1>12, <2>1
<1>14. ASSUME NEW a \in Int, PageOf(a) = u + n
       PROVE  (b + n) * P + OffsetOf(a) = S.offset + (a - x)
  <2>1. OffsetOf(a) \in Nat /\ a = (u + n) * P + OffsetOf(a)
    BY <1>14, AddressParts, Zenon DEF P
  <2>2. /\ (u + n) * P = u * P + n * P /\ (b + n) * P = b * P + n * P
        /\ u * P \in Int /\ n * P \in Int /\ b * P \in Int
    BY <1>3, <1>5, <1>7
  <2> HIDE DEF OffsetOf
  <2> QED
    BY <1>2, <1>5, <1>6, <2>1, <2>2
<1> QED
  BY <1>7, <1>8, <1>11, <1>13, <1>14, Zenon DEF S, x, P, b, u, t

\* A page belongs to one segment.
LEMMA SegmentsApart ==
  ASSUME WellFormed(kernel), NEW g \in LoadHeaders, NEW h \in LoadHeaders,
         NEW p \in SegmentPages(g), p \in SegmentPages(h)
  PROVE  g = h
<1>1. g # h => Apart(kernel, g, h)
  BY Zenon DEF WellFormed, LoadHeaders
<1>2. g # h => SegmentPages(g) \cap SegmentPages(h) = {}
  BY <1>1, Zenon DEF Apart, SegmentPages, Headers, Start, End
<1> QED
  BY <1>2, Zenon

\* A byte of a segment is on a page of it.
LEMMA ByteInSegment ==
  ASSUME kernel \in KernelFile, WellFormed(kernel), NEW h \in LoadHeaders,
         NEW a \in Bytes(Start(Headers[h]), Headers[h].mem_size)
  PROVE  /\ a \in Int /\ Start(Headers[h]) <= a /\ a < End(Headers[h])
         /\ PageOf(a) \in SegmentPages(h)
<1> DEFINE S == Headers[h]
           x == Start(S)
<1>1. x \in Int /\ End(S) \in Int /\ S.mem_size \in Nat /\ End(S) = x + S.mem_size
  BY SegmentType, Zenon DEF End
<1>2. a \in x..(x + S.mem_size - 1)
  BY Zenon DEF Bytes
<1> HIDE DEF S, x
<1>3. a \in Int /\ x <= a /\ a < End(S)
  BY <1>1, <1>2
<1>4. PageOf(a) \in PagesIn(x, End(S))
  BY <1>1, <1>3, PageOfByte, Zenon
<1> QED
  BY <1>3, <1>4, Zenon DEF S, x, SegmentPages

-----------------------------------------------------------------------------
\* Steps that change no memory, and steps that change no byte the kernel sees.

\* What depends on the file only does not change.
LEMMA SameKernel ==
  ASSUME kernel' = kernel
  PROVE  /\ LoadHeaders' = LoadHeaders /\ Headers' = Headers
         /\ WellFormed(kernel)' <=> WellFormed(kernel)
         /\ HeaderPages("GnuRelro")' = HeaderPages("GnuRelro")
         /\ \A seg : /\ Start(seg)' = Start(seg) /\ ZeroStart(seg)' = ZeroStart(seg)
                     /\ End(seg)' = End(seg) /\ FirstBss(seg)' = FirstBss(seg)
         /\ \A h : SegmentPages(h)' = SegmentPages(h)
         /\ \A h, a : FromFile(h, a)' = FromFile(h, a)
         /\ \A r, a : FromWord(r, a)' = FromWord(r, a) /\ (InWord(r, a)' <=> InWord(r, a))
<1>1. Headers' = Headers /\ LoadHeaders' = LoadHeaders
  BY DEF Headers, LoadHeaders, HeadersOf
<1>2. WellFormed(kernel)' <=> WellFormed(kernel)
  BY Zenon
<1>3. \A seg : /\ Start(seg)' = Start(seg) /\ ZeroStart(seg)' = ZeroStart(seg)
               /\ End(seg)' = End(seg) /\ FirstBss(seg)' = FirstBss(seg)
  BY Zenon DEF Start, ZeroStart, End, FirstBss, PageOf
<1>4. \A x, y : PagesIn(x, y)' = PagesIn(x, y)
  BY Zenon DEF PagesIn, PageOf
<1>5. \A h : SegmentPages(h)' = SegmentPages(h)
  BY Zenon DEF SegmentPages, PagesIn, PageOf, Start, End, Headers
<1>6. HeaderPages("GnuRelro")' = HeaderPages("GnuRelro")
  BY Zenon DEF HeaderPages, PagesIn, PageOf, Start, End, Headers
<1>7. \A h, a : FromFile(h, a)' = FromFile(h, a)
  BY Zenon DEF FromFile, ZeroStart, Start, Headers, FileByte, Zero
<1>8. \A r, a : FromWord(r, a)' = FromWord(r, a) /\ (InWord(r, a)' <=> InWord(r, a))
  BY Zenon DEF FromWord, WordByte, InWord, Bytes
<1> QED
  BY <1>1, <1>2, <1>3, <1>5, <1>6, <1>7, <1>8, Zenon

\* The pages of a segment that are mapped stay the same.
LEMMA SameHas ==
  ASSUME kernel' = kernel, NEW h, \A p \in SegmentPages(h) : Reached(h, p)' <=> Reached(h, p)
  PROVE  Has(h)' = Has(h)
<1>1. SegmentPages(h)' = SegmentPages(h)
  BY SameKernel, Zenon
<1> QED
  BY <1>1, Zenon DEF Has

\* What is to be shown of the bytes after a step that maps no page.
LEMMA ContentNext ==
  ASSUME kernel' = kernel, \A h \in LoadHeaders : Has(h)' = Has(h),
         \A h \in LoadHeaders : \A a \in Bytes(Start(Headers[h]), Headers[h].mem_size) :
           PageOf(a) \in Has(h) =>
             /\ \A r \in DOMAIN kernel.relocations : Written(r, a)' => ByteAt(a)' = FromWord(r, a)
             /\ Settled(h, a)' /\ (\A r \in DOMAIN kernel.relocations : ~Written(r, a)') =>
                  ByteAt(a)' = FromFile(h, a)
  PROVE  ContentInv'
<1>1. /\ LoadHeaders' = LoadHeaders /\ Headers' = Headers
      /\ \A seg : Start(seg)' = Start(seg)
      /\ \A h, a : FromFile(h, a)' = FromFile(h, a)
      /\ \A r, a : FromWord(r, a)' = FromWord(r, a)
  BY SameKernel, Zenon
<1> QED
  BY <1>1, Zenon DEF ContentInv, PageOf, Bytes

\* Nothing the kernel sees changes, and nothing is claimed anew.
LEMMA ViewKept ==
  ASSUME kernel \in KernelFile, WellFormed(kernel), kernel' = kernel, TableInv, ContentInv,
         DOMAIN page_table' = DOMAIN page_table,
         \A h \in LoadHeaders : \A p \in SegmentPages(h) : Reached(h, p)' <=> Reached(h, p),
         \A a \in Int : PageOf(a) \in DOMAIN page_table => ByteAt(a)' = ByteAt(a),
         \A h \in LoadHeaders : \A a \in Bytes(Start(Headers[h]), Headers[h].mem_size) :
           PageOf(a) \in Has(h) =>
             /\ \A r \in DOMAIN kernel.relocations : Written(r, a)' <=> Written(r, a)
             /\ Settled(h, a)' => Settled(h, a)
  PROVE  TableInv' /\ ContentInv'
<1>1. /\ LoadHeaders' = LoadHeaders /\ Headers' = Headers
      /\ \A seg : Start(seg)' = Start(seg)
      /\ \A h, a : FromFile(h, a)' = FromFile(h, a)
      /\ \A r, a : FromWord(r, a)' = FromWord(r, a)
  BY SameKernel, Zenon
<1>2. \A h \in LoadHeaders : Has(h)' = Has(h)
  BY SameHas, Zenon
<1>3. TableInv'
  BY <1>1, <1>2, Zenon DEF TableInv
<1>4. ASSUME NEW h \in LoadHeaders, NEW a \in Bytes(Start(Headers[h]), Headers[h].mem_size),
             PageOf(a) \in Has(h)
      PROVE  /\ \A r \in DOMAIN kernel.relocations : Written(r, a)' => ByteAt(a)' = FromWord(r, a)
             /\ Settled(h, a)' /\ (\A r \in DOMAIN kernel.relocations : ~Written(r, a)') =>
                  ByteAt(a)' = FromFile(h, a)
  <2>1. a \in Int
    BY ByteInSegment, Zenon
  <2>2. PageOf(a) \in DOMAIN page_table
    BY <1>4, Zenon DEF TableInv
  <2>3. ByteAt(a)' = ByteAt(a)
    BY <2>1, <2>2, Zenon
  <2>4. /\ \A r \in DOMAIN kernel.relocations : Written(r, a) => ByteAt(a) = FromWord(r, a)
        /\ Settled(h, a) /\ (\A r \in DOMAIN kernel.relocations : ~Written(r, a)) =>
             ByteAt(a) = FromFile(h, a)
    BY <1>4, Zenon DEF ContentInv
  <2> QED
    BY <1>4, <2>3, <2>4, Zenon
<1>5. ContentInv'
  BY <1>2, <1>4, ContentNext, Zenon
<1> QED
  BY <1>3, <1>5

\* The flags of pages before RELRO is applied.
LEMMA FlagsKept ==
  ASSUME kernel \in KernelFile, kernel' = kernel, TableInv, FlagInv,
         \A h \in LoadHeaders : Has(h)' = Has(h),
         \A p \in DOMAIN page_table : /\ page_table'[p].writable = page_table[p].writable
                                      /\ page_table'[p].executable = page_table[p].executable,
         pc \notin {"flags", "done"}, pc' \notin {"flags", "done"}
  PROVE  FlagInv'
<1>1. LoadHeaders' = LoadHeaders /\ Headers' = Headers
  BY SameKernel, Zenon
<1>2. \A h \in LoadHeaders : \A p \in Has(h) :
        page_table[p].executable = Headers[h].execute /\ page_table[p].writable = Headers[h].write
  <2>1. ASSUME NEW h \in LoadHeaders, NEW p \in Has(h)
        PROVE  /\ page_table[p].executable = Headers[h].execute
               /\ page_table[p].writable = (Headers[h].write /\ TRUE)
    BY Zenon DEF FlagInv
  <2>2. \A h \in LoadHeaders : Headers[h].write \in BOOLEAN
    BY SegmentType, Zenon
  <2>3. \A w, b : b \in BOOLEAN /\ w = (b /\ TRUE) => w = b
    OBVIOUS
  <2> QED
    BY <2>1, <2>2, <2>3, Zenon
<1>3. \A h \in LoadHeaders : \A p \in Has(h) : p \in DOMAIN page_table
  BY Zenon DEF TableInv
<1>4. pc' # "done"
  BY Zenon
<1> QED
  BY <1>1, <1>2, <1>3, <1>4, Zenon DEF FlagInv

\* Before relocation no word has been written, and only the segment at hand can
\* have a page whose rest is still to be zeroed.
LEMMA EarlyClaims ==
  ASSUME NEW h, NEW r, NEW a
  PROVE  /\ pc \notin {"relocate", "relro", "flags", "done"} => ~Written(r, a)
         /\ pc' \notin {"relocate", "relro", "flags", "done"} => ~Written(r, a)'
         /\ pc \notin {"map", "bss"} => Settled(h, a)
         /\ h # header => Settled(h, a)
  BY Zenon DEF Written, Settled

\* A step that only moves on.
LEMMA QuietStep ==
  ASSUME FileInv, WellFormed(kernel), Progress, kernel' = kernel,
         page_table' = page_table, frames' = frames, next_frame' = next_frame,
         pc \notin {"flags", "done"}, pc' \notin {"flags", "done"},
         pc' \in Loading \cup Later, ControlInv',
         \A h \in LoadHeaders : \A p \in SegmentPages(h) : Reached(h, p)' <=> Reached(h, p),
         \A h \in LoadHeaders : \A a \in Bytes(Start(Headers[h]), Headers[h].mem_size) :
           PageOf(a) \in Has(h) =>
             /\ \A r \in DOMAIN kernel.relocations : Written(r, a)' <=> Written(r, a)
             /\ Settled(h, a)' => Settled(h, a)
  PROVE  Progress'
<1>1. kernel \in KernelFile /\ MemInv /\ TableInv /\ FlagInv /\ ContentInv
  BY Zenon DEF FileInv, Progress
<1>2. MemInv' /\ \A a \in Int : PageOf(a) \in DOMAIN page_table => ByteAt(a)' = ByteAt(a)
  BY <1>1, FlagsView, Zenon
<1>3. TableInv' /\ ContentInv'
  BY <1>1, <1>2, ViewKept, Zenon
<1>4. \A h \in LoadHeaders : Has(h)' = Has(h)
  BY SameHas, Zenon
<1>5. FlagInv'
  BY <1>1, <1>4, FlagsKept, Zenon
<1> QED
  BY <1>2, <1>3, <1>5, Zenon DEF Progress

\* The first check passes.
LEMMA NewStep ==
  ASSUME FileInv, WellFormed(kernel), Progress, New
  PROVE  Progress'
<1>1. /\ pc = "new" /\ pc' = "headers" /\ i' = 0 /\ header' = header /\ kernel' = kernel
      /\ page_table' = page_table /\ frames' = frames /\ next_frame' = next_frame
      /\ tls_template' = tls_template
  BY DEF New, Goto
<1>2. ControlInv'
  BY <1>1 DEF Progress, ControlInv, InSegment, Loading
<1>3. \A h \in LoadHeaders : \A p \in SegmentPages(h) : Reached(h, p)' <=> Reached(h, p)
  BY <1>1 DEF Reached, Later, InSegment
<1>4. pc' \in Loading \cup Later
  BY <1>1 DEF Loading
<1> QED
  BY <1>1, <1>2, <1>3, <1>4, QuietStep, EarlyClaims, Zenon

\* A segment begins with no page of it mapped.
LEMMA BeginLoadStep ==
  ASSUME FileInv, WellFormed(kernel), Progress, BeginLoad
  PROVE  Progress'
<1>1. /\ pc = "headers" /\ pc' = "map" /\ i' = 0 /\ header' = header /\ kernel' = kernel
      /\ page_table' = page_table /\ frames' = frames /\ next_frame' = next_frame
      /\ tls_template' = tls_template
  BY DEF BeginLoad, TakeHeader, Goto
<1>2. kernel \in KernelFile /\ ControlInv /\ header \in Nat
  BY Zenon DEF FileInv, Progress, ControlInv
<1>3. header \in LoadHeaders
  <2>1. header >= 1
    BY <1>1, <1>2, Zenon DEF ControlInv, Loading
  <2> QED
    BY <1>2, <2>1 DEF BeginLoad, TakeHeader, LoadHeaders, HeadersOf, Headers
<1>4. PageOf(Start(Segment)) \in Int /\ PageOf(Start(Segment)) <= FirstBss(Segment)
  BY <1>2, <1>3, SegmentShape, Zenon DEF Segment
<1>5. ControlInv'
  <2>1. /\ LoadHeaders' = LoadHeaders /\ Segment' = Segment
        /\ (PageOf(Start(Segment)) + i)' = PageOf(Start(Segment)) + 0
        /\ FirstBss(Segment)' = FirstBss(Segment)
        /\ HeadersOf(kernel, "Tls")' = HeadersOf(kernel, "Tls")
    BY <1>1 DEF LoadHeaders, HeadersOf, Segment, Headers, Start, PageOf, FirstBss, ZeroStart
  <2>2. PageOf(Start(Segment)) + 0 <= FirstBss(Segment)
    BY <1>4
  <2>3. header >= 1 /\ (tls_template # 0 => tls_template \in HeadersOf(kernel, "Tls") /\ tls_template < header)
    BY <1>1, <1>2, Zenon DEF ControlInv, Loading
  <2>4. (PageOf(Start(Segment)) + i)' <= FirstBss(Segment)'
    BY <2>1, <2>2
  <2>5. i' \in Nat /\ pc' \notin {"bss", "bss_pages"} /\ pc' # "dynamic" /\ pc' # "relocate"
    BY <1>1
  <2> QED
    BY <1>1, <1>2, <1>3, <2>1, <2>3, <2>4, <2>5, Zenon DEF ControlInv
<1>6. \A h \in LoadHeaders : \A p \in SegmentPages(h) : Reached(h, p)' <=> Reached(h, p)
  <2>1. ASSUME NEW h \in LoadHeaders, NEW p \in SegmentPages(h)
        PROVE  ~(h = header /\ p < PageOf(Start(Headers[h])) + 0)
    <3>1. PageOf(Start(Headers[h])) \in Int /\ PageOf(End(Headers[h]) - 1) \in Int
      BY <1>2, SegmentShape, Zenon
    <3> QED
      BY <3>1 DEF SegmentPages, PagesIn
  <2>2. \A h : (PageOf(Start(Headers[h])) + i)' = PageOf(Start(Headers[h])) + 0
    BY <1>1 DEF Headers, Start, PageOf
  <2>3. \A h : Frontier(Headers[h])' = PageOf(Start(Headers[h])) + 0
    BY <1>1, <2>2, Zenon DEF Frontier
  <2>4. ASSUME NEW h, NEW p
        PROVE  /\ Reached(h, p)' <=> (h < header \/ (h = header /\ p < PageOf(Start(Headers[h])) + 0))
               /\ Reached(h, p) <=> h < header
    <3>1. pc' \in InSegment /\ pc' \notin Later /\ pc \notin InSegment /\ pc \notin Later
      BY <1>1 DEF InSegment, Later
    <3> QED
      BY <1>1, <2>3, <3>1, Zenon DEF Reached
  <2> QED
    BY <2>1, <2>4, Zenon
<1>7. pc' \in Loading \cup Later
  BY <1>1 DEF Loading, InSegment
<1> QED
  BY <1>1, <1>5, <1>6, <1>7, QuietStep, EarlyClaims, Zenon

\* A header that is not of a segment to load is passed.
LEMMA PassStep ==
  ASSUME FileInv, WellFormed(kernel), Progress, pc = "headers", header <= Len(Headers),
         Headers[header].type # "Load", header' = header + 1,
         UNCHANGED <<kernel, pc, i, page_table, frames, next_frame>>,
         \/ tls_template' = tls_template
         \/ tls_template' = header /\ Headers[header].type = "Tls"
  PROVE  Progress'
<1>1. /\ pc' = "headers" /\ i' = i /\ kernel' = kernel
      /\ page_table' = page_table /\ frames' = frames /\ next_frame' = next_frame
  OBVIOUS
<1>2. kernel \in KernelFile /\ ControlInv /\ header \in Nat /\ header >= 1 /\ i \in Nat
  BY Zenon DEF FileInv, Progress, ControlInv, Loading
<1>3. \A h \in LoadHeaders : h \in Nat /\ h # header
  BY DEF LoadHeaders, HeadersOf, Headers
<1>4. ControlInv'
  <2>1. tls_template' # 0 => tls_template' \in HeadersOf(kernel, "Tls") /\ tls_template' <= header
    <3>1. tls_template # 0 => tls_template \in HeadersOf(kernel, "Tls") /\ tls_template < header
      BY <1>2, Zenon DEF ControlInv, Loading
    <3>2. CASE tls_template' = tls_template
      <4>1. \A t \in HeadersOf(kernel, "Tls") : t \in Nat
        BY DEF HeadersOf
      <4> QED
        BY <1>2, <3>1, <3>2, <4>1
    <3>3. CASE tls_template' = header /\ Headers[header].type = "Tls"
      BY <1>2, <3>3 DEF HeadersOf, Headers
    <3> QED
      BY <3>2, <3>3
  <2>2. \A t \in HeadersOf(kernel, "Tls") : t \in Nat
    BY DEF HeadersOf
  <2>3. tls_template' # 0 => tls_template' \in HeadersOf(kernel, "Tls") /\ tls_template' < header'
    <3>1. \A t \in Nat : t <= header => t < header + 1
      BY <1>2
    <3> QED
      BY <2>1, <2>2, <3>1, Zenon
  <2>4. /\ pc' \notin InSegment /\ pc' \notin {"map", "bss", "bss_pages", "dynamic", "relocate"}
        /\ header' \in Nat /\ header' >= 1 /\ i' \in Nat
    BY <1>1, <1>2 DEF InSegment
  <2>5. HeadersOf(kernel, "Tls")' = HeadersOf(kernel, "Tls")
    BY <1>1 DEF HeadersOf
  <2> QED
    BY <2>3, <2>4, <2>5, Zenon DEF ControlInv
<1>5. \A h \in LoadHeaders : \A p \in SegmentPages(h) : Reached(h, p)' <=> Reached(h, p)
  <2>1. \A h \in LoadHeaders : h < header' <=> h < header
    BY <1>2, <1>3
  <2>2. pc' \notin InSegment /\ pc' \notin Later /\ pc \notin InSegment /\ pc \notin Later
    BY <1>1 DEF InSegment, Later
  <2> QED
    BY <2>1, <2>2, Zenon DEF Reached
<1>6. pc' \in Loading \cup Later
  BY <1>1 DEF Loading
<1> QED
  BY <1>1, <1>4, <1>5, <1>6, QuietStep, EarlyClaims, Zenon

\* After the last header all segments are mapped.
LEMMA HeadersDoneStep ==
  ASSUME FileInv, WellFormed(kernel), Progress, HeadersDone
  PROVE  Progress'
<1>1. /\ pc = "headers" /\ pc' = "dynamic" /\ i' = 0 /\ header' = 0 /\ kernel' = kernel
      /\ page_table' = page_table /\ frames' = frames /\ next_frame' = next_frame
      /\ header > Len(Headers)
  BY DEF HeadersDone, Goto
<1>2. kernel \in KernelFile /\ header \in Nat
  BY Zenon DEF FileInv, Progress, ControlInv
<1>3. ControlInv'
  BY <1>1, Zenon DEF ControlInv, InSegment, Loading
<1>4. \A h \in LoadHeaders : h < header
  BY <1>1, <1>2 DEF LoadHeaders, HeadersOf, Headers, KernelFile
<1>5. \A h \in LoadHeaders : \A p \in SegmentPages(h) : Reached(h, p)' <=> Reached(h, p)
  BY <1>1, <1>4, Zenon DEF Reached, Later
<1>6. pc' \in Loading \cup Later
  BY <1>1 DEF Later
<1> QED
  BY <1>1, <1>3, <1>5, <1>6, QuietStep, EarlyClaims, Zenon

\* The segment at hand.
LEMMA AtSegment ==
  ASSUME FileInv, WellFormed(kernel), Progress, pc \in InSegment
  PROVE  /\ kernel \in KernelFile /\ header \in LoadHeaders /\ header \in Nat /\ i \in Nat
         /\ Segment = Headers[header]
         /\ tls_template # 0 => tls_template \in HeadersOf(kernel, "Tls") /\ tls_template < header
  BY Zenon DEF FileInv, Progress, ControlInv, Segment, Loading

\* What Reached says of a segment while it is at hand.
LEMMA ReachedAt ==
  ASSUME NEW h, NEW p
  PROVE  /\ pc \in InSegment =>
              (Reached(h, p) <=> h < header \/ (h = header /\ p < Frontier(Headers[h])))
         /\ pc' \in InSegment =>
              (Reached(h, p)' <=> h < header' \/ (h = header' /\ p < Frontier(Headers[h])'))
         /\ pc' = "headers" => (Reached(h, p)' <=> h < header')
<1>1. "headers" \notin InSegment \cup Later /\ InSegment \cap Later = {}
  BY DEF InSegment, Later
<1> QED
  BY <1>1, Zenon DEF Reached

\* A segment is left when all its pages are mapped and its .bss is zero.
LEMMA LeaveStep ==
  ASSUME FileInv, WellFormed(kernel), Progress, pc \in InSegment,
         pc' = "headers", i' = 0, header' = header + 1,
         UNCHANGED <<kernel, page_table, frames, next_frame, tls_template>>,
         \A p \in SegmentPages(header) : p < Frontier(Segment),
         \A a \in Bytes(Start(Segment), Segment.mem_size) : Settled(header, a)
  PROVE  Progress'
<1>1. /\ kernel' = kernel /\ page_table' = page_table /\ frames' = frames
      /\ next_frame' = next_frame /\ tls_template' = tls_template
  OBVIOUS
<1>2. /\ kernel \in KernelFile /\ header \in LoadHeaders /\ header \in Nat
      /\ Segment = Headers[header]
      /\ tls_template # 0 => tls_template \in HeadersOf(kernel, "Tls") /\ tls_template < header
  BY AtSegment, Zenon
<1>3. ControlInv'
  <2>1. header' \in Nat /\ header' >= 1 /\ i' \in Nat /\ pc' \notin InSegment
        /\ pc' \notin {"map", "bss", "bss_pages", "dynamic", "relocate"}
    BY <1>2 DEF InSegment
  <2>2. \A t \in HeadersOf(kernel, "Tls") : t \in Nat
    BY DEF HeadersOf
  <2>3. \A t \in Nat : t < header => t < header + 1
    BY <1>2
  <2>4. tls_template' # 0 => tls_template' \in HeadersOf(kernel, "Tls") /\ tls_template' < header'
    BY <1>1, <1>2, <2>2, <2>3, Zenon
  <2>5. HeadersOf(kernel, "Tls")' = HeadersOf(kernel, "Tls")
    BY <1>1 DEF HeadersOf
  <2> QED
    BY <2>1, <2>4, <2>5, Zenon DEF ControlInv
<1>4. \A h \in LoadHeaders : \A p \in SegmentPages(h) : Reached(h, p)' <=> Reached(h, p)
  <2>1. \A h \in LoadHeaders : h < header' <=> h < header \/ h = header
    <3>1. \A h \in LoadHeaders : h \in Nat
      BY DEF LoadHeaders, HeadersOf
    <3> QED
      BY <1>2, <3>1
  <2> QED
    BY <1>2, <2>1, ReachedAt, Zenon
<1>5. \A h \in LoadHeaders : \A a \in Bytes(Start(Headers[h]), Headers[h].mem_size) : Settled(h, a)
  BY <1>2, EarlyClaims, Zenon
<1>6. pc' \in Loading \cup Later
  BY DEF Loading
<1>7. pc \notin {"relocate", "relro", "flags", "done"} /\ pc' \notin {"relocate", "relro", "flags", "done"}
  BY DEF InSegment
<1> QED
  BY <1>1, <1>3, <1>4, <1>5, <1>6, <1>7, QuietStep, EarlyClaims, Zenon

\* All .bss pages are mapped.
LEMMA BssDoneStep ==
  ASSUME FileInv, WellFormed(kernel), Progress, BssDone
  PROVE  Progress'
<1>1. /\ pc = "bss_pages" /\ pc' = "headers" /\ i' = 0 /\ header' = header + 1
      /\ UNCHANGED <<kernel, page_table, frames, next_frame, tls_template>>
      /\ BssPage(Segment) > PageOf(End(Segment) - 1)
  BY DEF BssDone, Goto
<1>2. pc \in InSegment
  BY <1>1 DEF InSegment
<1>3. kernel \in KernelFile /\ header \in LoadHeaders /\ i \in Nat /\ Segment = Headers[header]
  BY <1>2, AtSegment, Zenon
<1>4. /\ PageOf(Start(Segment)) \in Int /\ PageOf(End(Segment) - 1) \in Int
      /\ FirstBss(Segment) \in Int
  BY <1>3, SegmentShape, Zenon
<1>5. Frontier(Segment) = FirstBss(Segment) + i /\ Frontier(Segment) > PageOf(End(Segment) - 1)
  BY <1>1 DEF Frontier, BssPage, FirstBss
<1>6. \A p \in SegmentPages(header) : p < Frontier(Segment)
  <2>1. \A p \in SegmentPages(header) : p \in Int /\ p <= PageOf(End(Segment) - 1)
    BY <1>3, <1>4 DEF SegmentPages, PagesIn
  <2>2. FirstBss(Segment) + i \in Int
    BY <1>3, <1>4
  <2> QED
    BY <1>4, <1>5, <2>1, <2>2
<1>7. \A a \in Bytes(Start(Segment), Segment.mem_size) : Settled(header, a)
  BY <1>1, EarlyClaims, Zenon
<1> QED
  BY <1>1, <1>2, <1>6, <1>7, LeaveStep, Zenon

\* All pages with data are mapped.
LEMMA SegmentMappedStep ==
  ASSUME FileInv, WellFormed(kernel), Progress, SegmentMapped
  PROVE  Progress'
<1>1. /\ pc = "map" /\ i' = 0 /\ StartFrame(Segment) + i > EndFrame(Segment)
      /\ UNCHANGED <<kernel, page_table, frames, next_frame, tls_template>>
      /\ IF Segment.mem_size > Segment.file_size
         THEN pc' = "bss" /\ header' = header ELSE pc' = "headers" /\ header' = header + 1
  BY DEF SegmentMapped, Goto
<1>2. pc \in InSegment
  BY <1>1 DEF InSegment
<1>3. /\ kernel \in KernelFile /\ header \in LoadHeaders /\ header \in Nat /\ i \in Nat
      /\ Segment = Headers[header]
      /\ tls_template # 0 => tls_template \in HeadersOf(kernel, "Tls") /\ tls_template < header
  BY <1>2, AtSegment, Zenon
<1>4. /\ PageOf(Start(Segment)) \in Int /\ PageOf(End(Segment) - 1) \in Int
      /\ FirstBss(Segment) \in Int /\ FirstBss(Segment) = LastPage(Segment) + 1
      /\ Start(Segment) \in Int /\ ZeroStart(Segment) \in Int /\ End(Segment) \in Int
      /\ ZeroStart(Segment) <= End(Segment)
      /\ Segment.mem_size \in Nat /\ Segment.file_size \in Nat
  BY <1>3, SegmentShape, SegmentType, Zenon
<1>5. PageOf(Start(Segment)) + i = FirstBss(Segment)
  <2>1. /\ StartFrame(Segment) \in Nat /\ EndFrame(Segment) \in Int
        /\ StartFrame(Segment) + i <= EndFrame(Segment) <=> PageOf(Start(Segment)) + i < FirstBss(Segment)
    BY <1>3, FramesMatchPages, Zenon
  <2>2. PageOf(Start(Segment)) + i <= FirstBss(Segment)
    BY <1>1, Zenon DEF Progress, ControlInv
  <2> QED
    BY <1>1, <1>3, <1>4, <2>1, <2>2
<1>6. Frontier(Segment) = FirstBss(Segment)
  BY <1>1, <1>5, Zenon DEF Frontier
<1>7. CASE Segment.mem_size > Segment.file_size
  <2>1. /\ pc' = "bss" /\ header' = header /\ kernel' = kernel /\ page_table' = page_table
        /\ frames' = frames /\ next_frame' = next_frame /\ tls_template' = tls_template
    BY <1>1, <1>7
  <2>2. Segment' = Segment /\ HeadersOf(kernel, "Tls")' = HeadersOf(kernel, "Tls")
        /\ LoadHeaders' = LoadHeaders
    BY <2>1 DEF Segment, Headers, HeadersOf, LoadHeaders
  <2>3. header >= 1
    BY <1>1, Zenon DEF Progress, ControlInv, Loading, InSegment
  <2>4. ControlInv'
    <3>1. i' \in Nat /\ pc' \notin {"map", "dynamic", "relocate"}
      BY <1>1, <2>1
    <3> QED
      BY <1>3, <1>7, <2>1, <2>2, <2>3, <3>1, Zenon DEF ControlInv
  <2>5. \A h \in LoadHeaders : \A p \in SegmentPages(h) : Reached(h, p)' <=> Reached(h, p)
    <3>1. Frontier(Headers[header])' = FirstBss(Headers[header])
      BY <2>1 DEF Frontier, FirstBss, ZeroStart, Start, PageOf, Headers
    <3>2. pc' \in InSegment
      BY <2>1 DEF InSegment
    <3> QED
      BY <1>2, <1>3, <1>6, <2>1, <3>1, <3>2, ReachedAt, Zenon
  <2>6. \A h, a : Settled(h, a)' => Settled(h, a)
    BY <1>1, <2>1 DEF Settled, ZeroStart, Start, Headers
  <2>7. pc' \in Loading \cup Later
    BY <2>1 DEF Loading, InSegment
  <2> QED
    BY <1>1, <2>1, <2>4, <2>5, <2>6, <2>7, QuietStep, EarlyClaims, Zenon
<1>8. CASE ~(Segment.mem_size > Segment.file_size)
  <2>1. pc' = "headers" /\ header' = header + 1
    BY <1>1, <1>8
  <2>2. ZeroStart(Segment) = End(Segment)
    <3>1. ZeroStart(Segment) = Start(Segment) + Segment.file_size
          /\ End(Segment) = Start(Segment) + Segment.mem_size
      BY Zenon DEF ZeroStart, End
    <3> QED
      BY <1>4, <1>8, <3>1
  <2>3. \A p \in SegmentPages(header) : p < Frontier(Segment)
    <3>1. \A p \in SegmentPages(header) : p \in Int /\ p <= PageOf(End(Segment) - 1)
      BY <1>3, <1>4 DEF SegmentPages, PagesIn
    <3>2. Frontier(Segment) = PageOf(End(Segment) - 1) + 1
      BY <1>4, <1>6, <2>2, Zenon DEF LastPage
    <3> QED
      BY <1>4, <3>1, <3>2
  <2>4. \A a \in Bytes(Start(Segment), Segment.mem_size) : Settled(header, a)
    <3>1. \A a \in Bytes(Start(Headers[header]), Headers[header].mem_size) : a < End(Headers[header])
      BY <1>3, ByteInSegment, Zenon
    <3> QED
      BY <1>3, <2>2, <3>1, Zenon DEF Settled
  <2> QED
    BY <1>1, <1>2, <2>1, <2>3, <2>4, LeaveStep, Zenon
<1> QED
  BY <1>7, <1>8

\* The data ends with its page: no byte of .bss is on a page that is mapped.
LEMMA NothingToZeroStep ==
  ASSUME FileInv, WellFormed(kernel), Progress, NothingToZero
  PROVE  Progress'
<1>1. /\ pc = "bss" /\ pc' = "bss_pages" /\ i' = 0 /\ header' = header /\ kernel' = kernel
      /\ page_table' = page_table /\ frames' = frames /\ next_frame' = next_frame
      /\ tls_template' = tls_template /\ OffsetOf(ZeroStart(Segment)) = 0
  BY DEF NothingToZero, Goto
<1>2. pc \in InSegment
  BY <1>1 DEF InSegment
<1>3. /\ kernel \in KernelFile /\ header \in LoadHeaders /\ header \in Nat /\ i \in Nat
      /\ Segment = Headers[header]
      /\ tls_template # 0 => tls_template \in HeadersOf(kernel, "Tls") /\ tls_template < header
  BY <1>2, AtSegment, Zenon
<1>4. ZeroStart(Segment) \in Int /\ FirstBss(Segment) \in Int
  BY <1>3, SegmentShape, SegmentType, Zenon
<1>5. header >= 1 /\ Segment.mem_size > Segment.file_size
  BY <1>1, Zenon DEF Progress, ControlInv, Loading, InSegment
<1>6. Segment' = Segment /\ HeadersOf(kernel, "Tls")' = HeadersOf(kernel, "Tls")
      /\ LoadHeaders' = LoadHeaders
  BY <1>1 DEF Segment, Headers, HeadersOf, LoadHeaders
<1>7. ControlInv'
  <2>1. i' \in Nat /\ pc' \notin {"map", "dynamic", "relocate"}
    BY <1>1
  <2> QED
    BY <1>1, <1>3, <1>5, <1>6, <2>1, Zenon DEF ControlInv
<1>8. Frontier(Segment) = FirstBss(Segment)
  BY <1>1 DEF Frontier
<1>9. \A h \in LoadHeaders : \A p \in SegmentPages(h) : Reached(h, p)' <=> Reached(h, p)
  <2>1. Frontier(Headers[header])' = FirstBss(Headers[header]) + 0
    BY <1>1 DEF Frontier, FirstBss, ZeroStart, Start, PageOf, Headers
  <2>2. FirstBss(Headers[header]) + 0 = FirstBss(Headers[header])
    BY <1>3, <1>4
  <2>3. pc' \in InSegment
    BY <1>1 DEF InSegment
  <2> QED
    BY <1>1, <1>2, <1>3, <1>8, <2>1, <2>2, <2>3, ReachedAt, Zenon
<1>10. ASSUME NEW h \in LoadHeaders, NEW a \in Bytes(Start(Headers[h]), Headers[h].mem_size),
              PageOf(a) \in Has(h)
       PROVE  Settled(h, a)
  <2>1. CASE h # header
    BY <2>1, EarlyClaims, Zenon
  <2>2. CASE h = header
    <3>1. a \in Int
      BY <1>3, ByteInSegment, Zenon
    <3>2. PageOf(a) < FirstBss(Segment)
      <4>1. h \in Nat /\ ~(h < header)
        BY <1>3, <2>2
      <4> QED
        BY <1>2, <1>3, <1>8, <1>10, <2>2, <4>1, ReachedAt, Zenon DEF Has
    <3>3. FirstBss(Segment) = PageOf(ZeroStart(Segment))
      BY <1>1, <1>4, FirstBehind, Zenon DEF FirstBss
    <3>4. ZeroStart(Segment) <= a => PageOf(ZeroStart(Segment)) <= PageOf(a) /\ PageOf(a) \in Int
      BY <1>4, <3>1, PageOrder, Zenon
    <3>5. a < ZeroStart(Segment)
      BY <1>4, <3>1, <3>2, <3>3, <3>4
    <3> QED
      BY <1>3, <2>2, <3>5, Zenon DEF Settled
  <2> QED
    BY <2>1, <2>2
<1>11. pc' \in Loading \cup Later
  BY <1>1 DEF Loading, InSegment
<1> QED
  BY <1>1, <1>7, <1>9, <1>10, <1>11, QuietStep, EarlyClaims, Zenon

-----------------------------------------------------------------------------
\* Steps that map a page.

\* The next page of the segment at hand is not mapped yet.
LEMMA FrontierFree ==
  ASSUME FileInv, WellFormed(kernel), Progress, pc \in InSegment,
         Frontier(Segment) \in SegmentPages(header)
  PROVE  ~IsMapped(Frontier(Segment))
<1> DEFINE p == Frontier(Segment)
<1>1. /\ kernel \in KernelFile /\ header \in LoadHeaders /\ header \in Nat
      /\ Segment = Headers[header]
  BY AtSegment, Zenon
<1>2. p \in Int
  BY DEF SegmentPages, PagesIn
<1> HIDE DEF p
<1>3. SUFFICES ASSUME NEW h \in LoadHeaders, p \in Has(h)
               PROVE  FALSE
  BY Zenon DEF Progress, TableInv, IsMapped, p
<1>4. h = header
  BY <1>1, <1>3, SegmentsApart, Zenon DEF Has, p
<1>5. h < header \/ p < Frontier(Segment)
  BY <1>1, <1>3, <1>4, ReachedAt, Zenon DEF Has
<1>6. ~(header < header) /\ ~(p < p)
  BY <1>1, <1>2
<1> QED
  BY <1>4, <1>5, <1>6, Zenon DEF p

\* Mapping the next page of the segment at hand, to frame f.
LEMMA MapStep ==
  ASSUME FileInv, WellFormed(kernel), Progress, pc \in {"map", "bss_pages"},
         pc' = pc, header' = header, kernel' = kernel, i' = i + 1, ControlInv',
         NEW page \in SegmentPages(header), page = Frontier(Segment),
         NEW f, MapTo(page, SegmentEntry(Segment, f)),
         next_frame' \in Nat, next_frame <= next_frame', DOMAIN frames' = 0..(next_frame' - 1),
         \A g \in 0..(next_frame - 1) : frames'[g] = frames[g],
         f \in 0..(next_frame' - 1),
         f \in 0..(FileFrames - 1) \/ f \notin 0..(next_frame - 1),
         \A a \in Bytes(Start(Segment), Segment.mem_size) :
           PageOf(a) = page /\ Settled(header, a) => frames'[f][OffsetOf(a)] = FromFile(header, a)
  PROVE  Progress'
<1> DEFINE entry == SegmentEntry(Segment, f)
<1>1. /\ entry.frame = f /\ entry.writable = Segment.write /\ entry.executable = Segment.execute
  BY DEF SegmentEntry
<1> HIDE DEF entry
<1>2. pc \in InSegment /\ pc' \in InSegment
  BY DEF InSegment
<1>3. /\ kernel \in KernelFile /\ header \in LoadHeaders /\ header \in Nat /\ i \in Nat
      /\ Segment = Headers[header]
  BY <1>2, AtSegment, Zenon
<1>4. page \notin DOMAIN page_table
  BY <1>2, FrontierFree, Zenon DEF IsMapped
<1>5. MemInv /\ TableInv /\ FlagInv /\ ContentInv /\ pc' \in Loading \cup Later
  BY Zenon DEF Progress
<1>6. /\ MemInv'
      /\ DOMAIN page_table' = DOMAIN page_table \cup {page} /\ page_table'[page] = entry
      /\ \A p \in DOMAIN page_table : page_table'[p] = page_table[p]
      /\ \A a \in Int : PageOf(a) \in DOMAIN page_table => ByteAt(a)' = ByteAt(a)
  <2>1. MapTo(page, entry) /\ entry.frame = f
    BY <1>1 DEF entry
  <2> QED
    BY <1>4, <1>5, <2>1, MapView, Zenon
<1>7. Frontier(Segment)' = page + 1 /\ page \in Int
  <2>1. page \in Int /\ FirstBss(Segment) \in Int /\ PageOf(Start(Segment)) \in Int
    <3>1. FirstBss(Segment) \in Int /\ PageOf(Start(Segment)) \in Int
      BY <1>3, SegmentShape, Zenon
    <3>2. page \in Int
      BY DEF SegmentPages, PagesIn
    <3> QED
      BY <3>1, <3>2
  <2>2. /\ FirstBss(Segment)' = FirstBss(Segment)
        /\ PageOf(Start(Segment))' = PageOf(Start(Segment))
    BY DEF Segment, Headers, FirstBss, ZeroStart, Start, PageOf
  <2>3. CASE pc = "map"
    <3>1. page = PageOf(Start(Segment)) + i /\ Frontier(Segment)' = PageOf(Start(Segment)) + (i + 1)
      BY <2>2, <2>3 DEF Frontier
    <3> QED
      BY <1>3, <2>1, <3>1
  <2>4. CASE pc = "bss_pages"
    <3>1. page = FirstBss(Segment) + i /\ Frontier(Segment)' = FirstBss(Segment) + (i + 1)
      BY <2>2, <2>4 DEF Frontier
    <3> QED
      BY <1>3, <2>1, <3>1
  <2> QED
    BY <2>3, <2>4
<1>8. /\ LoadHeaders' = LoadHeaders /\ Headers' = Headers
      /\ \A h : SegmentPages(h)' = SegmentPages(h)
      /\ \A seg : Start(seg)' = Start(seg)
      /\ \A h, a : FromFile(h, a)' = FromFile(h, a)
  BY SameKernel, Zenon
<1>9. ASSUME NEW h \in LoadHeaders, NEW p \in SegmentPages(h)
      PROVE  Reached(h, p)' <=> Reached(h, p) \/ (h = header /\ p = page)
  <2>1. Reached(h, p) <=> h < header \/ (h = header /\ p < page)
    BY <1>2, <1>3, ReachedAt, Zenon
  <2>2. Segment' = Headers[header]
    BY <1>3, <1>8, Zenon DEF Segment
  <2>3. Frontier(Headers[header])' = page + 1
    BY <1>7, Zenon DEF Segment, Headers, Frontier, FirstBss, ZeroStart, Start, PageOf
  <2>4. Reached(h, p)' <=> h < header \/ (h = header /\ p < page + 1)
    <3>1. Reached(h, p)' <=> h < header' \/ (h = header' /\ p < Frontier(Headers[h])')
      BY <1>2, ReachedAt, Zenon
    <3>2. h = header => Frontier(Headers[h])' = page + 1
      <4>1. h = header => Frontier(Headers[h])' = Frontier(Headers[header])'
        BY DEF Frontier, FirstBss, ZeroStart, Start, PageOf, Headers
      <4> QED
        BY <2>3, <4>1, Zenon
    <3> QED
      BY <3>1, <3>2, Zenon
  <2>5. p \in Int
    BY DEF SegmentPages, PagesIn
  <2>6. p < page + 1 <=> p < page \/ p = page
    BY <1>7, <2>5
  <2> QED
    BY <2>1, <2>4, <2>6, Zenon
<1>10. /\ \A h \in LoadHeaders \ {header} : Has(h)' = Has(h)
       /\ Has(header)' = Has(header) \cup {page}
  <2>1. ASSUME NEW h \in LoadHeaders, h # header PROVE Has(h)' = Has(h)
    BY <1>9, <2>1, SameHas, Zenon
  <2>2. Has(header)' = {p \in SegmentPages(header) : Reached(header, p)'}
    <3>1. (\A h : Has(h) = {p \in SegmentPages(h) : Reached(h, p)})'
      BY Zenon DEF Has
    <3> QED
      BY <1>8, <3>1, Zenon DEF Has
  <2>3. \A p \in SegmentPages(header) : Reached(header, p)' <=> Reached(header, p) \/ p = page
    BY <1>3, <1>9, Zenon
  <2> QED
    BY <2>1, <2>2, <2>3, Zenon DEF Has
<1>11. \A h \in LoadHeaders : \A p \in Has(h)' : p \in Has(h) \/ (h = header /\ p = page)
  BY <1>10, Zenon
<1>12. TableInv'
  <2>1. \A h \in LoadHeaders : Has(h) \subseteq Has(h)'
    BY <1>10, Zenon
  <2>2. \E h \in LoadHeaders : page \in Has(h)'
    BY <1>3, <1>10, Zenon
  <2>3. \A p : p \in DOMAIN page_table <=> \E h \in LoadHeaders : p \in Has(h)
    BY <1>5, Zenon DEF TableInv
  <2>4. \A p : p \in DOMAIN page_table' <=> \E h \in LoadHeaders : p \in Has(h)'
    <3>1. ASSUME NEW p \in DOMAIN page_table'
          PROVE  \E h \in LoadHeaders : p \in Has(h)'
      BY <1>6, <2>1, <2>2, <2>3, <3>1, Zenon
    <3>2. ASSUME NEW p, NEW h \in LoadHeaders, p \in Has(h)'
          PROVE  p \in DOMAIN page_table'
      BY <1>6, <1>11, <2>3, <3>2, Zenon
    <3> QED
      BY <3>1, <3>2, Zenon
  <2>5. DOMAIN page_table' = UNION {Has(h)' : h \in LoadHeaders}
    BY <2>4, Zenon
  <2> QED
    BY <1>8, <2>5, Zenon DEF TableInv
<1>13. FlagInv'
  <2>1. pc \notin {"flags", "done"}
    BY Zenon
  <2>2. ASSUME NEW h \in LoadHeaders, NEW p \in Has(h)'
        PROVE  /\ page_table'[p].executable = Headers[h].execute
               /\ page_table'[p].writable = (Headers[h].write /\ TRUE)
    <3>1. CASE p \in Has(h)
      <4>1. /\ page_table[p].executable = Headers[h].execute
            /\ page_table[p].writable = (Headers[h].write /\ TRUE)
        BY <1>5, <2>1, <3>1, Zenon DEF FlagInv
      <4>2. page_table'[p] = page_table[p]
        BY <1>5, <1>6, <3>1, Zenon DEF TableInv
      <4> QED
        BY <4>1, <4>2, Zenon
    <3>2. CASE h = header /\ p = page
      <4>1. Headers[h].write \in BOOLEAN
        BY <1>3, SegmentType, Zenon
      <4> QED
        BY <1>1, <1>3, <1>6, <3>2, <4>1, Zenon
    <3> QED
      BY <1>11, <2>2, <3>1, <3>2, Zenon
  <2> QED
    BY <1>8, <2>1, <2>2, Zenon DEF FlagInv
<1>14. ContentInv'
  <2>1. ASSUME NEW h \in LoadHeaders, NEW a \in Bytes(Start(Headers[h]), Headers[h].mem_size),
               PageOf(a) \in Has(h)'
        PROVE  /\ \A r \in DOMAIN kernel.relocations : ~Written(r, a)'
               /\ Settled(h, a)' => ByteAt(a)' = FromFile(h, a)
    <3>1. \A r : ~Written(r, a)' /\ ~Written(r, a)
      BY EarlyClaims, Zenon
    <3>2. Settled(h, a)' <=> Settled(h, a)
      BY DEF Settled, ZeroStart, Start, Headers
    <3>3. a \in Int
      BY <1>3, ByteInSegment, Zenon
    <3>4. CASE PageOf(a) \in Has(h)
      <4>1. ByteAt(a)' = ByteAt(a)
        BY <1>5, <1>6, <3>3, <3>4, Zenon DEF TableInv
      <4>2. Settled(h, a) => ByteAt(a) = FromFile(h, a)
        BY <1>5, <3>1, <3>4, Zenon DEF ContentInv
      <4> QED
        BY <3>1, <3>2, <4>1, <4>2, Zenon
    <3>5. CASE h = header /\ PageOf(a) = page
      <4>1. ByteAt(a)' = frames'[page_table'[PageOf(a)].frame][OffsetOf(a)]
        BY DEF ByteAt, PageOf, OffsetOf
      <4>2. ByteAt(a)' = frames'[f][OffsetOf(a)]
        BY <1>1, <1>6, <3>5, <4>1, Zenon
      <4>3. Settled(h, a) => frames'[f][OffsetOf(a)] = FromFile(h, a)
        BY <1>3, <3>5, Zenon
      <4> QED
        BY <3>1, <3>2, <4>2, <4>3, Zenon
    <3> QED
      BY <1>11, <2>1, <3>4, <3>5, Zenon
  <2> QED
    BY <1>8, <2>1, Zenon DEF ContentInv, PageOf, Bytes
<1> QED
  BY <1>5, <1>6, <1>12, <1>13, <1>14, Zenon DEF Progress

\* A page of data is mapped to the frame of the file it lies in.
LEMMA MapFrameStep ==
  ASSUME FileInv, WellFormed(kernel), Progress, MapFrame
  PROVE  Progress'
<1> DEFINE page == PageOf(Start(Segment)) + i
           f == StartFrame(Segment) + i
<1>1. /\ pc = "map" /\ pc' = pc /\ header' = header /\ kernel' = kernel /\ i' = i + 1
      /\ frames' = frames /\ next_frame' = next_frame /\ tls_template' = tls_template
      /\ f <= EndFrame(Segment) /\ MapTo(page, SegmentEntry(Segment, f))
  BY DEF MapFrame
<1>2. pc \in InSegment
  BY <1>1 DEF InSegment
<1>3. /\ kernel \in KernelFile /\ header \in LoadHeaders /\ header \in Nat /\ i \in Nat
      /\ Segment = Headers[header]
      /\ tls_template # 0 => tls_template \in HeadersOf(kernel, "Tls") /\ tls_template < header
  BY <1>2, AtSegment, Zenon
<1>4. /\ PageOf(Start(Segment)) \in Int /\ PageOf(End(Segment) - 1) \in Int
      /\ FirstBss(Segment) \in Int /\ FirstBss(Segment) <= PageOf(End(Segment) - 1) + 1
  BY <1>3, SegmentShape, Zenon
<1>5. /\ f <= EndFrame(Segment) => page < FirstBss(Segment) /\ f \in 0..(FileFrames - 1)
      /\ \A a \in Int : PageOf(a) = page =>
           f * PageSize + OffsetOf(a) = Segment.offset + (a - Start(Segment))
  BY <1>3, FramesMatchPages, Zenon
<1>6. page = Frontier(Segment)
  BY <1>1, Zenon DEF Frontier
<1>7. page \in SegmentPages(header)
  BY <1>1, <1>3, <1>4, <1>5 DEF SegmentPages, PagesIn
<1>8. ControlInv'
  <2>1. Segment' = Segment /\ HeadersOf(kernel, "Tls")' = HeadersOf(kernel, "Tls")
        /\ LoadHeaders' = LoadHeaders
    BY <1>1 DEF Segment, Headers, HeadersOf, LoadHeaders
  <2>2. header >= 1
    BY <1>1, Zenon DEF Progress, ControlInv, Loading, InSegment
  <2>3. /\ (PageOf(Start(Segment)) + i)' = PageOf(Start(Segment)) + (i + 1)
        /\ FirstBss(Segment)' = FirstBss(Segment)
    BY <1>1 DEF Segment, Headers, Start, PageOf, FirstBss, ZeroStart
  <2>4. (PageOf(Start(Segment)) + i)' <= FirstBss(Segment)'
    <3>1. PageOf(Start(Segment)) + (i + 1) <= FirstBss(Segment)
      BY <1>1, <1>3, <1>4, <1>5
    <3> QED
      BY <2>3, <3>1
  <2>5. i' \in Nat /\ pc' \notin {"bss", "bss_pages", "dynamic", "relocate"}
    BY <1>1, <1>3
  <2> QED
    BY <1>1, <1>3, <2>1, <2>2, <2>4, <2>5, Zenon DEF ControlInv
<1>9. /\ next_frame \in Nat /\ next_frame <= next_frame /\ DOMAIN frames = 0..(next_frame - 1)
      /\ f \in 0..(next_frame - 1)
      /\ frames[f] = FrameBytes(f)
  <2>1. FileFrames \in Nat /\ next_frame \in Nat /\ FileFrames <= next_frame
        /\ \A g \in 0..(FileFrames - 1) : frames[g] = FrameBytes(g)
    BY FileFramesType, Zenon DEF FileInv, FileIntact
  <2>2. f \in 0..(FileFrames - 1)
    BY <1>1, <1>5, Zenon
  <2> HIDE DEF f
  <2>3. f \in 0..(next_frame - 1) /\ next_frame <= next_frame
    BY <2>1, <2>2
  <2>4. DOMAIN frames = 0..(next_frame - 1)
    BY Zenon DEF Progress, MemInv
  <2> QED
    BY <2>1, <2>2, <2>3, <2>4, Zenon
<1>10. ASSUME NEW a \in Bytes(Start(Segment), Segment.mem_size), PageOf(a) = page,
              Settled(header, a)
       PROVE  frames[f][OffsetOf(a)] = FromFile(header, a)
  <2>1. a < ZeroStart(Segment)
    BY <1>1, <1>3, <1>10, Zenon DEF Settled
  <2>2. a \in Int /\ Start(Segment) <= a
    BY <1>3, ByteInSegment, Zenon
  <2>3. /\ Start(Segment) \in Int /\ Segment.offset \in Nat /\ Segment.file_size \in Nat
        /\ ZeroStart(Segment) = Start(Segment) + Segment.file_size
    BY <1>3, SegmentType, Zenon DEF ZeroStart
  <2>4. Segment.offset + Segment.file_size <= kernel.len /\ kernel.len \in Nat
    <3>1. kernel.len \in Nat
      BY <1>3 DEF KernelFile
    <3>2. Congruent(kernel, Segment)
      BY <1>3, Zenon DEF WellFormed, LoadHeaders, Headers
    <3> QED
      BY <3>1, <3>2, Zenon DEF Congruent
  <2>5. f * PageSize + OffsetOf(a) = Segment.offset + (a - Start(Segment))
    BY <1>5, <1>10, <2>2, Zenon
  <2>6. Segment.offset + (a - Start(Segment)) < kernel.len
    BY <2>1, <2>2, <2>3, <2>4
  <2>7. OffsetOf(a) \in Offsets
    BY <2>2, AddressParts, Zenon
  <2> HIDE DEF f
  <2>8. FrameBytes(f)[OffsetOf(a)] = FileByte(Segment.offset + (a - Start(Segment)))
    BY <2>5, <2>6, <2>7, Zenon DEF FrameBytes
  <2> QED
    BY <1>3, <1>9, <2>1, <2>8, Zenon DEF FromFile
<1> HIDE DEF f, page
<1>11. pc \in {"map", "bss_pages"} /\ f \in 0..(FileFrames - 1)
  BY <1>1, <1>5, Zenon
<1> QED
  BY <1>1, <1>6, <1>7, <1>8, <1>9, <1>10, <1>11, MapStep, Zenon

\* A page of .bss is mapped to a new frame, which is zeroed.
LEMMA MapBssStep ==
  ASSUME FileInv, WellFormed(kernel), Progress, MapBssPage
  PROVE  Progress'
<1> DEFINE page == FirstBss(Segment) + i
           f == next_frame
           zeroes == [o \in Offsets |-> Zero]
<1>1. /\ pc = "bss_pages" /\ pc' = pc /\ header' = header /\ kernel' = kernel /\ i' = i + 1
      /\ next_frame' = next_frame + 1 /\ tls_template' = tls_template
      /\ frames' = [g \in DOMAIN frames \cup {f} |-> IF g = f THEN zeroes ELSE frames[g]]
      /\ page <= PageOf(End(Segment) - 1) /\ MapTo(page, SegmentEntry(Segment, f))
  BY DEF MapBssPage, BssPage, FirstBss
<1>2. pc \in InSegment /\ pc \in {"map", "bss_pages"}
  BY <1>1 DEF InSegment
<1>3. /\ kernel \in KernelFile /\ header \in LoadHeaders /\ header \in Nat /\ i \in Nat
      /\ Segment = Headers[header]
      /\ tls_template # 0 => tls_template \in HeadersOf(kernel, "Tls") /\ tls_template < header
  BY <1>2, AtSegment, Zenon
<1>4. /\ PageOf(Start(Segment)) \in Int /\ PageOf(End(Segment) - 1) \in Int
      /\ FirstBss(Segment) \in Int /\ PageOf(Start(Segment)) <= FirstBss(Segment)
      /\ FirstBss(Segment) = LastPage(Segment) + 1 /\ ZeroStart(Segment) \in Int
  BY <1>3, SegmentShape, SegmentType, Zenon
<1>5. page = Frontier(Segment)
  BY <1>1 DEF Frontier
<1>6. page \in SegmentPages(header)
  BY <1>1, <1>3, <1>4 DEF SegmentPages, PagesIn
<1>7. ControlInv'
  <2>1. Segment' = Segment /\ HeadersOf(kernel, "Tls")' = HeadersOf(kernel, "Tls")
        /\ LoadHeaders' = LoadHeaders
    BY <1>1 DEF Segment, Headers, HeadersOf, LoadHeaders
  <2>2. header >= 1 /\ Segment.mem_size > Segment.file_size
    BY <1>1, Zenon DEF Progress, ControlInv, Loading, InSegment
  <2>3. i' \in Nat /\ pc' \notin {"map", "dynamic", "relocate"}
    BY <1>1, <1>3
  <2> QED
    BY <1>1, <1>3, <2>1, <2>2, <2>3, Zenon DEF ControlInv
<1> DEFINE N == 0..(next_frame - 1)
<1>8. next_frame \in Nat /\ DOMAIN frames = N
  BY Zenon DEF FileInv, Progress, MemInv
<1>9. /\ next_frame' \in Nat /\ next_frame <= next_frame' /\ N \cup {f} = 0..(next_frame' - 1)
      /\ f \notin N /\ f \in 0..(next_frame' - 1)
  BY <1>1, <1>8
<1>10. ASSUME NEW a \in Bytes(Start(Segment), Segment.mem_size), PageOf(a) = page
       PROVE  OffsetOf(a) \in Offsets /\ FromFile(header, a) = Zero
  <2>1. a \in Int
    BY <1>3, ByteInSegment, Zenon
  <2>2. ZeroStart(Segment) - 1 \in Int /\ (a < ZeroStart(Segment) => a <= ZeroStart(Segment) - 1)
    BY <1>4, <2>1
  <2>3. a <= ZeroStart(Segment) - 1 => PageOf(a) <= LastPage(Segment) /\ LastPage(Segment) \in Int
    BY <2>1, <2>2, PageOrder, Zenon DEF LastPage
  <2>4. page > LastPage(Segment) \/ LastPage(Segment) \notin Int
    BY <1>3, <1>4
  <2> HIDE DEF page
  <2>5. page \in Int
    BY <1>3, <1>4 DEF page
  <2>6. ~(a < ZeroStart(Segment))
    BY <1>10, <2>2, <2>3, <2>4, <2>5
  <2> QED
    BY <1>3, <2>1, <2>6, AddressParts, Zenon DEF FromFile
<1> HIDE DEF page, N, f
<1>11. \A o \in Offsets : zeroes[o] = Zero
  BY Zenon
<1> HIDE DEF zeroes
<1>12. DOMAIN frames' = N \cup {f} /\ frames'[f] = zeroes /\ \A g \in N : frames'[g] = frames[g]
  BY <1>1, <1>8, <1>9, Zenon
<1>13. /\ DOMAIN frames' = 0..(next_frame' - 1)
       /\ \A g \in 0..(next_frame - 1) : frames'[g] = frames[g]
       /\ f \notin 0..(next_frame - 1)
  BY <1>9, <1>12, Zenon DEF N
<1>14. \A a \in Bytes(Start(Segment), Segment.mem_size) :
         PageOf(a) = page /\ Settled(header, a) => frames'[f][OffsetOf(a)] = FromFile(header, a)
  BY <1>10, <1>11, <1>12, Zenon
<1> QED
  BY <1>1, <1>2, <1>5, <1>6, <1>7, <1>9, <1>13, <1>14, MapStep, Zenon

-----------------------------------------------------------------------------
\* Steps that write, with make_mut.

\* What address a holds once these bytes are written to the page.
Overlay(page, bytes, a) ==
  IF PageOf(a) = page /\ OffsetOf(a) \in DOMAIN bytes THEN bytes[OffsetOf(a)] ELSE ByteAt(a)

\* A write that turns the bytes of the image into what is claimed of them next.
LEMMA WriteStep ==
  ASSUME FileInv, WellFormed(kernel), Progress, kernel' = kernel,
         NEW page \in DOMAIN page_table, NEW bytes, WritePage(page, bytes),
         pc \notin {"flags", "done"}, pc' \notin {"flags", "done"},
         pc' \in Loading \cup Later, ControlInv',
         \A h \in LoadHeaders : \A p \in SegmentPages(h) : Reached(h, p)' <=> Reached(h, p),
         \A h \in LoadHeaders : \A a \in Bytes(Start(Headers[h]), Headers[h].mem_size) :
           PageOf(a) \in Has(h) =>
             /\ \A r \in DOMAIN kernel.relocations :
                  Written(r, a)' => Overlay(page, bytes, a) = FromWord(r, a)
             /\ Settled(h, a)' /\ (\A r \in DOMAIN kernel.relocations : ~Written(r, a)') =>
                  Overlay(page, bytes, a) = FromFile(h, a)
  PROVE  Progress'
<1>1. kernel \in KernelFile /\ MemInv /\ TableInv /\ FlagInv /\ ContentInv
  BY Zenon DEF FileInv, Progress
<1>2. /\ MemInv'
      /\ DOMAIN page_table' = DOMAIN page_table
      /\ \A p \in DOMAIN page_table : /\ page_table'[p].writable = page_table[p].writable
                                      /\ page_table'[p].executable = page_table[p].executable
      /\ \A a \in Int : PageOf(a) \in DOMAIN page_table =>
           ByteAt(a)' = Overlay(page, bytes, a)
  BY <1>1, WriteView, Zenon DEF Overlay
<1>3. \A h \in LoadHeaders : Has(h)' = Has(h)
  BY SameHas, Zenon
<1>4. /\ LoadHeaders' = LoadHeaders /\ Headers' = Headers
      /\ \A seg : Start(seg)' = Start(seg)
      /\ \A h, a : FromFile(h, a)' = FromFile(h, a)
      /\ \A r, a : FromWord(r, a)' = FromWord(r, a)
  BY SameKernel, Zenon
<1>5. TableInv'
  BY <1>1, <1>2, <1>3, <1>4, Zenon DEF TableInv
<1>6. FlagInv'
  BY <1>1, <1>2, <1>3, FlagsKept, Zenon
<1>7. ContentInv'
  <2>1. ASSUME NEW h \in LoadHeaders, NEW a \in Bytes(Start(Headers[h]), Headers[h].mem_size),
               PageOf(a) \in Has(h)
        PROVE  /\ \A r \in DOMAIN kernel.relocations : Written(r, a)' => ByteAt(a)' = FromWord(r, a)
               /\ Settled(h, a)' /\ (\A r \in DOMAIN kernel.relocations : ~Written(r, a)') =>
                    ByteAt(a)' = FromFile(h, a)
    <3>1. a \in Int
      BY <1>1, ByteInSegment, Zenon
    <3>2. PageOf(a) \in DOMAIN page_table
      BY <1>1, <2>1, Zenon DEF TableInv
    <3>3. ByteAt(a)' = Overlay(page, bytes, a)
      BY <1>2, <3>1, <3>2, Zenon
    <3> QED
      BY <2>1, <3>3, Zenon
  <2> QED
    BY <1>3, <2>1, ContentNext, Zenon
<1> QED
  BY <1>2, <1>5, <1>6, <1>7, Zenon DEF Progress

\* On one page addresses are ordered like their offsets.
LEMMA OffsetOrder ==
  ASSUME NEW a \in Int, NEW b \in Int, PageOf(a) = PageOf(b)
  PROVE  a < b <=> OffsetOf(a) < OffsetOf(b)
<1> DEFINE q == PageOf(a) * PageSize
           m == OffsetOf(a)
           n == OffsetOf(b)
<1>1. PageSize \in Int /\ PageOf(a) \in Int /\ m \in Nat /\ n \in Nat /\ a = q + m /\ b = q + n
  BY LoaderAssumption, AddressParts
<1>2. q \in Int
  BY <1>1
<1> HIDE DEF q, m, n
<1>3. a < b <=> m < n
  BY <1>1, <1>2
<1> QED
  BY <1>3 DEF m, n

\* The rest of the page with the last data is zeroed.
LEMMA ZeroRestStep ==
  ASSUME FileInv, WellFormed(kernel), Progress, ZeroRest
  PROVE  Progress'
<1> DEFINE z == ZeroStart(Segment)
           page == LastPage(Segment)
           bytes == [o \in OffsetOf(z)..(PageSize - 1) |-> Zero]
<1>1. /\ pc = "bss" /\ pc' = "bss_pages" /\ i' = 0 /\ header' = header /\ kernel' = kernel
      /\ tls_template' = tls_template /\ OffsetOf(z) # 0
      /\ page \in DOMAIN page_table /\ WritePage(page, bytes)
  BY DEF ZeroRest, Goto, IsMapped
<1>2. pc \in InSegment
  BY <1>1 DEF InSegment
<1>3. /\ kernel \in KernelFile /\ header \in LoadHeaders /\ header \in Nat /\ i \in Nat
      /\ Segment = Headers[header]
      /\ tls_template # 0 => tls_template \in HeadersOf(kernel, "Tls") /\ tls_template < header
  BY <1>2, AtSegment, Zenon
<1>4. /\ z \in Int /\ FirstBss(Segment) \in Int /\ FirstBss(Segment) = page + 1
      /\ PageOf(Start(Segment)) \in Int /\ PageOf(End(Segment) - 1) \in Int
      /\ Start(Segment) \in Int /\ Start(Segment) <= z
      /\ FirstBss(Segment) <= PageOf(End(Segment) - 1) + 1
  BY <1>3, SegmentShape, SegmentType, Zenon
<1>5. page = PageOf(z) /\ page \in Int
  BY <1>1, <1>4, FirstBehind, Zenon DEF LastPage
<1>6. page \in SegmentPages(header)
  <2>1. PageOf(Start(Segment)) <= PageOf(z)
    BY <1>4, PageOrder, Zenon
  <2> HIDE DEF page, z
  <2>2. PageOf(Start(Segment)) <= page /\ page <= PageOf(End(Segment) - 1)
    BY <1>4, <1>5, <2>1
  <2> QED
    BY <1>3, <1>4, <1>5, <2>2 DEF SegmentPages, PagesIn
<1>7. header >= 1 /\ Segment.mem_size > Segment.file_size
  BY <1>1, Zenon DEF Progress, ControlInv, Loading, InSegment
<1>8. ControlInv'
  <2>1. Segment' = Segment /\ HeadersOf(kernel, "Tls")' = HeadersOf(kernel, "Tls")
        /\ LoadHeaders' = LoadHeaders
    BY <1>1 DEF Segment, Headers, HeadersOf, LoadHeaders
  <2>2. i' \in Nat /\ pc' \notin {"map", "dynamic", "relocate"}
    BY <1>1
  <2> QED
    BY <1>1, <1>3, <1>7, <2>1, <2>2, Zenon DEF ControlInv
<1>9. Frontier(Segment) = FirstBss(Segment)
  BY <1>1 DEF Frontier
<1>10. \A h \in LoadHeaders : \A p \in SegmentPages(h) : Reached(h, p)' <=> Reached(h, p)
  <2>1. Frontier(Headers[header])' = FirstBss(Headers[header]) + 0
    BY <1>1 DEF Frontier, FirstBss, ZeroStart, Start, PageOf, Headers
  <2>2. FirstBss(Headers[header]) + 0 = FirstBss(Headers[header])
    BY <1>3, <1>4
  <2>3. pc' \in InSegment
    BY <1>1 DEF InSegment
  <2> QED
    BY <1>1, <1>2, <1>3, <1>9, <2>1, <2>2, <2>3, ReachedAt, Zenon
<1> HIDE DEF page, z
<1>11. DOMAIN bytes = OffsetOf(z)..(PageSize - 1) /\ \A o \in DOMAIN bytes : bytes[o] = Zero
  BY Zenon
<1> HIDE DEF bytes
<1>12. ASSUME NEW h \in LoadHeaders, NEW a \in Bytes(Start(Headers[h]), Headers[h].mem_size),
              PageOf(a) \in Has(h)
       PROVE  /\ \A r \in DOMAIN kernel.relocations : ~Written(r, a)'
              /\ Overlay(page, bytes, a) = FromFile(h, a)
  <2>1. \A r : ~Written(r, a)' /\ ~Written(r, a)
    BY <1>1, EarlyClaims, Zenon
  <2>2. Settled(h, a) => ByteAt(a) = FromFile(h, a)
    BY <1>12, <2>1, Zenon DEF Progress, ContentInv
  <2>3. a \in Int
    BY <1>3, ByteInSegment, Zenon
  <2>4. CASE h # header
    <3>1. PageOf(a) # page
      BY <1>3, <1>6, <1>12, <2>4, SegmentsApart, Zenon DEF Has
    <3>2. Settled(h, a)
      BY <2>4, EarlyClaims, Zenon
    <3> QED
      BY <2>1, <2>2, <3>1, <3>2, Zenon DEF Overlay
  <2>5. CASE h = header /\ a < z
    <3>1. ~(PageOf(a) = page /\ OffsetOf(a) \in DOMAIN bytes)
      <4>1. PageOf(a) = page => OffsetOf(a) < OffsetOf(z)
        BY <1>4, <1>5, <2>3, <2>5, OffsetOrder, Zenon
      <4>2. OffsetOf(a) \in Nat /\ OffsetOf(z) \in Nat
        BY <1>4, <2>3, AddressParts, Zenon
      <4> QED
        BY <1>11, <4>1, <4>2
    <3>2. Settled(h, a)
      BY <1>3, <2>5, Zenon DEF Settled, z
    <3> QED
      BY <2>1, <2>2, <3>1, <3>2, Zenon DEF Overlay
  <2>6. CASE h = header /\ ~(a < z)
    <3>1. z <= a
      BY <1>4, <2>3, <2>6
    <3>2. PageOf(z) <= PageOf(a) /\ PageOf(a) \in Int
      BY <1>4, <2>3, <3>1, PageOrder, Zenon
    <3>3. PageOf(a) < FirstBss(Segment)
      <4>1. ~(h < header)
        BY <1>3, <2>6
      <4> QED
        BY <1>2, <1>3, <1>9, <1>12, <2>6, <4>1, ReachedAt, Zenon DEF Has
    <3>4. PageOf(a) = page
      BY <1>4, <1>5, <3>2, <3>3
    <3>5. OffsetOf(a) \in DOMAIN bytes
      <4>1. ~(OffsetOf(a) < OffsetOf(z))
        BY <1>4, <1>5, <2>3, <2>6, <3>4, OffsetOrder, Zenon
      <4>2. OffsetOf(a) \in Nat /\ OffsetOf(z) \in Nat /\ OffsetOf(a) < PageSize
        BY <1>4, <2>3, AddressParts, Zenon
      <4>3. PageSize \in Nat
        BY LoaderAssumption
      <4> QED
        BY <1>11, <4>1, <4>2, <4>3
    <3>6. FromFile(h, a) = Zero
      BY <1>3, <2>6, Zenon DEF FromFile, z
    <3> QED
      BY <1>11, <2>1, <3>4, <3>5, <3>6, Zenon DEF Overlay
  <2> QED
    BY <2>4, <2>5, <2>6
<1>13. pc' \in Loading \cup Later /\ pc \notin {"flags", "done"} /\ pc' \notin {"flags", "done"}
  BY <1>1 DEF Loading, InSegment
<1> QED
  BY <1>1, <1>8, <1>10, <1>12, <1>13, WriteStep, Zenon

-----------------------------------------------------------------------------
\* Relocation.

\* The table of a well formed file is used, or empty.
LEMMA TableUsed ==
  ASSUME WellFormed(kernel)
  PROVE  /\ Relocations = kernel.relocations
         /\ NoRelocations \/ GoodTags
<1>1. CASE kernel.relocations = << >>
  BY <1>1, Zenon DEF WellFormed, Relocations, NoRelocations, GoodTags, Tags
<1>2. CASE kernel.relocations # << >>
  BY <1>2, Zenon DEF WellFormed, Relocations, NoRelocations, GoodTags, Tags
<1> QED
  BY <1>1, <1>2

\* The word of a relocation: where it lies, and that a byte belongs to one word.
LEMMA Word ==
  ASSUME kernel \in KernelFile, WellFormed(kernel), NEW r \in DOMAIN kernel.relocations
  PROVE  /\ r \in Nat /\ r >= 1 /\ r <= Len(kernel.relocations)
         /\ kernel.relocations[r].target \in Nat /\ kernel.relocations[r].addend \in Nat
         /\ kernel.relocations[r].relative /\ kernel.base \in Int
         /\ \A a \in Int : InWord(r, a) <=>
              /\ kernel.base + kernel.relocations[r].target <= a
              /\ a <= kernel.base + kernel.relocations[r].target + WordSize - 1
         /\ \A q \in DOMAIN kernel.relocations : \A a : InWord(r, a) /\ InWord(q, a) => q = r
         /\ \E h \in LoadHeaders :
              /\ Start(Headers[h]) <= kernel.base + kernel.relocations[r].target
              /\ kernel.base + kernel.relocations[r].target + WordSize - 1 <= End(Headers[h]) - 1
<1> DEFINE R == kernel.relocations
           t == R[r].target
           base == kernel.base
<1>1. R \in Seq([target : Nat, addend : Nat, relative : BOOLEAN]) /\ base \in Int
  BY DEF KernelFile
<1>2. r \in 1..Len(R) /\ Len(R) \in Nat /\ DOMAIN R = 1..Len(R)
  BY <1>1
<1>3. R[r] \in [target : Nat, addend : Nat, relative : BOOLEAN]
  <2>1. \A T : \A q \in Seq(T) : \A k \in 1..Len(q) : q[k] \in T
    OBVIOUS
  <2> QED
    BY <1>1, <1>2, <2>1, Zenon
<1>4. t \in Nat /\ R[r].addend \in Nat
  BY <1>3
<1>5. WordSize \in Nat /\ WordSize > 0
  BY LoaderAssumption
<1>6. /\ R[r].relative
      /\ \E h \in LoadHeaders : Bytes(t, WordSize) \subseteq Bytes(Headers[h].vaddr, Headers[h].mem_size)
      /\ \A q \in DOMAIN R : r # q => Bytes(t, WordSize) \cap Bytes(R[q].target, WordSize) = {}
  BY <1>2, Zenon DEF WellFormed, RelocationsFit, LoadHeaders, Headers
<1>7. \A q \in DOMAIN R : \A a : InWord(r, a) /\ InWord(q, a) => q = r
  BY <1>6, Zenon DEF InWord
<1> HIDE DEF R, t, base
<1>8. ASSUME NEW a \in Int
      PROVE  InWord(r, a) <=> base + t <= a /\ a <= base + t + WordSize - 1
  <2>1. InWord(r, a) <=> a - base \in t..(t + WordSize - 1)
    BY Zenon DEF InWord, Bytes, R, t, base
  <2> QED
    BY <1>1, <1>4, <1>5, <2>1
<1>9. PICK h \in LoadHeaders : Bytes(t, WordSize) \subseteq Bytes(Headers[h].vaddr, Headers[h].mem_size)
  BY <1>6, Zenon
<1>10. Start(Headers[h]) <= base + t /\ base + t + WordSize - 1 <= End(Headers[h]) - 1
  <2> DEFINE v == Headers[h].vaddr
             m == Headers[h].mem_size
  <2>1. /\ v \in Nat /\ m \in Nat /\ Start(Headers[h]) = base + v /\ End(Headers[h]) = base + v + m
    BY SegmentType, Zenon DEF Start, End, base
  <2>2. t..(t + WordSize - 1) \subseteq v..(v + m - 1)
    BY <1>9, Zenon DEF Bytes
  <2> HIDE DEF v, m
  <2>3. t \in t..(t + WordSize - 1) /\ t + WordSize - 1 \in t..(t + WordSize - 1)
    BY <1>4, <1>5
  <2>4. v <= t /\ t + WordSize - 1 <= v + m - 1
    <3>1. t \in v..(v + m - 1) /\ t + WordSize - 1 \in v..(v + m - 1)
      BY <2>2, <2>3, Zenon
    <3> QED
      BY <1>4, <1>5, <2>1, <3>1
  <2> QED
    BY <1>1, <1>4, <1>5, <2>1, <2>4
<1>11. \E g \in LoadHeaders : /\ Start(Headers[g]) <= base + t
                              /\ base + t + WordSize - 1 <= End(Headers[g]) - 1
  BY <1>9, <1>10, Zenon
<1>12. r \in Nat /\ r >= 1 /\ r <= Len(R)
  BY <1>2
<1> QED
  BY <1>1, <1>4, <1>6, <1>7, <1>8, <1>11, <1>12, Zenon DEF R, t, base

\* The relocation at hand.
LEMMA AtRelocation ==
  ASSUME FileInv, WellFormed(kernel), Progress, pc = "relocate", header < Len(Relocations)
  PROVE  /\ kernel \in KernelFile /\ header \in Nat /\ i \in Nat
         /\ header + 1 \in DOMAIN kernel.relocations
         /\ Relocation = kernel.relocations[header + 1]
         /\ Target = kernel.base + kernel.relocations[header + 1].target
         /\ Target \in Int /\ WordSize \in Nat /\ Target + WordSize - 1 \in Int
         /\ Target <= Target + WordSize - 1
         /\ PageOf(Target) \in Int /\ PageOf(Target + WordSize - 1) \in Int /\ WordPage \in Int
         /\ WordPage = PageOf(Target) + i
<1>1. kernel \in KernelFile /\ header \in Nat /\ i \in Nat
  BY Zenon DEF FileInv, Progress, ControlInv
<1>2. header + 1 \in DOMAIN kernel.relocations
  <2>1. Relocations = kernel.relocations
    BY TableUsed
  <2>2. kernel.relocations \in Seq([target : Nat, addend : Nat, relative : BOOLEAN])
    BY <1>1 DEF KernelFile
  <2> QED
    BY <1>1, <2>1, <2>2
<1>3. Relocation = kernel.relocations[header + 1]
  BY TableUsed DEF Relocation
<1>4. kernel.relocations[header + 1].target \in Nat /\ kernel.base \in Int
  BY <1>1, <1>2, Word, Zenon
<1>5. Target = kernel.base + kernel.relocations[header + 1].target
  BY <1>3 DEF Target
<1>6. Target \in Int
  BY <1>4, <1>5
<1>7. WordSize \in Nat /\ WordSize > 0
  BY LoaderAssumption
<1>8. Target + WordSize - 1 \in Int /\ Target <= Target + WordSize - 1
  BY <1>6, <1>7
<1>9. PageOf(Target) \in Int /\ PageOf(Target + WordSize - 1) \in Int
  BY <1>6, <1>8, PageOrder, Zenon
<1>10. WordPage = PageOf(Target) + i /\ WordPage \in Int
  BY <1>1, <1>9 DEF WordPage
<1> QED
  BY <1>1, <1>2, <1>3, <1>5, <1>6, <1>7, <1>8, <1>9, <1>10

\* While the relocations are applied all pages of all segments are mapped.
LEMMA AllMapped ==
  ASSUME Progress, pc \in Later
  PROVE  /\ \A h \in LoadHeaders : Has(h) = SegmentPages(h)
         /\ \A h \in LoadHeaders : \A p \in SegmentPages(h) : IsMapped(p)
<1>1. \A h \in LoadHeaders : Has(h) = SegmentPages(h)
  BY Zenon DEF Has, Reached
<1> QED
  BY <1>1, Zenon DEF Progress, TableInv, IsMapped

\* The pages of the word at hand are mapped.
LEMMA WordMapped ==
  ASSUME FileInv, WellFormed(kernel), Progress, pc = "relocate", header < Len(Relocations),
         WordPage <= PageOf(Target + WordSize - 1)
  PROVE  IsMapped(WordPage)
<1>1. /\ kernel \in KernelFile /\ i \in Nat /\ header + 1 \in DOMAIN kernel.relocations
      /\ Target = kernel.base + kernel.relocations[header + 1].target
      /\ Target \in Int /\ Target + WordSize - 1 \in Int
      /\ PageOf(Target) \in Int /\ PageOf(Target + WordSize - 1) \in Int /\ WordPage \in Int
      /\ WordPage = PageOf(Target) + i
  BY AtRelocation
<1>2. PICK h \in LoadHeaders :
        Start(Headers[h]) <= Target /\ Target + WordSize - 1 <= End(Headers[h]) - 1
  BY <1>1, Word, Zenon
<1>3. Start(Headers[h]) \in Int /\ End(Headers[h]) \in Int
  BY <1>1, SegmentType, Zenon
<1>4. End(Headers[h]) - 1 \in Int
  BY <1>3
<1>5. /\ PageOf(Start(Headers[h])) <= PageOf(Target) /\ PageOf(Start(Headers[h])) \in Int
      /\ PageOf(Target + WordSize - 1) <= PageOf(End(Headers[h]) - 1)
      /\ PageOf(End(Headers[h]) - 1) \in Int
  BY <1>1, <1>2, <1>3, <1>4, PageOrder, Zenon
<1>6. WordPage \in SegmentPages(h)
  BY <1>1, <1>5 DEF SegmentPages, PagesIn
<1>7. pc \in Later
  BY DEF Later
<1> QED
  BY <1>2, <1>6, <1>7, AllMapped, Zenon

\* What an element of a sequence says of the sequence.
LEMMA InDomain ==
  ASSUME NEW A, NEW s \in Seq(A), NEW k \in Nat, k + 1 \in DOMAIN s
  PROVE  Len(s) \in Nat /\ k + 1 <= Len(s) /\ s # << >>
<1>1. Len(s) \in Nat /\ DOMAIN s = 1..Len(s)
  OBVIOUS
<1>2. s = << >> => Len(s) = 0
  OBVIOUS
<1> QED
  BY <1>1, <1>2

\* The entry of the table is mapped, and no relocation has overwritten it.
LEMMA EntryReadable ==
  ASSUME FileInv, WellFormed(kernel), Progress, pc = "relocate", header < Len(Relocations)
  PROVE  EntryMapped /\ ReadsBack
<1> DEFINE R == kernel.relocations
           base == kernel.base
           rela == kernel.rela
           n == RelaSize * header
           total == RelaSize * Len(R)
<1>1. kernel \in KernelFile /\ header \in Nat /\ header + 1 \in DOMAIN R
  BY AtRelocation
<1>2. /\ R \in Seq([target : Nat, addend : Nat, relative : BOOLEAN]) /\ base \in Int /\ rela \in Nat
      /\ Len(R) \in Nat /\ header + 1 <= Len(R) /\ R # << >> /\ kernel.rela_offset \in Nat
  <2> DEFINE Entry == [target : Nat, addend : Nat, relative : BOOLEAN]
  <2>1. R \in Seq(Entry) /\ base \in Int /\ rela \in Nat /\ kernel.rela_offset \in Nat
    BY <1>1 DEF KernelFile
  <2> HIDE DEF Entry, R
  <2>2. Len(R) \in Nat /\ header + 1 <= Len(R) /\ R # << >>
    BY <1>1, <2>1, InDomain, Zenon
  <2> QED
    BY <2>1, <2>2, Zenon DEF Entry
<1>3. RelaSize \in Nat /\ RelaSize > 0
  BY LoaderAssumption
<1>4. n \in Nat /\ total \in Nat /\ n + RelaSize <= total
  <2>1. ASSUME NEW k \in Nat, NEW l \in Nat, NEW m \in Nat, l + 1 <= m
        PROVE  k * l + k <= k * m
    <3> DEFINE d == m - l - 1
    <3>1. d \in Nat /\ m = l + 1 + d
      BY <2>1
    <3> HIDE DEF d
    <3>2. k * (l + 1 + d) = k * l + k + k * d /\ k * l \in Nat /\ k * d \in Nat
      BY <3>1
    <3> QED
      BY <3>1, <3>2
  <2>2. RelaSize * header \in Nat /\ RelaSize * Len(R) \in Nat
    BY <1>1, <1>2, <1>3
  <2> QED
    BY <1>1, <1>2, <1>3, <2>1, <2>2, Zenon
<1>5. PICK h \in LoadHeaders :
        /\ Bytes(rela, total) \subseteq Bytes(Headers[h].vaddr, Headers[h].file_size)
        /\ kernel.rela_offset = Headers[h].offset + (rela - Headers[h].vaddr)
  BY <1>2, Zenon DEF WellFormed, RelocationsFit, LoadHeaders, Headers
<1> DEFINE S == Headers[h]
<1>6. /\ S.vaddr \in Nat /\ S.offset \in Nat /\ S.file_size \in Nat /\ S.mem_size \in Nat
      /\ Start(S) = base + S.vaddr /\ ZeroStart(S) = base + S.vaddr + S.file_size
      /\ End(S) = base + S.vaddr + S.mem_size
      /\ Start(S) \in Int /\ ZeroStart(S) \in Int /\ End(S) \in Int
      /\ ZeroStart(S) <= End(S)
  BY <1>1, <1>5, SegmentType, SegmentShape, Zenon DEF Start, ZeroStart, End
<1>7. \A q \in DOMAIN R : Bytes(R[q].target, WordSize) \cap Bytes(rela, total) = {}
  <2>1. DOMAIN R = 1..Len(R)
    BY <1>2
  <2> QED
    BY <2>1, Zenon DEF WellFormed, RelocationsFit
<1> HIDE DEF R, base, rela, n, total, S
<1>8. EntryAddr = base + rela + n /\ EntryAddr \in Int
  <2>1. EntryAddr = base + rela + n
    BY Zenon DEF EntryAddr, base, rela, n
  <2> QED
    BY <1>2, <1>4, <2>1
<1>9. pc \in Later
  BY DEF Later
<1>10. ASSUME NEW o \in 0..(RelaSize - 1)
       PROVE  /\ EntryAddr + o \in Int /\ Start(S) <= EntryAddr + o /\ EntryAddr + o < ZeroStart(S)
              /\ (EntryAddr + o) - base \in Bytes(rela, total)
              /\ S.offset + ((EntryAddr + o) - Start(S)) = kernel.rela_offset + n + o
  <2>1. o \in Nat /\ o <= RelaSize - 1
    BY <1>3
  <2>2. rela + n + o \in rela..(rela + total - 1)
    BY <1>2, <1>3, <1>4, <2>1
  <2>3. rela + n + o \in S.vaddr..(S.vaddr + S.file_size - 1)
    BY <1>5, <2>2, Zenon DEF Bytes, S
  <2>4. (EntryAddr + o) - base = rela + n + o
    BY <1>2, <1>4, <1>8, <2>1
  <2>5. kernel.rela_offset = S.offset + (rela - S.vaddr)
    BY <1>5 DEF S
  <2>6. ASSUME NEW v \in Nat, NEW l \in Nat, NEW u \in Nat, rela + n + o \in v..(v + l - 1)
        PROVE  /\ base + rela + n + o \in Int /\ base + v <= base + rela + n + o
               /\ base + rela + n + o < base + v + l
               /\ u + ((base + rela + n + o) - (base + v)) = u + (rela - v) + n + o
    BY <1>2, <1>4, <2>1, <2>6
  <2>7. /\ EntryAddr + o \in Int /\ Start(S) <= EntryAddr + o /\ EntryAddr + o < ZeroStart(S)
        /\ S.offset + ((EntryAddr + o) - Start(S)) = S.offset + (rela - S.vaddr) + n + o
    <3>1. /\ base + rela + n + o \in Int /\ base + S.vaddr <= base + rela + n + o
          /\ base + rela + n + o < base + S.vaddr + S.file_size
          /\ S.offset + ((base + rela + n + o) - (base + S.vaddr)) = S.offset + (rela - S.vaddr) + n + o
      BY <1>6, <2>3, <2>6, Zenon
    <3> QED
      BY <1>6, <1>8, <3>1, Zenon
  <2> QED
    BY <2>2, <2>4, <2>5, <2>7, Zenon DEF Bytes
<1>11. EntryMapped
  <2>1. 0 \in 0..(RelaSize - 1) /\ RelaSize - 1 \in 0..(RelaSize - 1)
    BY <1>3
  <2>2. /\ EntryAddr + 0 \in Int /\ Start(S) <= EntryAddr + 0
        /\ EntryAddr + (RelaSize - 1) \in Int /\ EntryAddr + (RelaSize - 1) < ZeroStart(S)
    BY <1>10, <2>1, Zenon
  <2>3. /\ Start(S) <= EntryAddr /\ (EntryAddr + RelaSize) - 1 \in Int
        /\ End(S) - 1 \in Int /\ (EntryAddr + RelaSize) - 1 <= End(S) - 1
    <3>1. ASSUME NEW e \in Int, NEW k \in Nat, NEW x \in Int, NEW y \in Int, NEW z \in Int,
                 x <= e + 0, e + (k - 1) < y, y <= z
          PROVE  x <= e /\ (e + k) - 1 \in Int /\ z - 1 \in Int /\ (e + k) - 1 <= z - 1
      BY <3>1
    <3> QED
      BY <1>3, <1>6, <1>8, <2>2, <3>1, Zenon
  <2>4. /\ PageOf(Start(S)) \in Int /\ PageOf(EntryAddr) \in Int
        /\ PageOf((EntryAddr + RelaSize) - 1) \in Int /\ PageOf(End(S) - 1) \in Int
        /\ PageOf(Start(S)) <= PageOf(EntryAddr)
        /\ PageOf((EntryAddr + RelaSize) - 1) <= PageOf(End(S) - 1)
    BY <1>6, <1>8, <2>3, PageOrder, Zenon
  <2>5. PagesIn(EntryAddr, EntryAddr + RelaSize) \subseteq SegmentPages(h)
    <3> DEFINE x == PageOf(Start(S))
               y == PageOf(End(S) - 1)
               u == PageOf(EntryAddr)
               v == PageOf((EntryAddr + RelaSize) - 1)
    <3>1. x \in Int /\ y \in Int /\ u \in Int /\ v \in Int /\ x <= u /\ v <= y
      BY <2>4, Zenon
    <3> HIDE DEF x, y, u, v
    <3>2. u..v \subseteq x..y
      BY <3>1
    <3> QED
      BY <3>2, Zenon DEF PagesIn, SegmentPages, S, x, y, u, v
  <2> QED
    BY <1>5, <1>9, <2>5, AllMapped, Zenon DEF EntryMapped
<1>12. ASSUME NEW o \in 0..(RelaSize - 1)
       PROVE  ByteAt(EntryAddr + o) = FileByte(kernel.rela_offset + n + o)
  <2> DEFINE a == EntryAddr + o
  <2>1. /\ a \in Int /\ Start(S) <= a /\ a < ZeroStart(S) /\ a - base \in Bytes(rela, total)
        /\ S.offset + (a - Start(S)) = kernel.rela_offset + n + o
    BY <1>10, <1>12, Zenon
  <2> HIDE DEF a
  <2>2. a \in Bytes(Start(S), S.mem_size)
    <3>1. Start(S) + S.mem_size = End(S)
      BY Zenon DEF End
    <3> QED
      BY <1>6, <2>1, <3>1 DEF Bytes
  <2>3. \A q \in DOMAIN R : ~Written(q, a)
    BY <1>7, <2>1, Zenon DEF Written, InWord, R, base
  <2>4. PageOf(a) \in Has(h)
    <3>1. PageOf(a) \in SegmentPages(h)
      BY <1>1, <1>5, <2>2, ByteInSegment, Zenon DEF S
    <3> QED
      BY <1>5, <1>9, <3>1, AllMapped, Zenon
  <2>5. Settled(h, a)
    BY EarlyClaims, Zenon
  <2>6. ByteAt(a) = FromFile(h, a)
    BY <1>5, <2>2, <2>3, <2>4, <2>5, Zenon DEF Progress, ContentInv, S, R
  <2>7. FromFile(h, a) = FileByte(S.offset + (a - Start(S)))
    BY <2>1, Zenon DEF FromFile, S
  <2> QED
    BY <2>1, <2>6, <2>7 DEF a
<1>13. ReadsBack
  BY <1>12, Zenon DEF ReadsBack, EntryBytes, n
<1> QED
  BY <1>11, <1>13

\* No byte of a word is written before the word is begun.
LEMMA WordBegins ==
  ASSUME kernel \in KernelFile, WellFormed(kernel), kernel' = kernel, i' = 0,
         NEW a \in Int, NEW r \in DOMAIN kernel.relocations, r = header' + 1, InWord(r, a)
  PROVE  ~(PageOf(a) < WordPage')
<1> DEFINE t == kernel.base + kernel.relocations[r].target
<1>1. t \in Int /\ t <= a
  <2>1. kernel.relocations[r].target \in Nat /\ kernel.base \in Int /\ t <= a
    BY Word, Zenon
  <2> QED
    BY <2>1
<1>2. PageOf(t) \in Int /\ PageOf(a) \in Int /\ PageOf(t) <= PageOf(a)
  BY <1>1, PageOrder, Zenon
<1>3. WordPage' = PageOf(t) + 0
  <2>1. Relocations' = kernel.relocations
    <3>1. Relocations' = Relocations
      BY DEF Relocations, GoodTags, Tags
    <3> QED
      BY <3>1, TableUsed
  <2>2. Target' = t
    BY <2>1 DEF Target, Relocation
  <2> QED
    BY <2>2 DEF WordPage, PageOf
<1> QED
  BY <1>2, <1>3

\* Between relocations, and before the first.
LEMMA ControlRelocation ==
  ASSUME FileInv, WellFormed(kernel), Progress, pc \in {"dynamic", "relocate"},
         kernel' = kernel, pc' = "relocate", i' \in Nat, header' \in Nat,
         header' <= Len(kernel.relocations)
  PROVE  /\ ControlInv' /\ pc' \in Loading \cup Later
         /\ \A h \in LoadHeaders : \A p \in SegmentPages(h) : Reached(h, p)' <=> Reached(h, p)
         /\ \A h, a : Settled(h, a) /\ Settled(h, a)'
<1>1. pc' \notin InSegment /\ pc' \notin Loading /\ pc' \notin {"map", "bss", "bss_pages", "dynamic"}
  BY DEF InSegment, Loading
<1>2. Len(kernel.relocations)' = Len(kernel.relocations)
  OBVIOUS
<1>3. ControlInv'
  BY <1>1, <1>2, Zenon DEF ControlInv
<1>4. pc \in Later /\ pc' \in Later
  BY DEF Later
<1>5. \A h, p : Reached(h, p)' /\ Reached(h, p)
  BY <1>4, Zenon DEF Reached
<1>6. \A h, a : Settled(h, a) /\ Settled(h, a)'
  <2>1. pc \notin {"map", "bss"}
    OBVIOUS
  <2> QED
    BY <1>1, <2>1, Zenon DEF Settled
<1> QED
  BY <1>3, <1>4, <1>5, <1>6, Zenon

\* The first relocation.
LEMMA BeginRelocationStep ==
  ASSUME FileInv, WellFormed(kernel), Progress, BeginRelocation
  PROVE  Progress'
<1>1. /\ pc = "dynamic" /\ pc' = "relocate" /\ i' = 0 /\ header' = header /\ kernel' = kernel
      /\ page_table' = page_table /\ frames' = frames /\ next_frame' = next_frame
  BY DEF BeginRelocation, Goto
<1>2. kernel \in KernelFile /\ header = 0
  BY <1>1, Zenon DEF FileInv, Progress, ControlInv
<1>3. 0 <= Len(kernel.relocations) /\ 0 \in Nat
  BY <1>2 DEF KernelFile
<1>4. /\ ControlInv' /\ pc' \in Loading \cup Later
      /\ \A h \in LoadHeaders : \A p \in SegmentPages(h) : Reached(h, p)' <=> Reached(h, p)
      /\ \A h, a : Settled(h, a) /\ Settled(h, a)'
  BY <1>1, <1>2, <1>3, ControlRelocation, Zenon
<1>5. ASSUME NEW a \in Int, NEW r \in DOMAIN kernel.relocations
      PROVE  ~Written(r, a)' /\ ~Written(r, a)
  <2>1. ~Written(r, a)
    BY <1>1, EarlyClaims, Zenon
  <2>2. r \in Nat /\ r >= 1
    BY <1>2, Word, Zenon
  <2>3. ~(r <= header')
    BY <1>1, <1>2, <2>2
  <2>4. InWord(r, a) /\ r = header' + 1 => ~(PageOf(a) < WordPage')
    BY <1>1, <1>2, WordBegins, Zenon
  <2>5. InWord(r, a)' => InWord(r, a)
    BY <1>1, SameKernel, Zenon
  <2>6. PageOf(a)' = PageOf(a)
    BY DEF PageOf
  <2> QED
    BY <1>1, <2>1, <2>3, <2>4, <2>5, <2>6, Zenon DEF Written
<1>6. \A h \in LoadHeaders : \A a \in Bytes(Start(Headers[h]), Headers[h].mem_size) : a \in Int
  BY <1>2, ByteInSegment, Zenon
<1> QED
  BY <1>1, <1>4, <1>5, <1>6, QuietStep, Zenon

\* The next relocation: the word at hand is complete.
LEMMA RelocationDoneStep ==
  ASSUME FileInv, WellFormed(kernel), Progress, RelocationDone
  PROVE  Progress'
<1>1. /\ pc = "relocate" /\ pc' = pc /\ i' = 0 /\ header' = header + 1 /\ kernel' = kernel
      /\ page_table' = page_table /\ frames' = frames /\ next_frame' = next_frame
      /\ header < Len(Relocations) /\ WordPage > PageOf(Target + WordSize - 1)
  BY DEF RelocationDone
<1>2. /\ kernel \in KernelFile /\ header \in Nat /\ header + 1 \in DOMAIN kernel.relocations
      /\ Target = kernel.base + kernel.relocations[header + 1].target
      /\ Target \in Int /\ Target + WordSize - 1 \in Int
      /\ PageOf(Target + WordSize - 1) \in Int /\ WordPage \in Int
  BY <1>1, AtRelocation
<1>3. header' \in Nat /\ header' <= Len(kernel.relocations) /\ i' \in Nat
  <2>1. header + 1 <= Len(kernel.relocations)
    BY <1>2, Word, Zenon
  <2> QED
    BY <1>1, <1>2, <2>1
<1>4. /\ ControlInv' /\ pc' \in Loading \cup Later
      /\ \A h \in LoadHeaders : \A p \in SegmentPages(h) : Reached(h, p)' <=> Reached(h, p)
      /\ \A h, a : Settled(h, a) /\ Settled(h, a)'
  BY <1>1, <1>3, ControlRelocation, Zenon
<1>5. ASSUME NEW a \in Int, NEW r \in DOMAIN kernel.relocations
      PROVE  Written(r, a)' <=> Written(r, a)
  <2>1. r \in Nat
    BY <1>2, Word, Zenon
  <2>2. r <= header' <=> r <= header \/ r = header + 1
    BY <1>1, <1>2, <2>1
  <2>3. InWord(r, a) /\ r = header + 1 => PageOf(a) < WordPage
    <3>1. InWord(r, a) /\ r = header + 1 => a <= Target + WordSize - 1
      <4>1. InWord(r, a) => a <= kernel.base + kernel.relocations[r].target + WordSize - 1
        BY <1>2, Word, Zenon
      <4>2. r = header + 1 => kernel.base + kernel.relocations[r].target + WordSize - 1 = Target + WordSize - 1
        BY <1>2, Zenon
      <4> QED
        BY <4>1, <4>2, Zenon
    <3>2. a <= Target + WordSize - 1 => PageOf(a) \in Int /\ PageOf(a) <= PageOf(Target + WordSize - 1)
      BY <1>2, PageOrder, Zenon
    <3> HIDE DEF PageOf
    <3>3. PageOf(a) \in Int /\ PageOf(a) <= PageOf(Target + WordSize - 1) => PageOf(a) < WordPage
      BY <1>1, <1>2
    <3> QED
      BY <3>1, <3>2, <3>3, Zenon
  <2>4. InWord(r, a) /\ r = header' + 1 => ~(PageOf(a) < WordPage')
    BY <1>1, <1>2, WordBegins, Zenon
  <2>5. InWord(r, a)' <=> InWord(r, a)
    BY <1>1, SameKernel, Zenon
  <2>6. PageOf(a)' = PageOf(a)
    BY DEF PageOf
  <2>7. Written(r, a) <=> InWord(r, a) /\ (r <= header \/ (r = header + 1 /\ PageOf(a) < WordPage))
    BY <1>1, Zenon DEF Written
  <2>8. Written(r, a)' <=> InWord(r, a) /\ (r <= header' \/ (r = header' + 1 /\ PageOf(a) < WordPage'))
    BY <1>1, <2>5, <2>6, Zenon DEF Written
  <2> QED
    BY <2>2, <2>3, <2>4, <2>7, <2>8, Zenon
<1>6. \A h \in LoadHeaders : \A a \in Bytes(Start(Headers[h]), Headers[h].mem_size) : a \in Int
  BY <1>2, ByteInSegment, Zenon
<1> QED
  BY <1>1, <1>4, <1>5, <1>6, QuietStep, Zenon

\* After the last relocation every word is written.
LEMMA AllRelocatedStep ==
  ASSUME FileInv, WellFormed(kernel), Progress, AllRelocated
  PROVE  Progress'
<1>1. /\ pc = "relocate" /\ pc' = "relro" /\ i' = 0 /\ header' = header /\ kernel' = kernel
      /\ page_table' = page_table /\ frames' = frames /\ next_frame' = next_frame
      /\ header = Len(Relocations)
  BY DEF AllRelocated, Goto
<1>2. kernel \in KernelFile /\ header \in Nat /\ header = Len(kernel.relocations)
  BY <1>1, TableUsed, Zenon DEF FileInv, Progress, ControlInv
<1>3. ControlInv'
  <2>1. i' \in Nat /\ pc' \notin {"map", "bss", "bss_pages", "dynamic", "relocate"}
        /\ pc' \notin InSegment /\ pc' \notin Loading
    BY <1>1 DEF InSegment, Loading
  <2> QED
    BY <1>1, <1>2, <2>1, Zenon DEF ControlInv
<1>4. pc \in Later /\ pc' \in Later /\ pc' \in Loading \cup Later
  BY <1>1 DEF Later
<1>5. \A h, p : Reached(h, p)' <=> Reached(h, p)
  BY <1>4, Zenon DEF Reached
<1>6. ASSUME NEW r \in DOMAIN kernel.relocations, NEW a
      PROVE  Written(r, a)' <=> Written(r, a)
  <2>1. r <= header
    BY <1>2, Word, Zenon
  <2>2. InWord(r, a)' <=> InWord(r, a)
    BY <1>1, SameKernel, Zenon
  <2> QED
    BY <1>1, <2>1, <2>2, Zenon DEF Written
<1>7. \A h, a : Settled(h, a)
  BY <1>1, EarlyClaims, Zenon
<1>8. pc \notin {"flags", "done"} /\ pc' \notin {"flags", "done"}
  BY <1>1
<1> QED
  BY <1>1, <1>3, <1>4, <1>5, <1>6, <1>7, <1>8, QuietStep, Zenon

\* A page of the word at hand is written.
LEMMA RelocatePageStep ==
  ASSUME FileInv, WellFormed(kernel), Progress, RelocatePage
  PROVE  Progress'
<1> DEFINE r0 == header + 1
<1>1. /\ pc = "relocate" /\ pc' = pc /\ i' = i + 1 /\ header' = header /\ kernel' = kernel
      /\ header < Len(Relocations)
      /\ WordPage \in DOMAIN page_table /\ WritePage(WordPage, WordPart)
  BY DEF RelocatePage, IsMapped
<1>2. /\ kernel \in KernelFile /\ header \in Nat /\ i \in Nat /\ r0 \in DOMAIN kernel.relocations
      /\ Relocation = kernel.relocations[r0]
      /\ Target = kernel.base + kernel.relocations[r0].target
      /\ Target \in Int /\ WordSize \in Nat /\ PageOf(Target) \in Int /\ WordPage \in Int
      /\ WordPage = PageOf(Target) + i
  BY <1>1, AtRelocation
<1>3. i' \in Nat /\ header' \in Nat
  BY <1>1, <1>2
<1>4. header' <= Len(kernel.relocations)
  BY <1>1, Zenon DEF Progress, ControlInv
<1>5. /\ ControlInv' /\ pc' \in Loading \cup Later
      /\ \A h \in LoadHeaders : \A p \in SegmentPages(h) : Reached(h, p)' <=> Reached(h, p)
      /\ \A h, a : Settled(h, a) /\ Settled(h, a)'
  BY <1>1, <1>3, <1>4, ControlRelocation, Zenon
<1>6. WordPage' = WordPage + 1
  <2>1. PageOf(Target)' = PageOf(Target)
    BY <1>1 DEF PageOf, Target, Relocation, Relocations, GoodTags, Tags
  <2>2. WordPage' = PageOf(Target) + (i + 1)
    BY <1>1, <2>1 DEF WordPage
  <2> QED
    BY <1>2, <2>2
<1>7. ASSUME NEW a \in Int
      PROVE  /\ PageOf(a) = WordPage => (OffsetOf(a) \in DOMAIN WordPart <=> InWord(r0, a))
             /\ PageOf(a) = WordPage /\ InWord(r0, a) => WordPart[OffsetOf(a)] = FromWord(r0, a)
  <2> DEFINE W == {o \in Offsets : WordPage * PageSize + o \in Target..(Target + WordSize - 1)}
  <2>1. OffsetOf(a) \in Offsets /\ (PageOf(a) = WordPage => WordPage * PageSize + OffsetOf(a) = a)
    BY AddressParts, Zenon
  <2>2. DOMAIN WordPart = W /\ \A o \in W : WordPart[o] = RelocatedByte(WordPage * PageSize + o)
    BY Zenon DEF WordPart
  <2>3. InWord(r0, a) <=> a \in Target..(Target + WordSize - 1)
    <3>1. InWord(r0, a) <=> Target <= a /\ a <= Target + WordSize - 1
      BY <1>2, Word, Zenon
    <3> QED
      BY <1>2, <3>1
  <2>4. PageOf(a) = WordPage => (OffsetOf(a) \in W <=> InWord(r0, a))
    BY <2>1, <2>3, Zenon
  <2> HIDE DEF W
  <2>5. RelocatedByte(a) = FromWord(r0, a)
    <3>1. kernel.base \in Int /\ kernel.relocations[r0].target \in Nat
      BY <1>2, Word, Zenon
    <3>2. a - Target = a - kernel.base - kernel.relocations[r0].target
      BY <1>2, <3>1
    <3> QED
      BY <1>2, <3>2, Zenon DEF RelocatedByte, FromWord
  <2> QED
    BY <2>1, <2>2, <2>4, <2>5, Zenon
<1>8. ASSUME NEW a \in Int, NEW r \in DOMAIN kernel.relocations
      PROVE  Written(r, a)' <=> Written(r, a) \/ (r = r0 /\ InWord(r0, a) /\ PageOf(a) = WordPage)
  <2>1. InWord(r, a)' <=> InWord(r, a)
    BY <1>1, SameKernel, Zenon
  <2>2. PageOf(a)' = PageOf(a) /\ PageOf(a) \in Int
    BY AddressParts, Zenon DEF PageOf
  <2>3. PageOf(a) < WordPage' <=> PageOf(a) < WordPage \/ PageOf(a) = WordPage
    BY <1>2, <1>6, <2>2
  <2>4. Written(r, a) <=> InWord(r, a) /\ (r <= header \/ (r = r0 /\ PageOf(a) < WordPage))
    BY <1>1, Zenon DEF Written
  <2>5. Written(r, a)' <=> InWord(r, a) /\ (r <= header \/ (r = r0 /\ PageOf(a) < WordPage'))
    BY <1>1, <2>1, <2>2, Zenon DEF Written
  <2> QED
    BY <2>3, <2>4, <2>5, Zenon
<1> HIDE DEF r0
<1>9. ASSUME NEW h \in LoadHeaders, NEW a \in Bytes(Start(Headers[h]), Headers[h].mem_size),
             PageOf(a) \in Has(h)
      PROVE  /\ \A r \in DOMAIN kernel.relocations :
                  Written(r, a)' => Overlay(WordPage, WordPart, a) = FromWord(r, a)
             /\ Settled(h, a)' /\ (\A r \in DOMAIN kernel.relocations : ~Written(r, a)') =>
                  Overlay(WordPage, WordPart, a) = FromFile(h, a)
  <2>1. a \in Int
    BY <1>2, ByteInSegment, Zenon
  <2>2. /\ \A r \in DOMAIN kernel.relocations : Written(r, a) => ByteAt(a) = FromWord(r, a)
        /\ Settled(h, a) /\ (\A r \in DOMAIN kernel.relocations : ~Written(r, a)) =>
             ByteAt(a) = FromFile(h, a)
    BY <1>9, Zenon DEF Progress, ContentInv
  <2>3. CASE PageOf(a) = WordPage /\ InWord(r0, a)
    <3>1. Overlay(WordPage, WordPart, a) = FromWord(r0, a)
      BY <1>7, <2>1, <2>3, Zenon DEF Overlay
    <3>2. \A r \in DOMAIN kernel.relocations : InWord(r, a) => r = r0
      BY <1>2, <2>3, Word, Zenon
    <3>3. \A r \in DOMAIN kernel.relocations : Written(r, a)' => InWord(r, a)
      BY <1>8, <2>1, Zenon DEF Written
    <3>4. PICK q \in DOMAIN kernel.relocations : q = r0
      BY <1>2, Zenon
    <3>5. Written(q, a)'
      BY <1>8, <2>1, <2>3, <3>4, Zenon
    <3> QED
      BY <3>1, <3>2, <3>3, <3>4, <3>5, Zenon
  <2>4. CASE ~(PageOf(a) = WordPage /\ InWord(r0, a))
    <3>1. Overlay(WordPage, WordPart, a) = ByteAt(a)
      BY <1>7, <2>1, <2>4, Zenon DEF Overlay
    <3>2. \A r \in DOMAIN kernel.relocations : Written(r, a)' <=> Written(r, a)
      BY <1>8, <2>1, <2>4, Zenon
    <3> QED
      BY <1>5, <2>2, <3>1, <3>2, Zenon
  <2> QED
    BY <2>3, <2>4
<1>10. pc \notin {"flags", "done"} /\ pc' \notin {"flags", "done"}
  BY <1>1
<1> QED
  BY <1>1, <1>5, <1>9, <1>10, WriteStep, Zenon

-----------------------------------------------------------------------------
\* The last two passes over the page table.

\* The pages of all headers of a type.
LEMMA PagesOfType ==
  ASSUME NEW type
  PROVE  HeaderPages(type) = UNION {SegmentPages(h) : h \in HeadersOf(kernel, type)}
  BY Zenon DEF HeaderPages, HeadersOf, SegmentPages, Headers

\* RELRO is part of segments.
LEMMA RelroInside ==
  ASSUME kernel \in KernelFile, WellFormed(kernel), NEW p \in HeaderPages("GnuRelro")
  PROVE  \E g \in LoadHeaders : p \in SegmentPages(g)
<1>1. PICK h \in HeadersOf(kernel, "GnuRelro") : p \in SegmentPages(h)
  BY PagesOfType, Zenon
<1>2. PICK g \in LoadHeaders :
        /\ Headers[h].mem_size > 0
        /\ Bytes(Headers[h].vaddr, Headers[h].mem_size)
             \subseteq Bytes(Headers[g].vaddr, Headers[g].mem_size)
  BY <1>1, Zenon DEF WellFormed, LoadHeaders, Headers
<1> DEFINE base == kernel.base
           u == Headers[h].vaddr
           m == Headers[h].mem_size
           v == Headers[g].vaddr
           n == Headers[g].mem_size
<1>3. base \in Int /\ u \in Nat /\ m \in Nat
  <2>1. h \in 1..Len(Headers)
    BY <1>1 DEF HeadersOf, Headers
  <2>2. Headers \in Seq(ProgramHeader) /\ base \in Int
    BY DEF KernelFile, Headers
  <2>3. Headers[h] \in ProgramHeader
    BY <2>1, <2>2
  <2>4. \A x \in ProgramHeader : x.vaddr \in Nat /\ x.mem_size \in Nat
    BY DEF ProgramHeader
  <2> QED
    BY <2>2, <2>3, <2>4, Zenon
<1>4. v \in Nat /\ n \in Nat
  BY <1>2, SegmentType, Zenon
<1>5. m > 0 /\ u..(u + m - 1) \subseteq v..(v + n - 1)
  BY <1>2, Zenon DEF Bytes
<1>6. p \in PageOf(base + u)..PageOf((base + u + m) - 1)
  BY <1>1, Zenon DEF SegmentPages, PagesIn, Start, End
<1> HIDE DEF base, u, m, v, n
<1>7. u \in u..(u + m - 1) /\ u + m - 1 \in u..(u + m - 1)
  BY <1>3, <1>5
<1>8. u \in v..(v + n - 1) /\ u + m - 1 \in v..(v + n - 1)
  BY <1>5, <1>7, Zenon
<1>9. /\ base + v \in Int /\ base + u \in Int /\ base + v <= base + u
      /\ (base + u + m) - 1 \in Int /\ (base + v + n) - 1 \in Int
      /\ (base + u + m) - 1 <= (base + v + n) - 1
  BY <1>3, <1>4, <1>8
<1>10. /\ PageOf(base + v) \in Int /\ PageOf(base + u) \in Int
       /\ PageOf(base + v) <= PageOf(base + u)
       /\ PageOf((base + u + m) - 1) \in Int /\ PageOf((base + v + n) - 1) \in Int
       /\ PageOf((base + u + m) - 1) <= PageOf((base + v + n) - 1)
  BY <1>9, PageOrder, Zenon
<1>11. p \in PageOf(base + v)..PageOf((base + v + n) - 1)
  BY <1>6, <1>10
<1>12. p \in SegmentPages(g)
  BY <1>11, Zenon DEF SegmentPages, PagesIn, Start, End, base, v, n
<1> QED
  BY <1>2, <1>12, Zenon

\* A pass over the page table that changes flags.
LEMMA PassOverTable ==
  ASSUME FileInv, WellFormed(kernel), Progress, pc \in {"relro", "flags"},
         pc' \in {"flags", "done"}, header' = header, i' = 0,
         UNCHANGED <<kernel, frames, next_frame>>,
         DOMAIN page_table' = DOMAIN page_table,
         \A p \in DOMAIN page_table : page_table'[p].frame = page_table[p].frame
  PROVE  /\ pc' \in Loading \cup Later /\ ControlInv' /\ MemInv' /\ TableInv' /\ ContentInv'
         /\ \A h \in LoadHeaders : Has(h)' = Has(h)
<1>1. kernel' = kernel
  OBVIOUS
<1>2. kernel \in KernelFile /\ header \in Nat /\ MemInv /\ TableInv /\ ContentInv
  BY Zenon DEF FileInv, Progress, ControlInv
<1>3. /\ pc \in Later /\ pc' \in Later /\ pc' \notin InSegment /\ pc' \notin Loading
      /\ pc' \notin {"map", "bss", "bss_pages", "dynamic", "relocate"}
      /\ pc \notin {"map", "bss"} /\ pc \in {"relro", "flags", "done"}
  BY DEF Later, InSegment, Loading
<1>4. ControlInv'
  <2>1. i' \in Nat
    OBVIOUS
  <2> QED
    BY <1>2, <1>3, <2>1, Zenon DEF ControlInv
<1>5. MemInv' /\ \A a \in Int : PageOf(a) \in DOMAIN page_table => ByteAt(a)' = ByteAt(a)
  BY <1>2, FlagsView
<1>6. \A h, p : Reached(h, p)' <=> Reached(h, p)
  BY <1>3, Zenon DEF Reached
<1>7. \A r, a : Written(r, a)' <=> Written(r, a)
  <2>1. \A r, a : InWord(r, a)' <=> InWord(r, a)
    BY <1>1, SameKernel, Zenon
  <2> QED
    BY <1>3, <2>1, Zenon DEF Written
<1>8. \A h, a : Settled(h, a)
  BY <1>3, EarlyClaims, Zenon
<1>9. TableInv' /\ ContentInv'
  BY <1>1, <1>2, <1>5, <1>6, <1>7, <1>8, ViewKept, Zenon
<1>10. \A h \in LoadHeaders : Has(h)' = Has(h)
  BY <1>1, <1>6, SameHas, Zenon
<1> QED
  BY <1>3, <1>4, <1>5, <1>9, <1>10, Zenon

\* RELRO takes write access away.
LEMMA ProtectRelroStep ==
  ASSUME FileInv, WellFormed(kernel), Progress, ProtectRelro
  PROVE  Progress'
<1> DEFINE H == HeaderPages("GnuRelro")
<1>1. /\ pc = "relro" /\ pc' = "flags" /\ header' = header /\ i' = 0
      /\ UNCHANGED <<kernel, frames, next_frame>> /\ kernel' = kernel
      /\ DOMAIN page_table' = DOMAIN page_table
  BY DEF ProtectRelro, Goto
<1>2. \A p \in DOMAIN page_table :
        /\ page_table'[p].frame = page_table[p].frame
        /\ page_table'[p].executable = page_table[p].executable
        /\ page_table'[p].writable = (page_table[p].writable /\ p \notin H)
  BY DEF ProtectRelro
<1>3. /\ pc' \in Loading \cup Later /\ ControlInv' /\ MemInv' /\ TableInv' /\ ContentInv'
      /\ \A h \in LoadHeaders : Has(h)' = Has(h)
  BY <1>1, <1>2, PassOverTable
<1>4. LoadHeaders' = LoadHeaders /\ Headers' = Headers /\ H' = H
  BY <1>1, SameKernel, Zenon
<1> HIDE DEF H
<1>5. FlagInv'
  <2>1. ASSUME NEW h \in LoadHeaders, NEW p \in Has(h)
        PROVE  /\ page_table'[p].executable = Headers[h].execute
               /\ page_table'[p].writable = (Headers[h].write /\ p \notin H)
    <3>1. p \in DOMAIN page_table
      BY Zenon DEF Progress, TableInv
    <3>2. /\ page_table[p].executable = Headers[h].execute
          /\ page_table[p].writable = (Headers[h].write /\ TRUE)
      BY <1>1, Zenon DEF Progress, FlagInv
    <3> QED
      BY <1>2, <3>1, <3>2, Zenon
  <2> QED
    BY <1>1, <1>3, <1>4, <2>1, Zenon DEF FlagInv, H
<1> QED
  BY <1>3, <1>5, Zenon DEF Progress

\* No COPIED flag is left: every page belongs to a segment.
LEMMA RemoveCopiedStep ==
  ASSUME FileInv, WellFormed(kernel), Progress, RemoveCopiedFlags
  PROVE  Progress'
<1>1. /\ pc = "flags" /\ pc' = "done" /\ header' = header /\ i' = 0
      /\ UNCHANGED <<kernel, frames, next_frame>> /\ kernel' = kernel
      /\ DOMAIN page_table' = DOMAIN page_table
  BY DEF RemoveCopiedFlags, Goto
<1>2. \A p \in DOMAIN page_table :
        /\ page_table'[p].frame = page_table[p].frame
        /\ page_table'[p].executable = page_table[p].executable
        /\ page_table'[p].writable = page_table[p].writable
        /\ page_table'[p].copied = (page_table[p].copied /\ p \notin HeaderPages("Load"))
  BY DEF RemoveCopiedFlags
<1>3. /\ pc' \in Loading \cup Later /\ ControlInv' /\ MemInv' /\ TableInv' /\ ContentInv'
      /\ \A h \in LoadHeaders : Has(h)' = Has(h)
  BY <1>1, <1>2, PassOverTable
<1>4. LoadHeaders' = LoadHeaders /\ Headers' = Headers
      /\ HeaderPages("GnuRelro")' = HeaderPages("GnuRelro")
  BY <1>1, SameKernel, Zenon
<1>5. \A p \in DOMAIN page_table : ~page_table'[p].copied
  <2>1. \A p \in DOMAIN page_table : \E h \in LoadHeaders : p \in SegmentPages(h)
    BY Zenon DEF Progress, TableInv, Has
  <2>2. \A p \in DOMAIN page_table : p \in HeaderPages("Load")
    BY <2>1, PagesOfType, Zenon DEF LoadHeaders
  <2> QED
    BY <1>2, <2>2, Zenon
<1>6. FlagInv'
  <2>1. ASSUME NEW h \in LoadHeaders, NEW p \in Has(h)
        PROVE  /\ page_table'[p].executable = Headers[h].execute
               /\ page_table'[p].writable = (Headers[h].write /\ p \notin HeaderPages("GnuRelro"))
    <3>1. p \in DOMAIN page_table
      BY Zenon DEF Progress, TableInv
    <3>2. /\ page_table[p].executable = Headers[h].execute
          /\ page_table[p].writable = (Headers[h].write /\ p \notin HeaderPages("GnuRelro"))
      BY <1>1, Zenon DEF Progress, FlagInv
    <3> QED
      BY <1>2, <3>1, <3>2, Zenon
  <2> QED
    BY <1>1, <1>3, <1>4, <1>5, <2>1, Zenon DEF FlagInv
<1> QED
  BY <1>3, <1>6, Zenon DEF Progress

-----------------------------------------------------------------------------
\* The failures a well formed file cannot cause.
LEMMA NoFailure ==
  ASSUME FileInv, WellFormed(kernel), Progress
  PROVE  /\ ~NewFails /\ ~SecondTls /\ ~MapFrameFails /\ ~MapBssFails /\ ~DynamicFails
         /\ ~RelocationFails /\ ~TableOverwritten /\ ~RelroUnmapped /\ ~FlagsUnmapped
<1>1. ~NewFails
  BY Zenon DEF NewFails, WellFormed
<1>2. ~SecondTls
  <2>1. SUFFICES ASSUME SecondTls PROVE FALSE
    OBVIOUS
  <2>2. pc = "headers" /\ header <= Len(Headers) /\ Headers[header].type = "Tls" /\ tls_template # 0
    BY <2>1, Zenon DEF SecondTls, TakeHeader
  <2>3. header \in Nat /\ header >= 1 /\ tls_template \in HeadersOf(kernel, "Tls") /\ tls_template < header
    BY <2>2, Zenon DEF Progress, ControlInv, Loading
  <2>4. header \in HeadersOf(kernel, "Tls")
    <3>1. header \in 1..Len(Headers)
      BY <2>2, <2>3 DEF FileInv, KernelFile, Headers
    <3> QED
      BY <2>2, <3>1, Zenon DEF HeadersOf, Headers
  <2>5. tls_template = header
    BY <2>3, <2>4, Zenon DEF WellFormed
  <2> QED
    BY <2>3, <2>5
<1>3. ~MapFrameFails
  <2>1. SUFFICES ASSUME MapFrameFails PROVE FALSE
    OBVIOUS
  <2>2. /\ pc = "map" /\ StartFrame(Segment) + i <= EndFrame(Segment)
        /\ IsMapped(PageOf(Start(Segment)) + i)
    BY <2>1, Zenon DEF MapFrameFails
  <2>3. pc \in InSegment /\ Frontier(Segment) = PageOf(Start(Segment)) + i
    BY <2>2 DEF InSegment, Frontier
  <2>4. kernel \in KernelFile /\ header \in LoadHeaders /\ i \in Nat /\ Segment = Headers[header]
    BY <2>3, AtSegment, Zenon
  <2>5. /\ PageOf(Start(Segment)) \in Int /\ PageOf(End(Segment) - 1) \in Int
        /\ FirstBss(Segment) \in Int /\ FirstBss(Segment) <= PageOf(End(Segment) - 1) + 1
    BY <2>4, SegmentShape, Zenon
  <2>6. PageOf(Start(Segment)) + i < FirstBss(Segment)
    BY <2>2, <2>4, FramesMatchPages, Zenon
  <2>7. PageOf(Start(Segment)) + i \in SegmentPages(header)
    BY <2>4, <2>5, <2>6 DEF SegmentPages, PagesIn
  <2> QED
    BY <2>2, <2>3, <2>7, FrontierFree, Zenon
<1>4. ~MapBssFails
  <2>1. SUFFICES ASSUME MapBssFails PROVE FALSE
    OBVIOUS
  <2>2. /\ pc = "bss_pages" /\ FirstBss(Segment) + i <= PageOf(End(Segment) - 1)
        /\ IsMapped(FirstBss(Segment) + i)
    BY <2>1, Zenon DEF MapBssFails, BssPage, FirstBss
  <2>3. pc \in InSegment /\ Frontier(Segment) = FirstBss(Segment) + i
    BY <2>2 DEF InSegment, Frontier
  <2>4. kernel \in KernelFile /\ header \in LoadHeaders /\ i \in Nat /\ Segment = Headers[header]
    BY <2>3, AtSegment, Zenon
  <2>5. /\ PageOf(Start(Segment)) \in Int /\ PageOf(End(Segment) - 1) \in Int
        /\ FirstBss(Segment) \in Int /\ PageOf(Start(Segment)) <= FirstBss(Segment)
    BY <2>4, SegmentShape, Zenon
  <2>6. FirstBss(Segment) + i \in SegmentPages(header)
    BY <2>2, <2>4, <2>5 DEF SegmentPages, PagesIn
  <2> QED
    BY <2>2, <2>3, <2>6, FrontierFree, Zenon
<1>5. ~DynamicFails
  BY TableUsed, Zenon DEF DynamicFails
<1>6. pc = "relocate" /\ header < Len(Relocations) =>
        /\ EntryMapped /\ ReadsBack /\ Relocation.relative /\ IsInLoad(Relocation.target)
        /\ WordPage <= PageOf(Target + WordSize - 1) => IsMapped(WordPage)
  <2>1. SUFFICES ASSUME pc = "relocate", header < Len(Relocations)
                 PROVE  /\ EntryMapped /\ ReadsBack /\ Relocation.relative
                        /\ IsInLoad(Relocation.target)
                        /\ WordPage <= PageOf(Target + WordSize - 1) => IsMapped(WordPage)
    BY Zenon
  <2>2. EntryMapped /\ ReadsBack
    BY <2>1, EntryReadable
  <2>3. WordPage <= PageOf(Target + WordSize - 1) => IsMapped(WordPage)
    BY <2>1, WordMapped, Zenon
  <2>4. /\ kernel \in KernelFile /\ header + 1 \in DOMAIN kernel.relocations
        /\ Relocation = kernel.relocations[header + 1]
    BY <2>1, AtRelocation
  <2> DEFINE t == Relocation.target
  <2>5. Relocation.relative /\ t \in Nat
    BY <2>4, Word, Zenon
  <2>6. WordSize \in Nat /\ WordSize > 0
    BY LoaderAssumption
  <2>7. PICK h \in LoadHeaders : Bytes(t, WordSize) \subseteq Bytes(Headers[h].vaddr, Headers[h].mem_size)
    <3>1. DOMAIN kernel.relocations = 1..Len(kernel.relocations)
      BY <2>4 DEF KernelFile
    <3> QED
      BY <2>4, <3>1, Zenon DEF WellFormed, RelocationsFit, LoadHeaders, Headers
  <2> HIDE DEF t
  <2>8. t \in Bytes(t, WordSize)
    BY <2>5, <2>6 DEF Bytes
  <2>9. Headers[h].vaddr \in Nat /\ Headers[h].mem_size \in Nat /\ h \in 1..Len(Headers)
        /\ Headers[h].type = "Load"
    <3>1. h \in 1..Len(Headers) /\ Headers[h].type = "Load"
      BY <2>7, Zenon DEF LoadHeaders, HeadersOf, Headers
    <3> QED
      BY <2>4, <2>7, <3>1, SegmentType, Zenon
  <2>10. t \in Bytes(Headers[h].vaddr, Headers[h].mem_size)
    BY <2>7, <2>8, Zenon
  <2>11. Headers[h].vaddr <= t /\ t < Headers[h].vaddr + Headers[h].mem_size
    BY <2>5, <2>9, <2>10 DEF Bytes
  <2>12. IsInLoad(t)
    BY <2>9, <2>11, Zenon DEF IsInLoad, Loads
  <2> QED
    BY <2>2, <2>3, <2>5, <2>12, Zenon DEF t
<1>7. ~RelocationFails /\ ~TableOverwritten
  BY <1>6, Zenon DEF RelocationFails, TableOverwritten
<1>8. ~RelroUnmapped
  <2>1. pc = "relro" => \A h \in LoadHeaders : \A p \in SegmentPages(h) : IsMapped(p)
    BY AllMapped, Zenon DEF Later
  <2>2. \A p \in HeaderPages("GnuRelro") : \E g \in LoadHeaders : p \in SegmentPages(g)
    BY RelroInside, Zenon DEF FileInv
  <2> QED
    BY <2>1, <2>2, Zenon DEF RelroUnmapped
<1>9. ~FlagsUnmapped
  <2>1. pc = "flags" => \A h \in LoadHeaders : \A p \in SegmentPages(h) : IsMapped(p)
    BY AllMapped, Zenon DEF Later
  <2>2. \A p \in HeaderPages("Load") : \E g \in LoadHeaders : p \in SegmentPages(g)
    BY PagesOfType, Zenon DEF LoadHeaders
  <2> QED
    BY <2>1, <2>2, Zenon DEF FlagsUnmapped
<1> QED
  BY <1>1, <1>2, <1>3, <1>4, <1>5, <1>7, <1>8, <1>9

-----------------------------------------------------------------------------
\* The invariant of loading holds at the start.
LEMMA InitLoads ==
  ASSUME Init
  PROVE  LoadInv
<1>1. /\ pc = "new" /\ header = 1 /\ i = 0 /\ page_table = << >> /\ tls_template = 0
      /\ frames = [f \in 0..(FileFrames - 1) |-> FrameBytes(f)] /\ next_frame = FileFrames
      /\ kernel \in KernelFile
  BY LoaderAssumption DEF Init
<1>2. ControlInv /\ pc \in Loading \cup Later
  BY <1>1 DEF ControlInv, Loading, InSegment
<1>3. DOMAIN page_table = {}
  BY <1>1
<1>4. DOMAIN frames = 0..(next_frame - 1)
  BY <1>1, Zenon
<1>5. MemInv
  BY <1>3, <1>4, Zenon DEF MemInv
<1>6. \A h \in LoadHeaders : Has(h) = {}
  <2>1. \A h \in LoadHeaders : ~(h < header)
    BY <1>1 DEF LoadHeaders, HeadersOf
  <2>2. pc \notin Later /\ pc \notin InSegment
    BY <1>1 DEF Later, InSegment
  <2> QED
    BY <2>1, <2>2, Zenon DEF Has, Reached
<1>7. TableInv
  BY <1>3, <1>6, Zenon DEF TableInv
<1>8. FlagInv
  BY <1>1, <1>6, Zenon DEF FlagInv
<1>9. ContentInv
  BY <1>6, Zenon DEF ContentInv
<1> QED
  BY <1>2, <1>5, <1>7, <1>8, <1>9, Zenon DEF LoadInv, Progress

\* Every step keeps it.
LEMMA NextLoads ==
  ASSUME FileInv, LoadInv, [Next]_vars
  PROVE  LoadInv'
<1>1. CASE UNCHANGED vars
  <2>1. /\ kernel' = kernel /\ pc' = pc /\ header' = header /\ i' = i /\ page_table' = page_table
        /\ frames' = frames /\ next_frame' = next_frame /\ tls_template' = tls_template
    BY <1>1 DEF vars
  <2>2. WellFormed(kernel)' <=> WellFormed(kernel)
    BY <2>1, SameKernel, Zenon
  <2>3. Progress' <=> Progress
    <3>1. (ControlInv' <=> ControlInv) /\ (MemInv' <=> MemInv)
      BY <2>1 DEF ControlInv, MemInv, HeadersOf, LoadHeaders, Segment, Headers, PageOf, Start,
                  FirstBss, ZeroStart, FileFrames
    <3>2. \A h, p : Reached(h, p)' <=> Reached(h, p)
      BY <2>1 DEF Reached, Frontier, Headers, FirstBss, ZeroStart, Start, PageOf
    <3>3. \A h : Has(h)' = Has(h)
      BY <2>1, <3>2, SameHas, Zenon
    <3>4. /\ LoadHeaders' = LoadHeaders /\ Headers' = Headers
          /\ HeaderPages("GnuRelro")' = HeaderPages("GnuRelro")
      BY <2>1, SameKernel, Zenon
    <3>5. (TableInv' <=> TableInv) /\ (FlagInv' <=> FlagInv)
      BY <2>1, <3>3, <3>4, Zenon DEF TableInv, FlagInv
    <3>6. /\ \A h, a : Settled(h, a)' <=> Settled(h, a)
          /\ \A r, a : Written(r, a)' <=> Written(r, a)
          /\ \A a : ByteAt(a)' = ByteAt(a)
      BY <2>1 DEF Settled, ZeroStart, Start, Headers, Written, InWord, Bytes, PageOf, WordPage,
                  Target, Relocation, Relocations, GoodTags, Tags, ByteAt, OffsetOf
    <3>7. /\ \A seg : Start(seg)' = Start(seg)
          /\ \A h, a : FromFile(h, a)' = FromFile(h, a)
          /\ \A r, a : FromWord(r, a)' = FromWord(r, a)
      BY <2>1, SameKernel, Zenon
    <3>8. ContentInv' <=> ContentInv
      BY <2>1, <3>3, <3>4, <3>6, <3>7, Zenon DEF ContentInv, PageOf, Bytes
    <3> QED
      BY <2>1, <3>1, <3>5, <3>8, Zenon DEF Progress, Loading, Later, InSegment
  <2> QED
    BY <2>1, <2>2, <2>3, Zenon DEF LoadInv
<1>2. CASE Next
  <2>1. kernel' = kernel
    BY <1>2, Zenon DEF Next, Stop, Goto, New, NewFails, BeginLoad, HandleTls, SecondTls, SkipHeader,
       HeadersDone, MapFrame, MapFrameFails, SegmentMapped, ZeroRest, NothingToZero, MapBssPage,
       MapBssFails, BssDone, DynamicFails, BeginRelocation, RelocatePage, RelocationFails,
       RelocationDone, AllRelocated, TableOverwritten, ProtectRelro, RelroUnmapped,
       RemoveCopiedFlags, FlagsUnmapped, OutOfFrames
  <2>2. SUFFICES ASSUME WellFormed(kernel)
                 PROVE  pc' = "no_frames" \/ Progress'
    BY <2>1, SameKernel, Zenon DEF LoadInv
  <2>3. pc # "no_frames"
    BY <1>2, Zenon DEF Next, Stop, Goto, New, NewFails, BeginLoad, HandleTls, SecondTls, SkipHeader,
       HeadersDone, MapFrame, MapFrameFails, SegmentMapped, ZeroRest, NothingToZero, MapBssPage,
       MapBssFails, BssDone, DynamicFails, BeginRelocation, RelocatePage, RelocationFails,
       RelocationDone, AllRelocated, TableOverwritten, ProtectRelro, RelroUnmapped,
       RemoveCopiedFlags, FlagsUnmapped, OutOfFrames, TakeHeader
  <2>4. Progress
    BY <2>2, <2>3, Zenon DEF LoadInv
  <2>5. CASE New \/ BeginLoad \/ HeadersDone \/ SegmentMapped \/ NothingToZero \/ BssDone
    BY <2>2, <2>4, <2>5, NewStep, BeginLoadStep, HeadersDoneStep, SegmentMappedStep,
       NothingToZeroStep, BssDoneStep, Zenon
  <2>6. CASE HandleTls
    <3>1. Headers[header].type # "Load" /\ Headers[header].type = "Tls"
      BY <2>6 DEF HandleTls, TakeHeader
    <3>2. /\ pc = "headers" /\ header <= Len(Headers) /\ header' = header + 1
          /\ UNCHANGED <<kernel, pc, i, page_table, frames, next_frame>>
          /\ tls_template' = header
      BY <2>6 DEF HandleTls, TakeHeader
    <3> QED
      BY <2>2, <2>4, <3>1, <3>2, PassStep, Zenon
  <2>7. CASE SkipHeader
    <3>1. /\ Headers[header].type # "Load"
          /\ pc = "headers" /\ header <= Len(Headers) /\ header' = header + 1
          /\ UNCHANGED <<kernel, pc, i, page_table, frames, next_frame>>
          /\ tls_template' = tls_template
      BY <2>7 DEF SkipHeader
    <3> QED
      BY <2>2, <2>4, <3>1, PassStep, Zenon
  <2>8. CASE MapFrame \/ MapBssPage \/ ZeroRest
    BY <2>2, <2>4, <2>8, MapFrameStep, MapBssStep, ZeroRestStep, Zenon
  <2>9. CASE BeginRelocation \/ RelocatePage \/ RelocationDone \/ AllRelocated
    BY <2>2, <2>4, <2>9, BeginRelocationStep, RelocatePageStep, RelocationDoneStep,
       AllRelocatedStep, Zenon
  <2>10. CASE ProtectRelro \/ RemoveCopiedFlags
    BY <2>2, <2>4, <2>10, ProtectRelroStep, RemoveCopiedStep, Zenon
  <2>11. CASE OutOfFrames
    BY <2>11, Zenon DEF OutOfFrames, Stop
  <2> QED
    BY <1>2, <2>2, <2>4, <2>5, <2>6, <2>7, <2>8, <2>9, <2>10, <2>11, NoFailure, Zenon DEF Next
<1> QED
  BY <1>1, <1>2

\* The invariant holds throughout.
LEMMA AlwaysLoads == Spec => [](FileInv /\ LoadInv)
<1>1. Init => FileInv /\ LoadInv
  BY InitFile, InitLoads
<1>2. FileInv /\ LoadInv /\ [Next]_vars => FileInv' /\ LoadInv'
  BY NextKeepsFile, NextLoads
<1> QED
  BY <1>1, <1>2, PTL DEF Spec

\* Loading a well formed kernel fails only for want of memory, whatever its
\* segments, relocations and RELRO: no page is mapped twice, no relocation is
\* out of place and the relocation table is never overwritten.
THEOREM WellFormedLoads == Spec => []LoadsWellFormed
<1>1. LoadInv => LoadsWellFormed
  <2>1. "error" \notin Loading \cup Later /\ "garbage" \notin Loading \cup Later
    BY DEF Loading, Later, InSegment
  <2> QED
    BY <2>1, Zenon DEF LoadInv, Progress, LoadsWellFormed
<1> QED
  BY <1>1, AlwaysLoads, PTL

\* The pages of a loaded kernel have the permissions of their segment, without
\* write access under RELRO, and the loader's own flag is gone.
THEOREM FlagsAreCorrect == Spec => []FlagsCorrect
<1>1. ASSUME LoadInv, pc = "done", WellFormed(kernel), NEW seg \in Loads,
             NEW p \in PagesIn(Start(seg), End(seg))
      PROVE  /\ page_table[p].writable = (seg.write /\ p \notin HeaderPages("GnuRelro"))
             /\ page_table[p].executable = seg.execute
             /\ ~page_table[p].copied
  <2>1. Progress /\ pc \in Later
    BY <1>1, Zenon DEF LoadInv, Later
  <2>2. PICK h \in LoadHeaders : seg = Headers[h]
    BY Zenon DEF Loads, LoadHeaders, HeadersOf, Headers
  <2>3. p \in Has(h) /\ p \in DOMAIN page_table
    BY <2>1, <2>2, AllMapped, Zenon DEF SegmentPages, IsMapped
  <2> QED
    BY <1>1, <2>1, <2>2, <2>3, Zenon DEF Progress, FlagInv
<1>2. LoadInv => FlagsCorrect
  BY <1>1, Zenon DEF FlagsCorrect
<1> QED
  BY <1>2, AlwaysLoads, PTL

\* The bytes of a loaded segment.
LEMMA LoadedByte ==
  ASSUME FileInv, LoadInv, pc = "done", WellFormed(kernel), NEW h \in LoadHeaders,
         NEW a \in Bytes(Start(Headers[h]), Headers[h].mem_size)
  PROVE  /\ \A r \in DOMAIN kernel.relocations : InWord(r, a) => ByteAt(a) = FromWord(r, a)
         /\ (\A r \in DOMAIN kernel.relocations : ~InWord(r, a)) => ByteAt(a) = FromFile(h, a)
<1>1. Progress /\ pc \in Later
  BY Zenon DEF LoadInv, Later
<1>2. PageOf(a) \in Has(h)
  <2>1. PageOf(a) \in SegmentPages(h)
    BY ByteInSegment, Zenon DEF FileInv
  <2> QED
    BY <1>1, <2>1, AllMapped, Zenon
<1>3. Settled(h, a) /\ \A r : Written(r, a) <=> InWord(r, a)
  BY Zenon DEF Settled, Written
<1> QED
  BY <1>1, <1>2, <1>3, Zenon DEF Progress, ContentInv

\* A loaded kernel sees its image: data from the file, zeroes for .bss and the
\* relocated words, also where these share pages or frames.
THEOREM ImageIsCorrect == Spec => []ImageCorrect
<1>1. ASSUME FileInv, LoadInv, pc = "done", WellFormed(kernel), NEW seg \in Loads,
             NEW addr \in Bytes(Start(seg), seg.mem_size)
      PROVE  ByteAt(addr) = ImageByte(seg, addr)
  <2>1. PICK h \in LoadHeaders : seg = Headers[h]
    BY Zenon DEF Loads, LoadHeaders, HeadersOf, Headers
  <2>2. /\ \A r \in DOMAIN kernel.relocations : InWord(r, addr) => ByteAt(addr) = FromWord(r, addr)
        /\ (\A r \in DOMAIN kernel.relocations : ~InWord(r, addr)) => ByteAt(addr) = FromFile(h, addr)
    BY <1>1, <2>1, LoadedByte, Zenon
  <2>3. Relocations = kernel.relocations /\ DOMAIN kernel.relocations = 1..Len(kernel.relocations)
    <3>1. Relocations = kernel.relocations
      BY <1>1, TableUsed, Zenon
    <3>2. kernel \in KernelFile
      BY <1>1, Zenon DEF FileInv
    <3>3. DOMAIN kernel.relocations = 1..Len(kernel.relocations)
      BY <3>2 DEF KernelFile
    <3> QED
      BY <3>1, <3>3
  <2> DEFINE D == 1..Len(Relocations)
             q == CHOOSE r \in D : InWord(r, addr)
  <2>4. ImageByte(seg, addr) =
          IF \E r \in D : InWord(r, addr) THEN FromWord(q, addr) ELSE FromFile(h, addr)
    BY <2>1, <2>3, Zenon DEF ImageByte, InWord, FromWord, FromFile
  <2>5. D = DOMAIN kernel.relocations
    BY <2>3, Zenon
  <2> HIDE DEF D
  <2>6. (\E r \in D : InWord(r, addr)) => q \in D /\ InWord(q, addr)
    BY Zenon
  <2> HIDE DEF q
  <2>7. CASE \E r \in D : InWord(r, addr)
    <3>1. ByteAt(addr) = FromWord(q, addr)
      BY <2>2, <2>5, <2>6, <2>7, Zenon
    <3> QED
      BY <2>4, <2>7, <3>1, Zenon
  <2>8. CASE ~\E r \in D : InWord(r, addr)
    <3>1. ByteAt(addr) = FromFile(h, addr)
      BY <2>2, <2>5, <2>8, Zenon
    <3> QED
      BY <2>4, <2>8, <3>1, Zenon
  <2> QED
    BY <2>7, <2>8, Zenon
<1>2. FileInv /\ LoadInv => ImageCorrect
  BY <1>1, Zenon DEF ImageCorrect
<1> QED
  BY <1>2, AlwaysLoads, PTL

\* A byte of a loaded segment that lies in a frame of the file is data of the
\* segment, at its place in the file.
LEMMA SharedByte ==
  ASSUME FileInv, LoadInv, pc = "done", WellFormed(kernel), NEW h \in LoadHeaders,
         NEW a \in Bytes(Start(Headers[h]), Headers[h].mem_size),
         page_table[PageOf(a)].frame \in 0..(FileFrames - 1)
  PROVE  /\ ByteAt(a) = FileByte(Headers[h].offset + (a - Start(Headers[h])))
         /\ Headers[h].offset + (a - Start(Headers[h]))
              \in Bytes(Headers[h].offset, Headers[h].file_size)
<1> DEFINE f == page_table[PageOf(a)].frame
<1>1. kernel \in KernelFile /\ a \in Int /\ Start(Headers[h]) <= a
  BY ByteInSegment, Zenon DEF FileInv
<1>2. OffsetOf(a) \in Offsets
  BY <1>1, AddressParts, Zenon
<1>3. frames[f] = FrameBytes(f)
  BY Zenon DEF FileInv, FileIntact
<1>4. ByteAt(a) = FrameBytes(f)[OffsetOf(a)]
  BY <1>3, Zenon DEF ByteAt
<1>5. ByteAt(a) = FileByte(f * PageSize + OffsetOf(a)) \/ ByteAt(a) = Junk
  BY <1>2, <1>4, Zenon DEF FrameBytes
<1>6. /\ \A x, v, o : FileByte(x) # WordByte(v, o) /\ Junk # WordByte(v, o)
      /\ \A x : FileByte(x) # Zero /\ Junk # FileByte(x)
      /\ Junk # Zero
  BY DEF FileByte, WordByte, Zero, Junk
<1>7. \A r \in DOMAIN kernel.relocations : ~InWord(r, a)
  BY <1>5, <1>6, LoadedByte, Zenon DEF FromWord
<1>8. ByteAt(a) = FromFile(h, a)
  BY <1>7, LoadedByte, Zenon
<1>9. a < ZeroStart(Headers[h])
  BY <1>5, <1>6, <1>8, Zenon DEF FromFile
<1>10. /\ Headers[h].offset \in Nat /\ Headers[h].file_size \in Nat /\ Start(Headers[h]) \in Int
       /\ ZeroStart(Headers[h]) = Start(Headers[h]) + Headers[h].file_size
  BY <1>1, SegmentType, Zenon DEF ZeroStart
<1>11. Headers[h].offset + (a - Start(Headers[h])) \in Bytes(Headers[h].offset, Headers[h].file_size)
  BY <1>1, <1>9, <1>10 DEF Bytes
<1> QED
  BY <1>8, <1>9, <1>11, Zenon DEF FromFile

\* A write of the kernel to its memory changes nothing else of its image: no two
\* bytes of segments are the same byte of physical memory.
THEOREM WritesArePrivate == Spec => []WritesStayPrivate
<1>1. ASSUME FileInv, LoadInv, pc = "done", WellFormed(kernel), NEW s \in Loads, NEW t \in Loads,
             NEW a \in Bytes(Start(s), s.mem_size), NEW b \in Bytes(Start(t), t.mem_size),
             page_table[PageOf(a)].frame = page_table[PageOf(b)].frame,
             OffsetOf(a) = OffsetOf(b)
      PROVE  a = b
  <2>1. kernel \in KernelFile /\ Progress /\ pc \in Later
    BY <1>1, Zenon DEF FileInv, LoadInv, Later
  <2>2. PICK g \in LoadHeaders : s = Headers[g]
    BY Zenon DEF Loads, LoadHeaders, HeadersOf, Headers
  <2>3. PICK h \in LoadHeaders : t = Headers[h]
    BY Zenon DEF Loads, LoadHeaders, HeadersOf, Headers
  <2>4. a \in Int /\ PageOf(a) \in SegmentPages(g) /\ b \in Int /\ PageOf(b) \in SegmentPages(h)
    BY <1>1, <2>1, <2>2, <2>3, ByteInSegment, Zenon
  <2>5. CASE PageOf(a) = PageOf(b)
    <3>1. a = PageOf(a) * PageSize + OffsetOf(a) /\ b = PageOf(b) * PageSize + OffsetOf(b)
      BY <2>4, AddressParts, Zenon
    <3> QED
      BY <1>1, <2>5, <3>1, Zenon
  <2>6. CASE PageOf(a) # PageOf(b)
    <3>1. PageOf(a) \in DOMAIN page_table /\ PageOf(b) \in DOMAIN page_table
      BY <2>1, <2>2, <2>3, <2>4, AllMapped, Zenon DEF IsMapped
    <3>2. /\ page_table[PageOf(a)].frame \in 0..(FileFrames - 1)
          /\ page_table[PageOf(b)].frame \in 0..(FileFrames - 1)
      BY <1>1, <2>1, <2>6, <3>1, Zenon DEF Progress, MemInv
    <3> DEFINE x == s.offset + (a - Start(s))
               y == t.offset + (b - Start(t))
    <3>3. ByteAt(a) = FileByte(x) /\ x \in Bytes(s.offset, s.file_size)
      BY <1>1, <2>2, <3>2, SharedByte, Zenon
    <3>4. ByteAt(b) = FileByte(y) /\ y \in Bytes(t.offset, t.file_size)
      BY <1>1, <2>3, <3>2, SharedByte, Zenon
    <3>5. ByteAt(a) = ByteAt(b)
      BY <1>1, Zenon DEF ByteAt
    <3> HIDE DEF x, y
    <3>6. FileByte(x) = FileByte(y)
      BY <3>3, <3>4, <3>5, Zenon
    <3>7. x = y
      BY <3>6 DEF FileByte
    <3>8. g = h
      <4>1. g # h => Apart(kernel, g, h)
        BY <1>1, <2>2, <2>3, Zenon DEF WellFormed, LoadHeaders
      <4>2. g # h => Bytes(s.offset, s.file_size) \cap Bytes(t.offset, t.file_size) = {}
        BY <2>2, <2>3, <4>1, Zenon DEF Apart, Headers
      <4> QED
        BY <3>3, <3>4, <3>7, <4>2, Zenon
    <3>9. s.offset \in Nat /\ Start(s) \in Int /\ s = t
      BY <2>1, <2>2, <2>3, <3>8, SegmentType, Zenon
    <3> QED
      BY <2>4, <3>7, <3>9 DEF x, y
  <2> QED
    BY <2>5, <2>6
<1>2. FileInv /\ LoadInv => WritesStayPrivate
  BY <1>1, Zenon DEF WritesStayPrivate
<1> QED
  BY <1>2, AlwaysLoads, PTL

=============================================================================
