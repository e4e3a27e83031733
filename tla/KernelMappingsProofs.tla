------------------------ MODULE KernelMappingsProofs ------------------------
(***************************************************************************)
(* What marking level 4 entries as used is good for: proofs about          *)
(* KernelMappings for every configuration, every size of what is mapped    *)
(* and every choice of get_free_address.                                   *)
(***************************************************************************)
EXTENDS KernelMappings, WellFoundedInduction, TLAPS

-----------------------------------------------------------------------------
\* Pages and level 4 entries.

\* A quotient is at least c exactly if the dividend is at least c divisors.
LEMMA DivAtLeast ==
  ASSUME NEW a \in Nat, NEW b \in Nat, b > 0, NEW c \in Nat
  PROVE  a \div b \in Nat /\ (c <= a \div b <=> c * b <= a)
<1> DEFINE q == a \div b
<1>1. q \in Nat /\ q * b <= a /\ a < (q + 1) * b
  BY DEF q
<1> HIDE DEF q
<1>2. c <= q => c * b <= q * b
  BY <1>1
<1>3. ~(c <= q) => (q + 1) * b <= c * b
  BY <1>1
<1>4. /\ c * b \in Nat /\ q * b \in Nat /\ (q + 1) * b \in Nat
  BY <1>1
<1> QED
  BY <1>1, <1>2, <1>3, <1>4 DEF q

\* The level 4 entry of an address is that of its page.
LEMMA EntryOfAddress ==
  ASSUME NEW a \in Nat
  PROVE  /\ PageOf(a) \in Nat /\ P4Index(a) \in Nat
         /\ EntryOfPage(PageOf(a)) = P4Index(a)
<1>1. PageSize \in Nat /\ PageSize > 0 /\ PagesPerEntry \in Nat /\ PagesPerEntry > 0
  BY SizesAssumption
<1>2. EntrySize \in Nat /\ EntrySize > 0
  BY <1>1 DEF EntrySize
<1> DEFINE p == PageOf(a)
           e == EntryOfPage(PageOf(a))
           f == P4Index(a)
<1>3. p \in Nat /\ e \in Nat /\ f \in Nat
  BY <1>1, <1>2, DivAtLeast DEF PageOf, EntryOfPage, P4Index
<1>4. ASSUME NEW c \in Nat PROVE c <= e <=> c <= f
  <2>1. c <= e <=> c * PagesPerEntry <= p
    BY <1>1, <1>3, DivAtLeast DEF EntryOfPage
  <2>2. c * PagesPerEntry \in Nat
    BY <1>1
  <2>3. c * PagesPerEntry <= p <=> (c * PagesPerEntry) * PageSize <= a
    BY <1>1, <2>2, DivAtLeast DEF PageOf
  <2>4. c <= f <=> c * EntrySize <= a
    BY <1>2, DivAtLeast DEF P4Index
  <2>5. (c * PagesPerEntry) * PageSize = c * EntrySize
    BY <1>1 DEF EntrySize
  <2> QED
    BY <2>1, <2>3, <2>4, <2>5
<1> HIDE DEF p, e, f
<1>5. e = f
  BY <1>3, <1>4
<1> QED
  BY <1>3, <1>5 DEF p, e, f

\* Dividing keeps the order.
LEMMA DivOrder ==
  ASSUME NEW a \in Nat, NEW b \in Nat, a <= b, NEW n \in Nat, n > 0
  PROVE  a \div n <= b \div n
<1>1. a \div n \in Nat /\ (a \div n <= a \div n => (a \div n) * n <= a)
  BY DivAtLeast
<1>2. (a \div n) * n <= b /\ (a \div n) * n \in Nat
  BY <1>1
<1> QED
  BY <1>1, <1>2, DivAtLeast

\* The pages of a range lie in the level 4 entries from that of its first byte
\* to that of its last: what mark_range_as_used marks.
LEMMA PagesWithinMarked ==
  ASSUME NEW start \in Nat, NEW end \in Nat, start < end, NEW p \in PagesOf(start, end)
  PROVE  p \in Nat /\ EntryOfPage(p) \in P4Index(start)..P4Index(end - 1)
<1>1. PagesPerEntry \in Nat /\ PagesPerEntry > 0
  BY SizesAssumption
<1>2. end - 1 \in Nat
  OBVIOUS
<1>3. /\ PageOf(start) \in Nat /\ PageOf(end - 1) \in Nat
      /\ EntryOfPage(PageOf(start)) = P4Index(start)
      /\ EntryOfPage(PageOf(end - 1)) = P4Index(end - 1)
      /\ P4Index(start) \in Nat /\ P4Index(end - 1) \in Nat
  BY <1>2, EntryOfAddress
<1>4. p \in Nat /\ PageOf(start) <= p /\ p <= PageOf(end - 1)
  BY <1>3 DEF PagesOf
<1>5. /\ EntryOfPage(PageOf(start)) <= EntryOfPage(p)
      /\ EntryOfPage(p) <= EntryOfPage(PageOf(end - 1))
      /\ EntryOfPage(p) \in Nat
  BY <1>1, <1>3, <1>4, DivOrder, DivAtLeast DEF EntryOfPage
<1> QED
  BY <1>3, <1>4, <1>5

\* A range within n entries from the i-th on has its pages in these entries.
LEMMA PagesWithinWindow ==
  ASSUME NEW i \in Nat, NEW n \in Nat, NEW start \in Nat, NEW end \in Nat, start < end,
         i * EntrySize <= start, end <= (i + n) * EntrySize,
         NEW p \in PagesOf(start, end)
  PROVE  p \in Nat /\ EntryOfPage(p) \in Window(i, n)
<1>1. EntrySize \in Nat /\ EntrySize > 0
  BY SizesAssumption DEF EntrySize
<1>2. p \in Nat /\ EntryOfPage(p) \in P4Index(start)..P4Index(end - 1)
  BY PagesWithinMarked
<1>3. P4Index(start) \in Nat /\ i <= P4Index(start)
  BY <1>1, DivAtLeast DEF P4Index
<1>4. P4Index(end - 1) \in Nat /\ ~(i + n <= P4Index(end - 1))
  <2>1. end - 1 \in Nat /\ i + n \in Nat
    OBVIOUS
  <2>2. (i + n) * EntrySize \in Nat
    BY <1>1, <2>1
  <2>3. ~((i + n) * EntrySize <= end - 1)
    BY <2>2
  <2> QED
    BY <1>1, <2>1, <2>3, DivAtLeast DEF P4Index
<1> QED
  BY <1>2, <1>3, <1>4 DEF Window

-----------------------------------------------------------------------------
\* The extremes of sets of numbers.

\* A set of natural numbers that is not empty has a least one.
LEMMA LeastExists ==
  ASSUME NEW T, T \subseteq Nat, T # {}
  PROVE  \E x \in T : \A y \in T : x <= y
<1> DEFINE R == OpToRel(<, Nat)
<1>1. IsWellFoundedOn(R, Nat)
  BY NatLessThanWellFounded, Zenon
<1>2. ASSUME NEW x \in Nat, NEW y \in Nat, y < x PROVE <<y, x>> \in R
  BY <1>2 DEF OpToRel
<1> HIDE DEF R
<1>3. PICK x \in T : \A y \in T : ~(<<y, x>> \in R)
  BY <1>1, WFMin, Zenon
<1>4. \A y \in T : ~(y < x)
  BY <1>2, <1>3, Zenon
<1> QED
  BY <1>4

\* One that is bounded has a greatest one.
LEMMA GreatestExists ==
  ASSUME NEW B \in Nat, NEW T, T \subseteq 0..B, T # {}
  PROVE  \E x \in T : \A y \in T : y <= x
<1> DEFINE U == {B - t : t \in T}
<1>1. U \subseteq Nat /\ U # {}
  <2>1. \A t \in T : B - t \in Nat
    OBVIOUS
  <2>2. PICK t \in T : TRUE
    BY Zenon
  <2>3. B - t \in U
    OBVIOUS
  <2> QED
    BY <2>1, <2>3
<1>2. PICK u \in U : \A v \in U : u <= v
  BY <1>1, LeastExists, Zenon
<1>3. PICK x \in T : u = B - x
  OBVIOUS
<1>4. ASSUME NEW y \in T PROVE y <= x
  <2>1. u <= B - y
    BY <1>2
  <2> QED
    BY <1>3, <2>1
<1> QED
  BY <1>4, Zenon

-----------------------------------------------------------------------------
\* What get_free_address finds.

\* The number of entries it looks for holds the size, also if the range starts
\* within the first of them.
LEMMA EntriesHoldSize ==
  ASSUME NEW size \in Nat, size > 0, NEW alignment \in Nat, alignment > 0,
         NEW extent \in Nat, extent <= EntriesFor(size) * EntrySize,
         extent <= size + alignment, NEW o,
         \/ o = 0
         \/ /\ size % EntrySize # 0
            /\ \E k \in 0..(OffsetCount(size, alignment) - 1) : o = k * alignment
  PROVE  EntriesFor(size) \in Nat /\ o \in Nat /\ o + extent <= EntriesFor(size) * EntrySize
<1> DEFINE S == EntrySize
           q == size \div S
           m == size % S
           n == EntriesFor(size)
<1>1. S \in Nat /\ S > 0
  BY SizesAssumption DEF EntrySize
<1>2. size + (S - 1) \in Nat
  BY <1>1
<1>3. n \in Nat
  BY <1>1, <1>2, DivAtLeast DEF EntriesFor
<1>4. CASE o = 0
  BY <1>1, <1>3, <1>4
<1>5. CASE /\ size % EntrySize # 0
           /\ \E k \in 0..(OffsetCount(size, alignment) - 1) : o = k * alignment
  <2>1. q \in Nat /\ m \in Nat /\ m > 0 /\ m < S /\ size = q * S + m
    BY <1>1, <1>5
  <2>2. PICK k \in 0..(OffsetCount(size, alignment) - 1) : o = k * alignment
    BY <1>5
  <2> DEFINE c == OffsetCount(size, alignment)
  <2>3. c = (S - m) \div alignment /\ S - m \in Nat
    BY <1>1, <2>1 DEF OffsetCount
  <2>4. extent <= size + alignment /\ extent <= n * S
    OBVIOUS
  <2> HIDE DEF c, n, q, m, S
  <2>5. c \in Nat /\ c * alignment <= S - m
    BY <2>3, DivAtLeast
  <2>6. k \in Nat /\ k + 1 <= c
    BY <2>2, <2>5 DEF c
  <2>7. (k + 1) * alignment <= c * alignment /\ (k + 1) * alignment = k * alignment + alignment
        /\ k * alignment \in Nat
    BY <2>5, <2>6
  <2>8. o \in Nat /\ o + alignment <= S - m
    BY <1>1, <2>1, <2>2, <2>5, <2>7
  <2>9. (q + 1) * S = q * S + S /\ q * S \in Nat
    BY <1>1, <2>1
  <2>10. q + 1 <= n
    <3>1. (q + 1) * S <= size + (S - 1)
      BY <1>1, <2>1, <2>9
    <3>2. q + 1 <= (size + (S - 1)) \div S
      BY <1>1, <1>2, <2>1, <3>1, DivAtLeast
    <3> QED
      BY <3>2 DEF n, EntriesFor, S
  <2>11. (q + 1) * S <= n * S /\ n * S \in Nat
    BY <1>1, <1>3, <2>1, <2>10
  <2>12. o + extent <= (q + 1) * S
    BY <1>1, <2>1, <2>4, <2>8, <2>9
  <2>13. o + extent <= n * S
    BY <2>1, <2>8, <2>9, <1>1, <2>11, <2>12
  <2> QED
    BY <1>3, <2>8, <2>13 DEF n, S
<1> QED
  BY <1>4, <1>5

\* It returns a range within entries that were all unused and are now marked.
LEMMA FreeRangeFits ==
  ASSUME WellFormed(boot), NEW size \in Nat, size > 0, NEW alignment \in Nat, alignment > 0,
         boot.aslr => size % EntrySize # 0,
         NEW extent \in Nat, extent <= EntriesFor(size) * EntrySize,
         extent <= size + alignment,
         NEW r \in FreeRanges(entry_state, size, alignment, boot.aslr)
  PROVE  /\ r.addr \in Nat
         /\ \E i \in Nat :
              /\ EntriesFor(size) \in Nat
              /\ Window(i, EntriesFor(size)) \subseteq Indices \ entry_state
              /\ r.used = entry_state \cup Window(i, EntriesFor(size))
              /\ i * EntrySize <= r.addr
              /\ r.addr + extent <= (i + EntriesFor(size)) * EntrySize
<1> DEFINE n == EntriesFor(size)
<1>1. PICK i \in FreeEntries(entry_state, n, boot.aslr),
           o \in FreeOffsets(size, alignment, boot.aslr) :
        r = [addr |-> i * EntrySize + o, used |-> entry_state \cup Window(i, n)]
  BY DEF FreeRanges
<1>2. r.addr = i * EntrySize + o /\ r.used = entry_state \cup Window(i, n)
  BY <1>1
<1>3. i \in Nat /\ Window(i, n) \subseteq Indices \ entry_state
  BY SizesAssumption DEF FreeEntries, FreeWindows, Indices
<1>4. n \in Nat /\ o \in Nat /\ o + extent <= n * EntrySize
  <2>1. \/ o = 0
        \/ /\ size % EntrySize # 0
           /\ \E k \in 0..(OffsetCount(size, alignment) - 1) : o = k * alignment
    BY DEF FreeOffsets
  <2> QED
    BY <2>1, EntriesHoldSize, Zenon
<1>5. EntrySize \in Nat
  BY SizesAssumption DEF EntrySize
<1> HIDE DEF n
<1>6. /\ i * EntrySize \in Nat /\ n * EntrySize \in Nat
      /\ (i + n) * EntrySize = i * EntrySize + n * EntrySize
  BY <1>3, <1>4, <1>5
<1>7. /\ r.addr \in Nat /\ i * EntrySize <= r.addr
      /\ r.addr + extent <= (i + n) * EntrySize
  BY <1>2, <1>4, <1>6
<1> QED
  BY <1>2, <1>3, <1>4, <1>7 DEF n

-----------------------------------------------------------------------------
\* Sizes and extents.

\* The entries for a size are enough for it.
LEMMA EntriesCover ==
  ASSUME NEW size \in Nat
  PROVE  EntriesFor(size) \in Nat /\ size <= EntriesFor(size) * EntrySize
<1> DEFINE S == EntrySize
           n == EntriesFor(size)
<1>1. S \in Nat /\ S > 0
  BY SizesAssumption DEF EntrySize
<1>2. size + (S - 1) \in Nat
  BY <1>1
<1>3. n \in Nat /\ \A c \in Nat : c <= n <=> c * S <= size + (S - 1)
  BY <1>1, <1>2, DivAtLeast DEF EntriesFor
<1> HIDE DEF n, S
<1>4. ~((n + 1) * S <= size + (S - 1))
  <2>1. n + 1 \in Nat /\ ~(n + 1 <= n)
    BY <1>3
  <2> QED
    BY <1>3, <2>1
<1>5. (n + 1) * S = n * S + S /\ n * S \in Nat
  BY <1>1, <1>3
<1>6. size <= n * S
  BY <1>1, <1>4, <1>5
<1> QED
  BY <1>3, <1>6 DEF n, S

\* Rounding up to large pages adds less than one, and stays within the entries.
LEMMA RoundUpFits ==
  ASSUME NEW size \in Nat, size > 0
  PROVE  /\ LargeSize \in Nat /\ LargeSize > 0
         /\ RoundUp(size, LargeSize) \in Nat
         /\ size <= RoundUp(size, LargeSize)
         /\ RoundUp(size, LargeSize) <= size + LargeSize
         /\ RoundUp(size, LargeSize) <= EntriesFor(size) * EntrySize
<1> DEFINE L == LargeSize
           c == (size + L - 1) \div L
           n == EntriesFor(size)
           d == PagesPerEntry \div LargePage
           K == n * d
<1>1. /\ LargePage \in Nat /\ LargePage > 0 /\ PageSize \in Nat /\ PageSize > 0
      /\ PagesPerEntry \in Nat /\ PagesPerEntry % LargePage = 0
  BY SizesAssumption, MappingsAssumption
<1>2. L \in Nat /\ L > 0
  BY <1>1 DEF LargeSize
<1>3. d \in Nat /\ PagesPerEntry = d * LargePage
  BY <1>1
<1>4. EntrySize = d * L
  BY <1>1, <1>3 DEF EntrySize, LargeSize
<1>5. n \in Nat /\ size <= n * EntrySize
  BY EntriesCover
<1>6. size + L - 1 \in Nat
  BY <1>2
<1>7. c \in Nat /\ \A x \in Nat : x <= c <=> x * L <= size + L - 1
  BY <1>2, <1>6, DivAtLeast
<1>8. RoundUp(size, LargeSize) = c * L
  BY DEF RoundUp
<1> HIDE DEF L, c, n, d
<1>9. K \in Nat /\ n * EntrySize = K * L
  BY <1>2, <1>3, <1>4, <1>5
<1> HIDE DEF K
<1>10. c * L <= size + L - 1 /\ c * L \in Nat /\ K * L \in Nat
  BY <1>2, <1>7, <1>9
<1>11. size <= c * L
  <2>1. c + 1 \in Nat /\ ~(c + 1 <= c)
    BY <1>7
  <2>2. ~((c + 1) * L <= size + L - 1)
    BY <1>7, <2>1
  <2>3. (c + 1) * L = c * L + L
    BY <1>2, <1>7
  <2> QED
    BY <1>2, <1>10, <2>2, <2>3
<1>12. c * L <= K * L
  <2>1. CASE c <= K
    BY <1>2, <1>7, <1>9, <2>1
  <2>2. CASE K + 1 <= c
    <3>1. (K + 1) * L <= size + L - 1
      BY <1>7, <1>9, <2>2
    <3>2. (K + 1) * L = K * L + L
      BY <1>2, <1>9
    <3>3. size <= K * L
      BY <1>5, <1>9
    <3> QED
      BY <1>2, <1>10, <3>1, <3>2, <3>3
  <2> QED
    BY <1>7, <1>9, <2>1, <2>2
<1> QED
  BY <1>2, <1>8, <1>9, <1>10, <1>11, <1>12 DEF L, n

\* The fields of a boot.
LEMMA BootFields ==
  ASSUME NEW b, WellFormed(b), NEW o \in Objects
  PROVE  /\ b.aslr \in BOOLEAN /\ b.pie \in BOOLEAN
         /\ b.size[o] \in Nat /\ b.size[o] > 0
         /\ b.mapping[o] \in Mappings
         /\ b.fb_addr \in Nat
         /\ b.recursive \in Mappings
         /\ b.range_start \in Mappings \ {Dynamic} /\ b.range_end \in Mappings \ {Dynamic}
         /\ b.segments \in Seq([start : Nat, end : Nat])
         /\ b.own \in 0..PagesPerEntry
  BY SMTT(30) DEF WellFormed, Boot

\* How far an object extends, compared with what get_free_address is asked for.
LEMMA ExtentFits ==
  ASSUME NEW b, WellFormed(b), NEW o \in Objects
  PROVE  /\ Requested(b, o) \in Nat /\ Requested(b, o) > 0
         /\ Alignment(o) \in Nat /\ Alignment(o) > 0
         /\ Extent(b, o) \in Nat /\ Extent(b, o) > 0
         /\ o = "stack" => Extent(b, o) > PageSize
         /\ Extent(b, o) <= EntriesFor(Requested(b, o)) * EntrySize
         /\ Extent(b, o) <= Requested(b, o) + Alignment(o)
<1>1. /\ PageSize \in Nat /\ PageSize > 0 /\ InfoAlign \in Nat /\ InfoAlign > 0
      /\ b.size[o] \in Nat /\ b.size[o] > 0 /\ b.fb_addr \in Nat
  BY SizesAssumption, MappingsAssumption, BootFields, SMTT(30)
<1>2. CASE o = "stack"
  <2>1. /\ Requested(b, o) = PageSize + b.size[o] /\ Extent(b, o) = PageSize + b.size[o]
        /\ Alignment(o) = PageSize
    BY <1>2 DEF Requested, Extent, Alignment
  <2>2. PageSize + b.size[o] \in Nat
    BY <1>1, SMTT(30)
  <2> QED
    BY <1>1, <2>1, <2>2, EntriesCover
<1>3. CASE o = "framebuffer"
  <2>1. /\ Requested(b, o) = b.size[o] /\ Alignment(o) = PageSize
        /\ Extent(b, o) = (b.fb_addr % PageSize) + b.size[o]
    BY <1>3, Zenon DEF Requested, Extent, Alignment
  <2>2. b.fb_addr % PageSize \in Nat /\ b.fb_addr % PageSize < PageSize
    BY <1>1, SMTT(30)
  <2>3. Extent(b, "framebuffer") <= EntriesFor(b.size["framebuffer"]) * EntrySize
    BY SMTT(30) DEF WellFormed
  <2> HIDE DEF Extent, Requested, Alignment
  <2> QED
    BY <1>1, <1>3, <2>1, <2>2, <2>3
<1>4. CASE o = "physical"
  <2>1. /\ Requested(b, o) = b.size[o] /\ Alignment(o) = LargeSize
        /\ Extent(b, o) = RoundUp(b.size[o], LargeSize)
    BY <1>4, SMTT(30) DEF Requested, Extent, Alignment
  <2> HIDE DEF Extent, Requested, Alignment
  <2> QED
    BY <1>1, <1>4, <2>1, RoundUpFits
<1>5. CASE o \in {"ramdisk", "boot_info"}
  <2>1. /\ Requested(b, o) = b.size[o] /\ Extent(b, o) = b.size[o]
        /\ Alignment(o) \in {PageSize, InfoAlign}
    BY <1>5 DEF Requested, Extent, Alignment
  <2>2. o # "stack"
    BY <1>5, Zenon
  <2> HIDE DEF Extent, Requested, Alignment
  <2> QED
    BY <1>1, <2>1, <2>2, EntriesCover
<1> QED
  BY <1>2, <1>3, <1>4, <1>5, Zenon DEF Objects

-----------------------------------------------------------------------------
\* Where things are mapped.

\* The pages of an object whose address was configured lie in entries that
\* `new` has marked, those of any other in entries that were unused.
LEMMA ObjectPlaced ==
  ASSUME WellFormed(boot), Accounted(boot), Placeable(boot), NEW o \in Objects,
         boot.mapping[o] # Absent, NEW r \in Ranges(o)
  PROVE  /\ r.addr \in Nat /\ entry_state \subseteq r.used
         /\ \A p \in PagesOf(r.addr, r.addr + Extent(boot, o)) :
              /\ p \in Nat
              /\ Configured(o) => EntryOfPage(p) \in NewEntries(boot)
              /\ ~Configured(o) => EntryOfPage(p) \in (Indices \ entry_state) \cap r.used
<1> DEFINE x == Extent(boot, o)
<1>1. /\ Requested(boot, o) \in Nat /\ Requested(boot, o) > 0
      /\ Alignment(o) \in Nat /\ Alignment(o) > 0 /\ x \in Nat /\ x > 0
      /\ x <= EntriesFor(Requested(boot, o)) * EntrySize
      /\ x <= Requested(boot, o) + Alignment(o)
      /\ boot.aslr \in BOOLEAN /\ boot.mapping[o] \in Mappings
  BY ExtentFits, BootFields, Zenon
<1> HIDE DEF x
<1>2. CASE IsFixed(boot.mapping[o])
  <2>1. r.addr = boot.mapping[o] /\ r.used = entry_state
    BY <1>2, SMTT(30) DEF Ranges
  <2>2. r.addr \in Nat /\ r.addr + x \in Nat /\ r.addr < r.addr + x
    BY <1>1, <1>2, <2>1 DEF IsFixed, Mappings
  <2>3. o \in FixedObjects(boot) /\ Configured(o)
    BY <1>2 DEF FixedObjects, Configured
  <2>4. MarkRange({}, r.addr, r.addr + x) \subseteq NewEntries(boot)
    BY <2>1, <2>3 DEF Accounted, x
  <2> DEFINE e == r.addr + x
  <2>5. e \in Nat /\ r.addr < e
    BY <2>2
  <2>6. MarkRange({}, r.addr, e) \subseteq NewEntries(boot)
    BY <2>4
  <2> HIDE DEF e
  <2>7. P4Index(r.addr)..P4Index(e - 1) \subseteq NewEntries(boot)
    BY <2>6 DEF MarkRange
  <2>8. \A p \in PagesOf(r.addr, e) : p \in Nat /\ EntryOfPage(p) \in P4Index(r.addr)..P4Index(e - 1)
    BY <2>2, <2>5, PagesWithinMarked
  <2>9. \A p \in PagesOf(r.addr, e) : p \in Nat /\ EntryOfPage(p) \in NewEntries(boot)
    BY <2>7, <2>8, Zenon
  <2> QED
    BY <2>1, <2>2, <2>3, <2>9, SMTT(30) DEF e, x
<1>3. CASE ~IsFixed(boot.mapping[o])
  <2>1. boot.mapping[o] = Dynamic
    BY <1>3 DEF IsFixed
  <2>2. ~Configured(o)
    BY <1>3 DEF Configured, FixedObjects, Objects
  <2>3. r \in FreeRanges(entry_state, Requested(boot, o), Alignment(o), boot.aslr)
    BY <1>3 DEF Ranges
  <2>4. boot.aslr => Requested(boot, o) % EntrySize # 0
    BY <2>1, Zenon DEF Placeable
  <2> DEFINE n == EntriesFor(Requested(boot, o))
  <2>5. /\ r.addr \in Nat
        /\ \E i \in Nat : /\ n \in Nat
                          /\ Window(i, n) \subseteq Indices \ entry_state
                          /\ r.used = entry_state \cup Window(i, n)
                          /\ i * EntrySize <= r.addr
                          /\ r.addr + x <= (i + n) * EntrySize
    <3>1. /\ Requested(boot, o) \in Nat /\ Requested(boot, o) > 0
          /\ Alignment(o) \in Nat /\ Alignment(o) > 0 /\ x \in Nat
          /\ x <= n * EntrySize /\ x <= Requested(boot, o) + Alignment(o)
          /\ boot.aslr \in BOOLEAN
      BY <1>1
    <3> QED
      BY <2>3, <2>4, <3>1, FreeRangeFits, Zenon
  <2>6. PICK i \in Nat : /\ n \in Nat
                         /\ Window(i, n) \subseteq Indices \ entry_state
                         /\ r.used = entry_state \cup Window(i, n)
                         /\ i * EntrySize <= r.addr
                         /\ r.addr + x <= (i + n) * EntrySize
    BY <2>5, Zenon
  <2> HIDE DEF n
  <2>7. r.addr + x \in Nat /\ r.addr < r.addr + x
    BY <1>1, <2>5, SMTT(30)
  <2>8. \A p \in PagesOf(r.addr, r.addr + x) : p \in Nat /\ EntryOfPage(p) \in Window(i, n)
    BY <2>5, <2>6, <2>7, PagesWithinWindow, Zenon
  <2> QED
    BY <2>2, <2>5, <2>6, <2>8 DEF x
<1> QED
  BY <1>2, <1>3, Zenon

\* An object is mapped within its extent; the stack leaves out its first page.
LEMMA PagesWithinExtent ==
  ASSUME WellFormed(boot), NEW o \in Objects, NEW addr \in Nat
  PROVE  /\ PagesFor(boot, o, addr) \subseteq PagesOf(addr, addr + Extent(boot, o))
         /\ PageOf(addr) \in PagesOf(addr, addr + Extent(boot, o))
         /\ o = "stack" => PageOf(addr) \notin PagesFor(boot, o, addr)
<1> DEFINE x == Extent(boot, o)
<1>1. /\ x \in Nat /\ x > 0
      /\ PageSize \in Nat /\ PageSize > 0
  BY ExtentFits, SizesAssumption
<1> HIDE DEF x
<1> DEFINE e == addr + x
<1>2. /\ e - 1 \in Nat /\ addr <= e - 1
      /\ addr + PageSize \in Nat /\ addr <= addr + PageSize
  BY <1>1
<1> HIDE DEF e
<1>3. /\ PageOf(addr) \in Nat /\ PageOf(e - 1) \in Nat /\ PageOf(addr + PageSize) \in Nat
      /\ PageOf(addr) <= PageOf(e - 1)
      /\ PageOf(addr) <= PageOf(addr + PageSize)
  BY <1>1, <1>2, DivOrder, DivAtLeast DEF PageOf
<1>4. PageOf(addr) + 1 <= PageOf(addr + PageSize)
  <2>1. PageOf(addr) * PageSize <= addr /\ PageOf(addr) * PageSize \in Nat
    BY <1>1, <1>3, DivAtLeast DEF PageOf
  <2>2. (PageOf(addr) + 1) * PageSize = PageOf(addr) * PageSize + PageSize
    BY <1>1, <1>3
  <2>3. PageOf(addr) + 1 \in Nat /\ (PageOf(addr) + 1) * PageSize <= addr + PageSize
    BY <1>1, <1>3, <2>1, <2>2
  <2> HIDE DEF PageOf
  <2>4. PageOf(addr) + 1 <= (addr + PageSize) \div PageSize
    BY <1>1, <1>2, <2>3, DivAtLeast
  <2> QED
    BY <2>4 DEF PageOf
<1>5. PagesOf(addr, e) = PageOf(addr)..PageOf(e - 1)
  BY DEF PagesOf
<1>6. CASE o = "stack"
  <2>1. PagesFor(boot, o, addr) = PageOf(addr + PageSize)..PageOf(e - 1)
    BY <1>6 DEF PagesFor, PagesOf, e, x
  <2> HIDE DEF PageOf
  <2> QED
    BY <1>3, <1>4, <1>5, <2>1 DEF e, x
<1>7. CASE o # "stack"
  <2>1. PagesFor(boot, o, addr) = PagesOf(addr, e)
    BY <1>7, Zenon DEF PagesFor, e, x
  <2> HIDE DEF PageOf
  <2> QED
    BY <1>3, <1>5, <1>7, <2>1 DEF e, x
<1> QED
  BY <1>6, <1>7

\* The segments lie between the lowest start and the highest end.
LEMMA SegmentBounds ==
  ASSUME WellFormed(boot)
  PROVE  /\ Lowest \in Nat /\ Highest \in Nat /\ Lowest < Highest
         /\ \A i \in 1..Len(Segments) :
              /\ Segments[i].start \in Nat /\ Segments[i].end \in Nat
              /\ Segments[i].start < Segments[i].end
              /\ Lowest <= Segments[i].start /\ Segments[i].end <= Highest
<1> DEFINE s == boot.segments
           B == Entries * EntrySize
           starts == {s[i].start : i \in 1..Len(s)}
           ends == {s[i].end : i \in 1..Len(s)}
<1>1. s \in Seq([start : Nat, end : Nat]) /\ s # << >>
  BY DEF WellFormed, Boot
<1>2. Len(s) \in Nat /\ Len(s) > 0 /\ \A i \in 1..Len(s) : s[i] \in [start : Nat, end : Nat]
  <2> HIDE DEF s
  <2>1. Len(s) \in Nat /\ \A i \in 1..Len(s) : s[i] \in [start : Nat, end : Nat]
    <3> DEFINE S == [start : Nat, end : Nat]
    <3>1. s \in Seq(S)
      BY <1>1
    <3> HIDE DEF S
    <3>2. Len(s) \in Nat /\ \A i \in 1..Len(s) : s[i] \in S
      BY <3>1
    <3> QED
      BY <3>2 DEF S
  <2>2. Len(s) # 0
    BY <1>1, SMTT(30)
  <2> QED
    BY <2>1, <2>2
<1>3. /\ \A i \in 1..Len(s) : /\ s[i].start \in Nat /\ s[i].end \in Nat
                              /\ s[i].start < s[i].end /\ s[i].end <= B
      /\ 1 \in 1..Len(s)
  BY <1>2 DEF WellFormed, InSpace
<1>4. B \in Nat
  BY SizesAssumption DEF EntrySize
<1> HIDE DEF B, s
<1>5. starts \subseteq Nat /\ starts # {} /\ ends \subseteq 0..B /\ ends # {}
  BY <1>3, <1>4, SMTT(30)
<1>6. \E x \in starts : \A y \in starts : x <= y
  BY <1>5, LeastExists, Zenon
<1>7. \E x \in ends : \A y \in ends : y <= x
  BY <1>4, <1>5, GreatestExists, Zenon
<1>8. \E x \in starts : \A i \in 1..Len(s) : x <= s[i].start
  BY <1>6, Zenon
<1>9. \E x \in ends : \A i \in 1..Len(s) : s[i].end <= x
  BY <1>7, Zenon
<1>10. LowestOf(s) \in starts /\ \A i \in 1..Len(s) : LowestOf(s) <= s[i].start
  BY <1>8, Zenon DEF LowestOf
<1>11. HighestOf(s) \in ends /\ \A i \in 1..Len(s) : s[i].end <= HighestOf(s)
  BY <1>9, Zenon DEF HighestOf
<1>12. LowestOf(s) \in Nat /\ HighestOf(s) \in Nat
  BY <1>3, <1>10, <1>11, SMTT(30)
<1>13. LowestOf(s) <= s[1].start /\ s[1].start < s[1].end /\ s[1].end <= HighestOf(s)
  BY <1>3, <1>10, <1>11, SMTT(30)
<1>14. LowestOf(s) < HighestOf(s)
  BY <1>3, <1>12, <1>13
<1> QED
  BY <1>3, <1>10, <1>11, <1>12, <1>14, Zenon DEF Segments, Lowest, Highest, s

\* mark_segments marks what the segments occupy; a relocated kernel is mapped
\* only to entries that were unused.
LEMMA KernelPlaced ==
  ASSUME WellFormed(boot), Placeable(boot), NEW k \in KernelOffsets
  PROVE  /\ entry_state \subseteq MarkSegments(k.used, k.offset)
         /\ \A p \in SegmentPages(k.offset) :
              /\ p \in Nat
              /\ EntryOfPage(p) \in MarkSegments(k.used, k.offset)
              /\ boot.pie => EntryOfPage(p) \in Indices \ entry_state
<1>1. SUFFICES ASSUME NEW i \in 1..Len(Segments),
                      NEW p \in PagesOf(k.offset + Segments[i].start, k.offset + Segments[i].end)
               PROVE  /\ p \in Nat
                      /\ EntryOfPage(p) \in
                           MarkRange({}, k.offset + Segments[i].start, k.offset + Segments[i].end)
                      /\ boot.pie => EntryOfPage(p) \in Indices \ entry_state
  <2>1. entry_state \subseteq k.used
    <3>1. ASSUME NEW r \in FreeRanges(entry_state, Highest - Lowest, PageSize, boot.aslr)
          PROVE  entry_state \subseteq r.used
      BY SMTT(30) DEF FreeRanges
    <3> QED
      BY <3>1, SMTT(30) DEF KernelOffsets
  <2> QED
    BY <1>1, <2>1, Zenon DEF MarkSegments, SegmentPages
<1> DEFINE a == Segments[i].start
           e == Segments[i].end
<1>2. /\ a \in Nat /\ e \in Nat /\ a < e /\ Lowest <= a /\ e <= Highest
      /\ Lowest \in Nat /\ Highest \in Nat /\ Lowest < Highest
  BY SegmentBounds, SMTT(30)
<1> HIDE DEF a, e
<1>3. ASSUME NEW f \in Int, k.offset = f, f + a \in Nat
      PROVE  p \in Nat /\ EntryOfPage(p) \in MarkRange({}, f + a, f + e)
  <2> DEFINE start == f + a
             end == f + e
  <2>1. start \in Nat /\ end \in Nat /\ start < end
    BY <1>2, <1>3, SMTT(30)
  <2>2. p \in PagesOf(start, end)
    BY <1>3 DEF a, e
  <2> HIDE DEF start, end
  <2>3. p \in Nat /\ EntryOfPage(p) \in P4Index(start)..P4Index(end - 1)
    BY <2>1, <2>2, PagesWithinMarked, Zenon
  <2> QED
    BY <2>3 DEF MarkRange, start, end
<1>4. CASE ~boot.pie
  <2>1. k.offset = 0
    BY <1>4 DEF KernelOffsets
  <2> QED
    BY <1>2, <1>3, <1>4, <2>1, SMTT(30) DEF a, e
<1>5. CASE boot.pie
  <2> DEFINE size == Highest - Lowest
             n == EntriesFor(size)
  <2>1. PICK r \in FreeRanges(entry_state, size, PageSize, boot.aslr) : k.offset = r.addr - Lowest
    BY <1>5, SMTT(30) DEF KernelOffsets
  <2>2. boot.aslr => size % EntrySize # 0
    BY <1>5, SMTT(30) DEF Placeable, Highest, Lowest, Segments
  <2>3. size \in Nat /\ size > 0 /\ PageSize \in Nat /\ PageSize > 0 /\ size <= size + PageSize
    BY <1>2, SizesAssumption
  <2>4. size <= n * EntrySize
    BY <2>3, EntriesCover, Zenon
  <2>5. /\ r.addr \in Nat
        /\ \E w \in Nat : /\ n \in Nat
                          /\ Window(w, n) \subseteq Indices \ entry_state
                          /\ r.used = entry_state \cup Window(w, n)
                          /\ w * EntrySize <= r.addr
                          /\ r.addr + size <= (w + n) * EntrySize
    <3> HIDE DEF size
    <3> QED
      BY <2>1, <2>2, <2>3, <2>4, FreeRangeFits, Zenon
  <2>6. PICK w \in Nat : /\ n \in Nat
                         /\ Window(w, n) \subseteq Indices \ entry_state
                         /\ w * EntrySize <= r.addr
                         /\ r.addr + size <= (w + n) * EntrySize
    BY <2>5, SMTT(30)
  <2> DEFINE f == r.addr - Lowest
             start == f + a
             end == f + e
             W == (w + n) * EntrySize
             V == w * EntrySize
  <2>7. EntrySize \in Nat /\ V \in Nat /\ W \in Nat
    BY <2>6, SizesAssumption, SMTT(30) DEF EntrySize
  <2>8. V <= r.addr /\ r.addr + size <= W
    BY <2>6
  <2> HIDE DEF V, W, n
  <2>9. /\ f \in Int /\ start \in Nat /\ end \in Nat /\ start < end
        /\ V <= start /\ end <= W
    <3>1. ASSUME NEW b \in Nat, NEW l \in Nat, NEW h \in Nat, NEW x \in Nat, NEW y \in Nat,
                 NEW v \in Nat, NEW u \in Nat,
                 l <= x, x < y, y <= h, v <= b, b + (h - l) <= u
          PROVE  /\ b - l \in Int /\ b - l + x \in Nat /\ b - l + y \in Nat
                 /\ b - l + x < b - l + y /\ v <= b - l + x /\ b - l + y <= u
      BY <3>1
    <3> QED
      BY <1>2, <2>5, <2>7, <2>8, <3>1, Zenon
  <2>10. p \in PagesOf(start, end)
    BY <2>1, Zenon DEF a, e
  <2>11. p \in Nat /\ EntryOfPage(p) \in MarkRange({}, start, end)
    BY <1>3, <2>1, <2>9, Zenon
  <2> HIDE DEF start, end
  <2>12. EntryOfPage(p) \in Window(w, n)
    BY <2>6, <2>9, <2>10, PagesWithinWindow, Zenon DEF V, W
  <2> QED
    BY <2>1, <2>6, <2>11, <2>12, Zenon DEF start, end, a, e
<1> QED
  BY <1>4, <1>5, Zenon

-----------------------------------------------------------------------------
(***************************************************************************)
(* The inductive invariant.  What keeps mappings apart is that the entries *)
(* are divided: NewEntries belong to what was configured, and an entry is  *)
(* marked as used before anything else is placed.                          *)
(***************************************************************************)
BootInv ==
  /\ WellFormed(boot) /\ Accounted(boot) /\ Placeable(boot)
  /\ NewEntries(boot) \subseteq entry_state

TableInv == \A p \in DOMAIN page_table : p \in Nat /\ EntryOfPage(p) \in entry_state

DynamicInv ==
  \A p \in DOMAIN page_table :
    ~Configured(page_table[p].owner) => EntryOfPage(p) \in Indices \ NewEntries(boot)

StackInv ==
  "stack" \in DOMAIN address =>
    /\ address["stack"] \in Nat
    /\ P4Index(address["stack"]) \in entry_state
    /\ ~Configured("stack") => P4Index(address["stack"]) \notin NewEntries(boot)

StartInv == pc = "kernel" => "stack" \notin DOMAIN address

MappingInv ==
  /\ BootInv /\ TableInv /\ DynamicInv /\ StackInv /\ StartInv
  /\ CollisionsAreConfigured /\ GuardPageUnmapped

\* The boots the theorems are about.
SupportedBoots == \A b \in Boots : Accounted(b) /\ Placeable(b)

\* Before anything is mapped the invariant holds.
LEMMA InitMapping ==
  ASSUME SupportedBoots, Init
  PROVE  MappingInv
  BY MappingsAssumption
     DEF SupportedBoots, Init, MappingInv, BootInv, TableInv, DynamicInv, StackInv, StartInv,
         CollisionsAreConfigured, GuardPageUnmapped

\* After an object something else is mapped, never the kernel again.
LEMMA KernelIsFirst ==
  ASSUME NEW o \in Objects \cup {"kernel", "identity", "recursive"}
  PROVE  NextOf(o) # "kernel"
<1>1. PICK i \in 1..(Len(Order) - 1) : Order[i] = o
  BY DEF Order, Objects
<1> DEFINE c == CHOOSE j \in 1..(Len(Order) - 1) : Order[j] = o
<1>2. c \in 1..(Len(Order) - 1)
  BY <1>1
<1>3. NextOf(o) = Order[c + 1]
  BY DEF NextOf
<1> HIDE DEF c
<1>4. c + 1 \in 2..11
  BY <1>2 DEF Order
<1> QED
  BY <1>3, <1>4 DEF Order

\* The configuration of a boot does not change, and neither do the entries that
\* belong to it.
LEMMA SameBoot ==
  ASSUME boot' = boot
  PROVE  /\ \A o : Configured(o)' <=> Configured(o)
         /\ NewEntries(boot)' = NewEntries(boot)
         /\ WellFormed(boot)' <=> WellFormed(boot)
         /\ Accounted(boot)' <=> Accounted(boot)
         /\ Placeable(boot)' <=> Placeable(boot)
  BY DEF Configured

\* The bootloader's own pages lie in the first entry, which `new` marks.
LEMMA OwnInFirstEntry ==
  ASSUME WellFormed(boot), NEW o, NEW p \in OwnPages(o)
  PROVE  p \in Nat /\ EntryOfPage(p) \in NewEntries(boot)
<1>1. PagesPerEntry \in Nat /\ PagesPerEntry > 0 /\ boot.own \in 0..PagesPerEntry
  BY SizesAssumption DEF WellFormed, Boot
<1>2. p \in Nat /\ p < PagesPerEntry
  BY <1>1 DEF OwnPages
<1>3. p \div PagesPerEntry = 0
  BY <1>1, <1>2
<1> QED
  BY <1>2, <1>3, Zenon DEF EntryOfPage, NewEntries

\* Where the pages of what is mapped may lie: in the entries that belong to the
\* configuration if its address was configured, in unused ones otherwise, and
\* in any case they are marked from then on.
PagesPlaced(o, pages) ==
  \A p \in pages :
    /\ p \in Nat /\ EntryOfPage(p) \in entry_state'
    /\ Configured(o) => EntryOfPage(p) \in NewEntries(boot)
    /\ ~Configured(o) => EntryOfPage(p) \in Indices \ entry_state

\* Only what was configured meets anything there.
LEMMA MeetingsAreConfigured ==
  ASSUME MappingInv, NEW o, NEW pages, PagesPlaced(o, pages)
  PROVE  /\ \A p \in pages \cap DOMAIN page_table : Configured(o) /\ Configured(page_table[p].owner)
         /\ \A p \in pages \cap OwnPages(o) : Configured(o)
<1>1. ASSUME NEW p \in pages, EntryOfPage(p) \in entry_state PROVE Configured(o)
  BY <1>1 DEF PagesPlaced
<1>2. ASSUME NEW p \in pages \cap DOMAIN page_table
      PROVE  Configured(o) /\ Configured(page_table[p].owner)
  <2>1. EntryOfPage(p) \in entry_state
    BY DEF MappingInv, TableInv
  <2>2. Configured(o)
    BY <1>1, <2>1
  <2>3. EntryOfPage(p) \in NewEntries(boot)
    BY <2>2, Zenon DEF PagesPlaced
  <2> QED
    BY <2>2, <2>3 DEF MappingInv, DynamicInv
<1>3. ASSUME NEW p \in pages \cap OwnPages(o) PROVE Configured(o)
  BY <1>1, OwnInFirstEntry, Zenon DEF MappingInv, BootInv
<1> QED
  BY <1>2, <1>3

\* Entering something into the page table, or the panic instead, keeps all of
\* the invariant that is not about the stack.
LEMMA EnterOrCollide ==
  ASSUME MappingInv, boot' = boot, entry_state \subseteq entry_state',
         NEW o \in Objects \cup {"identity", "recursive"},
         NEW T, \A p \in DOMAIN T : T[p].owner = o,
         PagesPlaced(o, DOMAIN T),
         Enter(o, T) \/ Collide(o, T)
  PROVE  /\ BootInv' /\ TableInv' /\ DynamicInv' /\ CollisionsAreConfigured'
         /\ pc' # "kernel"
         /\ \A p \in DOMAIN page_table' :
              \/ p \in DOMAIN page_table /\ page_table'[p] = page_table[p]
              \/ p \in DOMAIN T /\ page_table'[p].owner = o
<1>1. /\ \A x : Configured(x)' <=> Configured(x)
      /\ NewEntries(boot)' = NewEntries(boot)
      /\ WellFormed(boot)' <=> WellFormed(boot)
      /\ Accounted(boot)' <=> Accounted(boot)
      /\ Placeable(boot)' <=> Placeable(boot)
  BY SameBoot, Zenon
<1>2. BootInv'
  BY <1>1, Zenon DEF MappingInv, BootInv
<1>3. \A p \in DOMAIN page_table' :
        \/ p \in DOMAIN page_table /\ page_table'[p] = page_table[p]
        \/ p \in DOMAIN T /\ page_table'[p].owner = o
  BY Zenon DEF Enter, Collide
<1>4. TableInv'
  <2>1. \A p \in DOMAIN page_table : p \in Nat /\ EntryOfPage(p) \in entry_state'
    BY Zenon DEF MappingInv, TableInv
  <2>2. \A p \in DOMAIN T : p \in Nat /\ EntryOfPage(p) \in entry_state'
    BY Zenon DEF PagesPlaced
  <2> QED
    BY <1>3, <2>1, <2>2, Zenon DEF TableInv, EntryOfPage
<1>5. DynamicInv'
  <2>1. \A p \in DOMAIN page_table' :
          ~Configured(page_table'[p].owner) => EntryOfPage(p) \in Indices \ NewEntries(boot)
    <3>1. SUFFICES ASSUME NEW p \in DOMAIN page_table', ~Configured(page_table'[p].owner)
                   PROVE  EntryOfPage(p) \in Indices \ NewEntries(boot)
      BY <3>1, Zenon
    <3>2. CASE p \in DOMAIN page_table /\ page_table'[p] = page_table[p]
      BY <3>1, <3>2, Zenon DEF MappingInv, DynamicInv
    <3>3. CASE p \in DOMAIN T /\ page_table'[p].owner = o
      <4>1. ~Configured(o)
        BY <3>1, <3>3, Zenon
      <4> QED
        BY <3>3, <4>1, Zenon DEF PagesPlaced, MappingInv, BootInv
    <3> QED
      BY <1>3, <3>2, <3>3, Zenon
  <2> QED
    BY <1>1, <2>1, Zenon DEF DynamicInv, EntryOfPage, Indices
<1>6. CollisionsAreConfigured'
  <2>1. \A x \in clash' : Configured(x)
    <3>1. CASE Enter(o, T)
      BY <3>1, Zenon DEF Enter, MappingInv, CollisionsAreConfigured
    <3>2. CASE Collide(o, T)
      <4>1. Configured(o)
        BY <3>2, MeetingsAreConfigured, Zenon DEF Collide
      <4>2. \A p \in DOMAIN T \cap DOMAIN page_table : Configured(page_table[p].owner)
        BY MeetingsAreConfigured, Zenon
      <4>3. Configured("identity")
        BY Zenon DEF Configured
      <4> QED
        BY <3>2, <4>1, <4>2, <4>3, Zenon DEF Collide
    <3> QED
      BY <3>1, <3>2, Zenon
  <2> QED
    BY <1>1, <2>1, Zenon DEF CollisionsAreConfigured
<1>7. pc' # "kernel"
  BY KernelIsFirst DEF Enter, Collide
<1> QED
  BY <1>2, <1>3, <1>4, <1>5, <1>6, <1>7, Zenon

\* What is mapped after the stack keeps clear of its guard page.
LEMMA GuardKept ==
  ASSUME MappingInv, boot' = boot, entry_state \subseteq entry_state', pc' # "kernel",
         "stack" \in DOMAIN address' =>
            "stack" \in DOMAIN address /\ address'["stack"] = address["stack"],
         NEW o, NEW pages, PagesPlaced(o, pages),
         \A p \in DOMAIN page_table' :
            \/ p \in DOMAIN page_table /\ page_table'[p] = page_table[p]
            \/ p \in pages /\ page_table'[p].owner = o
  PROVE  StackInv' /\ StartInv' /\ GuardPageUnmapped'
<1>1. /\ \A x : Configured(x)' <=> Configured(x)
      /\ NewEntries(boot)' = NewEntries(boot)
  BY SameBoot
<1>2. StartInv'
  BY Zenon DEF StartInv
<1>3. CASE "stack" \notin DOMAIN address'
  BY <1>2, <1>3, Zenon DEF StackInv, GuardPageUnmapped
<1>4. CASE "stack" \in DOMAIN address'
  <2> DEFINE a == address["stack"]
             g == PageOf(a)
  <2>1. "stack" \in DOMAIN address /\ address'["stack"] = a
    BY <1>4, Zenon
  <2>2. a \in Nat /\ P4Index(a) \in entry_state /\ (~Configured("stack") => P4Index(a) \notin NewEntries(boot))
    BY <2>1, Zenon DEF MappingInv, StackInv
  <2>3. StackInv'
    BY <1>1, <2>1, <2>2, Zenon DEF StackInv, P4Index
  <2>4. EntryOfPage(g) = P4Index(a)
    BY <2>2, EntryOfAddress, Zenon
  <2>5. ASSUME g \in DOMAIN page_table'
        PROVE  Configured("stack") /\ Configured(page_table'[g].owner)
    <3>1. CASE g \in DOMAIN page_table /\ page_table'[g] = page_table[g]
      BY <2>1, <3>1 DEF MappingInv, GuardPageUnmapped
    <3>2. CASE g \in pages /\ page_table'[g].owner = o
      <4>1. Configured(o)
        BY <2>2, <2>4, <3>2, Zenon DEF PagesPlaced
      <4>2. P4Index(a) \in NewEntries(boot)
        BY <2>4, <3>2, <4>1, Zenon DEF PagesPlaced
      <4> QED
        BY <2>2, <3>2, <4>1, <4>2, Zenon
    <3> QED
      BY <2>5, <3>1, <3>2, Zenon
  <2>6. GuardPageUnmapped'
    BY <1>1, <2>1, <2>5, Zenon DEF GuardPageUnmapped, PageOf
  <2> QED
    BY <1>2, <2>3, <2>6, Zenon
<1> QED
  BY <1>3, <1>4, Zenon

\* The kernel is the first to be mapped: nothing else is there, and what its
\* segments occupy is marked.
LEMMA KernelKeepsInv ==
  ASSUME MappingInv, LoadKernel
  PROVE  MappingInv'
<1>1. PICK k \in KernelOffsets :
        /\ entry_state' = MarkSegments(k.used, k.offset)
        /\ Locate("kernel", k.offset + Lowest)
        /\ Enter("kernel", Translations("kernel", SegmentPages(k.offset), PageOf(k.offset + Lowest)))
  BY DEF LoadKernel
<1> DEFINE pages == SegmentPages(k.offset)
           T == Translations("kernel", pages, PageOf(k.offset + Lowest))
<1>2. boot' = boot /\ pc = "kernel"
  BY DEF LoadKernel
<1>3. /\ \A x : Configured(x)' <=> Configured(x)
      /\ NewEntries(boot)' = NewEntries(boot)
      /\ WellFormed(boot)' <=> WellFormed(boot)
      /\ Accounted(boot)' <=> Accounted(boot)
      /\ Placeable(boot)' <=> Placeable(boot)
  BY <1>2, SameBoot, Zenon
<1>4. /\ entry_state \subseteq entry_state'
      /\ \A p \in pages : /\ p \in Nat /\ EntryOfPage(p) \in entry_state'
                          /\ boot.pie => EntryOfPage(p) \in Indices \ entry_state
  BY <1>1, KernelPlaced, Zenon DEF MappingInv, BootInv
<1>5. DOMAIN T = pages /\ \A p \in pages : T[p].owner = "kernel"
  BY SMTT(30) DEF Translations
<1> HIDE DEF T, pages
<1>6. \A p \in DOMAIN page_table' :
        \/ p \in DOMAIN page_table /\ page_table'[p] = page_table[p]
        \/ p \in pages /\ page_table'[p].owner = "kernel"
  BY <1>1, <1>5, Zenon DEF Enter, T, pages
<1>7. BootInv'
  BY <1>3, <1>4, Zenon DEF MappingInv, BootInv
<1>8. TableInv'
  BY <1>4, <1>6, Zenon DEF MappingInv, TableInv, EntryOfPage
<1>9. DynamicInv'
  <2>1. ASSUME NEW p \in DOMAIN page_table', ~Configured(page_table'[p].owner)
        PROVE  EntryOfPage(p) \in Indices \ NewEntries(boot)
    <3>1. CASE p \in DOMAIN page_table /\ page_table'[p] = page_table[p]
      BY <2>1, <3>1, Zenon DEF MappingInv, DynamicInv
    <3>2. CASE p \in pages /\ page_table'[p].owner = "kernel"
      <4>1. boot.pie
        BY <2>1, <3>2, Zenon DEF Configured
      <4> QED
        BY <1>4, <3>2, <4>1, Zenon DEF MappingInv, BootInv
    <3> QED
      BY <1>6, <3>1, <3>2, Zenon
  <2> QED
    BY <1>3, <2>1, Zenon DEF DynamicInv, EntryOfPage, Indices
<1>10. "stack" \notin DOMAIN address'
  BY <1>1, <1>2, SMTT(30) DEF MappingInv, StartInv, Locate
<1>11. CollisionsAreConfigured'
  BY <1>1, <1>3, Zenon DEF Enter, MappingInv, CollisionsAreConfigured
<1> QED
  BY <1>7, <1>8, <1>9, <1>10, <1>11, Zenon DEF MappingInv, StackInv, StartInv, GuardPageUnmapped

\* Mapping the stack, a framebuffer, a ramdisk, the physical memory or the boot
\* info keeps the invariant, wherever get_free_address puts them.
LEMMA ObjectKeepsInv ==
  ASSUME MappingInv, NEW o \in Objects, MapObject(o)
  PROVE  MappingInv'
<1>1. PICK r \in Ranges(o) :
        /\ entry_state' = r.used
        /\ Locate(o, r.addr)
        /\ LET entries == Translations(o, PagesFor(boot, o, r.addr), PageOf(r.addr))
           IN  Enter(o, entries) \/ Collide(o, entries)
  BY Zenon DEF MapObject
<1> DEFINE pages == PagesFor(boot, o, r.addr)
           T == Translations(o, pages, PageOf(r.addr))
           all == PagesOf(r.addr, r.addr + Extent(boot, o))
<1>2. boot' = boot /\ boot.mapping[o] # Absent /\ (Enter(o, T) \/ Collide(o, T))
  BY <1>1 DEF MapObject
<1>3. WellFormed(boot) /\ Accounted(boot) /\ Placeable(boot)
  BY SMTT(30) DEF MappingInv, BootInv
<1>4. /\ r.addr \in Nat /\ entry_state \subseteq entry_state'
      /\ \A p \in all :
           /\ p \in Nat
           /\ Configured(o) => EntryOfPage(p) \in NewEntries(boot)
           /\ ~Configured(o) => EntryOfPage(p) \in (Indices \ entry_state) \cap entry_state'
  BY <1>1, <1>2, <1>3, ObjectPlaced, Zenon
<1>5. PagesPlaced(o, all)
  BY <1>4, Zenon DEF PagesPlaced, MappingInv, BootInv
<1>6. /\ pages \subseteq all /\ PageOf(r.addr) \in all
      /\ o = "stack" => PageOf(r.addr) \notin pages
  BY <1>3, <1>4, PagesWithinExtent, Zenon
<1>7. DOMAIN T = pages /\ \A p \in DOMAIN T : T[p].owner = o
  BY Zenon DEF Translations
<1> HIDE DEF T, pages, all
<1>8. PagesPlaced(o, pages)
  BY <1>5, <1>6, SMTT(30) DEF PagesPlaced
<1>9. /\ BootInv' /\ TableInv' /\ DynamicInv' /\ CollisionsAreConfigured'
      /\ pc' # "kernel"
      /\ \A p \in DOMAIN page_table' :
           \/ p \in DOMAIN page_table /\ page_table'[p] = page_table[p]
           \/ p \in pages /\ page_table'[p].owner = o
  BY <1>2, <1>4, <1>7, <1>8, EnterOrCollide, Zenon
<1>10. CASE o # "stack"
  <2>1. "stack" \in DOMAIN address' =>
           "stack" \in DOMAIN address /\ address'["stack"] = address["stack"]
    BY <1>1, <1>10, Zenon DEF Locate
  <2> QED
    BY <1>2, <1>4, <1>8, <1>9, <2>1, GuardKept, Zenon DEF MappingInv
<1>11. CASE o = "stack"
  <2> DEFINE g == PageOf(r.addr)
  <2>1. "stack" \in DOMAIN address' /\ address'["stack"] = r.addr
    BY <1>1, <1>11, Zenon DEF Locate
  <2>2. EntryOfPage(g) = P4Index(r.addr)
    BY <1>4, EntryOfAddress
  <2>3. /\ EntryOfPage(g) \in entry_state'
        /\ ~Configured("stack") => EntryOfPage(g) \in Indices \ entry_state
    BY <1>5, <1>6, <1>11, Zenon DEF PagesPlaced
  <2>4. \A x : Configured(x)' <=> Configured(x)
    BY <1>2, SameBoot, Zenon
  <2>5. NewEntries(boot)' = NewEntries(boot) /\ NewEntries(boot) \subseteq entry_state
    BY <1>2, SameBoot DEF MappingInv, BootInv
  <2>6. StackInv'
    BY <1>4, <2>1, <2>2, <2>3, <2>4, <2>5, Zenon DEF StackInv, P4Index
  <2>7. ASSUME g \in DOMAIN page_table'
        PROVE  Configured("stack") /\ Configured(page_table'[g].owner)
    <3>1. g \in DOMAIN page_table /\ page_table'[g] = page_table[g]
      BY <1>6, <1>9, <1>11, <2>7, Zenon
    <3> QED
      BY <1>5, <1>6, <1>11, <3>1, MeetingsAreConfigured, Zenon
  <2>8. GuardPageUnmapped'
    BY <2>1, <2>4, <2>7, SMTT(30) DEF GuardPageUnmapped, PageOf
  <2> QED
    BY <1>9, <2>6, <2>8, SMTT(30) DEF MappingInv, StartInv
<1> QED
  BY <1>10, <1>11, Zenon

\* The pages of a level 4 entry.
LEMMA EntryOfEntryPages ==
  ASSUME NEW i \in Nat, NEW p \in EntryPages(i)
  PROVE  p \in Nat /\ EntryOfPage(p) = i
<1>1. PagesPerEntry \in Nat /\ PagesPerEntry > 0
  BY SizesAssumption
<1> DEFINE a == i * PagesPerEntry
           b == (i + 1) * PagesPerEntry
<1>2. a \in Nat /\ b \in Nat /\ b = a + PagesPerEntry
  BY <1>1
<1>3. p \in a..(b - 1)
  BY DEF EntryPages
<1> HIDE DEF a, b
<1>4. p \in Nat /\ a <= p /\ ~(b <= p)
  BY <1>2, <1>3
<1>5. p \div PagesPerEntry \in Nat /\ i <= p \div PagesPerEntry /\ ~(i + 1 <= p \div PagesPerEntry)
  <2>1. i <= p \div PagesPerEntry
    BY <1>1, <1>4, DivAtLeast, SMTT(30) DEF a
  <2>2. ~(i + 1 <= p \div PagesPerEntry)
    BY <1>1, <1>4, DivAtLeast DEF b
  <2> QED
    BY <1>1, <1>4, <2>1, <2>2, DivAtLeast, SMTT(30)
<1>6. p \div PagesPerEntry = i
  BY <1>5, SMTT(30)
<1> QED
  BY <1>4, <1>6 DEF EntryOfPage

\* The context switch code and the GDT are in the first entry, which belongs to
\* the configuration.
LEMMA IdentityKeepsInv ==
  ASSUME MappingInv, IdentityMap
  PROVE  MappingInv'
<1> DEFINE T == IdentityPages
<1>1. /\ boot' = boot /\ entry_state' = entry_state /\ address' = address
      /\ Enter("identity", T) \/ Collide("identity", T)
  BY SMTT(30) DEF IdentityMap
<1>2. DOMAIN T \subseteq EntryPages(0) /\ \A p \in DOMAIN T : T[p].owner = "identity"
  BY Zenon DEF IdentityPages, MappingInv, BootInv, WellFormed
<1>3. Configured("identity")
  BY Zenon DEF Configured
<1> HIDE DEF T
<1>4. 0 \in NewEntries(boot) /\ NewEntries(boot) \subseteq entry_state
  BY Zenon DEF NewEntries, MappingInv, BootInv
<1>5. \A p \in DOMAIN T : p \in Nat /\ EntryOfPage(p) = 0
  BY <1>2, EntryOfEntryPages, Zenon
<1>6. PagesPlaced("identity", DOMAIN T)
  BY <1>1, <1>3, <1>4, <1>5, SMTT(30) DEF PagesPlaced
<1>7. /\ BootInv' /\ TableInv' /\ DynamicInv' /\ CollisionsAreConfigured'
      /\ pc' # "kernel"
      /\ \A p \in DOMAIN page_table' :
           \/ p \in DOMAIN page_table /\ page_table'[p] = page_table[p]
           \/ p \in DOMAIN T /\ page_table'[p].owner = "identity"
  BY <1>1, <1>2, <1>6, EnterOrCollide, Zenon
<1>8. StackInv' /\ StartInv' /\ GuardPageUnmapped'
  BY <1>1, <1>6, <1>7, GuardKept, Zenon
<1> QED
  BY <1>7, <1>8 DEF MappingInv

\* What `new` marks: the configured recursive entry and what is outside of the
\* dynamic range.
LEMMA NewEntriesMark ==
  ASSUME NEW b
  PROVE  /\ IsFixed(b.recursive) => P4Index(b.recursive) \in NewEntries(b)
         /\ b.range_start # Absent => BelowRange(b.range_start) \subseteq NewEntries(b)
         /\ b.range_end # Absent => AboveRange(b.range_end) \subseteq NewEntries(b)
<1>1. /\ RecursiveEntry(b) \subseteq NewEntries(b)
      /\ BelowEntries(b) \subseteq NewEntries(b)
      /\ AboveEntries(b) \subseteq NewEntries(b)
  BY SMTT(30) DEF NewEntries
<1> QED
  BY <1>1 DEF RecursiveEntry, BelowEntries, AboveEntries

\* A recursive entry is the configured one, or an unused one.
LEMMA RecursiveKeepsInv ==
  ASSUME MappingInv, MapRecursive
  PROVE  MappingInv'
<1>1. PICK i \in RecursiveIndices :
        /\ entry_state' = IF boot.recursive = Dynamic THEN entry_state \cup {i} ELSE entry_state
        /\ Locate("recursive", i * EntrySize)
        /\ LET entries == Translations("recursive", EntryPages(i), i * PagesPerEntry)
           IN  Enter("recursive", entries) \/ Collide("recursive", entries)
  BY Zenon DEF MapRecursive
<1> DEFINE pages == EntryPages(i)
           T == Translations("recursive", pages, i * PagesPerEntry)
<1>2. boot' = boot /\ boot.recursive # Absent /\ (Enter("recursive", T) \/ Collide("recursive", T))
  BY <1>1, Zenon DEF MapRecursive
<1>3. DOMAIN T = pages /\ \A p \in DOMAIN T : T[p].owner = "recursive"
  BY DEF Translations
<1> HIDE DEF T
<1>4. entry_state \subseteq entry_state' /\ NewEntries(boot) \subseteq entry_state
  BY <1>1 DEF MappingInv, BootInv
<1>5. /\ i \in Nat /\ i \in entry_state'
      /\ Configured("recursive") => i \in NewEntries(boot)
      /\ ~Configured("recursive") => i \in Indices \ entry_state
  <2>1. CASE boot.recursive = Dynamic
    <3>1. i \in FreeWindows(entry_state, 1)
      BY <2>1 DEF RecursiveIndices, FreeEntries
    <3>2. i \in Indices /\ i \in Window(i, 1)
      BY <3>1, SizesAssumption, SMTT(30) DEF FreeWindows, Indices, Window
    <3>3. i \in Indices \ entry_state /\ i \in Nat
      BY <3>1, <3>2, SMTT(30) DEF FreeWindows, Indices
    <3>4. ~Configured("recursive")
      BY <2>1 DEF Configured, IsFixed, FixedObjects, Objects
    <3> QED
      BY <1>1, <2>1, <3>3, <3>4, SMTT(30)
  <2>2. CASE boot.recursive # Dynamic
    <3>1. IsFixed(boot.recursive) /\ i = P4Index(boot.recursive)
      BY <1>2, <2>2, Zenon DEF IsFixed, RecursiveIndices
    <3>2. Configured("recursive") /\ i \in NewEntries(boot)
      <4>1. Configured("recursive")
        BY <3>1, Zenon DEF Configured
      <4> QED
        BY <3>1, <4>1, NewEntriesMark, Zenon
    <3>3. boot.recursive \in Nat
      BY <1>2, <2>2, SMTT(30) DEF MappingInv, BootInv, WellFormed, Boot, Mappings
    <3>4. i \in Nat
      BY <3>1, <3>3, EntryOfAddress
    <3> QED
      BY <1>4, <3>2, <3>4
  <2> QED
    BY <2>1, <2>2, SMTT(30)
<1>6. \A p \in pages : p \in Nat /\ EntryOfPage(p) = i
  BY <1>5, EntryOfEntryPages, Zenon
<1> HIDE DEF pages
<1>7. PagesPlaced("recursive", pages)
  BY <1>5, <1>6, SMTT(30) DEF PagesPlaced
<1>8. /\ BootInv' /\ TableInv' /\ DynamicInv' /\ CollisionsAreConfigured'
      /\ pc' # "kernel"
      /\ \A p \in DOMAIN page_table' :
           \/ p \in DOMAIN page_table /\ page_table'[p] = page_table[p]
           \/ p \in pages /\ page_table'[p].owner = "recursive"
  BY <1>2, <1>3, <1>4, <1>7, EnterOrCollide, Zenon
<1>9. "stack" \in DOMAIN address' =>
         "stack" \in DOMAIN address /\ address'["stack"] = address["stack"]
  BY <1>1, SMTT(30) DEF Locate
<1>10. StackInv' /\ StartInv' /\ GuardPageUnmapped'
  BY <1>2, <1>4, <1>7, <1>8, <1>9, GuardKept, Zenon
<1> QED
  BY <1>8, <1>10 DEF MappingInv

\* The steps that map nothing: an object that is not wanted, a panic, the boot
\* info's contents and the switch.
LEMMA QuietKeepsInv ==
  ASSUME MappingInv, UNCHANGED <<boot, entry_state, page_table, address, clash>>,
         pc' # "kernel" \/ pc' = pc
  PROVE  MappingInv'
  BY Zenon DEF MappingInv, BootInv, TableInv, DynamicInv, StackInv, StartInv,
         CollisionsAreConfigured, GuardPageUnmapped, Configured

\* Every step keeps the invariant.
LEMMA StepKeepsMapping ==
  ASSUME MappingInv, [Next]_vars
  PROVE  MappingInv'
<1>1. CASE LoadKernel
  BY <1>1, KernelKeepsInv, SMTT(30)
<1>2. ASSUME NEW o \in Objects, MapObject(o) \/ Misaligned(o) \/ SkipObject(o)
      PROVE  MappingInv'
  <2>1. CASE MapObject(o)
    BY <2>1, ObjectKeepsInv, Zenon
  <2>2. CASE Misaligned(o)
    BY <2>2, QuietKeepsInv, Zenon DEF Misaligned
  <2>3. CASE SkipObject(o)
    BY <2>3, QuietKeepsInv, KernelIsFirst, Zenon DEF SkipObject
  <2> QED
    BY <1>2, <2>1, <2>2, <2>3
<1>3. CASE IdentityMap
  BY <1>3, IdentityKeepsInv
<1>4. CASE MapRecursive
  BY <1>4, RecursiveKeepsInv
<1>5. CASE RecursiveMisaligned \/ NoRoom \/ OutOfFrames \/ WriteBootInfo \/ SwitchToKernel
  BY <1>5, QuietKeepsInv, Zenon
     DEF RecursiveMisaligned, NoRoom, OutOfFrames, WriteBootInfo, SwitchToKernel
<1>6. CASE SkipRecursive
  BY <1>6, QuietKeepsInv, KernelIsFirst, SMTT(30) DEF SkipRecursive
<1>7. CASE UNCHANGED vars
  BY <1>7, QuietKeepsInv DEF vars
<1> QED
  BY <1>1, <1>2, <1>3, <1>4, <1>5, <1>6, <1>7, Zenon DEF Next

\* The entries stay divided between what was configured and what was placed.
THEOREM MappingCorrect ==
  ASSUME SupportedBoots
  PROVE  Spec => []MappingInv
<1>1. Init => MappingInv
  BY InitMapping
<1>2. MappingInv /\ [Next]_vars => MappingInv'
  BY StepKeepsMapping
<1> QED
  BY <1>1, <1>2, PTL DEF Spec

\* Mappings collide only if both sides were configured to (CollisionsAreConfigured).
THEOREM OnlyConfiguredCollide ==
  ASSUME SupportedBoots
  PROVE  Spec => []CollisionsAreConfigured
<1>1. MappingInv => CollisionsAreConfigured
  BY SMTT(30) DEF MappingInv
<1> QED
  BY <1>1, MappingCorrect, PTL

\* Whatever is mapped, and the guard page, lies in entries marked as used.
THEOREM EntriesAccounted ==
  ASSUME SupportedBoots
  PROVE  Spec => []MappedEntriesUsed
<1>1. MappingInv => MappedEntriesUsed
  BY DEF MappingInv, TableInv, StackInv, MappedEntriesUsed
<1> QED
  BY <1>1, MappingCorrect, PTL

\* The guard page below the stack stays unmapped, unless the configuration puts a
\* mapping there.
THEOREM GuardPageKept ==
  ASSUME SupportedBoots
  PROVE  Spec => []GuardPageUnmapped
<1>1. MappingInv => GuardPageUnmapped
  BY Zenon DEF MappingInv
<1> QED
  BY <1>1, MappingCorrect, PTL

\* Unused entries outside of what `new` marks around the dynamic range hold only
\* pages within that range.
LEMMA PageWithinRange ==
  ASSUME WellFormed(boot), NEW p \in Nat, EntryOfPage(p) \in Indices \ NewEntries(boot)
  PROVE  /\ boot.range_start # Absent => PageOf(boot.range_start) <= p
         /\ boot.range_end # Absent => p <= PageOf(boot.range_end)
<1>1. /\ PagesPerEntry \in Nat /\ PagesPerEntry > 0 /\ Entries \in Nat
      /\ EntryOfPage(p) \in Nat /\ EntryOfPage(p) <= Entries - 1
  BY SizesAssumption, SMTT(30) DEF Indices
<1>2. /\ boot.range_start # Absent => boot.range_start \in Nat
      /\ boot.range_end # Absent => boot.range_end \in Nat
  BY SMTT(30) DEF WellFormed, Boot, Mappings
<1>3. ASSUME boot.range_start # Absent PROVE PageOf(boot.range_start) <= p
  <2> DEFINE q == PageOf(boot.range_start)
  <2>1. q \in Nat
    BY <1>2, <1>3, EntryOfAddress
  <2>2. EntryOfPage(p) \notin BelowRange(boot.range_start)
    BY <1>3, NewEntriesMark, Zenon
  <2>3. CASE q = 0
    BY <2>3
  <2>4. CASE q # 0
    <3>1. q - 1 \in Nat
      BY <2>1, <2>4, SMTT(30)
    <3>2. EntryOfPage(p) \notin 0..EntryOfPage(q - 1)
      BY <2>2, <2>4 DEF BelowRange
    <3> HIDE DEF q
    <3>3. EntryOfPage(q - 1) \in Nat
      BY <1>1, <3>1, DivAtLeast, Zenon DEF EntryOfPage
    <3>4. ~(EntryOfPage(p) <= EntryOfPage(q - 1))
      BY <1>1, <3>2, <3>3
    <3>5. ~(p <= q - 1)
      BY <1>1, <3>1, <3>4, DivOrder, Zenon DEF EntryOfPage
    <3> QED
      BY <2>1, <3>5 DEF q
  <2> QED
    BY <2>3, <2>4
<1>4. ASSUME boot.range_end # Absent PROVE p <= PageOf(boot.range_end)
  <2> DEFINE q == PageOf(boot.range_end)
  <2>1. q \in Nat /\ q + 1 \in Nat
    BY <1>2, <1>4, EntryOfAddress, SMTT(30)
  <2>2. EntryOfPage(p) \notin AboveRange(boot.range_end)
    BY <1>4, NewEntriesMark, Zenon
  <2>3. EntryOfPage(p) \notin EntryOfPage(q + 1)..(Entries - 1)
    BY <2>2 DEF AboveRange
  <2> HIDE DEF q
  <2>4. EntryOfPage(q + 1) \in Nat
    BY <1>1, <2>1, DivAtLeast, Zenon DEF EntryOfPage
  <2>5. ~(EntryOfPage(q + 1) <= EntryOfPage(p))
    BY <1>1, <2>3, <2>4
  <2>6. ~(q + 1 <= p)
    BY <1>1, <2>1, <2>5, DivOrder, Zenon DEF EntryOfPage
  <2> QED
    BY <2>1, <2>6, SMTT(30) DEF q
<1> QED
  BY <1>3, <1>4, SMTT(30)

\* Dynamic mappings stay between dynamic_range_start and dynamic_range_end.
THEOREM RangeRespected ==
  ASSUME SupportedBoots
  PROVE  Spec => []WithinDynamicRange
<1>1. MappingInv => WithinDynamicRange
  <2>1. SUFFICES ASSUME MappingInv, NEW p \in DOMAIN page_table, ~Configured(page_table[p].owner)
                 PROVE  /\ boot.range_start # Absent => PageOf(boot.range_start) <= p
                        /\ boot.range_end # Absent => p <= PageOf(boot.range_end)
    BY DEF WithinDynamicRange
  <2>2. p \in Nat /\ EntryOfPage(p) \in Indices \ NewEntries(boot)
    BY <2>1 DEF MappingInv, TableInv, DynamicInv
  <2>3. WellFormed(boot)
    BY <2>1 DEF MappingInv, BootInv
  <2> QED
    BY <2>2, <2>3, PageWithinRange, Zenon
<1> QED
  BY <1>1, MappingCorrect, PTL

-----------------------------------------------------------------------------
(***************************************************************************)
(* What the kernel is told.  An entry of the page table is never changed,  *)
(* so what was entered for an object is still there when the kernel runs.  *)
(***************************************************************************)

\* What is mapped, one after the other
Stations == {"kernel", "stack", "identity", "framebuffer", "ramdisk", "physical", "recursive",
             "boot_info"}

\* The values of pc once x is mapped or skipped
After(x) ==
  CASE x = "boot_info" -> {"write_info", "switch", "entered"}
    [] x = "recursive" -> {"boot_info", "write_info", "switch", "entered"}
    [] x = "physical" -> {"recursive", "boot_info", "write_info", "switch", "entered"}
    [] x = "ramdisk" -> {"physical", "recursive", "boot_info", "write_info", "switch", "entered"}
    [] x = "framebuffer" -> {"ramdisk", "physical", "recursive", "boot_info", "write_info",
                             "switch", "entered"}
    [] x = "identity" -> {"framebuffer", "ramdisk", "physical", "recursive", "boot_info",
                          "write_info", "switch", "entered"}
    [] x = "stack" -> {"identity", "framebuffer", "ramdisk", "physical", "recursive",
                       "boot_info", "write_info", "switch", "entered"}
    [] x = "kernel" -> {"stack", "identity", "framebuffer", "ramdisk", "physical", "recursive",
                        "boot_info", "write_info", "switch", "entered"}

\* An object is in the page table as a whole.
Mapped(o, addr) ==
  \A p \in PagesFor(boot, o, addr) :
    p \in DOMAIN page_table /\ page_table[p] = [owner |-> o, frame |-> FrameFor(o, p - PageOf(addr))]

ObjectInv(o) ==
  /\ pc \in After(o) /\ boot.mapping[o] # Absent => o \in DOMAIN address
  /\ o \in DOMAIN address /\ pc # "collision" =>
       /\ boot.mapping[o] # Absent /\ address[o] \in Nat /\ Aligned(o, address[o])
       /\ Mapped(o, address[o])

RecursiveInv ==
  "recursive" \in DOMAIN address /\ pc # "collision" =>
    \E i \in Nat : /\ address["recursive"] = i * EntrySize
                   /\ \A p \in EntryPages(i) :
                        p \in DOMAIN page_table /\ page_table[p].owner = "recursive"

IdentityInv ==
  pc \in After("identity") =>
    \A p \in {boot.code, boot.code + 1, boot.gdt} : p \in DOMAIN page_table /\ page_table[p].frame = p

WrittenInv ==
  /\ pc \in {"switch", "entered"} =>
       boot_info = [o \in Reported |-> IF o \in DOMAIN address THEN address[o] ELSE Absent]
  /\ pc = "entered" => rsp = StackTop - Word

InfoInv ==
  /\ WellFormed(boot) /\ \A o \in Objects : ObjectInv(o)
  /\ RecursiveInv /\ IdentityInv /\ WrittenInv

\* The order of the mappings, as set_up_mappings makes them.
LEMMA NextStation ==
  /\ NextOf("kernel") = "stack" /\ NextOf("stack") = "identity"
  /\ NextOf("identity") = "framebuffer" /\ NextOf("framebuffer") = "ramdisk"
  /\ NextOf("ramdisk") = "physical" /\ NextOf("physical") = "recursive"
  /\ NextOf("recursive") = "boot_info" /\ NextOf("boot_info") = "write_info"
<1>1. Len(Order) = 11
  BY DEF Order
<1>2. ASSUME NEW i \in 1..8, NEW o, Order[i] = o, \A j \in 1..10 : Order[j] = o => j = i
      PROVE  NextOf(o) = Order[i + 1]
  <2>1. i \in 1..(Len(Order) - 1) /\ \A j \in 1..(Len(Order) - 1) : Order[j] = o => j = i
    BY <1>1, <1>2
  <2>2. (CHOOSE j \in 1..(Len(Order) - 1) : Order[j] = o) = i
    BY <1>2, <2>1, Zenon
  <2> QED
    BY <2>2, Zenon DEF NextOf
<1>3. /\ Order[1] = "kernel" /\ Order[2] = "stack" /\ Order[3] = "identity" /\ Order[4] = "framebuffer"
      /\ Order[5] = "ramdisk" /\ Order[6] = "physical" /\ Order[7] = "recursive"
      /\ Order[8] = "boot_info" /\ Order[9] = "write_info" /\ Order[10] = "switch"
  BY DEF Order
<1>4. \A j \in 1..10 : j = 1 \/ j = 2 \/ j = 3 \/ j = 4 \/ j = 5 \/ j = 6 \/ j = 7 \/ j = 8 \/ j = 9 \/ j = 10
  OBVIOUS
<1>5. ASSUME NEW i \in 1..8, NEW j \in 1..10, Order[j] = Order[i] PROVE j = i
  BY <1>3, <1>4, <1>5
<1>6. ASSUME NEW i \in 1..8 PROVE NextOf(Order[i]) = Order[i + 1]
  BY <1>2, <1>5, Zenon
<1> HIDE DEF Order
<1>7. /\ NextOf(Order[1]) = Order[2] /\ NextOf(Order[2]) = Order[3] /\ NextOf(Order[3]) = Order[4]
      /\ NextOf(Order[4]) = Order[5] /\ NextOf(Order[5]) = Order[6] /\ NextOf(Order[6]) = Order[7]
      /\ NextOf(Order[7]) = Order[8] /\ NextOf(Order[8]) = Order[9]
  <2>1. /\ 1 \in 1..8 /\ 2 \in 1..8 /\ 3 \in 1..8 /\ 4 \in 1..8 /\ 5 \in 1..8 /\ 6 \in 1..8
        /\ 7 \in 1..8 /\ 8 \in 1..8
    OBVIOUS
  <2>2. /\ 1 + 1 = 2 /\ 2 + 1 = 3 /\ 3 + 1 = 4 /\ 4 + 1 = 5 /\ 5 + 1 = 6 /\ 6 + 1 = 7
        /\ 7 + 1 = 8 /\ 8 + 1 = 9
    OBVIOUS
  <2> QED
    BY <1>6, <2>1, <2>2
<1> QED
  BY <1>3, <1>7

\* What is mapped before the next station was mapped before this one or is this.
LEMMA AfterNext ==
  ASSUME NEW o \in Stations, NEW x \in Stations, NextOf(o) \in After(x)
  PROVE  x = o \/ o \in After(x)
  BY NextStation DEF Stations, After

\* Entering something changes no other entry.
LEMMA EnterKeeps ==
  ASSUME NEW o, NEW T, Enter(o, T)
  PROVE  /\ \A p \in DOMAIN page_table : p \in DOMAIN page_table' /\ page_table'[p] = page_table[p]
         /\ \A p \in DOMAIN T : p \in DOMAIN page_table' /\ page_table'[p] = T[p]
         /\ pc' = NextOf(o)
  BY Zenon DEF Enter

\* A station is neither the end nor what comes after the end.
LEMMA NextIsEarly ==
  ASSUME NEW o \in Stations
  PROVE  NextOf(o) \notin {"switch", "entered", "collision"} /\ o # "collision"
  BY NextStation DEF Stations

\* After a station has been mapped or skipped, what was mapped before is as it was.
LEMMA OthersKept ==
  ASSUME InfoInv, boot' = boot, NEW o \in Stations, pc = o, pc' = NextOf(o),
         \A p \in DOMAIN page_table : p \in DOMAIN page_table' /\ page_table'[p] = page_table[p],
         \A x : x # o => /\ x \in DOMAIN address' <=> x \in DOMAIN address
                         /\ x \in DOMAIN address => address'[x] = address[x]
  PROVE  /\ WellFormed(boot)' /\ WrittenInv'
         /\ \A x \in Objects : x # o => ObjectInv(x)'
         /\ o # "recursive" => RecursiveInv'
         /\ o # "identity" => IdentityInv'
<1>1. pc' \notin {"switch", "entered", "collision"} /\ pc # "collision"
  BY NextIsEarly, Zenon
<1>2. WellFormed(boot)'
  BY Zenon DEF InfoInv
<1>3. WrittenInv'
  BY <1>1, Zenon DEF WrittenInv
<1>4. ASSUME NEW x \in Objects, x # o PROVE ObjectInv(x)'
  <2>1. ObjectInv(x)
    BY Zenon DEF InfoInv
  <2>2. pc' \in After(x) => pc \in After(x)
    <3>1. x \in Stations
      BY DEF Stations, Objects
    <3> QED
      BY <1>4, <3>1, AfterNext, Zenon
  <2>3. /\ x \in DOMAIN address' <=> x \in DOMAIN address
        /\ x \in DOMAIN address => address'[x] = address[x]
    BY <1>4, Zenon
  <2>4. CASE x \in DOMAIN address
    <3>1. /\ boot.mapping[x] # Absent /\ address[x] \in Nat /\ Aligned(x, address[x])
          /\ Mapped(x, address[x])
      BY <1>1, <2>1, <2>4, Zenon DEF ObjectInv
    <3>2. /\ x \in DOMAIN address' /\ address'[x] = address[x]
      BY <2>3, <2>4, Zenon
    <3>3. boot'.mapping[x] # Absent /\ address'[x] \in Nat /\ Aligned(x, address'[x])
      BY <3>1, <3>2
    <3>4. Mapped(x, address[x])'
      <4>1. Mapped(x, address'[x])
        BY <3>1, <3>2
      <4> QED
        BY <4>1, Zenon DEF Mapped, PagesFor, FrameFor, Extent, PageOf
    <3> QED
      BY <3>2, <3>3, <3>4, Zenon DEF ObjectInv, Aligned
  <2>5. CASE x \notin DOMAIN address
    BY <2>1, <2>2, <2>3, <2>5, Zenon DEF ObjectInv
  <2> QED
    BY <2>4, <2>5
<1>5. ASSUME o # "recursive" PROVE RecursiveInv'
  <2>1. SUFFICES ASSUME "recursive" \in DOMAIN address'
                 PROVE  \E i \in Nat : /\ address'["recursive"] = i * EntrySize
                                       /\ \A p \in EntryPages(i) : p \in DOMAIN page_table'
                                             /\ page_table'[p].owner = "recursive"
    BY Zenon DEF RecursiveInv, EntryPages, EntrySize
  <2>2. "recursive" \in DOMAIN address /\ address'["recursive"] = address["recursive"]
    BY <1>5, <2>1, Zenon
  <2>3. RecursiveInv
    BY Zenon DEF InfoInv
  <2>4. PICK i \in Nat : /\ address["recursive"] = i * EntrySize
                         /\ \A p \in EntryPages(i) :
                              p \in DOMAIN page_table /\ page_table[p].owner = "recursive"
    BY <1>1, <2>2, <2>3, Zenon DEF RecursiveInv
  <2>5. \A p \in EntryPages(i) : p \in DOMAIN page_table' /\ page_table'[p].owner = "recursive"
    BY <2>4, Zenon
  <2> QED
    BY <2>2, <2>4, <2>5, Zenon
<1>6. ASSUME o # "identity" PROVE IdentityInv'
  <2>1. pc' \in After("identity") => pc \in After("identity")
    <3>1. "identity" \in Stations
      BY DEF Stations
    <3> QED
      BY <1>6, <3>1, AfterNext, Zenon
  <2>2. IdentityInv
    BY Zenon DEF InfoInv
  <2> QED
    BY <2>1, <2>2, Zenon DEF IdentityInv
<1> QED
  BY <1>2, <1>3, <1>4, <1>5, <1>6, Zenon

\* After a panic there is nothing to be shown.
LEMMA PanicKeepsInfo ==
  ASSUME InfoInv, boot' = boot,
         \/ pc' = "collision"
         \/ /\ UNCHANGED <<page_table, address>>
            /\ pc # "collision" /\ pc' \in {"misaligned", "no_room", "no_frames"}
  PROVE  InfoInv'
<1>1. /\ pc' \notin {"switch", "entered"} /\ pc' \notin After("identity")
      /\ \A x \in Objects : pc' \notin After(x)
  BY DEF After, Objects
<1>2. WellFormed(boot)' /\ WrittenInv' /\ IdentityInv'
  BY <1>1, Zenon DEF InfoInv, WrittenInv, IdentityInv
<1>3. CASE pc' = "collision"
  BY <1>1, <1>2, <1>3, Zenon DEF InfoInv, ObjectInv, RecursiveInv
<1>4. CASE pc' # "collision"
  <2>1. UNCHANGED <<page_table, address>> /\ pc # "collision"
    BY <1>4, Zenon
  <2>2. ASSUME NEW x \in Objects PROVE ObjectInv(x)'
    <3>1. ObjectInv(x)
      BY DEF InfoInv
    <3> QED
      BY <1>1, <2>1, <3>1, Zenon DEF ObjectInv, Aligned, Mapped, PagesFor, FrameFor, Extent, PageOf
  <2>3. RecursiveInv'
    BY <2>1, Zenon DEF InfoInv, RecursiveInv
  <2> QED
    BY <1>2, <2>2, <2>3, Zenon DEF InfoInv
<1> QED
  BY <1>3, <1>4

\* Every address an object can get is one.
LEMMA AddressType ==
  ASSUME WellFormed(boot), NEW o \in Objects, boot.mapping[o] # Absent, NEW r \in Ranges(o)
  PROVE  r.addr \in Nat
<1>1. /\ EntrySize \in Nat /\ EntrySize > 0 /\ Entries \in Nat
  BY SizesAssumption DEF EntrySize
<1>2. CASE IsFixed(boot.mapping[o])
  <2>1. r.addr = boot.mapping[o]
    BY <1>2 DEF Ranges
  <2>2. boot.mapping[o] \in Mappings
    BY BootFields
  <2> QED
    BY <1>1, <1>2, <2>1, <2>2 DEF Mappings, IsFixed
<1>3. CASE ~IsFixed(boot.mapping[o])
  <2> DEFINE size == Requested(boot, o)
             align == Alignment(o)
  <2>1. size \in Nat /\ align \in Nat /\ align > 0
    BY ExtentFits
  <2> HIDE DEF size, align
  <2>2. r \in FreeRanges(entry_state, size, align, boot.aslr)
    BY <1>3 DEF Ranges, size, align
  <2>3. PICK i \in Indices, f \in FreeOffsets(size, align, boot.aslr) : r.addr = i * EntrySize + f
    BY <2>2 DEF FreeRanges, FreeEntries, FreeWindows
  <2>4. f \in Nat
    BY <1>1, <2>1, <2>3 DEF FreeOffsets, OffsetCount
  <2>5. i \in Nat
    BY <1>1, <2>3 DEF Indices
  <2> QED
    BY <1>1, <2>3, <2>4, <2>5
<1> QED
  BY <1>2, <1>3

\* Mapping an object enters the whole of it.
LEMMA ObjectKeepsInfo ==
  ASSUME InfoInv, NEW o \in Objects, MapObject(o)
  PROVE  InfoInv'
<1>1. PICK r \in Ranges(o) :
        /\ Aligned(o, r.addr)
        /\ Locate(o, r.addr)
        /\ LET entries == Translations(o, PagesFor(boot, o, r.addr), PageOf(r.addr))
           IN  Enter(o, entries) \/ Collide(o, entries)
  BY Zenon DEF MapObject
<1> DEFINE T == Translations(o, PagesFor(boot, o, r.addr), PageOf(r.addr))
<1>2. boot' = boot /\ boot.mapping[o] # Absent /\ (Enter(o, T) \/ Collide(o, T)) /\ pc = o
  BY <1>1, Zenon DEF MapObject
<1>3. WellFormed(boot)
  BY Zenon DEF InfoInv
<1>4. o \in Stations
  BY DEF Stations, Objects
<1>5. r.addr \in Nat
  BY <1>2, <1>3, AddressType, Zenon
<1>6. /\ DOMAIN T = PagesFor(boot, o, r.addr)
      /\ \A p \in DOMAIN T : T[p] = [owner |-> o, frame |-> FrameFor(o, p - PageOf(r.addr))]
  BY Zenon DEF Translations
<1> HIDE DEF T
<1>7. /\ o \in DOMAIN address' /\ address'[o] = r.addr
      /\ \A x : x # o => /\ x \in DOMAIN address' <=> x \in DOMAIN address
                         /\ x \in DOMAIN address => address'[x] = address[x]
  BY <1>1, Zenon DEF Locate
<1>8. CASE Enter(o, T)
  <2>1. /\ \A p \in DOMAIN page_table : p \in DOMAIN page_table' /\ page_table'[p] = page_table[p]
        /\ \A p \in DOMAIN T : p \in DOMAIN page_table' /\ page_table'[p] = T[p]
        /\ pc' = NextOf(o)
    BY <1>8, EnterKeeps, Zenon
  <2>2. /\ WellFormed(boot)' /\ WrittenInv'
        /\ \A x \in Objects : x # o => ObjectInv(x)'
        /\ o # "recursive" => RecursiveInv'
        /\ o # "identity" => IdentityInv'
    BY <1>2, <1>4, <1>7, <2>1, OthersKept, Zenon
  <2>3. ObjectInv(o)'
    <3>1. \A p \in PagesFor(boot, o, r.addr) :
            /\ p \in DOMAIN page_table'
            /\ page_table'[p] = [owner |-> o, frame |-> FrameFor(o, p - PageOf(r.addr))]
      BY <1>6, <2>1, Zenon
    <3>2. \A p \in PagesFor(boot, o, address'[o]) :
            /\ p \in DOMAIN page_table'
            /\ page_table'[p] = [owner |-> o, frame |-> FrameFor(o, p - PageOf(address'[o]))]
      BY <1>7, <3>1
    <3>3. Mapped(o, address[o])'
      BY <1>2, <3>2, Zenon DEF Mapped, PagesFor, FrameFor, Extent, PageOf
    <3>4. boot'.mapping[o] # Absent /\ address'[o] \in Nat /\ Aligned(o, address'[o])
      BY <1>1, <1>2, <1>5, <1>7
    <3> QED
      BY <1>7, <3>3, <3>4, Zenon DEF ObjectInv, Aligned
  <2>4. o # "recursive" /\ o # "identity"
    BY DEF Objects
  <2> QED
    BY <2>2, <2>3, <2>4, Zenon DEF InfoInv
<1>9. CASE Collide(o, T)
  BY <1>2, <1>9, PanicKeepsInfo, Zenon DEF Collide
<1> QED
  BY <1>2, <1>8, <1>9

\* An object that is not wanted has no address.
LEMMA SkipKeepsInfo ==
  ASSUME InfoInv, NEW o \in Objects, SkipObject(o)
  PROVE  InfoInv'
<1>1. /\ boot' = boot /\ pc = o /\ pc' = NextOf(o) /\ UNCHANGED <<page_table, address>>
      /\ boot.mapping[o] = Absent
  BY Zenon DEF SkipObject
<1>2. o \in Stations /\ o # "recursive" /\ o # "identity" /\ o # "collision"
  BY DEF Stations, Objects
<1>3. /\ WellFormed(boot)' /\ WrittenInv'
      /\ \A x \in Objects : x # o => ObjectInv(x)'
      /\ RecursiveInv' /\ IdentityInv'
  BY <1>1, <1>2, OthersKept
<1>4. ObjectInv(o)
  BY Zenon DEF InfoInv
<1>5. ObjectInv(o)'
  BY <1>1, <1>2, <1>4, Zenon DEF ObjectInv
<1> QED
  BY <1>3, <1>5, Zenon DEF InfoInv

\* The kernel is entered under its own name, apart from the objects.
LEMMA KernelKeepsInfo ==
  ASSUME InfoInv, LoadKernel
  PROVE  InfoInv'
<1>1. PICK k \in KernelOffsets :
        /\ Locate("kernel", k.offset + Lowest)
        /\ Enter("kernel", Translations("kernel", SegmentPages(k.offset), PageOf(k.offset + Lowest)))
  BY Zenon DEF LoadKernel
<1>2. boot' = boot /\ pc = "kernel"
  BY Zenon DEF LoadKernel
<1>3. \A x : x # "kernel" => /\ x \in DOMAIN address' <=> x \in DOMAIN address
                             /\ x \in DOMAIN address => address'[x] = address[x]
  BY <1>1, Zenon DEF Locate
<1>4. /\ \A p \in DOMAIN page_table : p \in DOMAIN page_table' /\ page_table'[p] = page_table[p]
      /\ pc' = NextOf("kernel")
  BY <1>1, EnterKeeps, Zenon
<1>5. "kernel" \in Stations
  BY DEF Stations
<1>6. /\ WellFormed(boot)' /\ WrittenInv'
      /\ \A x \in Objects : x # "kernel" => ObjectInv(x)'
      /\ "kernel" # "recursive" => RecursiveInv'
      /\ "kernel" # "identity" => IdentityInv'
  BY <1>2, <1>3, <1>4, <1>5, OthersKept, Zenon
<1>7. "kernel" \notin Objects /\ "kernel" # "recursive" /\ "kernel" # "identity"
  BY DEF Objects
<1> QED
  BY <1>6, <1>7, Zenon DEF InfoInv

\* The context switch code and the GDT are mapped to themselves.
LEMMA IdentityKeepsInfo ==
  ASSUME InfoInv, IdentityMap
  PROVE  InfoInv'
<1>1. boot' = boot /\ pc = "identity" /\ address' = address
  BY Zenon DEF IdentityMap
<1>2. CASE Enter("identity", IdentityPages)
  <2>1. /\ \A p \in DOMAIN page_table : p \in DOMAIN page_table' /\ page_table'[p] = page_table[p]
        /\ \A p \in DOMAIN IdentityPages : p \in DOMAIN page_table' /\ page_table'[p] = IdentityPages[p]
        /\ pc' = NextOf("identity")
    BY <1>2, EnterKeeps, Zenon
  <2>2. "identity" \in Stations /\ "identity" \notin Objects /\ "identity" # "recursive"
    BY DEF Stations, Objects
  <2>3. /\ WellFormed(boot)' /\ WrittenInv'
        /\ \A x \in Objects : x # "identity" => ObjectInv(x)'
        /\ "identity" # "recursive" => RecursiveInv'
    BY <1>1, <2>1, <2>2, OthersKept, Zenon
  <2>4. IdentityInv'
    <3>1. \A p \in {boot.code, boot.code + 1, boot.gdt} :
            p \in DOMAIN page_table' /\ page_table'[p].frame = p
      <4>1. /\ DOMAIN IdentityPages = {boot.code, boot.code + 1, boot.gdt}
            /\ \A p \in DOMAIN IdentityPages : IdentityPages[p].frame = p
        BY DEF IdentityPages
      <4> QED
        BY <2>1, <4>1, Zenon
    <3> QED
      BY <1>1, <3>1, Zenon DEF IdentityInv
  <2> QED
    BY <2>2, <2>3, <2>4, Zenon DEF InfoInv
<1>3. CASE Collide("identity", IdentityPages)
  BY <1>1, <1>3, PanicKeepsInfo, Zenon DEF Collide
<1> QED
  BY <1>2, <1>3, Zenon DEF IdentityMap

\* The recursive entry is one of the page table.
LEMMA RecursiveKeepsInfo ==
  ASSUME InfoInv, MapRecursive
  PROVE  InfoInv'
<1>1. PICK i \in RecursiveIndices :
        /\ Locate("recursive", i * EntrySize)
        /\ LET entries == Translations("recursive", EntryPages(i), i * PagesPerEntry)
           IN  Enter("recursive", entries) \/ Collide("recursive", entries)
  BY Zenon DEF MapRecursive
<1> DEFINE T == Translations("recursive", EntryPages(i), i * PagesPerEntry)
<1>2. /\ boot' = boot /\ boot.recursive # Absent /\ pc = "recursive"
      /\ Enter("recursive", T) \/ Collide("recursive", T)
  BY <1>1, Zenon DEF MapRecursive
<1>3. DOMAIN T = EntryPages(i) /\ \A p \in DOMAIN T : T[p].owner = "recursive"
  BY DEF Translations
<1> HIDE DEF T
<1>4. i \in Nat
  <2>1. CASE boot.recursive = Dynamic
    BY <2>1, SizesAssumption DEF RecursiveIndices, FreeEntries, FreeWindows, Indices
  <2>2. CASE boot.recursive # Dynamic
    <3>1. i = P4Index(boot.recursive)
      BY <2>2, Zenon DEF RecursiveIndices
    <3>2. boot.recursive \in Mappings
      BY BootFields DEF InfoInv, Objects
    <3>3. boot.recursive \in Nat
      BY <1>2, <2>2, <3>2, SMTT(30) DEF Mappings
    <3> QED
      BY <3>1, <3>3, EntryOfAddress
  <2> QED
    BY <2>1, <2>2
<1>5. /\ "recursive" \in DOMAIN address' /\ address'["recursive"] = i * EntrySize
      /\ \A x : x # "recursive" => /\ x \in DOMAIN address' <=> x \in DOMAIN address
                                   /\ x \in DOMAIN address => address'[x] = address[x]
  BY <1>1, Zenon DEF Locate
<1>6. CASE Enter("recursive", T)
  <2>1. /\ \A p \in DOMAIN page_table : p \in DOMAIN page_table' /\ page_table'[p] = page_table[p]
        /\ \A p \in DOMAIN T : p \in DOMAIN page_table' /\ page_table'[p] = T[p]
        /\ pc' = NextOf("recursive")
    BY <1>6, EnterKeeps, Zenon
  <2>2. "recursive" \in Stations /\ "recursive" \notin Objects /\ "recursive" # "identity"
    BY DEF Stations, Objects
  <2>3. /\ WellFormed(boot)' /\ WrittenInv'
        /\ \A x \in Objects : x # "recursive" => ObjectInv(x)'
        /\ "recursive" # "identity" => IdentityInv'
    BY <1>2, <1>5, <2>1, <2>2, OthersKept, Zenon
  <2>4. \A p \in EntryPages(i) : p \in DOMAIN page_table' /\ page_table'[p].owner = "recursive"
    BY <1>3, <2>1, Zenon
  <2>5. RecursiveInv'
    BY <1>4, <1>5, <2>4, Zenon DEF RecursiveInv, EntryPages, EntrySize
  <2> QED
    BY <2>2, <2>3, <2>5, Zenon DEF InfoInv
<1>7. CASE Collide("recursive", T)
  BY <1>2, <1>7, PanicKeepsInfo, Zenon DEF Collide
<1> QED
  BY <1>2, <1>6, <1>7

\* No recursive entry is wanted.
LEMMA SkipRecursiveKeepsInfo ==
  ASSUME InfoInv, SkipRecursive
  PROVE  InfoInv'
<1>1. /\ boot' = boot /\ pc = "recursive" /\ pc' = NextOf("recursive")
      /\ UNCHANGED <<page_table, address>>
  BY Zenon DEF SkipRecursive
<1>2. /\ "recursive" \in Stations /\ "recursive" \notin Objects /\ "recursive" # "identity"
      /\ "recursive" # "collision"
  BY DEF Stations, Objects
<1>3. /\ WellFormed(boot)' /\ WrittenInv'
      /\ \A x \in Objects : x # "recursive" => ObjectInv(x)'
      /\ "recursive" # "identity" => IdentityInv'
  BY <1>1, <1>2, OthersKept
<1>4. RecursiveInv'
  BY <1>1, <1>2, Zenon DEF InfoInv, RecursiveInv
<1> QED
  BY <1>2, <1>3, <1>4, Zenon DEF InfoInv

\* The last two steps map nothing.
LEMMA EndKeepsInfo ==
  ASSUME InfoInv, UNCHANGED <<boot, page_table, address>>, WrittenInv',
         <<pc, pc'>> \in {<<"write_info", "switch">>, <<"switch", "entered">>} \/ pc' = pc
  PROVE  InfoInv'
<1>1. /\ pc' \in After("identity") => pc \in After("identity")
      /\ \A x \in Objects : pc' \in After(x) => pc \in After(x)
      /\ pc = "collision" <=> pc' = "collision"
  BY DEF After, Objects
<1>2. ASSUME NEW x \in Objects PROVE ObjectInv(x)'
  <2>1. ObjectInv(x)
    BY Zenon DEF InfoInv
  <2> QED
    BY <1>1, <2>1, Zenon DEF ObjectInv, Aligned, Mapped, PagesFor, FrameFor, Extent, PageOf
<1>3. RecursiveInv' /\ IdentityInv'
  BY <1>1, Zenon DEF InfoInv, RecursiveInv, IdentityInv
<1> QED
  BY <1>2, <1>3, Zenon DEF InfoInv

\* Every step keeps the invariant.
LEMMA StepKeepsInfo ==
  ASSUME InfoInv, [Next]_vars
  PROVE  InfoInv'
<1>1. CASE LoadKernel
  BY <1>1, KernelKeepsInfo
<1>2. ASSUME NEW o \in Objects, MapObject(o) \/ Misaligned(o) \/ SkipObject(o)
      PROVE  InfoInv'
  <2>1. CASE MapObject(o)
    BY <2>1, ObjectKeepsInfo, Zenon
  <2>2. CASE Misaligned(o)
    <3>1. o # "collision"
      BY DEF Objects
    <3> QED
      BY <2>2, <3>1, PanicKeepsInfo, Zenon DEF Misaligned
  <2>3. CASE SkipObject(o)
    BY <2>3, SkipKeepsInfo, Zenon
  <2> QED
    BY <1>2, <2>1, <2>2, <2>3
<1>3. CASE IdentityMap
  BY <1>3, IdentityKeepsInfo
<1>4. CASE MapRecursive
  BY <1>4, RecursiveKeepsInfo
<1>5. CASE SkipRecursive
  BY <1>5, SkipRecursiveKeepsInfo
<1>6. CASE RecursiveMisaligned \/ NoRoom \/ OutOfFrames
  <2>1. /\ boot' = boot /\ UNCHANGED <<page_table, address>>
        /\ pc' \in {"misaligned", "no_room", "no_frames"}
    BY <1>6, Zenon DEF RecursiveMisaligned, NoRoom, OutOfFrames
  <2>2. pc # "collision"
    BY <1>6 DEF RecursiveMisaligned, NoRoom, OutOfFrames, Objects
  <2> QED
    BY <2>1, <2>2, PanicKeepsInfo, Zenon
<1>7. CASE WriteBootInfo
  <2>1. WrittenInv'
    BY <1>7 DEF WriteBootInfo, WrittenInv
  <2> QED
    BY <1>7, <2>1, EndKeepsInfo, Zenon DEF WriteBootInfo
<1>8. CASE SwitchToKernel
  <2>1. WrittenInv'
    BY <1>8 DEF SwitchToKernel, WrittenInv, InfoInv, StackTop
  <2> QED
    BY <1>8, <2>1, EndKeepsInfo, Zenon DEF SwitchToKernel
<1>9. CASE UNCHANGED vars
  <2>1. WrittenInv'
    BY <1>9 DEF vars, WrittenInv, InfoInv, StackTop
  <2> QED
    BY <1>9, <2>1, EndKeepsInfo, Zenon DEF vars
<1> QED
  BY <1>1, <1>2, <1>3, <1>4, <1>5, <1>6, <1>7, <1>8, <1>9, Zenon DEF Next

-----------------------------------------------------------------------------
\* Bytes and their translation.

\* The page of a byte is one of the pages of what it belongs to.
LEMMA PageOfByte ==
  ASSUME NEW a \in Nat, NEW start \in Nat, NEW end \in Nat, start <= a, a < end
  PROVE  PageOf(a) \in PagesOf(start, end)
<1>1. PageSize \in Nat /\ PageSize > 0 /\ end - 1 \in Nat /\ a <= end - 1
  BY SizesAssumption
<1>2. PageOf(start) <= PageOf(a) /\ PageOf(a) <= PageOf(end - 1)
  BY <1>1, DivOrder DEF PageOf
<1>3. PageOf(start) \in Nat /\ PageOf(a) \in Nat /\ PageOf(end - 1) \in Nat
  BY <1>1, EntryOfAddress
<1> HIDE DEF PageOf
<1> QED
  BY <1>2, <1>3 DEF PagesOf

\* Pages that are mapped to successive frames translate a byte to its place.
LEMMA ByteTranslated ==
  ASSUME NEW a \in Nat, a % PageSize = 0, NEW f \in Nat, f % PageSize = 0, NEW k \in Nat
  PROVE  (PageOf(f) + (PageOf(a + k) - PageOf(a))) * PageSize + ((a + k) % PageSize) = f + k
<1> DEFINE P == PageSize
           q == (a + k) \div P
           m == (a + k) % P
           x == a \div P
           y == f \div P
<1>1. P \in Nat /\ P > 0
  BY SizesAssumption
<1>2. /\ q \in Nat /\ m \in Nat /\ a + k = q * P + m
      /\ x \in Nat /\ a = x * P
      /\ y \in Nat /\ f = y * P
  BY <1>1
<1>3. PageOf(f) = y /\ PageOf(a + k) = q /\ PageOf(a) = x
  BY DEF PageOf
<1> HIDE DEF P, q, m, x, y
<1>4. (y + (q - x)) * P = y * P + q * P - x * P
  BY <1>1, <1>2
<1>5. y * P \in Nat /\ q * P \in Nat /\ x * P \in Nat
  BY <1>1, <1>2
<1>6. (y + (q - x)) * P + m = f + k
  BY <1>2, <1>4, <1>5
<1> QED
  BY <1>3, <1>6 DEF P, m

\* The word that the kernel's stack starts with is above the guard page.
LEMMA WordOnStack ==
  ASSUME NEW a \in Nat, a % PageSize = 0, NEW size \in Nat, size >= StackAlign,
         NEW k \in 0..(Word - 1), NEW top,
         top = (a + PageSize + size) - ((a + PageSize + size) % StackAlign)
  PROVE  /\ top - Word + k \in Nat
         /\ a + PageSize <= top - Word + k /\ top - Word + k < a + PageSize + size
<1> DEFINE P == PageSize
           S == StackAlign
           e == a + P + size
           m == e % S
           q == e \div S
           x == a \div P
           y == P \div S
<1>1. P \in Nat /\ P > 0 /\ S \in Nat /\ S > 0 /\ Word \in 1..S /\ P % S = 0
  BY SizesAssumption, MappingsAssumption
<1>2. /\ q \in Nat /\ m \in Nat /\ m < S /\ e = q * S + m
      /\ x \in Nat /\ a = x * P
      /\ y \in Nat /\ P = y * S
  BY <1>1
<1>3. top = e - m /\ size >= S
  OBVIOUS
<1> HIDE DEF S, m, q, x, y
<1> DEFINE b == (x + 1) * y
<1>4. b \in Nat /\ a + P = b * S
  <2>1. a + P = (x + 1) * P
    BY <1>1, <1>2
  <2>2. (x + 1) * (y * S) = b * S
    BY <1>1, <1>2
  <2> HIDE DEF P
  <2> QED
    BY <1>2, <2>1, <2>2
<1> HIDE DEF b, P
<1>5. q * S > b * S
  <2>1. e = b * S + size /\ b * S \in Nat /\ q * S \in Nat
    BY <1>1, <1>2, <1>4
  <2> HIDE DEF e
  <2> QED
    BY <1>1, <1>2, <1>3, <2>1
<1>6. q >= b + 1
  <2>1. q <= b => q * S <= b * S
    BY <1>1, <1>2, <1>4
  <2>2. q * S \in Nat /\ b * S \in Nat
    BY <1>1, <1>2, <1>4
  <2> QED
    BY <1>2, <1>4, <1>5, <2>1, <2>2
<1>7. q * S >= b * S + S
  <2>1. q * S >= (b + 1) * S
    BY <1>1, <1>2, <1>4, <1>6
  <2>2. (b + 1) * S = b * S + S
    BY <1>1, <1>4
  <2> QED
    BY <2>1, <2>2
<1>8. top = q * S /\ q * S \in Nat /\ b * S \in Nat /\ e \in Nat /\ top <= e
  BY <1>1, <1>2, <1>3, <1>4
<1>9. a + P <= top - Word + k /\ top - Word + k < e /\ top - Word + k \in Nat
  <2> HIDE DEF e
  <2> QED
    BY <1>1, <1>4, <1>7, <1>8
<1> QED
  BY <1>9 DEF P

\* An object's bytes belong to it.
LEMMA ByteMapped ==
  ASSUME WellFormed(boot), NEW o \in Objects, o # "stack", NEW a \in Nat, Mapped(o, a),
         NEW k \in 0..(boot.size[o] - 1)
  PROVE  /\ a + k \in Nat /\ k \in Nat
         /\ page_table[PageOf(a + k)] = [owner |-> o, frame |-> FrameFor(o, PageOf(a + k) - PageOf(a))]
<1> DEFINE x == Extent(boot, o)
<1>1. boot.size[o] \in Nat /\ boot.size[o] > 0 /\ boot.fb_addr \in Nat
  BY BootFields
<1>2. x \in Nat /\ boot.size[o] <= x
  <2>1. PageSize \in Nat /\ PageSize > 0
    BY SizesAssumption
  <2>2. RoundUp(boot.size[o], LargeSize) \in Nat /\ boot.size[o] <= RoundUp(boot.size[o], LargeSize)
    BY <1>1, RoundUpFits, Zenon
  <2>3. boot.fb_addr % PageSize \in Nat
    BY <1>1, <2>1
  <2>4. /\ o = "framebuffer" => x = (boot.fb_addr % PageSize) + boot.size[o]
        /\ o = "physical" => x = RoundUp(boot.size[o], LargeSize)
        /\ o \notin {"framebuffer", "physical"} => x = boot.size[o]
    BY DEF Extent
  <2> HIDE DEF x
  <2> QED
    BY <1>1, <2>2, <2>3, <2>4
<1> HIDE DEF x
<1>3. a + k \in Nat /\ a + x \in Nat /\ a <= a + k /\ a + k < a + x /\ k \in Nat
  BY <1>1, <1>2
<1>4. PageOf(a + k) \in PagesFor(boot, o, a)
  BY <1>3, PageOfByte DEF PagesFor, x
<1> QED
  BY <1>3, <1>4, Zenon DEF Mapped

\* What the kernel's boot info says is true in its page table, the code that
\* switches to it goes on, and its stack is above the guard page: for every
\* configuration, also one that UsedLevel4Entries does not account for.
THEOREM BootInfoCorrect == Spec => []BootInfoTrue
<1>1. Init => InfoInv
  <2> SUFFICES ASSUME Init PROVE InfoInv
    OBVIOUS
  <2>1. WellFormed(boot)
    BY MappingsAssumption DEF Init
  <2>2. pc = "kernel" /\ DOMAIN address = {}
    BY DEF Init
  <2>3. pc \notin After("identity") /\ \A x \in Objects : pc \notin After(x)
    BY <2>2 DEF After, Objects
  <2>4. pc \notin {"switch", "entered"}
    BY <2>2
  <2> QED
    BY <2>1, <2>2, <2>3, <2>4, Zenon DEF InfoInv, ObjectInv, RecursiveInv, IdentityInv, WrittenInv
<1>2. InfoInv => BootInfoTrue
  <2> SUFFICES ASSUME InfoInv, pc = "entered" PROVE BootInfoTrue
    BY Zenon DEF BootInfoTrue
  <2>1. WellFormed(boot)
    BY Zenon DEF InfoInv
  <2>2. pc # "collision" /\ pc \in After("identity") /\ \A x \in Objects : pc \in After(x)
    BY DEF After, Objects
  <2>3. ASSUME NEW o \in Objects
        PROVE  /\ o \in DOMAIN address <=> boot.mapping[o] # Absent
               /\ o \in DOMAIN address =>
                    address[o] \in Nat /\ Aligned(o, address[o]) /\ Mapped(o, address[o])
    BY <2>2, Zenon DEF InfoInv, ObjectInv
  <2>4. \A o \in Reported : boot_info[o] = IF o \in DOMAIN address THEN address[o] ELSE Absent
    BY DEF InfoInv, WrittenInv
  <2>5. Absent \notin Nat
    BY MappingsAssumption
  <2>6. PageSize \in Nat /\ PageSize > 0
    BY SizesAssumption
  <2>7. ASSUME NEW o \in Reported \ {"recursive"}
        PROVE  /\ boot_info[o] = Absent <=> boot.mapping[o] = Absent
               /\ boot_info[o] # Absent /\ PhysicalStart(o) % PageSize = 0 =>
                    \A k \in 0..(boot.size[o] - 1) :
                      /\ page_table[PageOf(boot_info[o] + k)].owner = o
                      /\ Translate(boot_info[o] + k) = PhysicalStart(o) + k
    <3>1. o \in Objects /\ o \in Reported /\ o # "stack" /\ o # "boot_info"
      BY DEF Reported, Objects
    <3>2. boot_info[o] = Absent <=> boot.mapping[o] = Absent
      BY <2>3, <2>4, <2>5, <3>1, Zenon
    <3>3. ASSUME boot_info[o] # Absent, PhysicalStart(o) % PageSize = 0,
                 NEW k \in 0..(boot.size[o] - 1)
          PROVE  /\ page_table[PageOf(boot_info[o] + k)].owner = o
                 /\ Translate(boot_info[o] + k) = PhysicalStart(o) + k
      <4> DEFINE a == address[o]
                 f == PhysicalStart(o)
                 n == PageOf(a + k) - PageOf(a)
      <4>1. boot_info[o] = a /\ a \in Nat /\ Aligned(o, a) /\ Mapped(o, a)
        BY <2>3, <2>4, <3>1, <3>3, Zenon
      <4>2. f \in Nat /\ FrameFor(o, n) = PageOf(f) + n
        <5>1. boot.fb_addr \in Nat /\ boot.ramdisk_addr \in Nat
          BY <2>1 DEF WellFormed, Boot
        <5>2. PageOf(a + k) \in Nat /\ PageOf(a) \in Nat /\ PageOf(0) = 0
          <6>1. a + k \in Nat
            BY <2>1, <3>1, <4>1, ByteMapped, Zenon
          <6> QED
            BY <2>6, <4>1, <6>1, EntryOfAddress DEF PageOf
        <5>3. 0 + n = n
          BY <5>2
        <5>4. o = "framebuffer" \/ o = "ramdisk" \/ o = "physical"
          BY DEF Reported
        <5> HIDE DEF a, n
        <5>5. CASE o = "framebuffer"
          BY <5>1, <5>5 DEF PhysicalStart, FrameFor
        <5>6. CASE o = "ramdisk"
          BY <5>1, <5>6 DEF PhysicalStart, FrameFor
        <5>7. CASE o = "physical"
          BY <5>2, <5>3, <5>7 DEF PhysicalStart, FrameFor
        <5> QED
          BY <5>4, <5>5, <5>6, <5>7, Zenon
      <4>3. a % PageSize = 0
        <5>1. Alignment(o) = PageSize \/ Alignment(o) = LargePage * PageSize
          BY <3>1 DEF Alignment, LargeSize
        <5>2. LargePage \in Nat \ {0}
          BY MappingsAssumption
        <5>3. ASSUME NEW l \in Nat \ {0}, a % (l * PageSize) = 0 PROVE a % PageSize = 0
          <6>1. l * PageSize \in Nat /\ l * PageSize > 0
            BY <2>6
          <6>2. PICK q \in Nat : a = q * (l * PageSize)
            <7>1. ASSUME NEW x \in Nat, NEW d \in Nat, d > 0, x % d = 0
                  PROVE  x \div d \in Nat /\ x = (x \div d) * d
              BY <7>1
            <7> QED
              BY <4>1, <5>3, <6>1, <7>1, Zenon
          <6>3. q * (l * PageSize) = (q * l) * PageSize /\ q * l \in Nat
            BY <2>6, <6>2
          <6> HIDE DEF a
          <6>4. ASSUME NEW z \in Nat PROVE (z * PageSize) % PageSize = 0
            BY <2>6
          <6> QED
            BY <6>2, <6>3, <6>4
        <5> HIDE DEF a
        <5> QED
          BY <4>1, <5>1, <5>2, <5>3 DEF Aligned
      <4> HIDE DEF a, f
      <4>4. /\ k \in Nat
            /\ page_table[PageOf(a + k)] = [owner |-> o, frame |-> FrameFor(o, n)]
        BY <2>1, <3>1, <4>1, ByteMapped, Zenon
      <4>5. (PageOf(f) + n) * PageSize + ((a + k) % PageSize) = f + k
        BY <3>3, <4>2, <4>3, <4>1, <4>4, ByteTranslated, Zenon DEF f
      <4>6. /\ page_table[PageOf(a + k)].owner = o
            /\ page_table[PageOf(a + k)].frame = PageOf(f) + n
        BY <4>2, <4>4
      <4>7. Translate(a + k) = f + k
        BY <4>5, <4>6, Zenon DEF Translate
      <4> QED
        BY <4>1, <4>6, <4>7, Zenon DEF f
    <3> QED
      BY <3>2, <3>3, Zenon
  <2>8. ASSUME boot_info["recursive"] # Absent,
               NEW p \in EntryPages(P4Index(boot_info["recursive"]))
        PROVE  page_table[p].owner = "recursive"
    <3>1. "recursive" \in DOMAIN address /\ boot_info["recursive"] = address["recursive"]
      BY <2>4, <2>8 DEF Reported
    <3>2. PICK i \in Nat : /\ address["recursive"] = i * EntrySize
                           /\ \A q \in EntryPages(i) :
                                q \in DOMAIN page_table /\ page_table[q].owner = "recursive"
      BY <2>2, <3>1, Zenon DEF InfoInv, RecursiveInv
    <3>3. P4Index(i * EntrySize) = i
      <4>1. EntrySize \in Nat /\ EntrySize > 0
        BY SizesAssumption DEF EntrySize
      <4> QED
        BY <4>1 DEF P4Index
    <3> QED
      BY <2>8, <3>1, <3>2, <3>3, Zenon
  <2>9. ASSUME NEW p \in {boot.code, boot.code + 1, boot.gdt} PROVE page_table[p].frame = p
    BY <2>2, Zenon DEF InfoInv, IdentityInv
  <2>10. "stack" \in Objects /\ "boot_info" \in Objects /\ "boot_info" # "stack"
    BY DEF Objects
  <2>11. "stack" \in DOMAIN address /\ "boot_info" \in DOMAIN address
    <3>1. boot.mapping["stack"] # Absent /\ boot.mapping["boot_info"] # Absent
      BY <2>1, Zenon DEF WellFormed
    <3> QED
      BY <2>3, <2>10, <3>1, Zenon
  <2>12. ASSUME boot.size["stack"] >= StackAlign, NEW k \in 0..(Word - 1)
         PROVE  page_table[PageOf(rsp + k)].owner = "stack"
    <3> DEFINE a == address["stack"]
               z == boot.size["stack"]
    <3>1. a \in Nat /\ Aligned("stack", a) /\ Mapped("stack", a)
      BY <2>3, <2>10, <2>11, Zenon
    <3>2. z \in Nat
      BY <2>1, <2>10, BootFields
    <3>3. a % PageSize = 0
      BY <3>1 DEF Aligned, Alignment
    <3>4. rsp = StackTop - Word
      BY Zenon DEF InfoInv, WrittenInv
    <3>5. StackTop = (a + PageSize + z) - ((a + PageSize + z) % StackAlign)
      BY DEF StackTop
    <3> HIDE DEF a, z, StackTop
    <3>6. /\ StackTop - Word + k \in Nat
          /\ a + PageSize <= StackTop - Word + k /\ StackTop - Word + k < a + PageSize + z
      BY <2>12, <3>1, <3>2, <3>3, <3>5, WordOnStack, Zenon DEF z
    <3>7. a + PageSize \in Nat /\ a + PageSize + z \in Nat
      BY <2>6, <3>1, <3>2
    <3>8. PageOf(rsp + k) \in PagesOf(a + PageSize, a + PageSize + z)
      BY <3>4, <3>6, <3>7, PageOfByte, Zenon
    <3>9. PagesFor(boot, "stack", a) = PagesOf(a + PageSize, a + PageSize + z)
      <4>1. a + (PageSize + z) = a + PageSize + z
        BY <2>6, <3>1, <3>2
      <4> QED
        BY <4>1 DEF PagesFor, Extent, z
    <3>10. page_table[PageOf(rsp + k)] =
             [owner |-> "stack", frame |-> FrameFor("stack", PageOf(rsp + k) - PageOf(a))]
      BY <3>1, <3>8, <3>9, Zenon DEF Mapped
    <3> QED
      BY <3>10
  <2>13. ASSUME NEW k \in 0..(boot.size["boot_info"] - 1)
         PROVE  page_table[PageOf(address["boot_info"] + k)].owner = "boot_info"
    <3> DEFINE a == address["boot_info"]
    <3>1. a \in Nat /\ Mapped("boot_info", a)
      BY <2>3, <2>10, <2>11, Zenon
    <3> HIDE DEF a
    <3>2. page_table[PageOf(a + k)] =
            [owner |-> "boot_info", frame |-> FrameFor("boot_info", PageOf(a + k) - PageOf(a))]
      BY <2>1, <2>10, <3>1, ByteMapped, Zenon
    <3>3. page_table[PageOf(a + k)].owner = "boot_info"
      BY <3>2
    <3> QED
      BY <3>3 DEF a
  <2> QED
    BY <2>7, <2>8, <2>9, <2>12, <2>13, Zenon DEF BootInfoTrue
<1> QED
  BY <1>1, <1>2, StepKeepsInfo, PTL DEF Spec

=============================================================================
