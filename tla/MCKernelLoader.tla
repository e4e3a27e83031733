--------------------------- MODULE MCKernelLoader ---------------------------
(***************************************************************************)
(* Small kernel files for KernelLoader: two segments that are adjacent in  *)
(* the file and hence may share a frame of it, the second writable, each   *)
(* possibly with .bss; up to two relocations; a RELRO header; and files    *)
(* that are malformed in one way each.                                     *)
(***************************************************************************)
EXTENDS KernelLoader

Header(type, offset, vaddr, file_size, mem_size, write, execute) ==
  [type |-> type, offset |-> offset, vaddr |-> vaddr, file_size |-> file_size,
   mem_size |-> mem_size, write |-> write, execute |-> execute]

NoTags == [rela |-> 0, size |-> 0, ent |-> 0, ent_size |-> 0]

AllTags == [rela |-> 1, size |-> 1, ent |-> 1, ent_size |-> RelaSize]

\* the first address after `end` on a fresh page with the offset of `offset`
Behind(end, offset) == (PageOf(end - 1) + 1) * PageSize + OffsetOf(offset)

Code(size, bss) == Header("Load", 0, 0, size, size + bss, FALSE, TRUE)

Data(code, size, bss) ==
  Header("Load", code.file_size, Behind(code.mem_size, code.file_size), size, size + bss, TRUE, FALSE)

Relro(data, size) ==
  Header("GnuRelro", data.offset, data.vaddr, size, size, FALSE, FALSE)

KernelOf(base, headers, len, relocations, tags) ==
  [aligned |-> TRUE, base |-> base, headers |-> headers, len |-> len,
   relocations |-> relocations, rela |-> 0, rela_offset |-> 0, tags |-> tags]

\* a relative relocation, without a symbol
Rela(target, addend) == [target |-> target, addend |-> addend, relative |-> TRUE]

\* segments in all small sizes, without relocations
Plain ==
  UNION {{KernelOf(base, <<c, Data(c, size, bss), Relro(Data(c, size, bss), relro)>>,
                   c.file_size + size, << >>, NoTags) :
            base \in {0, 4}, size \in 0..3, bss \in 0..3, relro \in {1, 3}} :
         c \in {Code(s, b) : s \in 1..4, b \in 0..3}}

\* relocations with targets anywhere near the segments, the table at address 0
Relocated ==
  UNION {UNION {{KernelOf(4, <<c, d>>, c.file_size + d.file_size, r, AllTags) :
                   r \in {<<Rela(t, 1), Rela(u, 2)>> :
                            t, u \in 0..(d.vaddr + d.mem_size)}} :
                d \in {Data(c, s, b) : s \in {1, 2}, b \in {0, 2}}} :
         c \in {Code(s, b) : s \in {4, 5}, b \in {1, 2}}}

\* one flaw each
Tls == Header("Tls", 0, 0, 1, 1, FALSE, FALSE)

Malformed ==
  LET c == Code(3, 2)
      d == Data(c, 2, 3)
      good == KernelOf(0, <<c, Tls, d>>, 5, << >>, NoTags)
  IN {good,
      [good EXCEPT !.aligned = FALSE],
      [good EXCEPT !.headers = <<Tls, c, Tls>>],
      [good EXCEPT !.headers = <<c, [d EXCEPT !.vaddr = 2]>>],
      [good EXCEPT !.headers = <<c, [d EXCEPT !.vaddr = 4, !.file_size = 0]>>],
      [good EXCEPT !.headers = <<d, [c EXCEPT !.mem_size = 8]>>],
      [good EXCEPT !.headers = <<c, [d EXCEPT !.vaddr = 7, !.offset = 0, !.mem_size = 2]>>],
      [good EXCEPT !.headers = <<c, [d EXCEPT !.type = "GnuRelro"]>>],
      [good EXCEPT !.tags = [AllTags EXCEPT !.ent = 0]],
      [good EXCEPT !.tags = [AllTags EXCEPT !.ent_size = RelaSize + 1]],
      [good EXCEPT !.tags = [NoTags EXCEPT !.size = 1]],
      [good EXCEPT !.tags = AllTags, !.rela = 40, !.relocations = <<Rela(2, 0)>>],
      [good EXCEPT !.tags = AllTags,
                   !.relocations = <<[Rela(2, 0) EXCEPT !.relative = FALSE]>>]}

Files == Plain \cup Relocated \cup Malformed

=============================================================================
