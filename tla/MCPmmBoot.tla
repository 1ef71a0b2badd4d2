----------------------------- MODULE MCPmmBoot -----------------------------
(***************************************************************************)
(* Machines of at most 24 pages of two bytes, with a bitmap byte of two    *)
(* bits, so that a bitmap page holds four.  Region ends, kernel, multiboot *)
(* data and modules fall on page boundaries and between them.              *)
(***************************************************************************)
EXTENDS PmmBoot

Area(start, end) == [start |-> start, end |-> end]
Tag(type, start, end) == [type |-> type, start |-> start, end |-> end]

\* Low memory, a BIOS hole, the memory the kernel is in, a device hole, and
\* perhaps more memory above it, not in order.
Maps ==
  {<<Tag("AVAILABLE", 0, 3), Tag("RESERVED", 3, 5),
     Tag("AVAILABLE", 5, a), Tag("RESERVED", a, a + 3)>> \o high :
     a \in 25 .. 32,
     high \in {<<>>, <<Tag("AVAILABLE", 37, 43), Tag("AVAILABLE", 35, 36)>>}}

Loaded == {<<>>, <<Tag("MODULE", 12, 15)>>, <<Tag("MODULE", 20, 23)>>,
           <<Tag("MODULE", 14, 15), Tag("MODULE", 12, 13)>>}

Multibooted ==
  {[tags |-> mods \o map, kernel |-> Area(6, 9), mb2 |-> mb2] :
     map \in Maps, mods \in Loaded,
     mb2 \in {Area(1, 3), Area(10, 12), Area(15, 18), Area(38, 40)}}

\* What get_bitmap_location will find, said in one go.
Greatest(S) == CHOOSE x \in S : \A y \in S : y <= x
Ends(m, type) == {t.end : t \in {m.tags[k] : k \in {j \in 1 .. Len(m.tags) : m.tags[j].type = type}}}
highest_available_addr(m) == Greatest({0} \cup Ends(m, "AVAILABLE"))
highest_reserved_addr(m)  == Greatest({m.kernel.end, m.mb2.end} \cup Ends(m, "MODULE"))

\* The two kinds of machine that init_pmm does not cope with: one whose
\* bitmap it makes too small, one where what follows the boot data is not RAM.
NeedsMoreBits(m) ==
  LET pages == addr_to_idx(highest_available_addr(m))
  IN  bitmap_size_bytes(pages) * BYTE_BITS < pages

\* Where the bitmap goes, one AVAILABLE region holds it.
BitmapStart(m) == align_up(highest_reserved_addr(m))
BitmapEnd(m)   ==
  BitmapStart(m) + bitmap_size_bytes(addr_to_idx(highest_available_addr(m)))
BitmapInRAM(m) ==
  \E k \in 1 .. Len(m.tags) :
    /\ m.tags[k].type = "AVAILABLE"
    /\ m.tags[k].start <= BitmapStart(m)
    /\ BitmapEnd(m) <= m.tags[k].end

\* init_pmm refuses these with a panic.
Refused(m) == m.mb2.start >= ONE_GIB \/ BitmapEnd(m) > ONE_GIB

MCMachines ==
  {m \in Multibooted : Refused(m) \/ (~NeedsMoreBits(m) /\ BitmapInRAM(m))}

\* ... and with the first of the two kinds included.
MCAnySize == {m \in Multibooted : Refused(m) \/ BitmapInRAM(m)}
=============================================================================
