------------------------------ MODULE PmmBoot ------------------------------
(***************************************************************************)
(* How init_pmm of kernel/mm/pmm.c turns the tags of multiboot2 into the   *)
(* bitmap that PMM starts from: a pass over the tags places the bitmap     *)
(* behind everything that GRUB loaded; every bit is set; a second pass     *)
(* clears the bits of AVAILABLE memory; and then those of what must not be *)
(* handed out are set again.                                               *)
(*                                                                         *)
(* Addresses are bytes.  A byte of the bitmap has BYTE_BITS bits, 8 in the *)
(* code; LOW_END is its 1 MiB.  A tag is a module, or an entry of the      *)
(* memory map (the loop over a map's entries is part of the loop over the  *)
(* tags); those that init_pmm only prints or passes over are left out.     *)
(***************************************************************************)
EXTENDS Integers, Sequences

CONSTANTS PAGE_SIZE, BYTE_BITS, ONE_GIB, LOW_END,
          Machines     \* what GRUB may leave: kernel, mb2, tags

TagTypes == {"AVAILABLE", "RESERVED", "MODULE"}

\* Kernel, multiboot data and modules are not empty.
ASSUME PmmBootAssumption ==
  /\ {PAGE_SIZE, BYTE_BITS, LOW_END, ONE_GIB} \subseteq Nat \ {0}
  /\ \A m \in Machines :
       /\ m.tags \in Seq([type : TagTypes, start : Nat, end : Nat])
       /\ \A k \in 1 .. Len(m.tags) :
            /\ m.tags[k].start <= m.tags[k].end
            /\ m.tags[k].type = "MODULE" => m.tags[k].start < m.tags[k].end
       /\ m.kernel \in [start : Nat, end : Nat] /\ m.kernel.start < m.kernel.end
       /\ m.mb2 \in [start : Nat, end : Nat] /\ m.mb2.start < m.mb2.end

VARIABLES
  machine,       \* the machine that boots
  total_mem,     \* the end of the highest AVAILABLE region
  bmp_phys,      \* where the bitmap is; while it is looked for, highest_reserved_addr
  bitmap_size,   \* its bytes
  bmp,           \* the indexes whose bit is 1, from bmp_phys on
  panic,
  pc, i          \* the phase of init_pmm, and its loop counter

placement == <<machine, total_mem, bmp_phys, bitmap_size>>
vars      == <<placement, bmp, panic, pc, i>>

align_down(x) == x - (x % PAGE_SIZE)
align_up(x)   == align_down(x + PAGE_SIZE - 1)
addr_to_idx(a) == a \div PAGE_SIZE

max_pages == addr_to_idx(total_mem)
NumBits   == bitmap_size * BYTE_BITS

Tags == machine.tags
Available == {k \in 1 .. Len(Tags) : Tags[k].type = "AVAILABLE"}
Modules   == {k \in 1 .. Len(Tags) : Tags[k].type = "MODULE"}

\* Mutants: a region's partial pages are free, too; the page behind, or the one
\* before, is used as well.
FreeRegionBitsOutward(start, length) ==
  addr_to_idx(align_down(start)) .. (addr_to_idx(align_up(start + length)) - 1)
UsedRegionBitsBeyond(start, length) ==
  addr_to_idx(align_down(start)) .. addr_to_idx(align_up(start + length))
UsedRegionBitsBefore(start, length) ==
  (addr_to_idx(align_down(start)) - 1) .. (addr_to_idx(align_up(start + length)) - 1)

\* The pages from first to last, wholly inside (free) or touched (used).
FreeRegionBits(start, length) ==
  addr_to_idx(align_up(start)) .. (addr_to_idx(align_down(start + length)) - 1)
UsedRegionBits(start, length) ==
  addr_to_idx(align_down(start)) .. (addr_to_idx(align_up(start + length)) - 1)

pmm_mark_free_region(start, length) == bmp' = bmp \ FreeRegionBits(start, length)
pmm_mark_used_region(start, length) == bmp' = bmp \cup UsedRegionBits(start, length)

\* bitmap_size_bytes in init_pmm: whole bytes of bits first, then whole pages.
bitmap_size_bytes(pages) == align_up(pages \div BYTE_BITS)

-----------------------------------------------------------------------------
Goto(p) == pc' = p /\ i' = 1
Stop(why) ==
  /\ panic' = why
  /\ UNCHANGED <<placement, bmp, pc, i>>

\* The content of the memory that will hold the bitmap, and of what lies
\* behind it, is unknown.
Init ==
  /\ machine \in Machines
  /\ total_mem = 0 /\ bmp_phys = 0 /\ bitmap_size = 0
  /\ bmp \in {{}, 0 .. (2 * addr_to_idx(ONE_GIB))}
  /\ panic = "no"
  /\ pc = "locate" /\ i = 1

Larger(x, y) == IF x > y THEN x ELSE y

\* get_bitmap_location, before its loop.
Locate ==
  /\ pc = "locate"
  /\ \/ /\ machine.mb2.start >= ONE_GIB
        /\ Stop("grub_data_too_high")
     \/ /\ machine.mb2.start < ONE_GIB
        /\ bmp_phys' = Larger(machine.mb2.end, machine.kernel.end)
        /\ Goto("scan")
        /\ UNCHANGED <<machine, total_mem, bitmap_size, bmp, panic>>

Scanned ==
  /\ pc = "scan" /\ i <= Len(Tags)
  /\ i' = i + 1
  /\ UNCHANGED <<machine, bitmap_size, bmp, panic, pc>>

\* Mutant: modules are passed over.
ScanModuleSkips ==
  /\ Scanned
  /\ Tags[i].type = "MODULE"
  /\ UNCHANGED <<total_mem, bmp_phys>>

ScanModule ==
  /\ Scanned
  /\ Tags[i].type = "MODULE"
  /\ bmp_phys' = Larger(Tags[i].end, bmp_phys)
  /\ UNCHANGED total_mem

\* Mutant: the start of a region counts instead of its end.
ScanRegionStart ==
  /\ Scanned
  /\ Tags[i].type = "AVAILABLE"
  /\ total_mem' = Larger(Tags[i].start, total_mem)
  /\ UNCHANGED bmp_phys

ScanRegion ==
  /\ Scanned
  /\ Tags[i].type = "AVAILABLE"
  /\ total_mem' = Larger(Tags[i].end, total_mem)
  /\ UNCHANGED bmp_phys

ScanOther ==
  /\ Scanned
  /\ Tags[i].type = "RESERVED"
  /\ UNCHANGED <<total_mem, bmp_phys>>

\* init_pmm aligns what was found and sizes the bitmap.
PlaceBitmap ==
  /\ pc = "scan" /\ i > Len(Tags)
  /\ LET at    == align_up(bmp_phys)
         bytes == bitmap_size_bytes(max_pages)
     IN \/ at + bytes > ONE_GIB /\ Stop("bitmap_too_high")
        \/ /\ at + bytes <= ONE_GIB
           /\ bmp_phys' = at
           /\ bitmap_size' = bytes
           /\ Goto("deny")
           /\ UNCHANGED <<machine, total_mem, bmp, panic>>

\* Mutant: only the bits of pages are set, not the padding behind them.
DenyByDefaultPagesOnly ==
  /\ pc = "deny"
  /\ bmp' = bmp \cup 0 .. (max_pages - 1)
  /\ Goto("free")
  /\ UNCHANGED <<placement, panic>>

DenyByDefault ==
  /\ pc = "deny"
  /\ bmp' = bmp \cup 0 .. (NumBits - 1)
  /\ Goto("free")
  /\ UNCHANGED <<placement, panic>>

FreeRegion ==
  /\ pc = "free" /\ i <= Len(Tags)
  /\ \/ /\ i \in Available
        /\ pmm_mark_free_region(Tags[i].start, Tags[i].end - Tags[i].start)
     \/ /\ i \notin Available
        /\ UNCHANGED bmp
  /\ i' = i + 1
  /\ UNCHANGED <<placement, panic, pc>>

FreeDone ==
  /\ pc = "free" /\ i > Len(Tags)
  /\ Goto("low")
  /\ UNCHANGED <<placement, bmp, panic>>

Reserve(phase, start, length, next) ==
  /\ pc = phase
  /\ pmm_mark_used_region(start, length)
  /\ Goto(next)
  /\ UNCHANGED <<placement, panic>>

ReserveLow    == Reserve("low", 0, LOW_END, "kernel")
ReserveKernel == Reserve("kernel", machine.kernel.start,
                         machine.kernel.end - machine.kernel.start, "mb2")
ReserveMb2    == Reserve("mb2", machine.mb2.start,
                         machine.mb2.end - machine.mb2.start, "modules")

ReserveModule ==
  /\ pc = "modules" /\ i <= Len(Tags)
  /\ \/ /\ i \in Modules
        /\ pmm_mark_used_region(Tags[i].start, Tags[i].end - Tags[i].start)
     \/ /\ i \notin Modules
        /\ UNCHANGED bmp
  /\ i' = i + 1
  /\ UNCHANGED <<placement, panic, pc>>

ModulesDone ==
  /\ pc = "modules" /\ i > Len(Tags)
  /\ Goto("bitmap")
  /\ UNCHANGED <<placement, bmp, panic>>

ReserveBitmap == Reserve("bitmap", bmp_phys, bitmap_size, "done")

\* init_pmm has returned, or panic() has halted the machine.
Finished ==
  /\ pc = "done" \/ panic # "no"
  /\ UNCHANGED vars

Boot ==
  /\ panic = "no"
  /\ \/ Locate \/ ScanModule \/ ScanRegion \/ ScanOther \/ PlaceBitmap
     \/ DenyByDefault \/ FreeRegion \/ FreeDone
     \/ ReserveLow \/ ReserveKernel \/ ReserveMb2
     \/ ReserveModule \/ ModulesDone \/ ReserveBitmap

Next == Boot \/ Finished

Spec == Init /\ [][Next]_vars

-----------------------------------------------------------------------------
Frames     == 0 .. (max_pages - 1)
FreeFrames == Frames \ bmp
Bytes(f)   == (f * PAGE_SIZE) .. (f * PAGE_SIZE + PAGE_SIZE - 1)

ByteRange(start, end) == start .. (end - 1)

ReservedBytes ==
  ByteRange(0, LOW_END)
    \cup ByteRange(machine.kernel.start, machine.kernel.end)
    \cup ByteRange(machine.mb2.start, machine.mb2.end)
    \cup ByteRange(bmp_phys, bmp_phys + bitmap_size)
    \cup UNION {ByteRange(Tags[k].start, Tags[k].end) : k \in Modules}

\* f is RAM if one AVAILABLE region holds the whole of it.
IsRAM(f) ==
  \E k \in Available : Bytes(f) \subseteq ByteRange(Tags[k].start, Tags[k].end)

TypeOK ==
  /\ machine \in Machines
  /\ total_mem \in Nat /\ bmp_phys \in Nat /\ bitmap_size \in Nat
  /\ bmp \subseteq Nat
  /\ panic \in {"no", "grub_data_too_high", "bitmap_too_high"}
  /\ pc \in {"locate", "scan", "deny", "free", "low", "kernel", "mb2", "modules",
             "bitmap", "done"}
  /\ i \in Nat \ {0}

\* What init_pmm hands over has the shape that PMM assumes: the bitmap covers
\* all frames, the bits behind the last frame are set, and so is frame 0's.
HandsOverASoundBitmap ==
  pc = "done" =>
    /\ max_pages <= NumBits
    /\ (0 .. (NumBits - 1)) \ Frames \subseteq bmp
    /\ 0 \in bmp

\* No free frame touches the first MiB, the kernel, the multiboot data, a
\* module or the bitmap, nor any byte that is not RAM, however the regions are
\* aligned and whichever of them share a page.
FreeFramesAreSafe ==
  pc = "done" =>
    \A f \in FreeFrames : IsRAM(f) /\ Bytes(f) \cap ReservedBytes = {}

\* ... and every other frame of RAM is free: init_pmm loses none.
NoUsableFrameLost ==
  pc = "done" =>
    \A f \in Frames :
      IsRAM(f) /\ Bytes(f) \cap ReservedBytes = {} => f \in FreeFrames

\* The bitmap overlaps nothing that GRUB loaded, and can be reached through
\* the identity map of boot.asm.
BitmapPlacedClear ==
  pc \notin {"locate", "scan"} =>
    /\ bmp_phys % PAGE_SIZE = 0
    /\ bmp_phys + bitmap_size <= ONE_GIB
    /\ bmp_phys >= machine.kernel.end /\ bmp_phys >= machine.mb2.end
    /\ \A k \in Modules : bmp_phys >= Tags[k].end

\* No phase writes a bit behind the end of the bitmap, into memory that is
\* somebody else's.
WritesStayInBitmap ==
  [][\A b \in (bmp \ bmp') \cup (bmp' \ bmp) : b < NumBits]_vars

\* The bitmap has one bit per page, as init_pmm's comment says.
OneBitPerPage == pc \notin {"locate", "scan"} => max_pages <= NumBits
=============================================================================
