--------------------------- MODULE PmmBootProofs ---------------------------
(***************************************************************************)
(* init_pmm hands over the right bitmap on every machine, whatever its     *)
(* memory map, modules and page size are.                                  *)
(***************************************************************************)
EXTENDS PmmBoot, TLAPS

-----------------------------------------------------------------------------
(* Pages and addresses. *)

\* A whole page lies below a just when its number is below the page of a.
LEMMA PagesBelow ==
  ASSUME NEW a \in Nat, NEW f \in Nat
  PROVE  /\ addr_to_idx(a) \in Nat
         /\ f < addr_to_idx(a) <=> f * PAGE_SIZE + PAGE_SIZE <= a
<1> DEFINE P == PAGE_SIZE
           q == a \div P
<1>1. P \in Nat \ {0}
  BY PmmBootAssumption
<1> HIDE DEF P
<1>2. q \in Nat /\ P * q <= a /\ a < P * q + P
  BY <1>1
<1> HIDE DEF q
<1>3. f < q => f * P + P <= a
  <2>1. \A x, y, w \in Nat : x <= y => w * x <= w * y
    OBVIOUS
  <2>2. f < q => P * (f + 1) <= P * q
    BY <1>1, <1>2, <2>1
  <2>3. P * (f + 1) = f * P + P /\ f * P \in Nat /\ P * q \in Nat
    BY <1>1, <1>2
  <2>4. QED
    BY <1>1, <1>2, <2>2, <2>3
<1>4. f >= q => a < f * P + P
  <2>1. \A x, y, w \in Nat : x <= y => w * x <= w * y
    OBVIOUS
  <2>2. f >= q => P * q <= P * f
    BY <1>1, <1>2, <2>1
  <2>3. P * f = f * P /\ f * P \in Nat /\ P * q \in Nat
    BY <1>1, <1>2
  <2>4. QED
    BY <1>1, <1>2, <2>2, <2>3
<1>5. f * P \in Nat
  BY <1>1
<1>6. QED
  BY <1>1, <1>2, <1>3, <1>4, <1>5 DEF addr_to_idx, q, P

\* The page numbers of an address rounded down and up.
LEMMA Rounding ==
  ASSUME NEW a \in Nat
  PROVE  /\ align_down(a) \in Nat /\ align_up(a) \in Nat
         /\ align_down(a) <= a /\ a <= align_up(a)
         /\ align_up(a) % PAGE_SIZE = 0
         /\ addr_to_idx(align_down(a)) = addr_to_idx(a)
         /\ addr_to_idx(align_up(a)) = addr_to_idx(a + PAGE_SIZE - 1)
<1> DEFINE P == PAGE_SIZE
<1>1. P \in Nat \ {0}
  BY PmmBootAssumption
<1> HIDE DEF P
<1>2. ASSUME NEW b \in Nat
      PROVE  /\ b - (b % P) \in Nat
             /\ b - P < b - (b % P) /\ b - (b % P) <= b
             /\ (b - (b % P)) \div P = b \div P
             /\ (b - (b % P)) % P = 0
  <2>1. b \div P \in Nat /\ b % P \in 0 .. P - 1 /\ b = P * (b \div P) + (b % P)
    BY <1>1
  <2> DEFINE q == b \div P
  <2>2. q \in Nat /\ b - (b % P) = P * q
    BY <1>1, <2>1
  <2> HIDE DEF q
  <2>3. P * q \in Nat /\ (P * q) \div P = q /\ (P * q) % P = 0
    BY <1>1, <2>2
  <2>4. QED
    BY <1>1, <2>1, <2>2, <2>3 DEF q
<1>3. a + P - 1 \in Nat
  BY <1>1
<1>4. align_down(a) = a - (a % P) /\ align_up(a) = (a + P - 1) - ((a + P - 1) % P)
  BY DEF align_down, align_up, P
<1> DEFINE b == a + P - 1
<1>5. b \in Nat /\ b = a + P - 1
  BY <1>3
<1> HIDE DEF b
<1>6. /\ b - (b % P) \in Nat /\ b - P < b - (b % P)
      /\ (b - (b % P)) \div P = b \div P
      /\ (b - (b % P)) % P = 0
  BY <1>2, <1>5
<1>7. align_up(a) = b - (b % P)
  BY <1>4 DEF b
<1>8. align_up(a) \in Nat /\ a <= align_up(a) /\ align_up(a) % P = 0
  BY <1>1, <1>5, <1>6, <1>7
<1>9. align_up(a) \div P = (a + P - 1) \div P
  BY <1>5, <1>6, <1>7
<1>10. align_down(a) \in Nat /\ align_down(a) <= a /\ align_down(a) \div P = a \div P
  BY <1>2, <1>4
<1>11. QED
  BY <1>8, <1>9, <1>10 DEF addr_to_idx, P

\* pmm_mark_free_region rounds inward: it clears the bits of whole pages.
LEMMA FreeBits ==
  ASSUME NEW a \in Nat, NEW length \in Nat, NEW f \in Nat
  PROVE  f \in FreeRegionBits(a, length)
           <=> a <= f * PAGE_SIZE /\ f * PAGE_SIZE + PAGE_SIZE <= a + length
<1>1. PAGE_SIZE \in Nat \ {0}
  BY PmmBootAssumption
<1>2. a + PAGE_SIZE - 1 \in Nat /\ a + length \in Nat /\ f * PAGE_SIZE \in Nat
  BY <1>1
<1>3. /\ addr_to_idx(align_up(a)) = addr_to_idx(a + PAGE_SIZE - 1)
      /\ addr_to_idx(align_down(a + length)) = addr_to_idx(a + length)
  BY <1>2, Rounding
<1>4. /\ addr_to_idx(a + PAGE_SIZE - 1) \in Nat
      /\ f < addr_to_idx(a + PAGE_SIZE - 1)
           <=> f * PAGE_SIZE + PAGE_SIZE <= a + PAGE_SIZE - 1
  BY <1>2, PagesBelow
<1>5. /\ addr_to_idx(a + length) \in Nat
      /\ f < addr_to_idx(a + length) <=> f * PAGE_SIZE + PAGE_SIZE <= a + length
  BY <1>2, PagesBelow
<1>6. QED
  BY <1>1, <1>2, <1>3, <1>4, <1>5 DEF FreeRegionBits

\* pmm_mark_used_region rounds outward: it sets the bits of all pages it touches.
LEMMA UsedBits ==
  ASSUME NEW a \in Nat, NEW length \in Nat, NEW f \in Nat
  PROVE  f \in UsedRegionBits(a, length)
           <=> a < f * PAGE_SIZE + PAGE_SIZE /\ f * PAGE_SIZE < a + length
<1>1. PAGE_SIZE \in Nat \ {0}
  BY PmmBootAssumption
<1>2. a + length \in Nat /\ a + length + PAGE_SIZE - 1 \in Nat /\ f * PAGE_SIZE \in Nat
  BY <1>1
<1>3. /\ addr_to_idx(align_down(a)) = addr_to_idx(a)
      /\ addr_to_idx(align_up(a + length)) = addr_to_idx(a + length + PAGE_SIZE - 1)
  BY <1>2, Rounding
<1>4. /\ addr_to_idx(a) \in Nat
      /\ f < addr_to_idx(a) <=> f * PAGE_SIZE + PAGE_SIZE <= a
  BY PagesBelow
<1>5. /\ addr_to_idx(a + length + PAGE_SIZE - 1) \in Nat
      /\ f < addr_to_idx(a + length + PAGE_SIZE - 1)
           <=> f * PAGE_SIZE + PAGE_SIZE <= a + length + PAGE_SIZE - 1
  BY <1>2, PagesBelow
<1>6. QED
  BY <1>1, <1>2, <1>3, <1>4, <1>5 DEF UsedRegionBits

\* Both loops touch bits with numbers only.
LEMMA BitsAreNumbers ==
  ASSUME NEW a \in Nat, NEW length \in Nat
  PROVE  FreeRegionBits(a, length) \subseteq Nat /\ UsedRegionBits(a, length) \subseteq Nat
<1>1. PAGE_SIZE \in Nat \ {0} /\ a + length \in Nat
  BY PmmBootAssumption
<1>2. align_up(a) \in Nat /\ align_down(a) \in Nat
  BY Rounding
<1>3. addr_to_idx(align_up(a)) \in Nat /\ addr_to_idx(align_down(a)) \in Nat
  <2>1. \A x \in Nat : addr_to_idx(x) \in Nat
    BY <1>1 DEF addr_to_idx
  <2>2. QED
    BY <1>2, <2>1
<1>4. QED
  BY <1>3 DEF FreeRegionBits, UsedRegionBits

\* The same in terms of bytes.
LEMMA WholePage ==
  ASSUME NEW a \in Nat, NEW b \in Nat, NEW f \in Nat
  PROVE  Bytes(f) \subseteq ByteRange(a, b)
           <=> a <= f * PAGE_SIZE /\ f * PAGE_SIZE + PAGE_SIZE <= b
<1> DEFINE s == f * PAGE_SIZE
<1>1. PAGE_SIZE \in Nat \ {0} /\ s \in Nat
  BY PmmBootAssumption
<1> HIDE DEF s
<1>2. s \in s .. (s + PAGE_SIZE - 1) /\ s + PAGE_SIZE - 1 \in s .. (s + PAGE_SIZE - 1)
  BY <1>1
<1>3. s .. (s + PAGE_SIZE - 1) \subseteq a .. (b - 1) => a <= s /\ s + PAGE_SIZE <= b
  BY <1>1, <1>2
<1>4. a <= s /\ s + PAGE_SIZE <= b => s .. (s + PAGE_SIZE - 1) \subseteq a .. (b - 1)
  BY <1>1
<1>5. QED
  BY <1>3, <1>4 DEF Bytes, ByteRange, s

LEMMA TouchedPage ==
  ASSUME NEW a \in Nat, NEW b \in Nat, a < b, NEW f \in Nat
  PROVE  Bytes(f) \cap ByteRange(a, b) # {}
           <=> a < f * PAGE_SIZE + PAGE_SIZE /\ f * PAGE_SIZE < b
<1> DEFINE s == f * PAGE_SIZE
<1>1. PAGE_SIZE \in Nat \ {0} /\ s \in Nat
  BY PmmBootAssumption
<1> HIDE DEF s
<1> DEFINE common == s .. (s + PAGE_SIZE - 1) \cap a .. (b - 1)
<1>2. common # {} => a < s + PAGE_SIZE /\ s < b
  BY <1>1
<1>3. a < s + PAGE_SIZE /\ s < b => a \in common \/ s \in common
  BY <1>1
<1>4. QED
  BY <1>2, <1>3 DEF Bytes, ByteRange, s

-----------------------------------------------------------------------------
(* The invariant. *)

RegionBits(k) == FreeRegionBits(Tags[k].start, Tags[k].end - Tags[k].start)

LowBits       == UsedRegionBits(0, LOW_END)
KernelBits    == UsedRegionBits(machine.kernel.start, machine.kernel.end - machine.kernel.start)
Mb2Bits       == UsedRegionBits(machine.mb2.start, machine.mb2.end - machine.mb2.start)
ModuleBits(k) == UsedRegionBits(Tags[k].start, Tags[k].end - Tags[k].start)
BitmapBits    == UsedRegionBits(bmp_phys, bitmap_size)

ReservedBits ==
  LowBits \cup KernelBits \cup Mb2Bits \cup BitmapBits \cup UNION {ModuleBits(k) : k \in Modules}

Placed == pc \notin {"locate", "scan"}
Denied == Placed /\ pc # "deny"

\* The pass that places the bitmap has seen the tags before i.
PlaceInv ==
  /\ pc = "scan" =>
       /\ machine.kernel.end <= bmp_phys /\ machine.mb2.end <= bmp_phys
       /\ \A k \in Modules : k < i => Tags[k].end <= bmp_phys
       /\ \A k \in Available : k < i => Tags[k].end <= total_mem
  /\ Placed => \A k \in Available : Tags[k].end <= total_mem
  /\ BitmapPlacedClear

\* A frame can only become free as part of a region, and padding never does.
FreeInv ==
  /\ Denied => 0 .. (NumBits - 1) \ Frames \subseteq bmp
  /\ Denied /\ OneBitPerPage => \A f \in FreeFrames : \E k \in Available : f \in RegionBits(k)

\* What has been reserved so far stays reserved.
KeptInv ==
  /\ pc \in {"kernel", "mb2", "modules", "bitmap", "done"} => LowBits \subseteq bmp
  /\ pc \in {"mb2", "modules", "bitmap", "done"} => KernelBits \subseteq bmp
  /\ pc \in {"modules", "bitmap", "done"} => Mb2Bits \subseteq bmp
  /\ \A k \in Modules :
       (pc \in {"bitmap", "done"} \/ (pc = "modules" /\ k < i)) => ModuleBits(k) \subseteq bmp
  /\ pc = "done" => BitmapBits \subseteq bmp

\* What a region has freed is taken away again by a reservation only.
LostInv ==
  /\ pc = "free" => \A k \in Available : k < i => RegionBits(k) \cap bmp = {}
  /\ Denied /\ pc # "free" =>
       \A k \in Available : RegionBits(k) \cap bmp \subseteq ReservedBits

Inv == TypeOK /\ PlaceInv /\ FreeInv /\ KeptInv /\ LostInv

LEMMA MachineShape ==
  ASSUME machine \in Machines
  PROVE  /\ Tags \in Seq([type : TagTypes, start : Nat, end : Nat])
         /\ Len(Tags) \in Nat
         /\ \A k \in 1 .. Len(Tags) :
              /\ Tags[k].type \in TagTypes /\ Tags[k].start \in Nat /\ Tags[k].end \in Nat
              /\ Tags[k].end - Tags[k].start \in Nat
              /\ Tags[k].type = "MODULE" => Tags[k].start < Tags[k].end
         /\ machine.kernel.start \in Nat /\ machine.kernel.end \in Nat
         /\ machine.kernel.end - machine.kernel.start \in Nat \ {0}
         /\ machine.mb2.start \in Nat /\ machine.mb2.end \in Nat
         /\ machine.mb2.end - machine.mb2.start \in Nat \ {0}
<1> DEFINE TagSet == [type : TagTypes, start : Nat, end : Nat]
<1>1. Tags \in Seq(TagSet)
  BY PmmBootAssumption DEF Tags
<1>2. Len(Tags) \in Nat /\ \A k \in 1 .. Len(Tags) : Tags[k] \in TagSet
  <2> HIDE DEF TagSet
  <2>1. QED
    BY <1>1
<1>3. \A k \in 1 .. Len(Tags) :
        /\ Tags[k].start <= Tags[k].end
        /\ Tags[k].type = "MODULE" => Tags[k].start < Tags[k].end
  BY PmmBootAssumption DEF Tags
<1>4. \A k \in 1 .. Len(Tags) :
        /\ Tags[k].type \in TagTypes /\ Tags[k].start \in Nat /\ Tags[k].end \in Nat
        /\ Tags[k].end - Tags[k].start \in Nat
  <2>1. SUFFICES ASSUME NEW k \in 1 .. Len(Tags)
                 PROVE  /\ Tags[k].type \in TagTypes /\ Tags[k].start \in Nat /\ Tags[k].end \in Nat
                        /\ Tags[k].end - Tags[k].start \in Nat
    OBVIOUS
  <2>2. Tags[k] \in TagSet /\ Tags[k].start <= Tags[k].end
    BY <1>2, <1>3
  <2>3. QED
    BY <2>2
<1>5. /\ machine.kernel \in [start : Nat, end : Nat] /\ machine.kernel.start < machine.kernel.end
      /\ machine.mb2 \in [start : Nat, end : Nat] /\ machine.mb2.start < machine.mb2.end
  BY PmmBootAssumption
<1>6. /\ machine.kernel.start \in Nat /\ machine.kernel.end \in Nat
      /\ machine.kernel.end - machine.kernel.start \in Nat \ {0}
      /\ machine.mb2.start \in Nat /\ machine.mb2.end \in Nat
      /\ machine.mb2.end - machine.mb2.start \in Nat \ {0}
  BY <1>5
<1>7. QED
  BY <1>1, <1>2, <1>3, <1>4, <1>6

\* Every frame that lies in an AVAILABLE region is below max_pages.
LEMMA RegionsAreFrames ==
  ASSUME TypeOK, NEW k \in Available, Tags[k].end <= total_mem
  PROVE  RegionBits(k) \subseteq Frames
<1>1. /\ Tags[k].start \in Nat /\ Tags[k].end \in Nat /\ total_mem \in Nat
      /\ Tags[k].end - Tags[k].start \in Nat
  BY MachineShape DEF Available, TypeOK
<1>2. SUFFICES ASSUME NEW f \in RegionBits(k) PROVE f \in Frames
  OBVIOUS
<1>3. f \in Nat
  BY <1>1, BitsAreNumbers DEF RegionBits
<1>4. f * PAGE_SIZE + PAGE_SIZE <= Tags[k].start + (Tags[k].end - Tags[k].start)
  BY <1>1, <1>3, FreeBits DEF RegionBits
<1>5. PAGE_SIZE \in Nat /\ f * PAGE_SIZE \in Nat
  BY <1>3, PmmBootAssumption
<1>6. f * PAGE_SIZE + PAGE_SIZE <= total_mem
  BY <1>1, <1>4, <1>5
<1>7. f < max_pages /\ max_pages \in Nat
  BY <1>1, <1>3, <1>6, PagesBelow DEF max_pages
<1>8. QED
  BY <1>3, <1>7 DEF Frames

-----------------------------------------------------------------------------
(* Types and the place of the bitmap. *)

\* The phases after PlaceBitmap leave the placement alone.
Marking ==
  \/ DenyByDefault \/ FreeRegion \/ FreeDone
  \/ ReserveLow \/ ReserveKernel \/ ReserveMb2
  \/ ReserveModule \/ ModulesDone \/ ReserveBitmap

LEMMA InitInv == Init => Inv
<1> SUFFICES ASSUME Init PROVE Inv
  OBVIOUS
<1>1. addr_to_idx(ONE_GIB) \in Int
  BY PmmBootAssumption DEF addr_to_idx
<1>2. TypeOK
  BY <1>1 DEF Init, TypeOK
<1>3. QED
  BY <1>2 DEF Init, Inv, PlaceInv, FreeInv, KeptInv, LostInv, Placed, Denied,
              BitmapPlacedClear

LEMMA TypeStep == TypeOK /\ Boot => TypeOK'
<1> SUFFICES ASSUME TypeOK, Boot PROVE TypeOK'
  OBVIOUS
<1> USE DEF TypeOK, placement
<1>0. machine \in Machines
  OBVIOUS
<1> DEFINE Shape ==
      /\ \A k \in 1 .. Len(Tags) : /\ Tags[k].start \in Nat /\ Tags[k].end \in Nat
                                   /\ Tags[k].end - Tags[k].start \in Nat
      /\ machine.kernel.start \in Nat /\ machine.kernel.end \in Nat
      /\ machine.kernel.end - machine.kernel.start \in Nat
      /\ machine.mb2.start \in Nat /\ machine.mb2.end \in Nat
      /\ machine.mb2.end - machine.mb2.start \in Nat
      /\ Len(Tags) \in Nat
<1>s. Shape
  BY <1>0, MachineShape
<1>1. CASE Locate
  <2>1. Larger(machine.mb2.end, machine.kernel.end) \in Nat
    BY <1>s DEF Larger
  <2>2. CASE Stop("grub_data_too_high") /\ pc = "locate"
    BY <2>2 DEF Stop
  <2>3. CASE bmp_phys' = Larger(machine.mb2.end, machine.kernel.end)
             /\ pc' = "scan" /\ i' = 1
             /\ UNCHANGED <<machine, total_mem, bitmap_size, bmp, panic>>
    <3>1. bmp_phys' \in Nat
      BY <2>1, <2>3
    <3>2. QED
      BY <2>3, <3>1
  <2>4. QED
    BY <1>1, <2>2, <2>3 DEF Locate, Goto
<1>2. CASE ScanModule \/ ScanRegion \/ ScanOther
  <2>1. i \in 1 .. Len(Tags)
    BY <1>s, <1>2 DEF ScanModule, ScanRegion, ScanOther, Scanned
  <2>2. Larger(Tags[i].end, bmp_phys) \in Nat /\ Larger(Tags[i].end, total_mem) \in Nat
    BY <1>s, <2>1 DEF Larger
  <2>3. bmp_phys' \in Nat /\ total_mem' \in Nat
    BY <1>2, <2>2 DEF ScanModule, ScanRegion, ScanOther
  <2>4. UNCHANGED <<machine, bitmap_size, bmp, panic, pc>> /\ i' = i + 1
    BY <1>2 DEF ScanModule, ScanRegion, ScanOther, Scanned
  <2>5. QED
    BY <2>3, <2>4
<1>3. CASE PlaceBitmap
  <2>1. PAGE_SIZE \in Nat \ {0} /\ BYTE_BITS \in Nat \ {0}
    BY PmmBootAssumption
  <2>2. max_pages \in Nat
    BY <2>1 DEF max_pages, addr_to_idx
  <2>3. bitmap_size_bytes(max_pages) \in Nat /\ align_up(bmp_phys) \in Nat
    <3>1. max_pages \div BYTE_BITS \in Nat
      BY <2>1, <2>2
    <3>2. QED
      BY <3>1, Rounding DEF bitmap_size_bytes
  <2>4. CASE Stop("bitmap_too_high")
    BY <2>4 DEF Stop
  <2>5. CASE /\ bmp_phys' = align_up(bmp_phys) /\ bitmap_size' = bitmap_size_bytes(max_pages)
             /\ Goto("deny")
             /\ UNCHANGED <<machine, total_mem, bmp, panic>>
    <3>1. bmp_phys' \in Nat /\ bitmap_size' \in Nat
      BY <2>3, <2>5
    <3>2. QED
      BY <2>5, <3>1 DEF Goto
  <2>6. QED
    BY <1>3, <2>4, <2>5 DEF PlaceBitmap
<1>4. CASE DenyByDefault
  <2>1. NumBits \in Nat
    <3>1. BYTE_BITS \in Nat
      BY PmmBootAssumption
    <3>2. \A a, b \in Nat : a * b \in Nat
      OBVIOUS
    <3>3. QED
      BY <3>1, <3>2 DEF NumBits
  <2>2. bmp' \subseteq Nat
    BY <1>4, <2>1 DEF DenyByDefault
  <2>3. QED
    BY <1>4, <2>2 DEF DenyByDefault, Goto
<1>5. CASE FreeRegion
  <2>1. bmp' \subseteq bmp
    BY <1>5 DEF FreeRegion, pmm_mark_free_region
  <2>2. QED
    BY <1>5, <2>1 DEF FreeRegion
<1>6. CASE FreeDone \/ ModulesDone
  <2>1. pc' \in {"low", "bitmap"} /\ i' = 1 /\ UNCHANGED <<placement, bmp, panic>>
    BY <1>6 DEF FreeDone, ModulesDone, Goto
  <2>2. QED
    BY <2>1
<1>7. ASSUME NEW a \in Nat, NEW length \in Nat, pmm_mark_used_region(a, length)
      PROVE  bmp' \subseteq Nat
  BY <1>7, BitsAreNumbers DEF pmm_mark_used_region
<1>8. CASE ReserveLow
  <2>1. LOW_END \in Nat /\ 0 \in Nat
    BY PmmBootAssumption
  <2>2. bmp' \subseteq Nat
    BY <1>7, <1>8, <2>1 DEF ReserveLow, Reserve
  <2>3. QED
    BY <1>8, <2>2 DEF ReserveLow, Reserve, Goto
<1>9. CASE ReserveKernel
  <2>1. bmp' \subseteq Nat
    BY <1>s, <1>7, <1>9 DEF ReserveKernel, Reserve
  <2>2. QED
    BY <1>9, <2>1 DEF ReserveKernel, Reserve, Goto
<1>10. CASE ReserveMb2
  <2>1. bmp' \subseteq Nat
    BY <1>s, <1>7, <1>10 DEF ReserveMb2, Reserve
  <2>2. QED
    BY <1>10, <2>1 DEF ReserveMb2, Reserve, Goto
<1>11. CASE ReserveModule
  <2>1. bmp' \subseteq Nat
    BY <1>s, <1>7, <1>11 DEF ReserveModule, Modules
  <2>2. QED
    BY <1>11, <2>1 DEF ReserveModule
<1>12. CASE ReserveBitmap
  <2>1. bmp' \subseteq Nat
    BY <1>7, <1>12 DEF ReserveBitmap, Reserve
  <2>2. QED
    BY <1>12, <2>1 DEF ReserveBitmap, Reserve, Goto
<1>13. QED
  BY <1>1, <1>2, <1>3, <1>4, <1>5, <1>6, <1>8, <1>9, <1>10, <1>11, <1>12 DEF Boot

LEMMA MarkingKeepsPlace ==
  Marking => UNCHANGED placement /\ UNCHANGED panic /\ Placed /\ Placed' /\ Denied'
BY DEF Marking, DenyByDefault, FreeRegion, FreeDone, ReserveLow, ReserveKernel, ReserveMb2,
       ReserveModule, ModulesDone, ReserveBitmap, Reserve, Goto, Placed, Denied

LEMMA PlaceStep == TypeOK /\ PlaceInv /\ Boot => PlaceInv'
<1> SUFFICES ASSUME TypeOK, PlaceInv, Boot PROVE PlaceInv'
  OBVIOUS
<1>0. /\ machine \in Machines /\ bmp_phys \in Nat /\ total_mem \in Nat /\ i \in Nat \ {0}
  BY DEF TypeOK
<1> DEFINE Shape ==
      /\ \A k \in 1 .. Len(Tags) : Tags[k].end \in Nat /\ Tags[k].type \in TagTypes
      /\ machine.kernel.end \in Nat /\ machine.mb2.end \in Nat /\ Len(Tags) \in Nat
<1>s. Shape
  BY <1>0, MachineShape
<1>1. CASE Locate
  BY <1>0, <1>s, <1>1
  DEF Locate, Stop, Goto, Larger, PlaceInv, Placed, BitmapPlacedClear, Available, Modules, Tags, placement
<1> DEFINE Scan == /\ Scanned
                   /\ Larger(bmp_phys, bmp_phys') = bmp_phys' /\ bmp_phys' \in Nat
                   /\ Larger(total_mem, total_mem') = total_mem' /\ total_mem' \in Nat
                   /\ i \in Modules => Tags[i].end <= bmp_phys'
                   /\ i \in Available => Tags[i].end <= total_mem'
<1>2. CASE Scan
  <2>1. bmp_phys <= bmp_phys' /\ total_mem <= total_mem'
    BY <1>0, <1>2 DEF Larger
  <2>2. Modules' = Modules /\ Available' = Available /\ Tags' = Tags
    BY <1>2 DEF Scanned, Modules, Available, Tags
  <2>3. \A k \in Modules : k < i' => Tags[k].end <= bmp_phys'
    <3>1. SUFFICES ASSUME NEW k \in Modules, k < i + 1 PROVE Tags[k].end <= bmp_phys'
      BY <1>2 DEF Scanned
    <3>2. k \in Nat /\ Tags[k].end \in Nat
      BY <1>s DEF Modules
    <3>3. CASE k = i
      BY <1>2, <3>3
    <3>4. CASE k < i
      BY <1>0, <1>2, <2>1, <3>2, <3>4 DEF PlaceInv, Scanned
    <3>5. QED
      BY <1>0, <3>1, <3>2, <3>3, <3>4
  <2>4. \A k \in Available : k < i' => Tags[k].end <= total_mem'
    <3>1. SUFFICES ASSUME NEW k \in Available, k < i + 1 PROVE Tags[k].end <= total_mem'
      BY <1>2 DEF Scanned
    <3>2. k \in Nat /\ Tags[k].end \in Nat
      BY <1>s DEF Available
    <3>3. CASE k = i
      BY <1>2, <3>3
    <3>4. CASE k < i
      BY <1>0, <1>2, <2>1, <3>2, <3>4 DEF PlaceInv, Scanned
    <3>5. QED
      BY <1>0, <3>1, <3>2, <3>3, <3>4
  <2>5. machine'.kernel.end <= bmp_phys' /\ machine'.mb2.end <= bmp_phys'
    BY <1>0, <1>s, <1>2, <2>1 DEF PlaceInv, Scanned
  <2>6. QED
    BY <1>2, <2>2, <2>3, <2>4, <2>5 DEF PlaceInv, Scanned, Placed, BitmapPlacedClear
<1>3. ScanModule => Scan
  <2>1. SUFFICES ASSUME ScanModule PROVE Scan
    OBVIOUS
  <2>2. i \in 1 .. Len(Tags) /\ Tags[i].end \in Nat /\ i \notin Available
    BY <1>0, <1>s, <2>1 DEF ScanModule, Scanned, Available
  <2>3. QED
    BY <1>0, <2>1, <2>2 DEF ScanModule, Larger
<1>4. ScanRegion => Scan
  <2>1. SUFFICES ASSUME ScanRegion PROVE Scan
    OBVIOUS
  <2>2. i \in 1 .. Len(Tags) /\ Tags[i].end \in Nat /\ i \notin Modules
    BY <1>0, <1>s, <2>1 DEF ScanRegion, Scanned, Modules
  <2>3. QED
    BY <1>0, <2>1, <2>2 DEF ScanRegion, Larger
<1>5. ScanOther => Scan
  <2>1. SUFFICES ASSUME ScanOther PROVE Scan
    OBVIOUS
  <2>2. i \notin Modules /\ i \notin Available
    BY <2>1 DEF ScanOther, Modules, Available
  <2>3. QED
    BY <1>0, <2>1, <2>2 DEF ScanOther, Larger
<1>6. CASE PlaceBitmap
  <2>1. align_up(bmp_phys) % PAGE_SIZE = 0 /\ bmp_phys <= align_up(bmp_phys) /\ align_up(bmp_phys) \in Nat
    BY <1>0, Rounding
  <2>2. \A k \in Modules : Tags[k].end <= bmp_phys
    BY <1>0, <1>s, <1>6 DEF PlaceBitmap, PlaceInv, Modules
  <2>3. \A k \in Available : Tags[k].end <= total_mem
    BY <1>0, <1>s, <1>6 DEF PlaceBitmap, PlaceInv, Available
  <2>4. machine.kernel.end <= bmp_phys /\ machine.mb2.end <= bmp_phys
    BY <1>6 DEF PlaceBitmap, PlaceInv
  <2>5. CASE Stop("bitmap_too_high")
    BY <2>5 DEF Stop, placement, PlaceInv, Placed, BitmapPlacedClear, Available, Modules, Tags
  <2>6. CASE ~Stop("bitmap_too_high")
    <3>1. /\ bmp_phys' = align_up(bmp_phys)
          /\ align_up(bmp_phys) + bitmap_size' <= ONE_GIB
          /\ pc' = "deny" /\ UNCHANGED <<machine, total_mem>>
      BY <1>6, <2>6 DEF PlaceBitmap, Goto
    <3>2. \A k \in Modules : Tags[k].end \in Nat
      BY <1>s DEF Modules
    <3>3. Modules' = Modules /\ Available' = Available /\ Tags' = Tags
      BY <3>1 DEF Modules, Available, Tags
    <3>4. BitmapPlacedClear'
      BY <1>0, <1>s, <2>1, <2>2, <2>4, <3>1, <3>2, <3>3 DEF BitmapPlacedClear
    <3>5. QED
      BY <2>3, <3>1, <3>3, <3>4 DEF PlaceInv
  <2>7. QED
    BY <2>5, <2>6
<1>7. CASE Marking
  BY <1>7, MarkingKeepsPlace
  DEF placement, PlaceInv, Placed, BitmapPlacedClear, Available, Modules, Tags
<1>8. QED
  BY <1>1, <1>2, <1>3, <1>4, <1>5, <1>6, <1>7 DEF Boot, Marking

-----------------------------------------------------------------------------
(* What becomes free, and what stays reserved. *)

Reserving == ReserveLow \/ ReserveKernel \/ ReserveMb2 \/ ReserveModule \/ ReserveBitmap

LEMMA MarkingKeepsSets ==
  Marking => /\ Tags' = Tags /\ Available' = Available /\ Modules' = Modules
             /\ NumBits' = NumBits /\ Frames' = Frames
             /\ OneBitPerPage => max_pages <= NumBits
             /\ OneBitPerPage' => max_pages <= NumBits
             /\ OneBitPerPage' => OneBitPerPage
             /\ \A k : RegionBits(k)' = RegionBits(k)
<1> SUFFICES ASSUME Marking
             PROVE  /\ Tags' = Tags /\ Available' = Available /\ Modules' = Modules
                    /\ NumBits' = NumBits /\ Frames' = Frames
                    /\ OneBitPerPage => max_pages <= NumBits
                    /\ OneBitPerPage' => max_pages <= NumBits
                    /\ OneBitPerPage' => OneBitPerPage
                    /\ \A k : RegionBits(k)' = RegionBits(k)
  OBVIOUS
<1>1. UNCHANGED placement /\ Placed /\ Placed'
  BY MarkingKeepsPlace
<1>2. Tags' = Tags /\ Available' = Available /\ Modules' = Modules
  BY <1>1 DEF placement, Tags, Available, Modules
<1>3. NumBits' = NumBits /\ max_pages' = max_pages
  BY <1>1 DEF placement, NumBits, max_pages, addr_to_idx
<1>4. Frames' = Frames
  BY <1>3 DEF Frames
<1>5. \A k : RegionBits(k)' = RegionBits(k)
  BY <1>2 DEF RegionBits, FreeRegionBits, align_up, align_down, addr_to_idx
<1>6. QED
  BY <1>1, <1>2, <1>3, <1>4, <1>5 DEF OneBitPerPage, Placed

LEMMA ReservingAdds == Reserving => bmp \subseteq bmp'
BY DEF Reserving, ReserveLow, ReserveKernel, ReserveMb2, ReserveModule, ReserveBitmap,
       Reserve, pmm_mark_used_region

\* The steps before the marking leave the phases in which nothing is denied yet.
LEMMA NotMarking == Boot => Marking \/ ~Denied'
BY DEF Boot, Marking, Locate, ScanModule, ScanRegion, ScanOther, Scanned, PlaceBitmap, Stop, Goto,
       Denied, Placed

LEMMA FreeStep == TypeOK /\ PlaceInv /\ FreeInv /\ Boot => FreeInv'
<1> SUFFICES ASSUME TypeOK, PlaceInv, FreeInv, Marking PROVE FreeInv'
  BY NotMarking DEF FreeInv
<1>0. /\ Tags' = Tags /\ Available' = Available
      /\ NumBits' = NumBits /\ Frames' = Frames
      /\ OneBitPerPage' => OneBitPerPage
      /\ OneBitPerPage' => max_pages <= NumBits
      /\ \A k : RegionBits(k)' = RegionBits(k)
  BY MarkingKeepsSets
<1>1. CASE DenyByDefault
  <2>1. bmp' = bmp \cup 0 .. (NumBits - 1)
    BY <1>1 DEF DenyByDefault
  <2>2. max_pages <= NumBits => Frames \subseteq 0 .. (NumBits - 1)
    <3>1. max_pages \in Nat /\ NumBits \in Nat
      <4>1. PAGE_SIZE \in Nat \ {0} /\ BYTE_BITS \in Nat
        BY PmmBootAssumption
      <4>2. \A a, b \in Nat : a * b \in Nat
        OBVIOUS
      <4>3. QED
        BY <4>1, <4>2 DEF TypeOK, max_pages, addr_to_idx, NumBits
    <3>2. QED
      BY <3>1 DEF Frames
  <2>3. QED
    BY <1>0, <2>1, <2>2 DEF FreeInv, FreeFrames
<1>2. CASE FreeRegion /\ i \in Available
  <2>1. bmp' = bmp \ RegionBits(i) /\ Denied
    BY <1>2 DEF FreeRegion, pmm_mark_free_region, RegionBits, Denied, Placed
  <2>2. RegionBits(i) \subseteq Frames
    BY <1>2, <2>1, RegionsAreFrames DEF PlaceInv, Denied
  <2>3. QED
    BY <1>0, <1>2, <2>1, <2>2 DEF FreeInv, FreeFrames
<1>3. CASE bmp \subseteq bmp' /\ Denied
  BY <1>0, <1>3 DEF FreeInv, FreeFrames
<1>4. ~DenyByDefault => Denied
  BY DEF Marking, DenyByDefault, FreeRegion, FreeDone, ReserveLow, ReserveKernel, ReserveMb2,
         ReserveModule, ModulesDone, ReserveBitmap, Reserve, Denied, Placed
<1>5. FreeRegion => i \in Available \/ bmp' = bmp
  BY DEF FreeRegion
<1>6. FreeDone \/ ModulesDone => bmp' = bmp
  BY DEF FreeDone, ModulesDone
<1>7. QED
  BY <1>1, <1>2, <1>3, <1>4, <1>5, <1>6, ReservingAdds DEF Marking, Reserving

LEMMA ReservedSets ==
  Marking => /\ LowBits' = LowBits /\ KernelBits' = KernelBits /\ Mb2Bits' = Mb2Bits
             /\ BitmapBits' = BitmapBits /\ \A k : ModuleBits(k)' = ModuleBits(k)
             /\ ReservedBits' = ReservedBits
<1> SUFFICES ASSUME Marking
             PROVE  /\ LowBits' = LowBits /\ KernelBits' = KernelBits /\ Mb2Bits' = Mb2Bits
                    /\ BitmapBits' = BitmapBits /\ \A k : ModuleBits(k)' = ModuleBits(k)
                    /\ ReservedBits' = ReservedBits
  OBVIOUS
<1>1. UNCHANGED placement /\ Tags' = Tags /\ Modules' = Modules
  BY MarkingKeepsPlace, MarkingKeepsSets
<1>2. /\ LowBits' = LowBits /\ KernelBits' = KernelBits /\ Mb2Bits' = Mb2Bits
      /\ BitmapBits' = BitmapBits
  BY <1>1 DEF placement, LowBits, KernelBits, Mb2Bits, BitmapBits, UsedRegionBits, align_up,
              align_down, addr_to_idx
<1>3. \A k : ModuleBits(k)' = ModuleBits(k)
  BY <1>1 DEF ModuleBits, UsedRegionBits, align_up, align_down, addr_to_idx
<1>4. QED
  BY <1>1, <1>2, <1>3 DEF ReservedBits

LEMMA KeptStep == TypeOK /\ KeptInv /\ Boot => KeptInv'
<1> SUFFICES ASSUME TypeOK, KeptInv, Marking PROVE KeptInv'
  <2>1. Boot => Marking \/ ~Denied'
    BY NotMarking
  <2>2. QED
    BY <2>1 DEF KeptInv, Denied, Placed
<1>0. /\ LowBits' = LowBits /\ KernelBits' = KernelBits /\ Mb2Bits' = Mb2Bits
      /\ BitmapBits' = BitmapBits /\ \A k : ModuleBits(k)' = ModuleBits(k)
      /\ Modules' = Modules
  BY ReservedSets, MarkingKeepsSets
<1>1. i \in Nat \ {0} /\ \A k \in Modules : k \in Nat \ {0}
  BY DEF TypeOK, Modules
<1>2. CASE DenyByDefault \/ FreeRegion \/ FreeDone
  BY <1>2 DEF KeptInv, DenyByDefault, FreeRegion, FreeDone, Goto
<1>3. CASE ReserveLow
  BY <1>0, <1>3 DEF KeptInv, ReserveLow, Reserve, Goto, pmm_mark_used_region, LowBits
<1>4. CASE ReserveKernel
  BY <1>0, <1>4 DEF KeptInv, ReserveKernel, Reserve, Goto, pmm_mark_used_region, KernelBits
<1>5. CASE ReserveMb2
  <2>1. pc = "mb2" /\ pc' = "modules" /\ i' = 1 /\ bmp' = bmp \cup Mb2Bits
    BY <1>5 DEF ReserveMb2, Reserve, Goto, pmm_mark_used_region, Mb2Bits
  <2>2. \A k \in Modules : ~(k < i')
    BY <1>1, <2>1
  <2>3. QED
    BY <1>0, <2>1, <2>2 DEF KeptInv
<1>6. CASE ReserveModule
  <2>1. bmp \subseteq bmp' /\ pc = "modules" /\ pc' = "modules" /\ i' = i + 1
    BY <1>6, ReservingAdds DEF Reserving, ReserveModule
  <2>2. i \in Modules => ModuleBits(i) \subseteq bmp'
    BY <1>6 DEF ReserveModule, pmm_mark_used_region, ModuleBits
  <2>3. \A k \in Modules : k < i' => ModuleBits(k) \subseteq bmp'
    <3>1. SUFFICES ASSUME NEW k \in Modules, k < i + 1 PROVE ModuleBits(k) \subseteq bmp'
      BY <2>1
    <3>2. k = i \/ k < i
      BY <1>1, <3>1
    <3>3. QED
      BY <2>1, <2>2, <3>2 DEF KeptInv
  <2>4. QED
    BY <1>0, <2>1, <2>3 DEF KeptInv
<1>7. CASE ModulesDone
  <2>1. \A k \in Modules : k < i
    BY <1>1, <1>7 DEF ModulesDone, Modules
  <2>2. QED
    BY <1>0, <1>7, <2>1 DEF KeptInv, ModulesDone, Goto
<1>8. CASE ReserveBitmap
  <2>1. pc = "bitmap" /\ pc' = "done" /\ bmp' = bmp \cup BitmapBits
    BY <1>8 DEF ReserveBitmap, Reserve, Goto, pmm_mark_used_region, BitmapBits
  <2>2. /\ LowBits \cup KernelBits \cup Mb2Bits \cup BitmapBits \subseteq bmp'
        /\ \A k \in Modules : ModuleBits(k) \subseteq bmp'
    BY <2>1 DEF KeptInv
  <2>3. QED
    BY <1>0, <2>1, <2>2 DEF KeptInv
<1>9. QED
  BY <1>2, <1>3, <1>4, <1>5, <1>6, <1>7, <1>8 DEF Marking

LEMMA LostStep == TypeOK /\ LostInv /\ Boot => LostInv'
<1> SUFFICES ASSUME TypeOK, LostInv, Marking PROVE LostInv'
  <2>1. Boot => Marking \/ ~Denied'
    BY NotMarking
  <2>2. QED
    BY <2>1 DEF LostInv, Denied, Placed
<1>0. /\ Available' = Available /\ ReservedBits' = ReservedBits
      /\ \A k : RegionBits(k)' = RegionBits(k)
  BY ReservedSets, MarkingKeepsSets
<1>1. i \in Nat \ {0} /\ Len(Tags) \in Nat /\ \A k \in Available : k \in 1 .. Len(Tags)
  BY MachineShape DEF TypeOK, Available
<1>2. CASE DenyByDefault
  <2>1. pc' = "free" /\ i' = 1
    BY <1>2 DEF DenyByDefault, Goto
  <2>2. \A k \in Available : ~(k < i')
    BY <1>1, <2>1
  <2>3. QED
    BY <1>0, <2>1, <2>2 DEF LostInv
<1>3. CASE FreeRegion
  <2>1. pc = "free" /\ pc' = "free" /\ i' = i + 1 /\ bmp' \subseteq bmp
    BY <1>3 DEF FreeRegion, pmm_mark_free_region
  <2>2. i \in Available => RegionBits(i) \cap bmp' = {}
    BY <1>3 DEF FreeRegion, pmm_mark_free_region, RegionBits
  <2>3. \A k \in Available : k < i' => RegionBits(k) \cap bmp' = {}
    <3>1. SUFFICES ASSUME NEW k \in Available, k < i + 1 PROVE RegionBits(k) \cap bmp' = {}
      BY <2>1
    <3>2. k = i \/ k < i
      BY <1>1, <3>1
    <3>3. QED
      BY <2>1, <2>2, <3>2 DEF LostInv
  <2>4. QED
    BY <1>0, <2>1, <2>3 DEF LostInv
<1>4. CASE FreeDone
  <2>1. pc = "free" /\ pc' = "low" /\ i > Len(Tags) /\ bmp' = bmp
    BY <1>4 DEF FreeDone, Goto
  <2>2. \A k \in Available : k < i
    BY <1>1, <2>1
  <2>3. QED
    BY <1>0, <2>1, <2>2 DEF LostInv
<1>5. CASE Reserving \/ ModulesDone
  <2>1. pc \notin {"locate", "scan", "deny", "free"} /\ pc' # "free"
    BY <1>5 DEF Reserving, ReserveLow, ReserveKernel, ReserveMb2, ReserveModule, ModulesDone,
                ReserveBitmap, Reserve, Goto
  <2>2. bmp' \subseteq bmp \cup ReservedBits
    <3>1. CASE ReserveLow
      BY <3>1 DEF ReserveLow, Reserve, pmm_mark_used_region, ReservedBits, LowBits
    <3>2. CASE ReserveKernel
      BY <3>2 DEF ReserveKernel, Reserve, pmm_mark_used_region, ReservedBits, KernelBits
    <3>3. CASE ReserveMb2
      BY <3>3 DEF ReserveMb2, Reserve, pmm_mark_used_region, ReservedBits, Mb2Bits
    <3>4. CASE ReserveModule
      BY <3>4 DEF ReserveModule, pmm_mark_used_region, ReservedBits, ModuleBits
    <3>5. CASE ReserveBitmap
      BY <3>5 DEF ReserveBitmap, Reserve, pmm_mark_used_region, ReservedBits, BitmapBits
    <3>6. CASE ModulesDone
      BY <3>6 DEF ModulesDone
    <3>7. QED
      BY <1>5, <3>1, <3>2, <3>3, <3>4, <3>5, <3>6 DEF Reserving
  <2>3. QED
    BY <1>0, <2>1, <2>2 DEF LostInv, Denied, Placed
<1>6. QED
  BY <1>2, <1>3, <1>4, <1>5 DEF Marking, Reserving

LEMMA InvStep == Inv /\ [Next]_vars => Inv'
<1> SUFFICES ASSUME Inv, [Next]_vars PROVE Inv'
  OBVIOUS
<1>1. CASE Boot
  BY <1>1, TypeStep, PlaceStep, FreeStep, KeptStep, LostStep DEF Inv
<1>2. CASE UNCHANGED vars
  BY <1>2 DEF vars, placement, Inv, TypeOK, PlaceInv, FreeInv, KeptInv, LostInv, Placed, Denied,
     BitmapPlacedClear, OneBitPerPage, FreeFrames, Frames, NumBits, max_pages, Tags, Available,
     Modules, RegionBits, ReservedBits, LowBits, KernelBits, Mb2Bits, ModuleBits, BitmapBits,
     FreeRegionBits, UsedRegionBits, align_up, align_down, addr_to_idx
<1>3. QED
  BY <1>1, <1>2 DEF Next, Finished

LEMMA InvHolds == Spec => []Inv
BY InitInv, InvStep, PTL DEF Spec

-----------------------------------------------------------------------------
(* The theorems. *)

\* Every variable of init_pmm has its type, on all machines (pmm.c:19-24).
THEOREM TypeCorrect == Spec => []TypeOK
<1>1. Inv => TypeOK
  BY DEF Inv
<1>2. QED
  BY <1>1, InvHolds, PTL

\* get_bitmap_location (pmm.c:71-148) and init_pmm (pmm.c:156-166) place the
\* bitmap behind all that GRUB loaded and below the first GiB, on all machines.
THEOREM PlacedClear == Spec => []BitmapPlacedClear
<1>1. Inv => BitmapPlacedClear
  BY DEF Inv, PlaceInv
<1>2. QED
  BY <1>1, InvHolds, PTL

\* A bit that no reservation sets belongs to a page of which no reserved byte
\* is part, and the other way round.
LEMMA ReservedBytesAndBits ==
  ASSUME TypeOK, bmp_phys % PAGE_SIZE = 0, NEW f \in Nat
  PROVE  f \notin ReservedBits <=> Bytes(f) \cap ReservedBytes = {}
<1>1. /\ LOW_END \in Nat \ {0}
      /\ machine.kernel.start \in Nat /\ machine.kernel.end \in Nat
      /\ machine.kernel.end - machine.kernel.start \in Nat \ {0}
      /\ machine.mb2.start \in Nat /\ machine.mb2.end \in Nat
      /\ machine.mb2.end - machine.mb2.start \in Nat \ {0}
      /\ bmp_phys \in Nat /\ bitmap_size \in Nat
  BY MachineShape, PmmBootAssumption DEF TypeOK
<1>2. ASSUME NEW a \in Nat, NEW length \in Nat, length > 0
      PROVE  f \in UsedRegionBits(a, length) <=> Bytes(f) \cap ByteRange(a, a + length) # {}
  <2>1. a + length \in Nat /\ a < a + length
    BY <1>2
  <2>2. QED
    BY <2>1, UsedBits, TouchedPage
<1>3. f \in LowBits <=> Bytes(f) \cap ByteRange(0, LOW_END) # {}
  <2>1. 0 \in Nat /\ 0 + LOW_END = LOW_END /\ LOW_END > 0 /\ LOW_END \in Nat
    BY <1>1
  <2>2. f \in UsedRegionBits(0, LOW_END) <=> Bytes(f) \cap ByteRange(0, 0 + LOW_END) # {}
    BY <1>2, <2>1
  <2>3. QED
    BY <2>1, <2>2 DEF LowBits
<1>4. ASSUME NEW a \in Nat, NEW b \in Nat, b - a \in Nat \ {0}
      PROVE  f \in UsedRegionBits(a, b - a) <=> Bytes(f) \cap ByteRange(a, b) # {}
  <2>1. a + (b - a) = b /\ b - a > 0 /\ b - a \in Nat
    BY <1>4
  <2>2. f \in UsedRegionBits(a, b - a) <=> Bytes(f) \cap ByteRange(a, a + (b - a)) # {}
    BY <1>2, <2>1
  <2>3. QED
    BY <2>1, <2>2
<1>5. /\ f \in KernelBits <=> Bytes(f) \cap ByteRange(machine.kernel.start, machine.kernel.end) # {}
      /\ f \in Mb2Bits <=> Bytes(f) \cap ByteRange(machine.mb2.start, machine.mb2.end) # {}
  BY <1>1, <1>4 DEF KernelBits, Mb2Bits
<1>6. \A k \in Modules :
        f \in ModuleBits(k) <=> Bytes(f) \cap ByteRange(Tags[k].start, Tags[k].end) # {}
  <2>1. SUFFICES ASSUME NEW k \in Modules
                 PROVE  f \in ModuleBits(k)
                          <=> Bytes(f) \cap ByteRange(Tags[k].start, Tags[k].end) # {}
    OBVIOUS
  <2>2. /\ Tags[k].start \in Nat /\ Tags[k].end \in Nat
        /\ Tags[k].end - Tags[k].start \in Nat \ {0}
    <3>1. k \in 1 .. Len(Tags) /\ Tags[k].type = "MODULE"
      BY DEF Modules
    <3>2. Tags[k].start \in Nat /\ Tags[k].end \in Nat /\ Tags[k].start < Tags[k].end
      BY <3>1, MachineShape DEF TypeOK
    <3>3. QED
      BY <3>2
  <2>3. QED
    BY <1>4, <2>2 DEF ModuleBits
<1>7. f \in BitmapBits <=> Bytes(f) \cap ByteRange(bmp_phys, bmp_phys + bitmap_size) # {}
  <2>1. CASE bitmap_size > 0
    BY <1>1, <1>2, <2>1 DEF BitmapBits
  <2>2. CASE bitmap_size = 0
    <3>1. ByteRange(bmp_phys, bmp_phys + bitmap_size) = {}
      BY <1>1, <2>2 DEF ByteRange
    <3>2. f \notin BitmapBits
      <4>1. PAGE_SIZE \in Nat \ {0} /\ f * PAGE_SIZE \in Nat
        BY PmmBootAssumption
      <4> DEFINE q == addr_to_idx(bmp_phys)
      <4>2. q \in Nat /\ (f < q <=> f * PAGE_SIZE + PAGE_SIZE <= bmp_phys)
        BY <1>1, PagesBelow
      <4>3. bmp_phys = PAGE_SIZE * q
        BY <1>1, <4>1 DEF addr_to_idx
      <4> HIDE DEF q
      <4>4. \A x, y, w \in Nat : x <= y => w * x <= w * y
        OBVIOUS
      <4>5. f >= q => PAGE_SIZE * q <= PAGE_SIZE * f
        BY <4>1, <4>2, <4>4
      <4>6. PAGE_SIZE * f = f * PAGE_SIZE
        BY <4>1
      <4>7. f >= q => bmp_phys <= f * PAGE_SIZE
        BY <4>3, <4>5, <4>6
      <4>8. f \in BitmapBits
              <=> bmp_phys < f * PAGE_SIZE + PAGE_SIZE /\ f * PAGE_SIZE < bmp_phys + 0
        BY <1>1, <2>2, UsedBits DEF BitmapBits
      <4>9. QED
        BY <1>1, <4>1, <4>2, <4>7, <4>8
    <3>3. QED
      BY <3>1, <3>2
  <2>3. QED
    BY <1>1, <2>1, <2>2
<1>8. Bytes(f) \cap ReservedBytes = {} <=>
        /\ Bytes(f) \cap ByteRange(0, LOW_END) = {}
        /\ Bytes(f) \cap ByteRange(machine.kernel.start, machine.kernel.end) = {}
        /\ Bytes(f) \cap ByteRange(machine.mb2.start, machine.mb2.end) = {}
        /\ Bytes(f) \cap ByteRange(bmp_phys, bmp_phys + bitmap_size) = {}
        /\ \A k \in Modules : Bytes(f) \cap ByteRange(Tags[k].start, Tags[k].end) = {}
  <2> DEFINE A == ByteRange(0, LOW_END)
             B == ByteRange(machine.kernel.start, machine.kernel.end)
             C == ByteRange(machine.mb2.start, machine.mb2.end)
             D == ByteRange(bmp_phys, bmp_phys + bitmap_size)
             M(k) == ByteRange(Tags[k].start, Tags[k].end)
             U == UNION {M(k) : k \in Modules}
  <2>1. ReservedBytes = A \cup B \cup C \cup D \cup U
    BY DEF ReservedBytes
  <2> DEFINE page == Bytes(f)
  <2>2. page \cap U = {} <=> \A k \in Modules : page \cap M(k) = {}
    <3> HIDE DEF M, page
    <3>1. QED
      BY SMT
  <2> HIDE DEF A, B, C, D, U
  <2>3. page \cap (A \cup B \cup C \cup D \cup U) = {} <=>
          /\ page \cap A = {} /\ page \cap B = {} /\ page \cap C = {} /\ page \cap D = {}
          /\ page \cap U = {}
    <3> HIDE DEF page
    <3>1. QED
      OBVIOUS
  <2>4. QED
    BY <2>1, <2>2, <2>3 DEF A, B, C, D
<1>9. f \notin ReservedBits <=>
        /\ f \notin LowBits /\ f \notin KernelBits /\ f \notin Mb2Bits /\ f \notin BitmapBits
        /\ \A k \in Modules : f \notin ModuleBits(k)
  BY DEF ReservedBits
<1>10. QED
  BY <1>3, <1>5, <1>6, <1>7, <1>8, <1>9

\* A frame is RAM just when an AVAILABLE region frees its bit.
LEMMA RAMIsARegion ==
  ASSUME TypeOK, NEW f \in Nat
  PROVE  IsRAM(f) <=> \E k \in Available : f \in RegionBits(k)
<1>1. SUFFICES ASSUME NEW k \in Available
               PROVE  Bytes(f) \subseteq ByteRange(Tags[k].start, Tags[k].end)
                        <=> f \in RegionBits(k)
  BY DEF IsRAM
<1>2. /\ Tags[k].start \in Nat /\ Tags[k].end \in Nat
      /\ Tags[k].end - Tags[k].start \in Nat
  BY MachineShape DEF Available, TypeOK
<1>3. Tags[k].start + (Tags[k].end - Tags[k].start) = Tags[k].end
  BY <1>2
<1>4. f \in RegionBits(k)
        <=> /\ Tags[k].start <= f * PAGE_SIZE
            /\ f * PAGE_SIZE + PAGE_SIZE <= Tags[k].start + (Tags[k].end - Tags[k].start)
  BY <1>2, FreeBits DEF RegionBits
<1>5. Bytes(f) \subseteq ByteRange(Tags[k].start, Tags[k].end)
        <=> Tags[k].start <= f * PAGE_SIZE /\ f * PAGE_SIZE + PAGE_SIZE <= Tags[k].end
  BY <1>2, WholePage
<1>6. QED
  BY <1>3, <1>4, <1>5

LEMMA FramesAreNumbers == \A f \in Frames : f \in Nat
BY DEF Frames

\* What init_pmm leaves free is safe to hand out (pmm.c:170-210), on all
\* machines whose bitmap got one bit per page.
THEOREM SafeCorrect == Spec => [](OneBitPerPage => FreeFramesAreSafe)
<1>1. Inv => (OneBitPerPage => FreeFramesAreSafe)
  <2>1. SUFFICES ASSUME Inv, OneBitPerPage, pc = "done", NEW f \in FreeFrames
                 PROVE  IsRAM(f) /\ Bytes(f) \cap ReservedBytes = {}
    BY DEF FreeFramesAreSafe
  <2>2. TypeOK /\ f \in Nat /\ f \notin bmp
    BY <2>1, FramesAreNumbers DEF Inv, FreeFrames
  <2>3. Denied /\ Placed
    BY <2>1 DEF Denied, Placed
  <2>4. IsRAM(f)
    BY <2>1, <2>2, <2>3, RAMIsARegion DEF Inv, FreeInv
  <2>5. bmp_phys % PAGE_SIZE = 0
    BY <2>1 DEF Inv, PlaceInv, BitmapPlacedClear
  <2>6. ReservedBits \subseteq bmp
    BY <2>1 DEF Inv, KeptInv, ReservedBits
  <2>7. QED
    BY <2>2, <2>4, <2>5, <2>6, ReservedBytesAndBits
<1>2. QED
  BY <1>1, InvHolds, PTL

\* init_pmm loses no frame of RAM that nobody else uses (pmm.c:170-210), on all
\* machines.
THEOREM NoneLost == Spec => []NoUsableFrameLost
<1>1. Inv => NoUsableFrameLost
  <2>1. SUFFICES ASSUME Inv, pc = "done", NEW f \in Frames,
                        IsRAM(f), Bytes(f) \cap ReservedBytes = {}
                 PROVE  f \in FreeFrames
    BY DEF NoUsableFrameLost
  <2>2. TypeOK /\ f \in Nat
    BY <2>1, FramesAreNumbers DEF Inv
  <2>3. PICK k \in Available : f \in RegionBits(k)
    BY <2>1, <2>2, RAMIsARegion
  <2>4. bmp_phys % PAGE_SIZE = 0
    BY <2>1 DEF Inv, PlaceInv, BitmapPlacedClear
  <2>5. f \notin ReservedBits
    BY <2>1, <2>2, <2>4, ReservedBytesAndBits
  <2>6. f \notin bmp
    BY <2>1, <2>3, <2>5 DEF Inv, LostInv, Denied, Placed
  <2>7. QED
    BY <2>1, <2>6 DEF FreeFrames
<1>2. QED
  BY <1>1, InvHolds, PTL

\* The bitmap that init_pmm hands over has the shape the run time relies on
\* (pmm.c:24, 166-210), on all machines whose bitmap got one bit per page.
THEOREM SoundCorrect == Spec => [](OneBitPerPage => HandsOverASoundBitmap)
<1>1. Inv => (OneBitPerPage => HandsOverASoundBitmap)
  <2>1. SUFFICES ASSUME Inv, OneBitPerPage, pc = "done"
                 PROVE  /\ max_pages <= NumBits
                        /\ (0 .. (NumBits - 1)) \ Frames \subseteq bmp
                        /\ 0 \in bmp
    BY DEF HandsOverASoundBitmap
  <2>2. max_pages <= NumBits
    BY <2>1 DEF OneBitPerPage
  <2>3. (0 .. (NumBits - 1)) \ Frames \subseteq bmp
    BY <2>1 DEF Inv, FreeInv, Denied, Placed
  <2>4. 0 \in LowBits
    <3>1. LOW_END \in Nat \ {0} /\ PAGE_SIZE \in Nat \ {0}
      BY PmmBootAssumption
    <3>2. 0 \in UsedRegionBits(0, LOW_END)
            <=> 0 < 0 * PAGE_SIZE + PAGE_SIZE /\ 0 * PAGE_SIZE < 0 + LOW_END
      BY <3>1, UsedBits
    <3>3. QED
      BY <3>1, <3>2 DEF LowBits
  <2>5. 0 \in bmp
    BY <2>1, <2>4 DEF Inv, KeptInv
  <2>6. QED
    BY <2>2, <2>3, <2>5
<1>2. QED
  BY <1>1, InvHolds, PTL
-----------------------------------------------------------------------------
(* Where init_pmm writes. *)

\* The bitmap, which lies behind everything that GRUB loaded, and the first MiB
\* end below the last whole page of RAM.
BitmapInRAM ==
  Placed => LET top == align_down(total_mem)
            IN  LOW_END <= top /\ bmp_phys + bitmap_size <= top

\* A range that ends below the last whole page of RAM has bits for its pages.
LEMMA UsedBitsAreFrames ==
  ASSUME total_mem \in Nat, NEW a \in Nat, NEW length \in Nat,
         a + length <= align_down(total_mem)
  PROVE  \A f \in UsedRegionBits(a, length) : f < max_pages
<1> SUFFICES ASSUME NEW f \in UsedRegionBits(a, length)
             PROVE  f < max_pages
  OBVIOUS
<1>1. f \in Nat /\ PAGE_SIZE \in Nat \ {0}
  BY BitsAreNumbers, PmmBootAssumption
<1>2. f * PAGE_SIZE < a + length /\ f * PAGE_SIZE \in Nat
  BY <1>1, UsedBits
<1> DEFINE q == total_mem \div PAGE_SIZE
<1>3. q \in Nat /\ align_down(total_mem) = PAGE_SIZE * q
  BY <1>1 DEF align_down
<1>4. max_pages = q
  BY DEF max_pages, addr_to_idx
<1> HIDE DEF q
<1>5. f * PAGE_SIZE < PAGE_SIZE * q
  BY <1>1, <1>2, <1>3
<1>6. \A x, y, w \in Nat : x <= y => w * x <= y * w
  OBVIOUS
<1>7. ~(q <= f)
  <2>1. q <= f => PAGE_SIZE * q <= f * PAGE_SIZE
    BY <1>1, <1>3, <1>6
  <2>2. PAGE_SIZE * q \in Nat
    BY <1>1, <1>3
  <2>3. QED
    BY <1>2, <1>5, <2>1, <2>2
<1>8. QED
  BY <1>1, <1>3, <1>4, <1>7

\* pmm_mark_used_region and pmm_mark_free_region (pmm.c:26-69) check no index:
\* they stay in the bitmap (pmm.c:156-176, 187-272) on every machine on which it
\* has a bit for each page and lies, with what it is behind, in RAM.
THEOREM WritesStay == Spec => ([](OneBitPerPage /\ BitmapInRAM) => WritesStayInBitmap)
<1> DEFINE Same == \A b \in (bmp \ bmp') \cup (bmp' \ bmp) : b < NumBits
<1>1. Inv /\ OneBitPerPage /\ BitmapInRAM /\ [Next]_vars => [Same]_vars
  <2> SUFFICES ASSUME Inv, OneBitPerPage, BitmapInRAM, Boot
               PROVE  Same
    BY DEF Next, Finished, vars
  <2>1. machine \in Machines /\ total_mem \in Nat /\ bmp_phys \in Nat /\ bitmap_size \in Nat
    BY DEF Inv, TypeOK
  <2>2. CASE ~Marking
    <3>1. bmp' = bmp
      BY <2>2 DEF Boot, Marking, Locate, ScanModule, ScanRegion, ScanOther, Scanned,
             PlaceBitmap, Stop
    <3>2. QED
      BY <3>1
  <2>3. CASE Marking
    <3>1. Placed /\ max_pages <= NumBits /\ max_pages \in Nat /\ NumBits \in Int
      <4>1. Placed /\ max_pages <= NumBits
        BY <2>3, MarkingKeepsPlace, MarkingKeepsSets
      <4>2. max_pages \in Nat
        BY <2>1, PagesBelow DEF max_pages
      <4>3. NumBits \in Int
        BY <2>1, PmmBootAssumption DEF NumBits
      <4>4. QED
        BY <4>1, <4>2, <4>3
    <3>2. ASSUME NEW a \in Nat, NEW length \in Nat, a + length <= align_down(total_mem),
                 pmm_mark_used_region(a, length)
          PROVE  Same
      <4>1. \A b \in UsedRegionBits(a, length) : b \in Nat /\ b < max_pages
        BY <2>1, <3>2, UsedBitsAreFrames, BitsAreNumbers
      <4>2. \A b \in (bmp \ bmp') \cup (bmp' \ bmp) : b \in UsedRegionBits(a, length)
        BY <3>2 DEF pmm_mark_used_region
      <4>3. QED
        BY <3>1, <4>1, <4>2
    <3>3. /\ machine.kernel.end <= bmp_phys /\ machine.mb2.end <= bmp_phys
          /\ \A k \in Modules : Tags[k].end <= bmp_phys
          /\ LOW_END <= align_down(total_mem)
          /\ bmp_phys + bitmap_size <= align_down(total_mem)
          /\ align_down(total_mem) \in Nat
      BY <2>1, <3>1, MachineShape, Rounding
         DEF Inv, PlaceInv, BitmapPlacedClear, Placed, BitmapInRAM, Modules
    <3>4. CASE DenyByDefault
      <4>1. bmp' = bmp \cup 0 .. (NumBits - 1)
        BY <3>4 DEF DenyByDefault
      <4>2. \A b \in (bmp \ bmp') \cup (bmp' \ bmp) : b \in 0 .. (NumBits - 1)
        BY <4>1
      <4>3. QED
        BY <3>1, <4>2
    <3>5. CASE FreeRegion
      <4>1. CASE i \in Available /\ bmp' = bmp \ RegionBits(i)
        <5>1. Tags[i].end <= total_mem
          BY <3>1, <4>1 DEF Inv, PlaceInv
        <5>2. RegionBits(i) \subseteq Frames
          BY <4>1, <5>1, RegionsAreFrames DEF Inv
        <5>3. \A b \in (bmp \ bmp') \cup (bmp' \ bmp) : b \in 0 .. (max_pages - 1)
          BY <4>1, <5>2 DEF Frames
        <5>4. QED
          BY <3>1, <5>3
      <4>2. CASE UNCHANGED bmp
        BY <4>2
      <4>3. QED
        BY <3>5, <4>1, <4>2 DEF FreeRegion, RegionBits, pmm_mark_free_region
    <3>6. CASE ReserveLow
      <4>1. pmm_mark_used_region(0, LOW_END) /\ 0 + LOW_END = LOW_END /\ LOW_END \in Nat
        BY <3>6, PmmBootAssumption DEF ReserveLow, Reserve
      <4>2. QED
        BY <3>2, <3>3, <4>1
    <3>7. CASE ReserveKernel
      <4> DEFINE a == machine.kernel.start
                 n == machine.kernel.end - machine.kernel.start
      <4>1. pmm_mark_used_region(a, n)
        BY <3>7 DEF ReserveKernel, Reserve
      <4>2. a \in Nat /\ n \in Nat /\ a + n = machine.kernel.end /\ machine.kernel.end \in Nat
        BY <2>1, MachineShape
      <4> HIDE DEF a, n
      <4>3. a + n <= align_down(total_mem)
        BY <2>1, <3>3, <4>2
      <4>4. QED
        BY <3>2, <4>1, <4>2, <4>3
    <3>8. CASE ReserveMb2
      <4> DEFINE a == machine.mb2.start
                 n == machine.mb2.end - machine.mb2.start
      <4>1. pmm_mark_used_region(a, n)
        BY <3>8 DEF ReserveMb2, Reserve
      <4>2. a \in Nat /\ n \in Nat /\ a + n = machine.mb2.end /\ machine.mb2.end \in Nat
        BY <2>1, MachineShape
      <4> HIDE DEF a, n
      <4>3. a + n <= align_down(total_mem)
        BY <2>1, <3>3, <4>2
      <4>4. QED
        BY <3>2, <4>1, <4>2, <4>3
    <3>9. CASE ReserveModule
      <4> DEFINE a == Tags[i].start
                 n == Tags[i].end - Tags[i].start
      <4>1. CASE i \in Modules /\ pmm_mark_used_region(a, n)
        <5>0. i \in 1 .. Len(Tags) /\ Tags[i].end <= bmp_phys
          BY <3>3, <4>1 DEF Modules
        <5> DEFINE e == Tags[i].end
        <5>1. a \in Nat /\ n \in Nat /\ a + n = e /\ e \in Nat /\ e <= bmp_phys
          <6>1. a \in Nat /\ n \in Nat /\ e \in Nat
            BY <2>1, <5>0, MachineShape
          <6>2. n = e - a
            OBVIOUS
          <6> HIDE DEF a, n, e
          <6>3. QED
            <7>1. e <= bmp_phys
              BY <5>0 DEF e
            <7>2. QED
              BY <6>1, <6>2, <7>1
        <5> HIDE DEF a, n, e
        <5>2. a + n <= align_down(total_mem)
          BY <2>1, <3>3, <5>1
        <5>3. QED
          BY <3>2, <4>1, <5>1, <5>2
      <4>2. CASE UNCHANGED bmp
        BY <4>2
      <4>3. QED
        BY <3>9, <4>1, <4>2 DEF ReserveModule
    <3>10. CASE ReserveBitmap
      <4>1. pmm_mark_used_region(bmp_phys, bitmap_size)
        BY <3>10 DEF ReserveBitmap, Reserve
      <4>2. QED
        BY <2>1, <3>2, <3>3, <4>1
    <3>11. CASE FreeDone \/ ModulesDone
      BY <3>11 DEF FreeDone, ModulesDone
    <3>12. QED
      BY <2>3, <3>4, <3>5, <3>6, <3>7, <3>8, <3>9, <3>10, <3>11 DEF Marking
  <2>4. QED
    BY <2>2, <2>3
<1>2. QED
  BY <1>1, InvHolds, PTL DEF Spec, WritesStayInBitmap
=============================================================================
