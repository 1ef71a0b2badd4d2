------------------------- MODULE KernelMemoryProofs -------------------------
(***************************************************************************)
(* Every step of KernelMemory keeps its invariant, and what the invariant  *)
(* says of the memory subsystem.                                           *)
(***************************************************************************)
EXTENDS KernelMemoryInv

-----------------------------------------------------------------------------
(* What a changed leaf entry changes. *)

LEMMA MemTyped == TypeOK => WalkTyped
BY DEF TypeOK, WalkTyped, Memories

LEMMA PresentSet ==
  ASSUME NEW p \in VPages, NEW e, Present(e), Leaves' = [Leaves EXCEPT ![p] = e]
  PROVE  /\ Mapped' = Mapped \cup {p}
         /\ Leaves'[p] = e
         /\ \A v \in VPages \ {p} : Leaves'[v] = Leaves[v]
         /\ p \notin OwnPages => Backing' = Backing
         /\ p \in OwnPages \ Mapped => Backing' = Backing \cup {e.frame}
<1>1. Leaves'[p] = e /\ \A v \in VPages \ {p} : Leaves'[v] = Leaves[v]
  BY DEF Leaves
<1>2. Mapped' = Mapped \cup {p}
  BY <1>1 DEF Mapped
<1>3. OwnLeaves' = {Leaves'[v].frame : v \in Mapped' \cap OwnPages}
  BY DEF OwnLeaves, OwnPages
<1>4. Mapped \subseteq VPages
  BY DEF Mapped
<1>5. p \notin OwnPages => OwnLeaves' = OwnLeaves
  BY <1>1, <1>2, <1>3, <1>4 DEF OwnLeaves
<1>6. p \in OwnPages \ Mapped => OwnLeaves' = OwnLeaves \cup {e.frame}
  BY <1>1, <1>2, <1>3, <1>4 DEF OwnLeaves
<1>7. QED
  BY <1>1, <1>2, <1>5, <1>6, BackingIs, BackingPrimed

LEMMA AbsentSet ==
  ASSUME NEW p \in OwnPages \cap Mapped, Leaves' = [Leaves EXCEPT ![p] = Zero], EntryInv
  PROVE  /\ Mapped' = Mapped \ {p}
         /\ \A v \in VPages \ {p} : Leaves'[v] = Leaves[v]
         /\ Backing' = Backing \ {Leaves[p].frame}
<1>1. Leaves'[p] = Zero /\ \A v \in VPages \ {p} : Leaves'[v] = Leaves[v]
  BY DEF Leaves, Mapped
<1>2. Mapped' = Mapped \ {p}
  BY <1>1, ZeroAbsent DEF Mapped
<1>3. OwnLeaves' = {Leaves'[v].frame : v \in Mapped' \cap OwnPages}
  BY DEF OwnLeaves, OwnPages
<1>4. Mapped \subseteq VPages
  BY DEF Mapped
<1>5. \A v \in Mapped \cap OwnPages : Leaves[v].frame = Leaves[p].frame => v = p
  BY DEF EntryInv
<1>6. OwnLeaves' = OwnLeaves \ {Leaves[p].frame}
  BY <1>1, <1>2, <1>3, <1>4, <1>5 DEF OwnLeaves
<1>7. QED
  BY <1>1, <1>2, <1>6, BackingIs, BackingPrimed

\* The types of the records.
Walks  == [op : {"none", "map", "unmap", "invlpg"}, v : VPages,
           entry : Entry, lvl : 0 .. 4, tbl : Frames]
Locals == [i : Nat, n : Nat, start : Nat, p : Frames]

-----------------------------------------------------------------------------
(* One level down: get_next_table and get_table_if_present on a present    *)
(* entry.                                                                  *)

LEMMA DownInv ==
  ASSUME MemInv, walk.op \in {"map", "unmap"}, walk.lvl > 1, Present(WalkEntry),
         WalkDown(WalkEntry.frame), UNCHANGED <<memVars, pmmVars, pc, loc, vmmVars>>
  PROVE  MemInv'
<1> USE DEF memVars, pmmVars, vmmVars
<1>1. WalkTyped /\ TreeInv /\ walk.op # "none"
  BY MemTyped DEF MemInv
<1>2. /\ Leaves' = Leaves /\ Tables' = Tables /\ Roots' = Roots
      /\ Mapped' = Mapped /\ Backing' = Backing
  BY QuietTables
<1>3. walk' = [walk EXCEPT !.lvl = walk.lvl - 1, !.tbl = WalkEntry.frame]
  BY DEF WalkDown
<1>4. OnPath(mem, kernel_pml4, walk.v, walk.lvl - 1, WalkEntry.frame)
  BY <1>1, DownStep
<1>5. walk.lvl \in 2 .. 4 /\ WalkEntry \in Entry
  BY <1>1, WalkShape DEF WalkEntry, WalkTyped, Memories
<1>6. /\ walk'.op = walk.op /\ walk'.v = walk.v /\ walk'.entry = walk.entry
      /\ walk'.lvl = walk.lvl - 1 /\ walk'.tbl = WalkEntry.frame
  BY <1>3 DEF MemInv, TypeOK
<1>7. TypeOK'
  <2>1. WalkEntry.frame \in Frames /\ walk.lvl - 1 \in 0 .. 4
    BY <1>5 DEF Entry
  <2>2. walk \in Walks /\ walk' \in Walks
    BY <1>3, <2>1 DEF MemInv, TypeOK, Walks
  <2>3. QED
    BY <2>2 DEF MemInv, TypeOK, WalkDown, Walks
<1>8. TreeInv'
  BY <1>1, <1>2, <1>4, <1>6 DEF TreeInv
<1>9. PhaseInv' /\ SpaceInv' /\ LoopInv' /\ RunInv'
  BY <1>2 DEF MemInv, PhaseInv, AfterDirect, AfterImage, SpaceInv, LoopInv, RunInv,
              JobPage, Allocating, Freeing
<1>10. CallInv' /\ JobInv'
  BY <1>2, <1>6 DEF MemInv, CallInv, JobInv, JobPage, JobEntry, WalkDown
<1>11. EntryInv' /\ AccountInv'
  BY <1>2 DEF MemInv, EntryInv, FlagsFit, AccountInv
<1>12. MappedInv'
  BY <1>2, <1>6 DEF MemInv, MappedInv, Expected, JobPage, Settled, ImageSettled,
                    DirectSettled, BitmapSettled, StackSettled, HeapSettled,
                    AfterImage, AfterDirect, AfterBitmap, Booting
<1>13. QED
  BY <1>7, <1>8, <1>9, <1>10, <1>11, <1>12 DEF MemInv

-----------------------------------------------------------------------------
(* A panic: nothing changes but the bitmap, which may have one bit more. *)

LEMMA PanicInv ==
  ASSUME MemInv, UNCHANGED <<pagingVars, vmmVars, pc, loc>>,
         bmp \subseteq bmp', bmp' \subseteq Bits, panic' \in Outcomes \ {NoPanic}
  PROVE  MemInv'
<1> USE DEF pagingVars, vmmVars
<1>1. /\ Leaves' = Leaves /\ Tables' = Tables /\ Roots' = Roots
      /\ Mapped' = Mapped /\ Backing' = Backing
  BY QuietTables
<1>2. panic' \in {NoPanic} \cup PmmPanics \cup PagingPanics \cup VmmPanics
  BY DEF Outcomes, PmmPanics, PagingPanics, VmmPanics
<1>3. TypeOK'
  BY <1>2 DEF MemInv, TypeOK
<1>4. TreeInv'
  BY <1>1 DEF MemInv, TreeInv
<1>5. PhaseInv' /\ SpaceInv' /\ LoopInv' /\ RunInv'
  BY <1>1 DEF MemInv, PhaseInv, AfterDirect, AfterImage, SpaceInv, LoopInv, RunInv,
              JobPage, Allocating, Freeing
<1>6. CallInv' /\ JobInv'
  BY <1>1 DEF MemInv, CallInv, JobInv, JobPage, JobEntry
<1>7. EntryInv' /\ AccountInv'
  BY <1>1 DEF MemInv, EntryInv, FlagsFit, AccountInv
<1>8. MappedInv'
  BY <1>1 DEF MemInv, MappedInv, Expected, JobPage, Settled, ImageSettled,
                    DirectSettled, BitmapSettled, StackSettled, HeapSettled,
                    AfterImage, AfterDirect, AfterBitmap, Booting
<1>9. QED
  BY <1>3, <1>4, <1>5, <1>6, <1>7, <1>8 DEF MemInv

LEMMA OutOfMemoryInv ==
  ASSUME MemInv, PmmOutOfMemory, UNCHANGED <<pagingVars, vmmVars, pc, loc>>
  PROVE  MemInv'
<1>1. panic' = "PMM: out of memory" /\ bmp' = bmp
  BY DEF PmmOutOfMemory
<1>2. panic' \in Outcomes \ {NoPanic}
  BY <1>1 DEF Outcomes, NoPanic
<1>3. bmp \subseteq bmp' /\ bmp' \subseteq Bits
  BY <1>1 DEF MemInv, TypeOK
<1>4. QED
  BY <1>2, <1>3, PanicInv

\* pmm_alloc_page gives out a frame that nobody has.
LEMMA FreshFrame ==
  ASSUME MemInv, NEW f \in Frames, pmm_alloc_page(f)
  PROVE  /\ bmp' = bmp \cup {f} /\ f \notin bmp /\ bmp' \subseteq Bits
         /\ f \notin Tables /\ f \notin BootUsed /\ f # 0
         /\ f \notin Backing
<1>1. bmp' = bmp \cup {f} /\ f \notin bmp
  BY DEF pmm_alloc_page, FreeFrames, bitmap_test
<1>2. bmp' \subseteq Bits
  BY <1>1, Numbers DEF MemInv, TypeOK
<1>3. f \notin Tables /\ f \notin BootUsed /\ f # 0
  BY <1>1, Numbers DEF MemInv, SpaceInv
<1>4. Backing \subseteq bmp
  BY BackingIs DEF OwnLeaves, MemInv, EntryInv
<1>5. QED
  BY <1>1, <1>2, <1>3, <1>4

LEMMA PageFaultInv ==
  ASSUME MemInv, NEW f \in Frames, pmm_alloc_page(f), panic' = "page fault",
         UNCHANGED <<pagingVars, vmmVars, pc, loc>>
  PROVE  MemInv'
<1>1. panic' \in Outcomes \ {NoPanic}
  BY DEF Outcomes, NoPanic
<1>2. bmp \subseteq bmp' /\ bmp' \subseteq Bits
  BY FreshFrame
<1>3. QED
  BY <1>1, <1>2, PanicInv

-----------------------------------------------------------------------------
(* get_next_table makes a table. *)

LEMMA SameLeaves ==
  ASSUME Leaves' = Leaves
  PROVE  Mapped' = Mapped /\ Backing' = Backing
<1>1. Mapped' = Mapped
  BY DEF Mapped
<1>2. OwnLeaves' = OwnLeaves
  BY <1>1 DEF OwnLeaves, OwnPages
<1>3. QED
  BY <1>1, <1>2, BackingIs, BackingPrimed

LEMMA NewTableInv ==
  ASSUME MemInv, walk.op = "map", walk.lvl > 1, ~Present(WalkEntry),
         NEW f \in Frames, pmm_alloc_page(f),
         mem' = [mem EXCEPT ![f] = ZeroTable,
                            ![walk.tbl][WalkIndex] =
                               [frame |-> f, flags |-> {"P", "W", "U"}]],
         WalkDown(f),
         UNCHANGED <<panic, kernel_pml4, hhdm_on, stale, pc, loc, vmmVars>>
  PROVE  MemInv'
<1> USE DEF vmmVars
<1>1. WalkTyped /\ TreeInv /\ walk.op # "none"
  BY MemTyped DEF MemInv
<1>2. /\ bmp' = bmp \cup {f} /\ f \notin bmp /\ bmp' \subseteq Bits
      /\ f \notin Tables /\ f \notin BootUsed
  BY FreshFrame
<1>3. /\ Leaves' = Leaves /\ Tables' = Tables \cup {f}
      /\ IsTree(mem', Roots')
      /\ OnPath(mem', kernel_pml4, walk.v, walk.lvl - 1, f)
  BY <1>1, <1>2, NewTableStep
<1>4. Mapped' = Mapped /\ Backing' = Backing
  BY <1>3, SameLeaves
<1>5. walk' = [walk EXCEPT !.lvl = walk.lvl - 1, !.tbl = f]
  BY DEF WalkDown
<1>6. /\ walk'.op = walk.op /\ walk'.v = walk.v /\ walk'.entry = walk.entry
      /\ walk'.lvl = walk.lvl - 1 /\ walk'.tbl = f
  BY <1>5 DEF MemInv, TypeOK
<1>7. TypeOK'
  <2>1. walk.lvl - 1 \in 0 .. 4 /\ walk.tbl \in Frames /\ WalkIndex \in Index
    BY <1>1, WalkShape
  <2>2. walk \in Walks /\ walk' \in Walks
    BY <1>5, <2>1 DEF MemInv, TypeOK, Walks
  <2>3. Zero \in Entry /\ [frame |-> f, flags |-> {"P", "W", "U"}] \in Entry
    BY Numbers DEF Zero, Entry, Flags
  <2>4. ZeroTable \in [Index -> Entry]
    BY <2>3 DEF ZeroTable
  <2>5. mem' \in Memories
    BY <1>1, <2>1, <2>3, <2>4 DEF WalkTyped, Memories
  <2>6. QED
    BY <1>2, <2>2, <2>5 DEF MemInv, TypeOK, WalkDown, Walks, Memories
<1>8. TreeInv'
  BY <1>1, <1>3, <1>6 DEF TreeInv
<1>9. PhaseInv' /\ SpaceInv' /\ LoopInv' /\ RunInv'
  BY <1>2, <1>3, <1>4 DEF MemInv, PhaseInv, AfterDirect, AfterImage, SpaceInv, LoopInv,
                          RunInv, JobPage, Allocating, Freeing
<1>10. CallInv'
  BY <1>6 DEF MemInv, CallInv, JobPage, JobEntry
<1>11. JobInv'
  BY <1>2, <1>3, <1>4, <1>6 DEF MemInv, CallInv, JobInv, JobPage, JobEntry
<1>12. EntryInv'
  BY <1>2, <1>3, <1>4 DEF MemInv, EntryInv, FlagsFit
<1>13. AccountInv'
  BY <1>2, <1>3, <1>4 DEF MemInv, AccountInv
<1>14. MappedInv'
  BY <1>4, <1>6 DEF MemInv, MappedInv, Expected, JobPage, Settled, ImageSettled,
                    DirectSettled, BitmapSettled, StackSettled, HeapSettled,
                    AfterImage, AfterDirect, AfterBitmap, Booting
<1>15. QED
  BY <1>7, <1>8, <1>9, <1>10, <1>11, <1>12, <1>13, <1>14 DEF MemInv

-----------------------------------------------------------------------------
(* map_page on the page table. *)

LEMMA NothingTyped == NoWalk \in Walks /\ NoLoc \in Locals /\ Zero \in Entry
<1>1. 0 \in VPages /\ 0 \in Frames
  BY Numbers, FanFacts DEF VPages
<1>2. Zero \in Entry
  BY <1>1 DEF Zero, Entry
<1>3. QED
  BY <1>1, <1>2 DEF NoWalk, NoLoc, Walks, Locals

\* Only a page of the image or of the direct map can be mapped already, and
\* then to the frame asked for: map_page returns 0.
LEMMA MapPresentInv ==
  ASSUME MemInv, walk.op = "map", walk.lvl = 1, Present(WalkEntry),
         Return(IF WalkEntry.frame = walk.entry.frame THEN 0 ELSE 2),
         UNCHANGED <<memVars, pmmVars, pc, loc, vmmVars>>
  PROVE  MemInv'
<1> USE DEF memVars, pmmVars, vmmVars
<1>1. WalkTyped /\ TreeInv /\ walk.op # "none"
  BY MemTyped DEF MemInv
<1>2. /\ Leaves' = Leaves /\ Tables' = Tables /\ Roots' = Roots
      /\ Mapped' = Mapped /\ Backing' = Backing
  BY QuietTables
<1>3. /\ pc \in MapPCs /\ walk.v = JobPage /\ walk.entry = JobEntry /\ JobPage \in VPages
      /\ WalkEntry = Leaves[JobPage] /\ JobPage \in Mapped
  BY <1>1, LeafRead DEF MemInv, CallInv, Mapped, WalkTyped
<1>4. pc \notin OwnPCs
  <2>1. Settled(JobPage)
    BY <1>1, <1>3 DEF MemInv, MappedInv, Expected
  <2>2. QED
    BY <2>1, JobUnsettled DEF MemInv
<1>5. Leaves[JobPage].frame = JobEntry.frame
  <2>1. \/ JobPage \in ImageRegion /\ JobEntry.frame = JobPage - KVMA
        \/ JobPage \in DirectRegion /\ JobEntry.frame = JobPage - HHDM
    BY <1>3, <1>4, JobPlace DEF MemInv, MapPCs
  <2>2. QED
    BY <1>3, <2>1 DEF MemInv, EntryInv
<1>6. walk' = NoWalk /\ ret' = 0
  BY <1>3, <1>5 DEF Return
<1>7. walk'.op = "none"
  BY <1>6 DEF NoWalk
<1>8. TypeOK'
  BY <1>6, NothingTyped DEF MemInv, TypeOK, Walks
<1>9. TreeInv'
  BY <1>1, <1>2, <1>7 DEF TreeInv
<1>10. PhaseInv' /\ SpaceInv' /\ LoopInv' /\ RunInv'
  BY <1>2 DEF MemInv, PhaseInv, AfterDirect, AfterImage, SpaceInv, LoopInv, RunInv,
              JobPage, Allocating, Freeing
<1>11. CallInv'
  BY <1>3, <1>7 DEF MemInv, CallInv
<1>12. JobInv'
  BY <1>2, <1>3, <1>4, <1>5, <1>6, <1>7 DEF JobInv, MapPCs, JobPage, JobEntry
<1>13. EntryInv' /\ AccountInv'
  BY <1>2 DEF MemInv, EntryInv, FlagsFit, AccountInv
<1>14. MappedInv'
  <2>1. \A v \in VPages : Settled(v)' <=> Settled(v)
    BY DEF Settled, ImageSettled,
                    DirectSettled, BitmapSettled, StackSettled, HeapSettled,
                    AfterImage, AfterDirect, AfterBitmap, Booting
  <2>2. JobPage' = JobPage
    BY DEF JobPage
  <2>3. pc # "free_unmapped"
    BY <1>3 DEF MapPCs, OwnPCs
  <2>4. QED
    BY <1>1, <1>2, <1>3, <1>7, <2>1, <2>2, <2>3 DEF MemInv, MappedInv, Expected
<1>15. QED
  BY <1>8, <1>9, <1>10, <1>11, <1>12, <1>13, <1>14 DEF MemInv

\* A page of the image that is not mapped yet is in no section before this one.
LEMMA SectionIsFirst ==
  ASSUME MemInv, pc = "section_mapped", JobPage \notin Mapped
  PROVE  \E k \in SectionIds :
           FirstOn(k, JobPage) /\ JobEntry.flags = PageFlags(Sections[k].flags)
<1> DEFINE n == loc.n
<1>1. n \in SectionIds /\ JobPage \in SectionPages(n)
  BY DEF MemInv, LoopInv
<1>2. JobPage \in VPages /\ ~Settled(JobPage)
  <2>1. JobPage \in VPages
    BY <1>1, Section, Regions
  <2>2. QED
    BY <2>1 DEF MemInv, MappedInv, Expected
<1>3. ASSUME NEW r \in 1 .. (n - 1)
      PROVE  JobPage \notin SectionPages(r)
  <2>1. r \in SectionIds /\ r < n
    BY <1>1 DEF SectionIds
  <2>2. QED
    BY <1>2, <2>1 DEF Settled, ImageSettled
<1>4. FirstOn(n, JobPage)
  BY <1>1, <1>3 DEF FirstOn
<1>5. JobEntry.flags = PageFlags(Sections[n].flags)
  BY DEF JobEntry
<1>6. QED
  BY <1>1, <1>4, <1>5

\* An absent entry is set: the page is mapped as asked, and no other changes.
LEMMA MapAbsentInv ==
  ASSUME MemInv, walk.op = "map", walk.lvl = 1, ~Present(WalkEntry),
         mem' = [mem EXCEPT ![walk.tbl][WalkIndex] = walk.entry], Return(0),
         UNCHANGED <<pmmVars, kernel_pml4, hhdm_on, stale, pc, loc, vmmVars>>
  PROVE  MemInv'
<1> USE DEF pmmVars, vmmVars
<1> DEFINE p == JobPage
           e == JobEntry
<1>1. WalkTyped /\ TreeInv /\ walk.op # "none"
  BY MemTyped DEF MemInv
<1>2. /\ pc \in MapPCs /\ walk.v = p /\ walk.entry = e /\ p \in VPages
      /\ WalkEntry = Leaves[p] /\ p \notin Mapped
  BY <1>1, LeafRead DEF MemInv, CallInv, Mapped, WalkTyped
<1>3. e \in Entry /\ Present(e)
  BY <1>2, JobPlace DEF MemInv
<1>4. /\ Leaves' = [Leaves EXCEPT ![p] = e] /\ Tables' = Tables
      /\ IsTree(mem', Roots')
  BY <1>1, <1>2, LeafStep
<1>5. p' = p /\ e' = e
  BY DEF JobPage, JobEntry
<1> HIDE DEF p, e
<1>6. /\ Mapped' = Mapped \cup {p}
      /\ Leaves'[p] = e
      /\ \A v \in VPages \ {p} : Leaves'[v] = Leaves[v]
      /\ p \notin OwnPages => Backing' = Backing
      /\ p \in OwnPages \ Mapped => Backing' = Backing \cup {e.frame}
  BY <1>2, <1>3, <1>4, PresentSet
<1>7. walk' = NoWalk /\ ret' = 0 /\ walk'.op = "none"
  BY DEF Return, NoWalk
<1>8. TypeOK'
  <2>1. walk.tbl \in Frames /\ WalkIndex \in Index
    BY <1>1, WalkShape
  <2>2. mem' \in Memories
    BY <1>1, <1>2, <1>3, <2>1 DEF WalkTyped, Memories
  <2>3. QED
    BY <1>7, <2>2, NothingTyped DEF MemInv, TypeOK, Walks, Memories
<1>9. TreeInv'
  BY <1>4, <1>7 DEF TreeInv
<1>10. PhaseInv' /\ SpaceInv' /\ RunInv'
  BY <1>4 DEF MemInv, PhaseInv, AfterDirect, AfterImage, SpaceInv, RunInv,
              Allocating, Freeing
<1>11. LoopInv'
  BY <1>2 DEF MemInv, LoopInv, JobPage, MapPCs, OwnPCs
<1>12. CallInv'
  BY <1>1, <1>2, <1>7 DEF MemInv, CallInv
<1>13. JobInv'
  <2>1. JobPage' = p /\ JobEntry' = e
    BY <1>5 DEF p, e
  <2>2. pc \in OwnPCs => loc.p \in bmp /\ loc.p \notin Tables /\ loc.p \notin BootUsed
    BY DEF MemInv, JobInv
  <2>3. pc # "free_unmapped"
    BY <1>2 DEF MapPCs, OwnPCs
  <2>4. QED
    BY <1>4, <1>6, <1>7, <2>1, <2>2, <2>3 DEF JobInv
<1>14. EntryInv'
  <2>1. CASE pc = "section_mapped"
    <3>1. p \in ImageRegion /\ e.frame = p - KVMA
      BY <2>1, JobPlace DEF MemInv, p, e
    <3>2. \E k \in SectionIds : FirstOn(k, p) /\ e.flags = PageFlags(Sections[k].flags)
      BY <1>2, <2>1, SectionIsFirst DEF p, e
    <3>3. p \notin DirectRegion /\ p \notin OwnPages
      BY <3>1, Regions DEF OwnPages
    <3>4. Mapped \subseteq VPages
      BY DEF Mapped
    <3>5. QED
      BY <1>4, <1>6, <3>1, <3>2, <3>3, <3>4 DEF MemInv, EntryInv, FlagsFit, OwnPages
  <2>2. CASE pc = "hhdm_mapped"
    <3>1. p \in DirectRegion /\ e.frame = p - HHDM
      BY <2>2, JobPlace DEF MemInv, p, e
    <3>2. p \notin ImageRegion /\ p \notin OwnPages
      BY <3>1, Regions DEF OwnPages
    <3>3. Mapped \subseteq VPages
      BY DEF Mapped
    <3>4. QED
      BY <1>4, <1>6, <3>1, <3>2, <3>3 DEF MemInv, EntryInv, FlagsFit, OwnPages
  <2>3. CASE pc \in OwnPCs
    <3>1. p \in OwnPages /\ p \notin ImageRegion /\ p \notin DirectRegion
      BY <2>3, JobUnsettled, Regions DEF MemInv, OwnPages, p
    <3>2. /\ e.frame \in bmp /\ e.frame \notin Tables /\ e.frame \notin BootUsed
          /\ e.frame \notin Backing
      BY <2>3, JobPlace DEF MemInv, JobInv, e
    <3>3. \A v \in Mapped \cap OwnPages : Leaves[v].frame # e.frame
      BY <3>2, BackingIs DEF OwnLeaves
    <3>4. Mapped \subseteq VPages
      BY DEF Mapped
    <3>5. QED
      BY <1>4, <1>6, <3>1, <3>2, <3>3, <3>4 DEF MemInv, EntryInv, FlagsFit, OwnPages
  <2>4. QED
    BY <1>2, <2>1, <2>2, <2>3 DEF MapPCs
<1>15. AccountInv'
  BY <1>2, <1>4, <1>6 DEF MemInv, AccountInv
<1>16. MappedInv'
  <2>1. \A v \in VPages : Settled(v)' <=> Settled(v)
    BY DEF Settled, ImageSettled,
                    DirectSettled, BitmapSettled, StackSettled, HeapSettled,
                    AfterImage, AfterDirect, AfterBitmap, Booting
  <2>2. JobPage' = p /\ JobPage = p
    BY <1>5 DEF p
  <2>3. pc # "free_unmapped"
    BY <1>2 DEF MapPCs, OwnPCs
  <2>4. QED
    BY <1>1, <1>2, <1>6, <1>7, <2>1, <2>2, <2>3 DEF MemInv, MappedInv, Expected
<1>17. QED
  BY <1>8, <1>9, <1>10, <1>11, <1>12, <1>13, <1>14, <1>15, <1>16 DEF MemInv

-----------------------------------------------------------------------------
(* unmap_page on the page table. *)

\* The page of vmm_free_pages is one of the heap's, mapped to the frame that
\* kvirt_to_phys found.
LEMMA UnmapJob ==
  ASSUME MemInv, walk.op = "unmap"
  PROVE  /\ pc = "free_unmapped" /\ walk.v = JobPage
         /\ JobPage \in OwnPages \cap Mapped
         /\ Leaves[JobPage].frame = loc.p /\ stale = {}
<1>1. pc = "free_unmapped" /\ walk.v = JobPage /\ stale = {}
  BY DEF MemInv, CallInv
<1>2. JobPage \in HeapRegion
  BY <1>1, JobPlace DEF MemInv, Freeing
<1>3. JobPage \in Mapped /\ Leaves[JobPage].frame = loc.p
  BY <1>1 DEF MemInv, JobInv
<1>4. QED
  BY <1>1, <1>2, <1>3 DEF OwnPages

LEMMA UnmapFindsEntry ==
  ASSUME MemInv, walk.op = "unmap"
  PROVE  /\ Present(WalkEntry)
         /\ walk.lvl = 1 => WalkEntry = Leaves[JobPage]
<1>1. WalkTyped /\ TreeInv /\ walk.op # "none"
  BY MemTyped DEF MemInv
<1>2. Present(Leaves[walk.v]) /\ walk.v = JobPage
  BY UnmapJob DEF Mapped
<1>3. walk.lvl > 1 => Present(WalkEntry)
  BY <1>1, <1>2, MissingMeansUnmapped, ZeroAbsent
<1>4. walk.lvl = 1 => WalkEntry = Leaves[JobPage]
  BY <1>1, <1>2, LeafRead
<1>5. QED
  BY <1>1, <1>2, <1>3, <1>4, WalkShape

LEMMA UnmapLeafInv ==
  ASSUME MemInv, walk.op = "unmap", walk.lvl = 1,
         mem' = [mem EXCEPT ![walk.tbl][WalkIndex] = Zero],
         stale' = stale \cup {<<walk.v, WalkEntry.frame>>},
         walk' = [walk EXCEPT !.op = "invlpg"],
         UNCHANGED <<pmmVars, kernel_pml4, hhdm_on, ret, pc, loc, vmmVars>>
  PROVE  MemInv'
<1> USE DEF pmmVars, vmmVars
<1> DEFINE p == JobPage
<1>1. WalkTyped /\ TreeInv /\ walk.op # "none"
  BY MemTyped DEF MemInv
<1>2. /\ pc = "free_unmapped" /\ walk.v = p
      /\ p \in OwnPages \cap Mapped
      /\ Leaves[p].frame = loc.p /\ stale = {} /\ WalkEntry = Leaves[p]
  BY UnmapJob, UnmapFindsEntry
<1>3. /\ Leaves' = [Leaves EXCEPT ![p] = Zero] /\ Tables' = Tables
      /\ IsTree(mem', Roots')
      /\ OnPath(mem', kernel_pml4, walk.v, 1, walk.tbl)
  BY <1>1, <1>2, LeafStep
<1>4. p' = p
  BY DEF JobPage
<1>5. stale' = {<<p, loc.p>>} /\ p \in VPages /\ loc.p \in Frames
  BY <1>1, <1>2 DEF MemInv, TypeOK, WalkTyped
<1> HIDE DEF p
<1>6. /\ Mapped' = Mapped \ {p}
      /\ \A v \in VPages \ {p} : Leaves'[v] = Leaves[v]
      /\ Backing' = Backing \ {loc.p}
  BY <1>2, <1>3, AbsentSet DEF MemInv
<1>7. /\ walk'.op = "invlpg" /\ walk'.v = walk.v /\ walk'.lvl = 1 /\ walk'.tbl = walk.tbl
  BY DEF MemInv, TypeOK
<1>8. TypeOK'
  <2>1. walk.tbl \in Frames /\ WalkIndex \in Index
    BY <1>1, WalkShape
  <2>2. mem' \in Memories
    BY <1>1, <2>1, NothingTyped DEF WalkTyped, Memories
  <2>3. walk \in Walks /\ walk' \in Walks
    BY DEF MemInv, TypeOK, Walks
  <2>4. QED
    BY <1>5, <2>2, <2>3 DEF MemInv, TypeOK, Walks, Memories
<1>9. TreeInv'
  BY <1>1, <1>3, <1>7 DEF TreeInv
<1>10. PhaseInv' /\ SpaceInv' /\ RunInv'
  BY <1>3 DEF MemInv, PhaseInv, AfterDirect, AfterImage, SpaceInv, RunInv,
              Allocating, Freeing
<1>11. LoopInv'
  BY <1>2 DEF MemInv, LoopInv, JobPage, OwnPCs
<1>12. CallInv'
  BY <1>2, <1>4, <1>5, <1>7 DEF CallInv, p
<1>13. JobInv'
  BY <1>2, <1>3, <1>6, <1>7 DEF MemInv, JobInv, MapPCs, OwnPCs
<1>14. EntryInv'
  <2>1. Mapped \subseteq VPages
    BY DEF Mapped
  <2>2. QED
    BY <1>3, <1>6, <2>1 DEF MemInv, EntryInv, FlagsFit, OwnPages
<1>15. AccountInv'
  BY <1>3, <1>6 DEF MemInv, AccountInv
<1>16. MappedInv'
  <2>1. \A v \in VPages : Settled(v)' <=> Settled(v)
    BY DEF Settled, ImageSettled,
                    DirectSettled, BitmapSettled, StackSettled, HeapSettled,
                    AfterImage, AfterDirect, AfterBitmap, Booting
  <2>2. JobPage' = p /\ JobPage = p
    BY <1>4 DEF p
  <2>3. pc \notin MapPCs
    BY <1>2 DEF MapPCs, OwnPCs
  <2>4. QED
    BY <1>1, <1>2, <1>6, <1>7, <2>1, <2>2, <2>3 DEF MemInv, MappedInv, Expected
<1>17. QED
  BY <1>8, <1>9, <1>10, <1>11, <1>12, <1>13, <1>14, <1>15, <1>16 DEF MemInv

\* After invlpg no translation of the page is left.
LEMMA FlushInv ==
  ASSUME MemInv, flush_tlb_single, UNCHANGED <<pc, loc, vmmVars>>
  PROVE  MemInv'
<1> USE DEF pmmVars, vmmVars, flush_tlb_single
<1>1. /\ Leaves' = Leaves /\ Tables' = Tables /\ Roots' = Roots
      /\ Mapped' = Mapped /\ Backing' = Backing
  BY QuietTables
<1>2. /\ pc = "free_unmapped" /\ walk.v = JobPage
      /\ stale = {<<JobPage, loc.p>>}
  BY DEF MemInv, CallInv
<1>3. stale' = {}
  BY <1>2
<1>4. walk' = NoWalk /\ ret' = 0 /\ walk'.op = "none"
  BY DEF Return, NoWalk
<1>5. TypeOK'
  BY <1>3, <1>4, NothingTyped DEF MemInv, TypeOK, Walks
<1>6. TreeInv'
  BY <1>1, <1>4 DEF MemInv, TreeInv
<1>7. PhaseInv' /\ SpaceInv' /\ LoopInv' /\ RunInv'
  BY <1>1 DEF MemInv, PhaseInv, AfterDirect, AfterImage, SpaceInv, LoopInv, RunInv,
              JobPage, Allocating, Freeing
<1>8. CallInv' /\ JobInv'
  BY <1>1, <1>2, <1>3, <1>4 DEF MemInv, CallInv, JobInv, MapPCs, OwnPCs
<1>9. EntryInv' /\ AccountInv'
  BY <1>1 DEF MemInv, EntryInv, FlagsFit, AccountInv
<1>10. MappedInv'
  BY <1>1, <1>2, <1>4 DEF MemInv, MappedInv, Expected, JobPage, MapPCs, OwnPCs, Settled, ImageSettled,
                    DirectSettled, BitmapSettled, StackSettled, HeapSettled,
                    AfterImage, AfterDirect, AfterBitmap, Booting
<1>11. QED
  BY <1>5, <1>6, <1>7, <1>8, <1>9, <1>10 DEF MemInv

\* No table is in frame 0, which is boot's: the entry that leads to the next
\* table is never taken for a missing one.
LEMMA NextIsATable ==
  ASSUME MemInv, walk.op # "none", walk.lvl > 1, Present(WalkEntry)
  PROVE  /\ WalkEntry.frame # 0
         /\ get_table_if_present(walk.tbl, WalkIndex) = WalkEntry.frame
<1> DEFINE r == kernel_pml4
           t == WalkEntry.frame
<1>1. WalkTyped /\ TreeInv
  BY MemTyped DEF MemInv
<1>2. walk.lvl \in 1 .. 4 /\ Roots = {r}
  BY <1>1, WalkShape
<1>3. OnPath(mem, r, walk.v, walk.lvl - 1, t)
  BY <1>1, DownStep
<1>4. t \in L3(mem, {r}) \cup L2(mem, {r}) \cup L1(mem, {r})
  BY <1>1, <1>2, <1>3, PathLevels DEF OnPath, WalkTyped
<1>5. t \in Tables
  BY <1>2, <1>4, TablesAre DEF AllTables
<1>6. QED
  BY <1>5, PmmAssumption DEF MemInv, SpaceInv, get_table_if_present, WalkEntry

\* Every step of a callee.
LEMMA WalkInv ==
  ASSUME MemInv, walk.op # "none", WalkStep, UNCHANGED vmmVars
  PROVE  MemInv'
<1>0. UNCHANGED <<pc, loc>>
  BY DEF WalkStep
<1>1. CASE get_next_table
  <2>1. CASE NextTablePresent
    BY <1>0, <1>1, <2>1, NextIsATable, DownInv DEF get_next_table, NextTablePresent
  <2>2. CASE NextTableNew
    <3>1. PICK f \in Frames :
            /\ pmm_alloc_page(f)
            /\ \/ /\ mem' = [mem EXCEPT
                       ![f] = ZeroTable,
                       ![walk.tbl][WalkIndex] = [frame |-> f, flags |-> {"P", "W", "U"}]]
                  /\ WalkDown(f)
                  /\ UNCHANGED <<panic, kernel_pml4, hhdm_on, stale>>
               \/ /\ panic' = "page fault"
                  /\ UNCHANGED pagingVars
      BY <2>2 DEF NextTableNew
    <3>2. QED
      BY <1>0, <1>1, <2>2, <3>1, NewTableInv, PageFaultInv DEF get_next_table, NextTableNew
  <2>3. CASE NextTableNoMemory
    BY <1>0, <2>3, OutOfMemoryInv DEF NextTableNoMemory
  <2>4. QED
    BY <1>1, <2>1, <2>2, <2>3 DEF get_next_table
<1>2. CASE MapLeaf
  BY <1>0, <1>2, MapPresentInv, MapAbsentInv DEF MapLeaf, memVars
<1>3. CASE UnmapDown
  BY <1>0, <1>3, UnmapFindsEntry, NextIsATable, DownInv DEF UnmapDown
<1>4. CASE UnmapLeaf
  BY <1>0, <1>4, UnmapFindsEntry, UnmapLeafInv DEF UnmapLeaf
<1>5. CASE flush_tlb_single
  BY <1>0, <1>5, FlushInv
<1>6. QED
  BY <1>1, <1>2, <1>3, <1>4, <1>5 DEF WalkStep

-----------------------------------------------------------------------------
(* init_paging. *)

LEMMA RootInv ==
  ASSUME MemInv, pc = "init_paging", walk.op = "none", NEW f \in Frames, pmm_alloc_page(f),
         kernel_pml4' = f, mem' = [mem EXCEPT ![f] = ZeroTable],
         pc' = "sections", loc' = [NoLoc EXCEPT !.n = 1, !.i = 0],
         UNCHANGED <<panic, hhdm_on, stale, walk, ret, vmmVars>>
  PROVE  MemInv'
<1> USE DEF vmmVars
<1>1. /\ bmp' = bmp \cup {f} /\ f \notin bmp /\ bmp' \subseteq Bits
      /\ f \notin Tables /\ f \notin BootUsed /\ f # 0
  BY FreshFrame
<1>2. mem \in Memories /\ kernel_pml4 = 0
  BY DEF MemInv, TypeOK, PhaseInv, Memories
<1>3. Leaves' = Leaves /\ Tables' = {f} /\ IsTree(mem', Roots')
  BY <1>1, <1>2, RootStep
<1>4. Mapped' = Mapped /\ Backing' = Backing
  BY <1>3, SameLeaves
<1>5. Mapped = {}
  BY <1>2, ZeroAbsent DEF Mapped, Leaves
<1>6. Backing = {}
  BY <1>5, BackingIs DEF OwnLeaves
<1>7. Tables = {}
  <2>1. Kids(mem, {}) = {}
    <3>1. \A g : g \notin Kids(mem, {})
      BY KidsMembers
    <3>2. QED
      BY <3>1
  <2>2. QED
    BY <1>2, <2>1, TablesAre, RootsAre DEF AllTables, L3, L2, L1
<1>8. loc' = [i |-> 0, n |-> 1, start |-> 0, p |-> 0] /\ loc = NoLoc
  BY DEF NoLoc, MemInv, LoopInv
<1>9. TypeOK'
  <2>1. ZeroTable \in [Index -> Entry]
    BY NothingTyped DEF ZeroTable
  <2>2. mem' \in Memories
    BY <1>2, <2>1 DEF Memories
  <2>3. loc' \in Locals
    BY <1>8, Numbers DEF Locals
  <2>4. QED
    BY <1>1, <2>2, <2>3 DEF MemInv, TypeOK, Memories, Locals, PCs
<1>10. TreeInv'
  BY <1>3 DEF TreeInv
<1>11. PhaseInv' /\ SpaceInv' /\ LoopInv' /\ RunInv'
  BY <1>1, <1>2, <1>3, <1>8 DEF MemInv, PhaseInv, AfterDirect, AfterImage, SpaceInv,
     LoopInv, RunInv, JobPage, Allocating, Freeing, OwnPCs
<1>12. CallInv' /\ JobInv'
  BY DEF MemInv, CallInv, JobInv, MapPCs, OwnPCs
<1>13. EntryInv'
  BY <1>4, <1>5 DEF EntryInv
<1>14. AccountInv'
  BY <1>1, <1>3, <1>4, <1>6, <1>7, <1>8, Numbers DEF MemInv, AccountInv, SpaceInv, NoLoc
<1>15. MappedInv'
  <2>1. ASSUME NEW v \in VPages
        PROVE  ~Settled(v)'
    <3>1. \A k \in SectionIds : v \in SectionPages(k) => v >= Sections[k].first /\ k >= 1
      BY Section DEF SectionIds
    <3>2. \A k \in SectionIds : Sections[k].first \in Nat
      BY Section
    <3>3. ~ImageSettled(v)'
      BY <1>8, <3>1, <3>2, Numbers DEF ImageSettled, AfterImage, SectionIds
    <3>4. QED
      BY <3>3 DEF Settled, DirectSettled, BitmapSettled, StackSettled, HeapSettled,
                  AfterDirect, AfterImage, AfterBitmap, Booting
  <2>2. QED
    BY <1>4, <1>5, <2>1 DEF MappedInv, Expected, MapPCs, OwnPCs
<1>16. QED
  BY <1>9, <1>10, <1>11, <1>12, <1>13, <1>14, <1>15 DEF MemInv

\* A call of map_page or unmap_page starts at the root.
LEMMA CallsTree ==
  ASSUME MemInv, pc # "init_paging", UNCHANGED <<mem, kernel_pml4>>,
         walk'.v \in VPages, walk'.lvl = 4, walk'.tbl = kernel_pml4
  PROVE  TreeInv'
<1>1. Roots' = Roots
  BY QuietTables
<1>2. QED
  BY <1>1 DEF MemInv, TreeInv, PhaseInv, OnPath

LEMMA MapSectionInv ==
  ASSUME MemInv, walk.op = "none", MapSectionPage, UNCHANGED vmmVars
  PROVE  MemInv'
<1> USE DEF memVars, pmmVars, vmmVars
<1> DEFINE s == Sections[loc.n]
           v == s.first + loc.i
<1>1. /\ Leaves' = Leaves /\ Tables' = Tables /\ Roots' = Roots
      /\ Mapped' = Mapped /\ Backing' = Backing
  BY QuietTables DEF MapSectionPage
<1>2. /\ pc = "sections" /\ loc.n \in SectionIds
      /\ UNCHANGED <<pmmVars, memVars, ret>>
  BY DEF MapSectionPage, MemInv, TypeOK, LoopInv, SectionIds
<1>3. loc \in Locals /\ loc.i \in Nat /\ loc.n \in Nat /\ s.first \in Nat /\ loc.p = 0
  BY <1>2, Section DEF MemInv, TypeOK, Locals, LoopInv, OwnPCs
<1>4. CASE /\ "ALLOC" \in s.flags /\ v <= s.last
           /\ CallMapPage(v, v - KVMA, PageFlags(s.flags))
           /\ pc' = "section_mapped"
           /\ UNCHANGED loc
  <2>1. v \in SectionPages(loc.n)
    BY <1>2, <1>3, <1>4, Section DEF SectionPages
  <2>2. v \in VPages /\ v - KVMA \in Frames
    BY <1>2, <2>1, Section, Regions
  <2>3. JobPage' = v /\ JobEntry' = [frame |-> v - KVMA, flags |-> PageFlags(s.flags)]
    BY <1>4 DEF JobPage, JobEntry
  <2>4. walk' = [op |-> "map", v |-> v, entry |-> JobEntry', lvl |-> 4, tbl |-> kernel_pml4]
    BY <1>4, <2>3 DEF CallMapPage
  <2>5. PageFlags(s.flags) \subseteq Flags
    BY DEF PageFlags, Flags
  <2> HIDE DEF v, s
  <2>6. TypeOK'
    <3>1. JobEntry' \in Entry
      BY <2>2, <2>3, <2>5 DEF Entry
    <3>2. walk' \in Walks
      BY <1>2, <2>2, <2>4, <3>1 DEF MemInv, TypeOK, Walks
    <3>3. QED
      BY <1>2, <1>4, <3>2 DEF MemInv, TypeOK, Walks, PCs
  <2>7. TreeInv'
    BY <1>2, <2>2, <2>4, CallsTree
  <2>8. PhaseInv' /\ SpaceInv' /\ RunInv'
    BY <1>1, <1>2, <1>4 DEF MemInv, PhaseInv, AfterDirect, AfterImage, SpaceInv, RunInv,
       Allocating, Freeing
  <2>9. LoopInv'
    BY <1>2, <1>3, <1>4, <2>1, <2>3 DEF MemInv, LoopInv, OwnPCs
  <2>10. CallInv' /\ JobInv'
    BY <1>2, <1>4, <2>3, <2>4 DEF MemInv, CallInv, JobInv, MapPCs, OwnPCs
  <2>11. EntryInv' /\ AccountInv'
    BY <1>1, <1>2, <1>4 DEF MemInv, EntryInv, FlagsFit, AccountInv
  <2>12. MappedInv'
    <3>1. \A w \in VPages : Settled(w)' <=> Settled(w)
      BY <1>2, <1>4 DEF Settled, ImageSettled,
                    DirectSettled, BitmapSettled, StackSettled, HeapSettled,
                    AfterImage, AfterDirect, AfterBitmap, Booting
    <3>2. walk'.op = "map"
      BY <2>4
    <3>3. QED
      BY <1>1, <1>2, <1>4, <3>1, <3>2 DEF MemInv, MappedInv, Expected, MapPCs, OwnPCs
  <2>13. QED
    BY <2>6, <2>7, <2>8, <2>9, <2>10, <2>11, <2>12 DEF MemInv
<1>5. CASE /\ "ALLOC" \notin s.flags \/ v > s.last
           /\ loc' = [loc EXCEPT !.n = @ + 1, !.i = 0]
           /\ UNCHANGED <<pc, walk>>
  <2>1. loc' = [i |-> 0, n |-> loc.n + 1, start |-> loc.start, p |-> loc.p]
    BY <1>3, <1>5 DEF Locals
  <2>2. TypeOK'
    BY <1>2, <1>3, <1>5, <2>1, Numbers DEF MemInv, TypeOK, Locals
  <2>3. TreeInv' /\ PhaseInv' /\ SpaceInv' /\ RunInv'
    BY <1>1, <1>2, <1>5 DEF MemInv, TreeInv, PhaseInv, AfterDirect, AfterImage, SpaceInv,
       RunInv, Allocating, Freeing
  <2>4. LoopInv'
    BY <1>2, <1>3, <1>5, <2>1 DEF MemInv, LoopInv, OwnPCs
  <2>5. CallInv' /\ JobInv'
    BY <1>2, <1>5 DEF MemInv, CallInv, JobInv, MapPCs, OwnPCs
  <2>6. EntryInv' /\ AccountInv'
    BY <1>1, <1>2, <1>5, <2>1 DEF MemInv, EntryInv, FlagsFit, AccountInv
  <2>7. ASSUME NEW w \in VPages
        PROVE  ImageSettled(w)' <=> ImageSettled(w)
    <3>1. \A k \in SectionIds : w \in SectionPages(k) =>
            w \in Nat /\ w >= Sections[k].first /\ Sections[k].first \in Nat /\ k \in Nat
      BY Section, Numbers DEF SectionIds
    <3>2. w \in SectionPages(loc.n) => w < s.first + loc.i
      BY <1>2, <1>3, <1>5, <3>1, Section DEF SectionPages
    <3>3. loc'.n = loc.n + 1 /\ loc'.i = 0
      BY <2>1
    <3> DEFINE n == loc.n
               i == loc.i
    <3>4. n \in SectionIds /\ n \in Nat /\ (w \in SectionPages(n) => w < Sections[n].first + i)
      BY <1>2, <1>3, <3>2
    <3>5. ImageSettled(w) <=>
            \E k \in SectionIds : w \in SectionPages(k) /\ (k < n \/ (k = n /\ w < Sections[k].first + i))
      BY <1>2 DEF ImageSettled, AfterImage
    <3>6. ImageSettled(w)' <=>
            \E k \in SectionIds : w \in SectionPages(k) /\ (k < n + 1 \/ (k = n + 1 /\ w < Sections[k].first + 0))
      BY <1>2, <1>5, <3>3 DEF ImageSettled, AfterImage
    <3> HIDE DEF n, i
    <3>7. ImageSettled(w) <=> \E k \in SectionIds : w \in SectionPages(k) /\ k < n + 1
      <4>1. \A k \in SectionIds : k < n + 1 <=> k < n \/ k = n
        BY <3>4 DEF SectionIds
      <4>2. \A k \in SectionIds : w \in SectionPages(k) =>
              (k < n + 1 <=> k < n \/ (k = n /\ w < Sections[k].first + i))
        BY <3>4, <4>1
      <4>3. QED
        BY <3>5, <4>2
    <3>8. ImageSettled(w)' <=> \E k \in SectionIds : w \in SectionPages(k) /\ k < n + 1
      BY <3>1, <3>4, <3>6
    <3>9. QED
      BY <3>7, <3>8
  <2>8. MappedInv'
    <3>1. \A w \in VPages : Settled(w)' <=> Settled(w)
      BY <1>2, <1>5, <2>7 DEF Settled, DirectSettled, BitmapSettled, StackSettled, HeapSettled,
                    AfterImage, AfterDirect, AfterBitmap, Booting
    <3>2. QED
      BY <1>1, <1>2, <1>5, <3>1 DEF MemInv, MappedInv, Expected, MapPCs, OwnPCs
  <2>9. QED
    BY <2>2, <2>3, <2>4, <2>5, <2>6, <2>8 DEF MemInv
<1>6. QED
  BY <1>4, <1>5 DEF MapSectionPage

\* map_page does not fail on a page of the image.
LEMMA SectionMappedInv ==
  ASSUME MemInv, walk.op = "none", SectionPageMapped, UNCHANGED vmmVars
  PROVE  MemInv'
<1> USE DEF pagingVars, vmmVars
<1>1. /\ Leaves' = Leaves /\ Tables' = Tables /\ Roots' = Roots
      /\ Mapped' = Mapped /\ Backing' = Backing
  BY QuietTables DEF SectionPageMapped
<1>2. /\ pc = "section_mapped" /\ ret = 0 /\ UNCHANGED <<bmp, pagingVars>>
      /\ pc' = "sections" /\ loc' = [loc EXCEPT !.i = @ + 1] /\ panic' = panic
  BY DEF SectionPageMapped, MemInv, JobInv, MapPCs
<1>3. loc \in Locals /\ loc.i \in Nat /\ loc.n \in SectionIds /\ loc.p = 0
  BY <1>2 DEF MemInv, TypeOK, Locals, LoopInv, OwnPCs
<1>4. loc' = [i |-> loc.i + 1, n |-> loc.n, start |-> loc.start, p |-> loc.p]
  BY <1>2, <1>3 DEF Locals
<1>5. TypeOK'
  BY <1>2, <1>3, <1>4 DEF MemInv, TypeOK, Locals, PCs
<1>6. TreeInv' /\ PhaseInv' /\ SpaceInv' /\ RunInv'
  BY <1>1, <1>2 DEF MemInv, TreeInv, PhaseInv, AfterDirect, AfterImage, SpaceInv,
     RunInv, Allocating, Freeing
<1>7. LoopInv'
  BY <1>2, <1>3, <1>4 DEF MemInv, LoopInv, OwnPCs, SectionIds
<1>8. CallInv' /\ JobInv'
  BY <1>2 DEF MemInv, CallInv, JobInv, MapPCs, OwnPCs
<1>9. EntryInv' /\ AccountInv'
  BY <1>1, <1>2, <1>4 DEF MemInv, EntryInv, FlagsFit, AccountInv
<1>10. ASSUME NEW w \in VPages
       PROVE  ImageSettled(w)' <=> ImageSettled(w) \/ w = JobPage
  <2>1. \A k \in SectionIds : w \in SectionPages(k) =>
          w \in Nat /\ Sections[k].first \in Nat /\ k \in Nat
    BY Section, Numbers DEF SectionIds
  <2>2. JobPage \in SectionPages(loc.n) /\ JobPage = Sections[loc.n].first + loc.i
    BY <1>2 DEF MemInv, LoopInv, JobPage
  <2> HIDE DEF JobPage
  <2>3. loc'.n = loc.n /\ loc'.i = loc.i + 1
    BY <1>4
  <2> DEFINE n == loc.n
             i == loc.i
  <2>4. n \in SectionIds /\ i \in Nat /\ n \in Nat /\ Sections[n].first \in Nat
    BY <1>3, Section DEF SectionIds
  <2>5. ImageSettled(w) <=>
          \E k \in SectionIds : w \in SectionPages(k) /\ (k < n \/ (k = n /\ w < Sections[k].first + i))
    BY <1>2 DEF ImageSettled, AfterImage
  <2>6. ImageSettled(w)' <=>
          \E k \in SectionIds : w \in SectionPages(k) /\ (k < n \/ (k = n /\ w < Sections[k].first + (i + 1)))
    BY <1>2, <2>3 DEF ImageSettled, AfterImage
  <2>7. JobPage \in SectionPages(n) /\ JobPage = Sections[n].first + i
    BY <2>2
  <2> HIDE DEF n, i
  <2>8. w = JobPage => w \in SectionPages(n) /\ w < Sections[n].first + (i + 1)
    BY <2>1, <2>4, <2>7
  <2>9. w \in SectionPages(n) =>
          (w < Sections[n].first + (i + 1) <=> w < Sections[n].first + i \/ w = JobPage)
    BY <2>1, <2>4, <2>7
  <2>10. QED
    BY <2>4, <2>5, <2>6, <2>8, <2>9
<1>11. MappedInv'
  <2>1. \A w \in VPages : Settled(w)' <=> Settled(w) \/ w = JobPage
    BY <1>2, <1>10 DEF Settled, DirectSettled, BitmapSettled, StackSettled, HeapSettled,
                    AfterImage, AfterDirect, AfterBitmap, Booting
  <2>2. QED
    BY <1>1, <1>2, <2>1 DEF MemInv, MappedInv, Expected, MapPCs, OwnPCs
<1>12. QED
  BY <1>5, <1>6, <1>7, <1>8, <1>9, <1>11 DEF MemInv

LEMMA SectionsDoneInv ==
  ASSUME MemInv, walk.op = "none", SectionsDone, UNCHANGED vmmVars
  PROVE  MemInv'
<1> USE DEF pmmVars, pagingVars, vmmVars
<1>1. /\ Leaves' = Leaves /\ Tables' = Tables /\ Roots' = Roots
      /\ Mapped' = Mapped /\ Backing' = Backing
  BY QuietTables DEF SectionsDone
<1>2. /\ pc = "sections" /\ loc.n > Len(Sections) /\ UNCHANGED <<pmmVars, pagingVars>>
      /\ pc' = "hhdm" /\ loc' = NoLoc
  BY DEF SectionsDone
<1>3. loc.p = 0 /\ loc.n \in Nat
  BY <1>2 DEF MemInv, LoopInv, TypeOK, OwnPCs
<1>4. loc'.i = 0 /\ loc'.p = 0
  BY <1>2 DEF NoLoc
<1>5. TypeOK'
  BY <1>2, NothingTyped DEF MemInv, TypeOK, PCs, Locals
<1>6. TreeInv' /\ PhaseInv' /\ SpaceInv' /\ RunInv'
  BY <1>1, <1>2 DEF MemInv, TreeInv, PhaseInv, AfterDirect, AfterImage, SpaceInv,
     RunInv, Allocating, Freeing
<1>7. LoopInv'
  BY <1>2, <1>4, Numbers DEF MemInv, LoopInv, OwnPCs
<1>8. CallInv' /\ JobInv'
  BY <1>2 DEF MemInv, CallInv, JobInv, MapPCs, OwnPCs
<1>9. EntryInv' /\ AccountInv'
  BY <1>1, <1>2, <1>3, <1>4 DEF MemInv, EntryInv, FlagsFit, AccountInv
<1>10. ASSUME NEW w \in VPages
       PROVE  Settled(w)' <=> Settled(w)
  <2>1. \A k \in SectionIds : k < loc.n
    BY <1>2, <1>3, PagingAssumption DEF SectionIds
  <2>2. ImageSettled(w)' <=> ImageSettled(w)
    BY <1>2, <2>1 DEF ImageSettled, AfterImage
  <2>3. ~DirectSettled(w)' /\ ~DirectSettled(w)
    BY <1>2, <1>4, Numbers DEF DirectSettled, DirectRegion, AfterDirect, AfterImage
  <2>4. QED
    BY <1>2, <2>2, <2>3 DEF Settled, BitmapSettled, StackSettled, HeapSettled,
                            AfterBitmap, AfterDirect, AfterImage, Booting
<1>11. MappedInv'
  BY <1>1, <1>2, <1>10 DEF MemInv, MappedInv, Expected, MapPCs, OwnPCs
<1>12. QED
  BY <1>5, <1>6, <1>7, <1>8, <1>9, <1>11 DEF MemInv

LEMMA MapDirectInv ==
  ASSUME MemInv, walk.op = "none", MapDirectPage, UNCHANGED vmmVars
  PROVE  MemInv'
<1> USE DEF memVars, pmmVars, vmmVars
<1>1. /\ Leaves' = Leaves /\ Tables' = Tables /\ Roots' = Roots
      /\ Mapped' = Mapped /\ Backing' = Backing
  BY QuietTables DEF MapDirectPage
<1>2. /\ pc = "hhdm" /\ loc.i < MaxPages /\ UNCHANGED <<pmmVars, memVars, ret, loc>>
      /\ pc' = "hhdm_mapped" /\ CallMapPage(HHDM + loc.i, loc.i, {"P", "W", "NX"})
  BY DEF MapDirectPage
<1>3. loc.i \in Nat /\ loc.p = 0
  BY <1>2 DEF MemInv, TypeOK, LoopInv, OwnPCs
<1>4. HHDM + loc.i \in VPages /\ loc.i \in Frames
  BY <1>2, <1>3, Numbers, Regions DEF DirectRegion, Frames
<1>5. JobPage' = HHDM + loc.i /\ JobEntry' = [frame |-> loc.i, flags |-> {"P", "W", "NX"}]
  BY <1>2 DEF JobPage, JobEntry
<1>6. walk' = [op |-> "map", v |-> JobPage', entry |-> JobEntry', lvl |-> 4, tbl |-> kernel_pml4]
  BY <1>2, <1>5 DEF CallMapPage
<1>7. TypeOK'
  <2>1. JobEntry' \in Entry
    BY <1>4, <1>5 DEF Entry, Flags
  <2>2. walk' \in Walks
    BY <1>2, <1>4, <1>5, <1>6, <2>1 DEF MemInv, TypeOK, Walks
  <2>3. QED
    BY <1>2, <2>2 DEF MemInv, TypeOK, Walks, PCs
<1>8. TreeInv'
  BY <1>2, <1>4, <1>5, <1>6, CallsTree
<1>9. PhaseInv' /\ SpaceInv' /\ RunInv' /\ LoopInv'
  BY <1>1, <1>2, <1>3 DEF MemInv, PhaseInv, AfterDirect, AfterImage, SpaceInv, RunInv,
     LoopInv, OwnPCs, Allocating, Freeing
<1>10. CallInv' /\ JobInv'
  BY <1>2, <1>6 DEF MemInv, CallInv, JobInv, MapPCs, OwnPCs
<1>11. EntryInv' /\ AccountInv'
  BY <1>1, <1>2 DEF MemInv, EntryInv, FlagsFit, AccountInv
<1>12. MappedInv'
  <2>1. \A w \in VPages : Settled(w)' <=> Settled(w)
    BY <1>2 DEF Settled, ImageSettled,
                    DirectSettled, BitmapSettled, StackSettled, HeapSettled,
                    AfterImage, AfterDirect, AfterBitmap, Booting
  <2>2. QED
    BY <1>1, <1>2, <1>6, <2>1 DEF MemInv, MappedInv, Expected, MapPCs, OwnPCs
<1>13. QED
  BY <1>7, <1>8, <1>9, <1>10, <1>11, <1>12 DEF MemInv

\* map_page does not fail on a page of the direct map.
LEMMA DirectMappedInv ==
  ASSUME MemInv, walk.op = "none", DirectPageMapped, UNCHANGED vmmVars
  PROVE  MemInv'
<1> USE DEF pagingVars, vmmVars
<1>1. /\ Leaves' = Leaves /\ Tables' = Tables /\ Roots' = Roots
      /\ Mapped' = Mapped /\ Backing' = Backing
  BY QuietTables DEF DirectPageMapped
<1>2. /\ pc = "hhdm_mapped" /\ ret = 0 /\ UNCHANGED <<bmp, pagingVars>>
      /\ pc' = "hhdm" /\ loc' = [loc EXCEPT !.i = @ + 1] /\ panic' = panic
  BY DEF DirectPageMapped, MemInv, JobInv, MapPCs
<1>3. loc \in Locals /\ loc.i \in Nat /\ loc.i < MaxPages /\ loc.p = 0
  BY <1>2 DEF MemInv, TypeOK, Locals, LoopInv, OwnPCs
<1>4. loc' = [i |-> loc.i + 1, n |-> loc.n, start |-> loc.start, p |-> loc.p]
  BY <1>2, <1>3 DEF Locals
<1>5. TypeOK'
  BY <1>2, <1>3, <1>4 DEF MemInv, TypeOK, Locals, PCs
<1>6. TreeInv' /\ PhaseInv' /\ SpaceInv' /\ RunInv'
  BY <1>1, <1>2 DEF MemInv, TreeInv, PhaseInv, AfterDirect, AfterImage, SpaceInv,
     RunInv, Allocating, Freeing
<1>7. LoopInv'
  BY <1>2, <1>3, <1>4, Numbers DEF MemInv, LoopInv, OwnPCs
<1>8. CallInv' /\ JobInv'
  BY <1>2 DEF MemInv, CallInv, JobInv, MapPCs, OwnPCs
<1>9. EntryInv' /\ AccountInv'
  BY <1>1, <1>2, <1>4 DEF MemInv, EntryInv, FlagsFit, AccountInv
<1>10. ASSUME NEW w \in VPages
       PROVE  DirectSettled(w)' <=> DirectSettled(w) \/ w = JobPage
  <2>1. JobPage = HHDM + loc.i /\ loc'.i = loc.i + 1 /\ JobPage \in DirectRegion
    BY <1>2, <1>4, JobPlace DEF JobPage, MemInv
  <2> HIDE DEF JobPage
  <2>2. w \in DirectRegion =>
          (w < HHDM + (loc.i + 1) <=> w < HHDM + loc.i \/ w = JobPage)
    BY <1>3, <2>1, Numbers
  <2>3. DirectSettled(w) <=> w \in DirectRegion /\ w < HHDM + loc.i
    BY <1>2 DEF DirectSettled, AfterDirect, AfterImage
  <2>4. DirectSettled(w)' <=> w \in DirectRegion /\ w < HHDM + (loc.i + 1)
    BY <1>2, <2>1 DEF DirectSettled, AfterDirect, AfterImage, DirectRegion
  <2>5. QED
    BY <2>1, <2>2, <2>3, <2>4
<1>11. MappedInv'
  <2>1. \A w \in VPages : Settled(w)' <=> Settled(w) \/ w = JobPage
    BY <1>2, <1>10 DEF Settled, ImageSettled, BitmapSettled, StackSettled, HeapSettled,
                    AfterImage, AfterDirect, AfterBitmap, Booting
  <2>2. QED
    BY <1>1, <1>2, <2>1 DEF MemInv, MappedInv, Expected, MapPCs, OwnPCs
<1>12. QED
  BY <1>5, <1>6, <1>7, <1>8, <1>9, <1>11 DEF MemInv

LEMMA SwitchInv ==
  ASSUME MemInv, walk.op = "none", SwitchAddressSpace, UNCHANGED vmmVars
  PROVE  MemInv'
<1> USE DEF pmmVars, vmmVars
<1>1. /\ Leaves' = Leaves /\ Tables' = Tables /\ Roots' = Roots
      /\ Mapped' = Mapped /\ Backing' = Backing
  BY QuietTables DEF SwitchAddressSpace
<1>2. /\ pc = "hhdm" /\ loc.i = MaxPages /\ hhdm_on' = TRUE /\ stale' = {}
      /\ pc' = "vmm_init" /\ loc' = NoLoc
      /\ UNCHANGED <<pmmVars, mem, kernel_pml4, walk, ret>>
  BY DEF SwitchAddressSpace
<1>3. loc.p = 0 /\ loc'.i = 0 /\ loc'.p = 0
  BY <1>2 DEF MemInv, LoopInv, OwnPCs, NoLoc
<1>4. TypeOK'
  BY <1>2, NothingTyped DEF MemInv, TypeOK, PCs, Locals
<1>5. TreeInv' /\ PhaseInv' /\ SpaceInv' /\ RunInv'
  BY <1>1, <1>2 DEF MemInv, TreeInv, PhaseInv, AfterDirect, AfterImage, SpaceInv,
     RunInv, Allocating, Freeing
<1>6. LoopInv'
  BY <1>2, <1>3, Numbers DEF MemInv, LoopInv, OwnPCs
<1>7. CallInv' /\ JobInv'
  BY <1>2 DEF MemInv, CallInv, JobInv, MapPCs, OwnPCs
<1>8. EntryInv' /\ AccountInv'
  BY <1>1, <1>2, <1>3 DEF MemInv, EntryInv, FlagsFit, AccountInv
<1>9. ASSUME NEW w \in VPages
      PROVE  Settled(w)' <=> Settled(w)
  <2>1. ImageSettled(w)' <=> ImageSettled(w)
    BY <1>2 DEF ImageSettled, AfterImage
  <2>2. DirectSettled(w)' <=> DirectSettled(w)
    BY <1>2, Numbers DEF DirectSettled, DirectRegion, AfterDirect, AfterImage
  <2>3. ~BitmapSettled(w)' /\ ~BitmapSettled(w)
    BY <1>2, <1>3, Numbers DEF BitmapSettled, BitmapRegion, AfterBitmap, AfterDirect, AfterImage
  <2>4. QED
    BY <1>2, <2>1, <2>2, <2>3 DEF Settled, StackSettled, HeapSettled, Booting
<1>10. MappedInv'
  BY <1>1, <1>2, <1>9 DEF MemInv, MappedInv, Expected, MapPCs, OwnPCs
<1>11. QED
  BY <1>4, <1>5, <1>6, <1>7, <1>8, <1>10 DEF MemInv

LEMMA AllocateRootInv ==
  ASSUME MemInv, walk.op = "none", AllocateRoot, UNCHANGED vmmVars
  PROVE  MemInv'
<1>1. CASE PmmOutOfMemory /\ UNCHANGED <<kernel_pml4, mem, pc, loc>>
  BY <1>1, OutOfMemoryInv DEF AllocateRoot, pagingVars
<1>2. CASE \E f \in Frames :
             /\ pmm_alloc_page(f)
             /\ \/ /\ Reachable(f)
                   /\ kernel_pml4' = f
                   /\ mem' = [mem EXCEPT ![f] = ZeroTable]
                   /\ pc' = "sections"
                   /\ loc' = [NoLoc EXCEPT !.n = 1, !.i = 0]
                   /\ UNCHANGED panic
                \/ /\ ~Reachable(f)
                   /\ panic' = "page fault"
                   /\ UNCHANGED <<kernel_pml4, mem, pc, loc>>
  BY <1>2, RootInv, PageFaultInv DEF AllocateRoot, pagingVars
<1>3. QED
  BY <1>1, <1>2 DEF AllocateRoot

-----------------------------------------------------------------------------
(* The loops of vmm.c that map pages of their own.                         *)

\* The page that a loop maps next, and where it goes on when map_page returns.
OwnCall(v, next) ==
  \/ pc = "vmm_init" /\ next = "bitmap_mapped" /\ loc.i < BITMAP_PAGES /\ v = BITMAP_START + loc.i
  \/ pc = "vmm_setup_stack" /\ next = "stack_mapped" /\ loc.i < STACK_PAGES /\ v = StackBase + loc.i
  \/ pc = "alloc" /\ next = "alloc_mapped" /\ v = HEAP_START + loc.start + loc.i

LEMMA AllocateAndMapInv ==
  ASSUME MemInv, walk.op = "none", NEW v, NEW next, OwnCall(v, next), AllocateAndMap(v, next)
  PROVE  MemInv'
<1>1. CASE PmmOutOfMemory /\ UNCHANGED <<pagingVars, vmmVars, pc, loc>>
  BY <1>1, OutOfMemoryInv
<1>2. CASE /\ \E f \in Frames :
                /\ pmm_alloc_page(f)
                /\ loc' = [loc EXCEPT !.p = f]
                /\ CallMapPage(v, f, {"P", "W"})
           /\ pc' = next
           /\ UNCHANGED <<panic, memVars, ret, vmmVars>>
  <2> USE DEF memVars, vmmVars
  <2>1. PICK f \in Frames : /\ pmm_alloc_page(f)
                            /\ loc' = [loc EXCEPT !.p = f]
                            /\ CallMapPage(v, f, {"P", "W"})
    BY <1>2
  <2>2. pc' = next /\ UNCHANGED <<panic, memVars, ret, vmmVars>>
    BY <1>2
  <2>3. /\ bmp' = bmp \cup {f} /\ bmp' \subseteq Bits
        /\ f \notin Tables /\ f \notin BootUsed /\ f # 0 /\ f \notin Backing
    BY <2>1, FreshFrame
  <2>4. /\ Leaves' = Leaves /\ Tables' = Tables /\ Roots' = Roots
        /\ Mapped' = Mapped /\ Backing' = Backing
    BY <2>2, QuietTables
  <2>5. loc \in Locals /\ loc' \in Locals
    BY <2>1 DEF MemInv, TypeOK, Locals
  <2>6. /\ loc'.i = loc.i /\ loc'.n = loc.n /\ loc'.start = loc.start /\ loc'.p = f
        /\ loc.i \in Nat /\ loc.n \in Nat /\ loc.start \in Nat
    BY <2>1, <2>5 DEF Locals
  <2>7. pc \in {"vmm_init", "vmm_setup_stack", "alloc"} /\ next \in OwnPCs
    BY DEF OwnCall, OwnPCs
  <2>8. loc.p \in BootUsed \/ loc.p \in Backing
    BY <2>7, Numbers DEF MemInv, LoopInv, OwnPCs
  <2>9. JobPage' = v /\ JobEntry' = [frame |-> f, flags |-> {"P", "W"}]
    BY <2>2, <2>6 DEF JobPage, JobEntry, OwnCall
  <2>10. walk' = [op |-> "map", v |-> v, entry |-> JobEntry', lvl |-> 4, tbl |-> kernel_pml4]
    BY <2>1, <2>9 DEF CallMapPage
  <2>11. RunInv' /\ PhaseInv' /\ SpaceInv'
    BY <2>2, <2>3, <2>4, <2>6 DEF MemInv, RunInv, PhaseInv, SpaceInv, AfterDirect, AfterImage,
       Allocating, Freeing, OwnCall
  <2>12. LoopInv'
    BY <2>2, <2>6 DEF MemInv, LoopInv, OwnCall, OwnPCs
  <2>13. v \in VPages
    <3>1. CASE pc = "vmm_init"
      BY <2>6, <3>1, Numbers, Regions DEF OwnCall, BitmapRegion
    <3>2. CASE pc = "vmm_setup_stack"
      BY <2>6, <3>2, Numbers, Regions DEF OwnCall, StackRegion
    <3>3. CASE pc = "alloc"
      BY <2>6, <3>3, Numbers, Regions DEF OwnCall, HeapRegion, MemInv, RunInv, Allocating
    <3>4. QED
      BY <2>7, <3>1, <3>2, <3>3
  <2>14. TypeOK'
    <3>1. JobEntry' \in Entry
      BY <2>9 DEF Entry, Flags
    <3>2. walk' \in Walks
      BY <2>10, <2>13, <3>1 DEF MemInv, TypeOK, Walks
    <3>3. pc' \in PCs
      BY <2>2, <2>7 DEF PCs, OwnPCs
    <3>4. QED
      BY <2>2, <2>3, <2>5, <3>2, <3>3 DEF MemInv, TypeOK, Walks, Locals
  <2>15. TreeInv'
    BY <2>2, <2>7, <2>10, <2>13, CallsTree
  <2>16. CallInv'
    BY <2>2, <2>7, <2>9, <2>10 DEF MemInv, CallInv, MapPCs, OwnPCs
  <2>17. JobInv'
    BY <2>2, <2>3, <2>4, <2>6, <2>7, <2>10 DEF JobInv, OwnPCs
  <2>18. EntryInv'
    BY <2>3, <2>4 DEF MemInv, EntryInv, FlagsFit
  <2>19. AccountInv'
    BY <2>2, <2>3, <2>4, <2>6, <2>8 DEF MemInv, AccountInv
  <2>20. MappedInv'
    <3>1. \A w \in VPages : Settled(w)' <=> Settled(w)
      BY <2>2, <2>6 DEF OwnCall, Settled, ImageSettled,
                    DirectSettled, BitmapSettled, StackSettled, HeapSettled,
                    AfterImage, AfterDirect, AfterBitmap, Booting
    <3>2. QED
      BY <2>2, <2>4, <2>7, <2>10, <3>1 DEF MemInv, MappedInv, Expected, MapPCs, OwnPCs
  <2>21. QED
    BY <2>11, <2>12, <2>14, <2>15, <2>16, <2>17, <2>18, <2>19, <2>20 DEF MemInv
<1>3. QED
  BY <1>1, <1>2 DEF AllocateAndMap

\* When map_page is back, the page is mapped to the frame of the loop.
LEMMA JobBacked ==
  ASSUME MemInv, pc \in OwnPCs, walk.op = "none"
  PROVE  /\ ret = 0 /\ JobPage \in Mapped \cap OwnPages /\ loc.p \in Backing
         /\ stale = {}
<1>1. ret = 0 /\ Leaves[JobPage].frame = JobEntry.frame
  BY DEF MemInv, JobInv, MapPCs
<1>2. JobPage \in OwnPages /\ JobEntry.frame = loc.p
  BY JobPlace, JobUnsettled DEF MemInv
<1>3. JobPage \in Mapped
  BY <1>2, OwnPagesAreVPages DEF MemInv, MappedInv, Expected, MapPCs
<1>4. QED
  BY <1>1, <1>2, <1>3, BackingIs DEF OwnLeaves, MemInv, CallInv

LEMMA BitmapMappedInv ==
  ASSUME MemInv, walk.op = "none", BitmapPageMapped
  PROVE  MemInv'
<1> USE DEF pmmVars, pagingVars, vmmVars
<1>1. /\ Leaves' = Leaves /\ Tables' = Tables /\ Roots' = Roots
      /\ Mapped' = Mapped /\ Backing' = Backing
  BY QuietTables DEF BitmapPageMapped
<1>2. /\ pc = "bitmap_mapped" /\ UNCHANGED <<pmmVars, pagingVars, vmmVars>>
      /\ pc' = "vmm_init" /\ loc' = [loc EXCEPT !.i = @ + 1]
  BY DEF BitmapPageMapped
<1>3. loc \in Locals /\ loc.i \in Nat /\ loc.i < BITMAP_PAGES /\ loc.p \in Backing
  BY <1>2, JobBacked DEF MemInv, TypeOK, Locals, LoopInv, OwnPCs
<1>4. loc' = [i |-> loc.i + 1, n |-> loc.n, start |-> loc.start, p |-> loc.p]
  BY <1>2, <1>3 DEF Locals
<1>5. TypeOK'
  BY <1>2, <1>3, <1>4 DEF MemInv, TypeOK, Locals, PCs
<1>6. TreeInv' /\ PhaseInv' /\ SpaceInv' /\ RunInv'
  BY <1>1, <1>2 DEF MemInv, TreeInv, PhaseInv, AfterDirect, AfterImage, SpaceInv,
     RunInv, Allocating, Freeing
<1>7. LoopInv'
  BY <1>1, <1>2, <1>3, <1>4, Numbers DEF MemInv, LoopInv, OwnPCs
<1>8. CallInv' /\ JobInv'
  BY <1>2 DEF MemInv, CallInv, JobInv, MapPCs, OwnPCs
<1>9. EntryInv' /\ AccountInv'
  BY <1>1, <1>2, <1>4 DEF MemInv, EntryInv, FlagsFit, AccountInv
<1>10. ASSUME NEW w \in VPages
       PROVE  BitmapSettled(w)' <=> BitmapSettled(w) \/ w = JobPage
  <2>1. JobPage = BITMAP_START + loc.i /\ loc'.i = loc.i + 1 /\ JobPage \in BitmapRegion
    BY <1>2, <1>4, JobPlace DEF JobPage, MemInv
  <2> HIDE DEF JobPage
  <2>2. w \in BitmapRegion =>
          (w < BITMAP_START + (loc.i + 1) <=> w < BITMAP_START + loc.i \/ w = JobPage)
    BY <1>3, <2>1, Numbers
  <2>3. BitmapSettled(w) <=> w \in BitmapRegion /\ w < BITMAP_START + loc.i
    BY <1>2 DEF BitmapSettled, AfterBitmap
  <2>4. BitmapSettled(w)' <=> w \in BitmapRegion /\ w < BITMAP_START + (loc.i + 1)
    BY <1>2, <2>1 DEF BitmapSettled, AfterBitmap, BitmapRegion
  <2>5. QED
    BY <2>1, <2>2, <2>3, <2>4
<1>11. MappedInv'
  <2>1. \A w \in VPages : Settled(w)' <=> Settled(w) \/ w = JobPage
    BY <1>2, <1>10 DEF Settled, ImageSettled, DirectSettled, StackSettled, HeapSettled,
                    AfterImage, AfterDirect, Booting
  <2>2. QED
    BY <1>1, <1>2, <2>1 DEF MemInv, MappedInv, Expected, MapPCs, OwnPCs
<1>12. QED
  BY <1>5, <1>6, <1>7, <1>8, <1>9, <1>11 DEF MemInv

\* vmm_init zeroes the bitmap: no page of the heap is mapped, and it says so.
LEMMA ZeroBitmapInv ==
  ASSUME MemInv, walk.op = "none", ZeroBitmap
  PROVE  MemInv'
<1> USE DEF pmmVars, pagingVars
<1>1. /\ Leaves' = Leaves /\ Tables' = Tables /\ Roots' = Roots
      /\ Mapped' = Mapped /\ Backing' = Backing
  BY QuietTables DEF ZeroBitmap
<1>2. /\ pc = "vmm_init" /\ loc.i = BITMAP_PAGES /\ vbmp' = {}
      /\ UNCHANGED <<pmmVars, pagingVars, last_allocated_index>>
      /\ pc' = "vmm_setup_stack" /\ loc' = NoLoc
  BY DEF ZeroBitmap
<1>3. /\ loc.p \in BootUsed \/ loc.p \in Backing
      /\ loc'.i = 0 /\ loc'.p = 0
  BY <1>2, Numbers DEF MemInv, LoopInv, NoLoc
<1>4. TypeOK'
  BY <1>2, NothingTyped DEF MemInv, TypeOK, Locals, PCs
<1>5. TreeInv' /\ PhaseInv' /\ SpaceInv' /\ RunInv'
  BY <1>1, <1>2 DEF MemInv, TreeInv, PhaseInv, AfterDirect, AfterImage, SpaceInv,
     RunInv, Allocating, Freeing
<1>6. LoopInv'
  BY <1>2, <1>3, Numbers DEF MemInv, LoopInv, OwnPCs
<1>7. CallInv' /\ JobInv'
  BY <1>2 DEF MemInv, CallInv, JobInv, MapPCs, OwnPCs
<1>8. EntryInv' /\ AccountInv'
  BY <1>1, <1>2, <1>3 DEF MemInv, EntryInv, FlagsFit, AccountInv
<1>9. ASSUME NEW w \in VPages
      PROVE  Settled(w)' <=> Settled(w)
  <2>1. BitmapSettled(w)' <=> BitmapSettled(w)
    BY <1>2, Numbers DEF BitmapSettled, BitmapRegion, AfterBitmap, AfterDirect, AfterImage
  <2>2. ~StackSettled(w)' /\ ~StackSettled(w)
    BY <1>2, <1>3, Numbers DEF StackSettled, StackRegion, Booting
  <2>3. ~HeapSettled(w)' /\ ~HeapSettled(w)
    BY <1>2 DEF HeapSettled, Booting
  <2>4. QED
    BY <1>2, <2>1, <2>2, <2>3 DEF Settled, ImageSettled, DirectSettled, AfterDirect, AfterImage
<1>10. MappedInv'
  BY <1>1, <1>2, <1>9 DEF MemInv, MappedInv, Expected, MapPCs, OwnPCs
<1>11. QED
  BY <1>4, <1>5, <1>6, <1>7, <1>8, <1>10 DEF MemInv

\* map_page does not fail on a page of the stack.
LEMMA StackMappedInv ==
  ASSUME MemInv, walk.op = "none", StackPageMapped
  PROVE  MemInv'
<1> USE DEF pagingVars, vmmVars
<1>1. /\ Leaves' = Leaves /\ Tables' = Tables /\ Roots' = Roots
      /\ Mapped' = Mapped /\ Backing' = Backing
  BY QuietTables DEF StackPageMapped
<1>2. /\ pc = "stack_mapped" /\ UNCHANGED <<bmp, pagingVars, vmmVars>>
      /\ pc' = "vmm_setup_stack" /\ loc' = [loc EXCEPT !.i = @ + 1] /\ panic' = panic
  BY JobBacked DEF StackPageMapped, OwnPCs
<1>3. loc \in Locals /\ loc.i \in Nat /\ loc.i < STACK_PAGES /\ loc.p \in Backing
  BY <1>2, JobBacked DEF MemInv, TypeOK, Locals, LoopInv, OwnPCs
<1>4. loc' = [i |-> loc.i + 1, n |-> loc.n, start |-> loc.start, p |-> loc.p]
  BY <1>2, <1>3 DEF Locals
<1>5. TypeOK'
  BY <1>2, <1>3, <1>4 DEF MemInv, TypeOK, Locals, PCs
<1>6. TreeInv' /\ PhaseInv' /\ SpaceInv' /\ RunInv'
  BY <1>1, <1>2 DEF MemInv, TreeInv, PhaseInv, AfterDirect, AfterImage, SpaceInv,
     RunInv, Allocating, Freeing
<1>7. LoopInv'
  BY <1>1, <1>2, <1>3, <1>4, Numbers DEF MemInv, LoopInv, OwnPCs
<1>8. CallInv' /\ JobInv'
  BY <1>2 DEF MemInv, CallInv, JobInv, MapPCs, OwnPCs
<1>9. EntryInv' /\ AccountInv'
  BY <1>1, <1>2, <1>4 DEF MemInv, EntryInv, FlagsFit, AccountInv
<1>10. ASSUME NEW w \in VPages
       PROVE  StackSettled(w)' <=> StackSettled(w) \/ w = JobPage
  <2>1. JobPage = StackBase + loc.i /\ loc'.i = loc.i + 1 /\ JobPage \in StackRegion
    BY <1>2, <1>4, JobPlace DEF JobPage, MemInv
  <2> HIDE DEF JobPage
  <2>2. w \in StackRegion =>
          (w < StackBase + (loc.i + 1) <=> w < StackBase + loc.i \/ w = JobPage)
    BY <1>3, <2>1, Numbers
  <2>3. StackSettled(w) <=> w \in StackRegion /\ w < StackBase + loc.i
    BY <1>2 DEF StackSettled, Booting
  <2>4. StackSettled(w)' <=> w \in StackRegion /\ w < StackBase + (loc.i + 1)
    BY <1>2, <2>1 DEF StackSettled, Booting, StackRegion, StackBase
  <2>5. QED
    BY <2>1, <2>2, <2>3, <2>4
<1>11. MappedInv'
  <2>1. \A w \in VPages : Settled(w)' <=> Settled(w) \/ w = JobPage
    BY <1>2, <1>10 DEF Settled, ImageSettled, DirectSettled, BitmapSettled, HeapSettled,
                    AfterImage, AfterDirect, AfterBitmap, Booting
  <2>2. QED
    BY <1>1, <1>2, <2>1 DEF MemInv, MappedInv, Expected, MapPCs, OwnPCs
<1>12. QED
  BY <1>5, <1>6, <1>7, <1>8, <1>9, <1>11 DEF MemInv

LEMMA StackDoneInv ==
  ASSUME MemInv, walk.op = "none", StackDone
  PROVE  MemInv'
<1> USE DEF pmmVars, pagingVars, vmmVars
<1>1. /\ Leaves' = Leaves /\ Tables' = Tables /\ Roots' = Roots
      /\ Mapped' = Mapped /\ Backing' = Backing
  BY QuietTables DEF StackDone
<1>2. /\ pc = "vmm_setup_stack" /\ loc.i = STACK_PAGES
      /\ UNCHANGED <<pmmVars, pagingVars, vmmVars>>
      /\ pc' = "idle" /\ loc' = NoLoc
  BY DEF StackDone
<1>3. /\ loc.p \in BootUsed \/ loc.p \in Backing
      /\ loc'.i = 0 /\ loc'.p = 0 /\ vbmp = {}
  BY <1>2, Numbers DEF MemInv, LoopInv, NoLoc
<1>4. TypeOK'
  BY <1>2, NothingTyped DEF MemInv, TypeOK, Locals, PCs
<1>5. TreeInv' /\ PhaseInv' /\ SpaceInv' /\ RunInv'
  BY <1>1, <1>2 DEF MemInv, TreeInv, PhaseInv, AfterDirect, AfterImage, SpaceInv,
     RunInv, Allocating, Freeing
<1>6. LoopInv'
  BY <1>2, <1>3 DEF MemInv, LoopInv, OwnPCs
<1>7. CallInv' /\ JobInv'
  BY <1>2 DEF MemInv, CallInv, JobInv, MapPCs, OwnPCs
<1>8. EntryInv' /\ AccountInv'
  BY <1>1, <1>2, <1>3 DEF MemInv, EntryInv, FlagsFit, AccountInv
<1>9. ASSUME NEW w \in VPages
      PROVE  Settled(w)' <=> Settled(w)
  <2>1. StackSettled(w)' <=> StackSettled(w)
    BY <1>2, Numbers DEF StackSettled, StackRegion, StackBase, Booting
  <2>2. ~HeapSettled(w)' /\ ~HeapSettled(w)
    BY <1>2, <1>3 DEF HeapSettled, Booting
  <2>3. QED
    BY <1>2, <2>1, <2>2 DEF Settled, ImageSettled, DirectSettled, BitmapSettled,
                            AfterBitmap, AfterDirect, AfterImage
<1>10. MappedInv'
  BY <1>1, <1>2, <1>9 DEF MemInv, MappedInv, Expected, MapPCs, OwnPCs
<1>11. QED
  BY <1>4, <1>5, <1>6, <1>7, <1>8, <1>10 DEF MemInv

-----------------------------------------------------------------------------
(* vmm_alloc_pages.                                                        *)

LEMMA AllocMarkInv ==
  ASSUME MemInv, walk.op = "none", AllocMarkPage
  PROVE  MemInv'
<1> USE DEF pagingVars, vmmVars
<1>1. /\ Leaves' = Leaves /\ Tables' = Tables /\ Roots' = Roots
      /\ Mapped' = Mapped /\ Backing' = Backing
  BY QuietTables DEF AllocMarkPage
<1>2. /\ pc = "alloc_mapped" /\ UNCHANGED <<bmp, panic, pagingVars>>
      /\ vbmp' = vbmp \cup {loc.start + loc.i}
      /\ \/ /\ loc.i + 1 < loc.n
            /\ pc' = "alloc" /\ loc' = [loc EXCEPT !.i = @ + 1, !.p = 0]
            /\ UNCHANGED last_allocated_index
         \/ /\ loc.i + 1 = loc.n
            /\ pc' = "idle" /\ loc' = NoLoc
            /\ last_allocated_index' = loc.start + loc.n
  BY JobBacked DEF AllocMarkPage, OwnPCs, bitmap_set
<1>3. loc \in Locals /\ loc.i \in Nat /\ loc.n \in Nat /\ loc.start \in Nat /\ loc.p \in Backing
  BY <1>2, JobBacked DEF MemInv, TypeOK, Locals, OwnPCs
<1>4. /\ loc.i < loc.n /\ loc.start + loc.n <= HEAP_PAGES
      /\ Run(loc.start, loc.i) \subseteq vbmp
      /\ Run(loc.start + loc.i, loc.n - loc.i) \cap vbmp = {}
  BY <1>2 DEF MemInv, RunInv, Allocating
<1>5. vbmp' \subseteq HeapIdx
  BY <1>2, <1>3, <1>4, Numbers DEF MemInv, TypeOK, HeapIdx
<1>6. NoLoc.p = 0 /\ NoLoc \in Locals
  BY NothingTyped DEF NoLoc
<1>7. ASSUME loc' = [loc EXCEPT !.i = @ + 1, !.p = 0]
       PROVE  loc' = [i |-> loc.i + 1, n |-> loc.n, start |-> loc.start, p |-> 0]
  BY <1>3, <1>7 DEF Locals
<1>8. loc'.p = 0 /\ pc' \in {"alloc", "idle"}
  BY <1>2, <1>6, <1>7
<1>9. TypeOK'
  <2>1. loc' \in Locals
    <3>1. [i |-> loc.i + 1, n |-> loc.n, start |-> loc.start, p |-> 0] \in Locals
      BY <1>3, Numbers DEF Locals
    <3>2. QED
      BY <1>2, <1>6, <1>7, <3>1
  <2>2. last_allocated_index' \in 0 .. HEAP_PAGES
    BY <1>2, <1>3, <1>4, Numbers DEF MemInv, TypeOK
  <2>3. QED
    BY <1>2, <1>5, <1>8, <2>1, <2>2 DEF MemInv, TypeOK, Locals, PCs
<1>10. TreeInv' /\ PhaseInv' /\ SpaceInv'
  BY <1>1, <1>2, <1>8 DEF MemInv, TreeInv, PhaseInv, AfterDirect, AfterImage, SpaceInv
<1>11. LoopInv'
  BY <1>2, <1>8 DEF MemInv, LoopInv, OwnPCs
<1>12. RunInv'
  <2>1. CASE pc' = "idle"
    BY <2>1 DEF RunInv, Allocating, Freeing
  <2>2. CASE pc' = "alloc"
    <3>1. /\ loc'.i = loc.i + 1 /\ loc'.n = loc.n /\ loc'.start = loc.start
          /\ loc.i + 1 < loc.n
      BY <1>2, <1>3, <2>2 DEF Locals
    <3>2. Run(loc.start, loc.i + 1) \subseteq vbmp'
      BY <1>2, <1>3, <1>4 DEF Run
    <3>3. Run(loc.start + (loc.i + 1), loc.n - (loc.i + 1)) \cap vbmp' = {}
      BY <1>2, <1>3, <1>4 DEF Run
    <3>4. QED
      BY <1>4, <2>2, <3>1, <3>2, <3>3 DEF RunInv, Allocating, Freeing, Run
  <2>3. QED
    BY <1>8, <2>1, <2>2
<1>13. CallInv' /\ JobInv'
  BY <1>2, <1>8 DEF MemInv, CallInv, JobInv, MapPCs, OwnPCs
<1>14. EntryInv' /\ AccountInv'
  BY <1>1, <1>2, <1>3 DEF MemInv, EntryInv, FlagsFit, AccountInv
<1>15. ASSUME NEW w \in VPages
       PROVE  HeapSettled(w)' <=> HeapSettled(w) \/ w = JobPage
  <2>1. JobPage = HEAP_START + loc.start + loc.i /\ JobPage \in HeapRegion
    BY <1>2, JobPlace DEF JobPage, MemInv, Allocating
  <2> HIDE DEF JobPage
  <2>2. w \in HeapRegion => (w - HEAP_START = loc.start + loc.i <=> w = JobPage)
    BY <1>3, <2>1, Numbers
  <2>3. HeapSettled(w) <=> w \in HeapRegion /\ w - HEAP_START \in vbmp
    BY <1>2 DEF HeapSettled, Booting
  <2>4. HeapSettled(w)' <=> w \in HeapRegion /\ w - HEAP_START \in vbmp'
    BY <1>8 DEF HeapSettled, Booting, HeapRegion
  <2>5. QED
    BY <1>2, <2>1, <2>2, <2>3, <2>4
<1>16. MappedInv'
  <2>1. \A w \in VPages : Settled(w)' <=> Settled(w) \/ w = JobPage
    BY <1>2, <1>8, <1>15 DEF Settled, ImageSettled, DirectSettled, BitmapSettled, StackSettled,
                    AfterImage, AfterDirect, AfterBitmap, Booting
  <2>2. QED
    BY <1>1, <1>2, <1>8, <2>1 DEF MemInv, MappedInv, Expected, MapPCs, OwnPCs
<1>17. QED
  BY <1>9, <1>10, <1>11, <1>12, <1>13, <1>14, <1>16 DEF MemInv

\* A set of page indexes has a first one.
LEMMA HasFirst ==
  ASSUME NEW S \in SUBSET HeapIdx, S # {}
  PROVE  First(S) \in S
<1> DEFINE N == HEAP_PAGES
           Before(s) == 0 .. (s - 1)
           T == {Before(s) : s \in S}
           R == StrictSubsetOrdering(0 .. N)
<1>0. N \in Nat /\ S \subseteq 0 .. N
  BY Numbers DEF HeapIdx
<1> HIDE DEF N
<1>1. IsFiniteSet(0 .. N)
  BY <1>0, FS_Interval
<1>2. IsWellFoundedOn(R, SUBSET (0 .. N))
  BY <1>1, FS_StrictSubsetOrderingWellFounded, FS_FiniteSubsetsOfFinite
<1>3. T \subseteq SUBSET (0 .. N) /\ T # {}
  <2>1. \A s \in S : Before(s) \subseteq 0 .. N
    BY <1>0
  <2> HIDE DEF Before
  <2>2. QED
    BY <2>1
<1> HIDE DEF R, T
<1>4. PICK x \in T : \A y \in T : <<y, x>> \notin R
  BY <1>2, <1>3, WFMin
<1>5. PICK s \in S : x = Before(s)
  BY DEF T
<1>6. ASSUME NEW t \in S, t < s
      PROVE  FALSE
  <2>1. Before(t) \subseteq Before(s) /\ Before(t) # Before(s)
    <3>1. t \in Before(s) /\ t \notin Before(t)
      BY <1>0, <1>6
    <3>2. QED
      BY <1>0, <1>6, <3>1
  <2>2. <<Before(t), Before(s)>> \in R
    BY <1>0, <1>6, <2>1 DEF R, StrictSubsetOrdering
  <2>3. Before(t) \in T
    BY <1>6 DEF T
  <2>4. QED
    BY <1>4, <1>5, <2>2, <2>3
<1>7. \A t \in S : s <= t
  BY <1>0, <1>6
<1>8. QED
  BY <1>5, <1>7 DEF First

\* The run that the scan finds is free and inside the heap.
LEMMA CandidateRuns ==
  ASSUME TypeOK, NEW n \in Nat, Candidates(n) # {}
  PROVE  /\ First(Candidates(n)) \in HeapIdx /\ n > 0
         /\ First(Candidates(n)) + n <= HEAP_PAGES
         /\ Run(First(Candidates(n)), n) \cap vbmp = {}
<1>1. last_allocated_index \in 0 .. HEAP_PAGES
  BY DEF TypeOK
<1>2. Candidates(n) \subseteq Fits(n, 0, HEAP_PAGES)
  BY <1>1, Numbers DEF Candidates, Fits, HeapIdx
<1>3. Candidates(n) \subseteq HeapIdx
  BY <1>2 DEF Fits
<1>4. First(Candidates(n)) \in Fits(n, 0, HEAP_PAGES)
  BY <1>2, <1>3, HasFirst
<1> DEFINE f == First(Candidates(n))
<1>5. f \in Fits(n, 0, HEAP_PAGES)
  BY <1>4
<1> HIDE DEF f
<1>6. f \in HeapIdx /\ n > 0 /\ f + n <= HEAP_PAGES /\ Run(f, n) \cap vbmp = {}
  BY <1>5 DEF Fits
<1>7. QED
  BY <1>6 DEF f

LEMMA AllocPagesInv ==
  ASSUME MemInv, walk.op = "none", NEW n \in AllocSizes, AllocPages(n)
  PROVE  MemInv'
<1> USE DEF pagingVars, vmmVars
<1>1. CASE Candidates(n) = {}
  <2>1. /\ panic' = "VMM: kernel heap exhausted"
        /\ UNCHANGED <<bmp, pagingVars, vmmVars, pc, loc>>
    BY <1>1 DEF AllocPages
  <2>2. panic' \in Outcomes \ {NoPanic}
    BY <2>1 DEF Outcomes, NoPanic
  <2>3. QED
    BY <2>1, <2>2, PanicInv DEF MemInv, TypeOK
<1>2. CASE Candidates(n) # {}
  <2> DEFINE s == First(Candidates(n))
  <2>1. n \in Nat
    BY KernelAssumption
  <2>2. s \in Nat /\ n > 0 /\ s + n <= HEAP_PAGES /\ Run(s, n) \cap vbmp = {}
    BY <1>2, <2>1, CandidateRuns, Numbers DEF MemInv, HeapIdx
  <2>3. /\ pc = "idle" /\ pc' = "alloc" /\ loc' = [NoLoc EXCEPT !.n = n, !.start = s]
        /\ UNCHANGED <<bmp, panic, pagingVars, vmmVars>>
    BY <1>2 DEF AllocPages
  <2> HIDE DEF s
  <2>4. loc = NoLoc /\ NoLoc.p = 0
    BY <2>3 DEF NoLoc, MemInv, LoopInv
  <2>5. loc' = [i |-> 0, n |-> n, start |-> s, p |-> 0]
    BY <2>3 DEF NoLoc
  <2>6. loc'.i = 0 /\ loc'.n = n /\ loc'.start = s /\ loc'.p = 0 /\ loc.p = 0
    BY <2>4, <2>5
  <2>7. /\ Leaves' = Leaves /\ Tables' = Tables /\ Roots' = Roots
        /\ Mapped' = Mapped /\ Backing' = Backing
    BY <2>3, QuietTables
  <2>8. TypeOK'
    BY <2>1, <2>2, <2>3, <2>5, Numbers DEF MemInv, TypeOK, Locals, PCs
  <2>9. TreeInv' /\ PhaseInv' /\ SpaceInv'
    BY <2>3, <2>7 DEF MemInv, TreeInv, PhaseInv, AfterDirect, AfterImage, SpaceInv
  <2>10. LoopInv'
    BY <2>3, <2>6 DEF MemInv, LoopInv, OwnPCs
  <2>11. RunInv'
    <3>1. loc'.i = 0 /\ loc'.n = n /\ loc'.start = s /\ vbmp' = vbmp
      BY <2>3, <2>6
    <3>2. Run(s, 0) = {} /\ Run(s + 0, n - 0) = Run(s, n)
      BY <2>1, <2>2 DEF Run
    <3>3. QED
      BY <2>1, <2>2, <2>3, <3>1, <3>2 DEF RunInv, Allocating, Freeing, Run
  <2>12. CallInv' /\ JobInv'
    BY <2>3 DEF MemInv, CallInv, JobInv, MapPCs, OwnPCs
  <2>13. EntryInv' /\ AccountInv'
    BY <2>3, <2>6, <2>7 DEF MemInv, EntryInv, FlagsFit, AccountInv
  <2>14. MappedInv'
    <3>1. \A w \in VPages : Settled(w)' <=> Settled(w)
      BY <2>3 DEF Settled, ImageSettled,
                    DirectSettled, BitmapSettled, StackSettled, HeapSettled,
                    AfterImage, AfterDirect, AfterBitmap, Booting
    <3>2. QED
      BY <2>3, <2>7, <3>1 DEF MemInv, MappedInv, Expected, MapPCs, OwnPCs
  <2>15. QED
    BY <2>8, <2>9, <2>10, <2>11, <2>12, <2>13, <2>14 DEF MemInv
<1>3. QED
  BY <1>1, <1>2

-----------------------------------------------------------------------------
(* vmm_free_pages.                                                         *)

LEMMA FreePagesInv ==
  ASSUME MemInv, walk.op = "none", NEW a \in FreeArgs, FreePages(a[1], a[2])
  PROVE  MemInv'
<1> USE DEF pmmVars, memVars, vmmVars
<1> DEFINE v == a[1]
           n == a[2]
<1>1. v \in VPages /\ v \in Nat /\ n \in Nat /\ v + n < WORD
  BY KernelAssumption, CallersAssumption, Numbers
<1>2. /\ pc = "idle" /\ UNCHANGED <<pmmVars, memVars, walk, vmmVars>>
      /\ \/ ret' \in {0, 1} /\ UNCHANGED <<pc, loc>>
         \/ /\ InHeap(v, n) /\ n > 0 /\ pc' = "free"
            /\ loc' = [NoLoc EXCEPT !.n = n, !.start = v - HEAP_START]
            /\ UNCHANGED ret
  BY DEF FreePages
<1>3. ASSUME InHeap(v, n)
      PROVE  v - HEAP_START \in Nat /\ (v - HEAP_START) + n <= HEAP_PAGES
  <2>1. (v + n) % WORD = v + n
    <3> DEFINE x == v + n
    <3>1. x \in Nat /\ WORD \in Nat /\ x < WORD
      BY <1>1, VmmAssumption
    <3> HIDE DEF x
    <3>2. x % WORD = x
      BY <3>1
    <3>3. QED
      BY <3>2 DEF x
  <2>2. v >= HEAP_START /\ v + n <= HEAP_START + HEAP_PAGES
    BY <1>3, <2>1 DEF InHeap
  <2>3. QED
    BY <1>1, <2>2, Numbers
<1> HIDE DEF v, n
<1>4. /\ Leaves' = Leaves /\ Tables' = Tables /\ Roots' = Roots
      /\ Mapped' = Mapped /\ Backing' = Backing
  BY <1>2, QuietTables
<1>5. loc = NoLoc /\ NoLoc.p = 0 /\ loc.p = 0
  BY <1>2 DEF MemInv, LoopInv, NoLoc
<1>6. CASE ret' \in {0, 1} /\ UNCHANGED <<pc, loc>>
  <2>1. TypeOK'
    BY <1>2, <1>6 DEF MemInv, TypeOK
  <2>2. TreeInv' /\ PhaseInv' /\ SpaceInv' /\ LoopInv' /\ RunInv'
    BY <1>2, <1>4, <1>6 DEF MemInv, TreeInv, PhaseInv, AfterDirect, AfterImage, SpaceInv,
       LoopInv, RunInv, Allocating, Freeing, OwnPCs
  <2>3. CallInv' /\ JobInv'
    BY <1>2, <1>6 DEF MemInv, CallInv, JobInv, MapPCs, OwnPCs
  <2>4. EntryInv' /\ AccountInv'
    BY <1>2, <1>4, <1>6 DEF MemInv, EntryInv, FlagsFit, AccountInv
  <2>5. MappedInv'
    <3>1. \A w \in VPages : Settled(w)' <=> Settled(w)
      BY <1>2, <1>6 DEF Settled, ImageSettled,
                    DirectSettled, BitmapSettled, StackSettled, HeapSettled,
                    AfterImage, AfterDirect, AfterBitmap, Booting
    <3>2. QED
      BY <1>2, <1>4, <1>6, <3>1 DEF MemInv, MappedInv, Expected, MapPCs, OwnPCs
  <2>6. QED
    BY <2>1, <2>2, <2>3, <2>4, <2>5 DEF MemInv
<1>7. CASE /\ InHeap(v, n) /\ n > 0 /\ pc' = "free"
           /\ loc' = [NoLoc EXCEPT !.n = n, !.start = v - HEAP_START]
           /\ UNCHANGED ret
  <2> DEFINE s == v - HEAP_START
  <2>1. s \in Nat /\ s + n <= HEAP_PAGES /\ n > 0 /\ n \in Nat
    BY <1>1, <1>3, <1>7
  <2>2. loc' = [NoLoc EXCEPT !.n = n, !.start = s]
    BY <1>7
  <2> HIDE DEF s
  <2>3. loc' = [i |-> 0, n |-> n, start |-> s, p |-> 0]
    BY <2>2 DEF NoLoc
  <2>4. loc'.i = 0 /\ loc'.n = n /\ loc'.start = s /\ loc'.p = 0
    BY <2>3
  <2>5. TypeOK'
    BY <1>2, <1>7, <2>1, <2>3, Numbers DEF MemInv, TypeOK, Locals, PCs
  <2>6. TreeInv' /\ PhaseInv' /\ SpaceInv'
    BY <1>2, <1>4, <1>7 DEF MemInv, TreeInv, PhaseInv, AfterDirect, AfterImage, SpaceInv
  <2>7. LoopInv'
    BY <1>2, <1>7, <2>4 DEF MemInv, LoopInv, OwnPCs
  <2>8. RunInv'
    BY <1>7, <2>1, <2>4 DEF RunInv, Allocating, Freeing, Run
  <2>9. CallInv' /\ JobInv'
    BY <1>2, <1>7 DEF MemInv, CallInv, JobInv, MapPCs, OwnPCs
  <2>10. EntryInv' /\ AccountInv'
    BY <1>2, <1>4, <1>5, <2>4 DEF MemInv, EntryInv, FlagsFit, AccountInv
  <2>11. MappedInv'
    <3>1. \A w \in VPages : Settled(w)' <=> Settled(w)
      BY <1>2, <1>7 DEF Settled, ImageSettled,
                    DirectSettled, BitmapSettled, StackSettled, HeapSettled,
                    AfterImage, AfterDirect, AfterBitmap, Booting
    <3>2. QED
      BY <1>2, <1>4, <1>7, <3>1 DEF MemInv, MappedInv, Expected, MapPCs, OwnPCs
  <2>12. QED
    BY <2>5, <2>6, <2>7, <2>8, <2>9, <2>10, <2>11 DEF MemInv
<1>8. QED
  BY <1>2, <1>6, <1>7

\* A frame that virt_to_phys returns is the one the page is mapped to.
LEMMA LookupFinds ==
  ASSUME NEW v \in VPages, kernel_pml4 # 0, virt_to_phys(v) # 0
  PROVE  v \in Mapped /\ Leaves[v].frame = virt_to_phys(v)
<1> DEFINE r  == kernel_pml4
           t3 == get_table_if_present(r, PML4_IDX(v))
           t2 == IF t3 = 0 THEN 0 ELSE get_table_if_present(t3, PDPT_IDX(v))
           t1 == IF t2 = 0 THEN 0 ELSE get_table_if_present(t2, PD_IDX(v))
           f  == IF t1 = 0 THEN 0 ELSE get_table_if_present(t1, PT_IDX(v))
<1>1. f = virt_to_phys(v) /\ f # 0
  BY DEF virt_to_phys
<1>2. H3(mem, r, v) /\ t3 = T3(mem, r, v)
  BY <1>1 DEF get_table_if_present, H3, T3
<1>3. H2(mem, r, v) /\ t2 = T2(mem, r, v)
  BY <1>1, <1>2 DEF get_table_if_present, H2, T2
<1>4. H1(mem, r, v) /\ t1 = T1(mem, r, v)
  BY <1>1, <1>3 DEF get_table_if_present, H1, T1
<1>5. Present(Leaf(mem, r, v)) /\ f = Leaf(mem, r, v).frame
  BY <1>1, <1>4 DEF get_table_if_present, Leaf
<1>6. Leaves[v] = Leaf(mem, r, v)
  BY LeavesAre
<1>7. QED
  BY <1>1, <1>5, <1>6 DEF Mapped

\* kvirt_to_phys is never asked before init_paging has made the root.
LEMMA FreeLookupInv ==
  ASSUME MemInv, walk.op = "none", FreeLookup
  PROVE  MemInv'
<1> USE DEF memVars, vmmVars
<1> DEFINE v == HEAP_START + loc.start + loc.i
<1>1. pc = "free" /\ UNCHANGED <<bmp, memVars, ret, vmmVars>>
  BY DEF FreeLookup
<1>2. v = JobPage /\ v \in HeapRegion /\ v \in VPages
  <2>1. v = JobPage
    BY <1>1 DEF JobPage
  <2>2. JobPage \in HeapRegion
    BY <1>1, JobPlace DEF MemInv, Freeing
  <2>3. QED
    BY <2>1, <2>2, Regions
<1>3. CASE /\ virt_to_phys(v) # 0
           /\ loc' = [loc EXCEPT !.p = virt_to_phys(v)]
           /\ CallUnmapPage(v)
           /\ pc' = "free_unmapped"
           /\ UNCHANGED panic
  <2> DEFINE p == virt_to_phys(v)
  <2>1. v \in Mapped /\ Leaves[v].frame = p
    <3>1. kernel_pml4 # 0
      BY <1>1 DEF MemInv, PhaseInv
    <3>2. QED
      BY <1>2, <1>3, <3>1, LookupFinds
  <2>2. p \in bmp /\ p \notin Tables /\ p \notin BootUsed
    BY <1>2, <2>1 DEF MemInv, EntryInv, OwnPages
  <2>3. p \in Frames
    BY <2>2, PmmAssumption DEF MemInv, TypeOK
  <2>4. loc' = [loc EXCEPT !.p = p] /\ CallUnmapPage(v) /\ pc' = "free_unmapped"
        /\ panic' = panic
    BY <1>3
  <2> HIDE DEF p
  <2>5. loc \in Locals /\ loc' \in Locals
    BY <2>3, <2>4 DEF MemInv, TypeOK, Locals
  <2>6. /\ loc'.i = loc.i /\ loc'.n = loc.n /\ loc'.start = loc.start /\ loc'.p = p
        /\ loc.i \in Nat /\ loc.n \in Nat /\ loc.start \in Nat /\ loc.p = 0
    BY <1>1, <2>4, <2>5 DEF Locals, MemInv, LoopInv, OwnPCs
  <2>7. JobPage' = v
    BY <2>4, <2>6 DEF JobPage
  <2> HIDE DEF v
  <2>8. walk' = [op |-> "unmap", v |-> v, entry |-> Zero, lvl |-> 4, tbl |-> kernel_pml4]
    BY <2>4 DEF CallUnmapPage
  <2>9. /\ Leaves' = Leaves /\ Tables' = Tables /\ Roots' = Roots
        /\ Mapped' = Mapped /\ Backing' = Backing
    BY <1>1, QuietTables
  <2>10. TypeOK'
    <3>1. walk' \in Walks
      BY <1>2, <2>8, NothingTyped DEF MemInv, TypeOK, Walks
    <3>2. QED
      BY <1>1, <2>4, <2>5, <3>1 DEF MemInv, TypeOK, Walks, Locals, PCs
  <2>11. TreeInv'
    BY <1>1, <1>2, <2>8, CallsTree
  <2>12. PhaseInv' /\ SpaceInv' /\ RunInv'
    BY <1>1, <2>4, <2>6, <2>9 DEF MemInv, PhaseInv, AfterDirect, AfterImage, SpaceInv,
       RunInv, Allocating, Freeing
  <2>13. LoopInv'
    BY <1>1, <2>4, <2>6 DEF MemInv, LoopInv, OwnPCs
  <2>14. CallInv'
    BY <1>1, <2>4, <2>7, <2>8 DEF MemInv, CallInv, MapPCs, OwnPCs
  <2>15. JobInv'
    BY <1>1, <2>1, <2>2, <2>4, <2>6, <2>7, <2>8, <2>9 DEF JobInv, MapPCs, OwnPCs
  <2>16. EntryInv' /\ AccountInv'
    BY <1>1, <2>4, <2>6, <2>9, Numbers DEF MemInv, EntryInv, FlagsFit, AccountInv
  <2>17. MappedInv'
    <3>1. \A w \in VPages : Settled(w)' <=> Settled(w)
      BY <1>1, <2>4 DEF Settled, ImageSettled,
                    DirectSettled, BitmapSettled, StackSettled, HeapSettled,
                    AfterImage, AfterDirect, AfterBitmap, Booting
    <3>2. QED
      BY <1>1, <2>4, <2>8, <2>9, <3>1 DEF MemInv, MappedInv, Expected, MapPCs, OwnPCs
  <2>18. QED
    BY <2>10, <2>11, <2>12, <2>13, <2>14, <2>15, <2>16, <2>17 DEF MemInv
<1>4. CASE /\ virt_to_phys(v) = 0
           /\ panic' = "VMM: never mapped"
           /\ UNCHANGED <<pc, loc, walk>>
  <2>1. panic' \in Outcomes \ {NoPanic}
    BY <1>4 DEF Outcomes, NoPanic
  <2>2. UNCHANGED <<pagingVars, vmmVars, pc, loc>>
    BY <1>1, <1>4 DEF pagingVars
  <2>3. QED
    BY <1>1, <2>1, <2>2, PanicInv DEF MemInv, TypeOK
<1>5. QED
  BY <1>3, <1>4 DEF FreeLookup

\* pmm_free_page gets back the frame that pmm_alloc_page gave out.
LEMMA FreeFrameStep ==
  ASSUME MemInv, walk.op = "none", FreeFrame, panic = NoPanic
  PROVE  /\ bmp' = bmp \ {loc.p} /\ panic' = NoPanic
         /\ pc = "free_unmapped" /\ loc.p \in bmp /\ loc.p \notin BootUsed
         /\ loc.p \notin Tables /\ loc.p \notin Backing /\ stale = {}
<1>1. pc = "free_unmapped" /\ pmm_free_page(idx_to_addr(loc.p))
  BY DEF FreeFrame
<1>2. /\ loc.p \in bmp /\ loc.p \notin BootUsed
      /\ loc.p \notin Tables /\ loc.p \notin Backing /\ stale = {}
  BY <1>1 DEF MemInv, JobInv, CallInv
<1>3. loc.p \in Nat
  BY Numbers DEF MemInv, TypeOK
<1>4. idx_to_addr(loc.p) % PAGE_SIZE = 0 /\ addr_to_idx(idx_to_addr(loc.p)) = loc.p
  <2> DEFINE p == loc.p
  <2>1. p \in Nat /\ PAGE_SIZE \in Nat \ {0}
    BY <1>3, PmmAssumption
  <2> HIDE DEF p
  <2>2. (p * PAGE_SIZE) % PAGE_SIZE = 0 /\ (p * PAGE_SIZE) \div PAGE_SIZE = p
    BY <2>1, DivUnique
  <2>3. QED
    BY <2>2 DEF idx_to_addr, addr_to_idx, p
<1>5. FreeAllocated(idx_to_addr(loc.p))
  BY <1>1, <1>2, <1>4 DEF pmm_free_page, FreeUnaligned, FreeUnallocated, bitmap_test
<1>6. QED
  BY <1>1, <1>2, <1>4, <1>5 DEF FreeAllocated

LEMMA FreeFrameInv ==
  ASSUME MemInv, walk.op = "none", FreeFrame, panic = NoPanic
  PROVE  MemInv'
<1> USE DEF memVars
<1>1. /\ bmp' = bmp \ {loc.p} /\ panic' = panic
      /\ pc = "free_unmapped" /\ loc.p \in bmp /\ loc.p \notin BootUsed
      /\ loc.p \notin Tables /\ loc.p \notin Backing
  BY FreeFrameStep
<1>2. /\ UNCHANGED <<memVars, walk, last_allocated_index>>
      /\ vbmp' = vbmp \ {loc.start + loc.i}
      /\ \/ /\ loc.i + 1 < loc.n
            /\ pc' = "free" /\ loc' = [loc EXCEPT !.i = @ + 1, !.p = 0]
            /\ UNCHANGED ret
         \/ /\ loc.i + 1 = loc.n
            /\ pc' = "idle" /\ loc' = NoLoc /\ ret' = 0
  BY <1>1 DEF FreeFrame, bitmap_clear
<1>3. /\ Leaves' = Leaves /\ Tables' = Tables /\ Roots' = Roots
      /\ Mapped' = Mapped /\ Backing' = Backing
  BY <1>2, QuietTables
<1>4. loc \in Locals /\ loc.i \in Nat /\ loc.n \in Nat /\ loc.start \in Nat
  BY DEF MemInv, TypeOK, Locals
<1>5. NoLoc.p = 0 /\ NoLoc \in Locals
  BY NothingTyped DEF NoLoc
<1>6. ASSUME loc' = [loc EXCEPT !.i = @ + 1, !.p = 0]
      PROVE  loc' = [i |-> loc.i + 1, n |-> loc.n, start |-> loc.start, p |-> 0]
  BY <1>4, <1>6 DEF Locals
<1>7. /\ loc.i < loc.n /\ loc.start + loc.n <= HEAP_PAGES
      /\ Run(loc.start, loc.i) \cap vbmp = {}
  BY <1>1 DEF MemInv, RunInv, Freeing
<1>8. loc'.p = 0 /\ pc' \in {"free", "idle"}
  BY <1>2, <1>5, <1>6
<1>9. TypeOK'
  <2>1. loc' \in Locals
    <3>1. [i |-> loc.i + 1, n |-> loc.n, start |-> loc.start, p |-> 0] \in Locals
      BY <1>4, Numbers DEF Locals
    <3>2. QED
      BY <1>2, <1>5, <1>6, <3>1
  <2>2. QED
    BY <1>1, <1>2, <1>8, <2>1 DEF MemInv, TypeOK, Locals, PCs
<1>10. TreeInv' /\ PhaseInv' /\ SpaceInv'
  BY <1>1, <1>2, <1>3, <1>8 DEF MemInv, TreeInv, PhaseInv, AfterDirect, AfterImage, SpaceInv
<1>11. LoopInv'
  BY <1>2, <1>8 DEF MemInv, LoopInv, OwnPCs
<1>12. RunInv'
  <2>1. CASE pc' = "idle"
    BY <2>1 DEF RunInv, Allocating, Freeing
  <2>2. CASE pc' = "free"
    <3>1. /\ loc'.i = loc.i + 1 /\ loc'.n = loc.n /\ loc'.start = loc.start
          /\ loc.i + 1 < loc.n
      BY <1>2, <1>6, <2>2
    <3>2. Run(loc.start, loc.i + 1) \cap vbmp' = {}
      BY <1>2, <1>4, <1>7 DEF Run
    <3>3. QED
      BY <1>7, <2>2, <3>1, <3>2 DEF RunInv, Allocating, Freeing, Run
  <2>3. QED
    BY <1>8, <2>1, <2>2
<1>13. CallInv' /\ JobInv'
  BY <1>1, <1>2, <1>8 DEF MemInv, CallInv, JobInv, MapPCs, OwnPCs
<1>14. EntryInv'
  <2>1. \A v \in Mapped \cap OwnPages : Leaves[v].frame # loc.p
    BY <1>1, BackingIs DEF OwnLeaves
  <2>2. QED
    BY <1>1, <1>3, <2>1 DEF MemInv, EntryInv, FlagsFit
<1>15. AccountInv'
  BY <1>1, <1>3 DEF MemInv, AccountInv
<1>16. ASSUME NEW w \in VPages
       PROVE  HeapSettled(w)' <=> HeapSettled(w) /\ w # JobPage
  <2>1. JobPage = HEAP_START + loc.start + loc.i /\ JobPage \in HeapRegion
    BY <1>1, JobPlace DEF JobPage, MemInv, Freeing
  <2> HIDE DEF JobPage
  <2>2. w \in HeapRegion => (w - HEAP_START = loc.start + loc.i <=> w = JobPage)
    BY <1>4, <2>1, Numbers
  <2>3. HeapSettled(w) <=> w \in HeapRegion /\ w - HEAP_START \in vbmp
    BY <1>1 DEF HeapSettled, Booting
  <2>4. HeapSettled(w)' <=> w \in HeapRegion /\ w - HEAP_START \in vbmp'
    BY <1>8 DEF HeapSettled, Booting, HeapRegion
  <2>5. QED
    BY <1>2, <2>1, <2>2, <2>3, <2>4
<1>17. MappedInv'
  <2>1. JobPage \in HeapRegion
    BY <1>1, JobPlace DEF MemInv, Freeing
  <2> HIDE DEF JobPage
  <2>2. ~(\/ ImageSettled(JobPage) \/ DirectSettled(JobPage)
          \/ BitmapSettled(JobPage) \/ StackSettled(JobPage))
    BY <2>1, Regions, Section DEF ImageSettled, DirectSettled, BitmapSettled, StackSettled
  <2>3. \A w \in VPages : Settled(w)' <=> Settled(w) /\ w # JobPage
    <3>1. \A w \in VPages :
            /\ ImageSettled(w)' <=> ImageSettled(w)
            /\ DirectSettled(w)' <=> DirectSettled(w)
            /\ BitmapSettled(w)' <=> BitmapSettled(w)
            /\ StackSettled(w)' <=> StackSettled(w)
      BY <1>1, <1>8 DEF ImageSettled, DirectSettled, BitmapSettled, StackSettled,
                    AfterImage, AfterDirect, AfterBitmap, Booting
    <3>2. QED
      BY <1>16, <2>2, <3>1 DEF Settled
  <2>4. QED
    BY <1>1, <1>2, <1>3, <1>8, <2>3 DEF MemInv, MappedInv, Expected, MapPCs, OwnPCs
<1>18. QED
  BY <1>9, <1>10, <1>11, <1>12, <1>13, <1>14, <1>15, <1>17 DEF MemInv

-----------------------------------------------------------------------------
(* The invariant. *)

LEMMA InitInv == Init => MemInv
<1> SUFFICES ASSUME Init PROVE MemInv
  OBVIOUS
<1> USE DEF Init, PmmInit, PagingInit, VmmInit
<1>1. loc = NoLoc /\ loc.p = 0 /\ walk = NoWalk /\ walk.op = "none"
  BY DEF NoLoc, NoWalk
<1>2. Roots = {} /\ Tables = {} /\ IsTree(mem, Roots)
  <2>1. Roots = {}
    BY RootsAre
  <2>2. Kids(mem, {}) = {}
    <3>1. \A g : g \notin Kids(mem, {})
      BY KidsMembers
    <3>2. QED
      BY <3>1
  <2>3. L3(mem, {}) = {} /\ L2(mem, {}) = {} /\ L1(mem, {}) = {}
    BY <2>2 DEF L3, L2, L1
  <2>4. Tables = {}
    BY <2>1, <2>3, TablesAre DEF AllTables
  <2>5. IsTree(mem, {})
    BY <2>3 DEF IsTree, Levelled, OneParent, Uppers
  <2>6. QED
    BY <2>1, <2>4, <2>5
<1>3. Mapped = {} /\ Backing = {}
  <2>1. Mapped = {}
    BY ZeroAbsent DEF Mapped, Leaves
  <2>2. QED
    BY <2>1, BackingIs DEF OwnLeaves
<1>4. TypeOK
  <2>1. Junk \in Entry
    BY Numbers DEF Junk, Entry, Flags
  <2>2. /\ bmp \subseteq Bits /\ vbmp \subseteq HeapIdx /\ pc \in PCs
        /\ last_allocated_index \in 0 .. HEAP_PAGES
    BY Numbers, PmmAssumption DEF PCs
  <2>3. mem \in [Frames -> [Index -> Entry]]
    BY <2>1
  <2>4. walk \in Walks /\ loc \in Locals
    BY <1>1, NothingTyped
  <2>5. /\ panic \in {NoPanic} \cup PmmPanics \cup PagingPanics \cup VmmPanics
        /\ stale \subseteq VPages \X Frames
    OBVIOUS
  <2>6. kernel_pml4 \in Frames /\ ret \in 0 .. 2
    BY Numbers
  <2>7. hhdm_on \in BOOLEAN
    BY Zenon
  <2>8. QED
    BY <2>2, <2>3, <2>4, <2>5, <2>6, <2>7 DEF TypeOK, Walks, Locals
<1>5. TreeInv /\ PhaseInv /\ SpaceInv /\ LoopInv /\ RunInv
  BY <1>1, <1>2 DEF TreeInv, PhaseInv, Outcomes, AfterDirect, AfterImage, SpaceInv,
     LoopInv, RunInv, Allocating, Freeing
<1>6. CallInv /\ JobInv /\ EntryInv /\ AccountInv
  BY <1>1, <1>3 DEF CallInv, JobInv, EntryInv, AccountInv, MapPCs, OwnPCs
<1>7. MappedInv
  BY <1>3 DEF MappedInv, Expected, MapPCs, OwnPCs, Settled, ImageSettled,
                    DirectSettled, BitmapSettled, StackSettled, HeapSettled,
                    AfterImage, AfterDirect, AfterBitmap, Booting
<1>8. QED
  BY <1>4, <1>5, <1>6, <1>7 DEF MemInv

LEMMA BootStepInv ==
  ASSUME MemInv, walk.op = "none", Boot
  PROVE  MemInv'
<1>1. CASE InitPaging /\ UNCHANGED vmmVars
  BY <1>1, AllocateRootInv, MapSectionInv, SectionMappedInv, SectionsDoneInv,
     MapDirectInv, DirectMappedInv, SwitchInv DEF InitPaging
<1>2. CASE BitmapPage
  <2>1. OwnCall(BITMAP_START + loc.i, "bitmap_mapped")
    BY <1>2 DEF BitmapPage, OwnCall
  <2>2. QED
    BY <1>2, <2>1, AllocateAndMapInv DEF BitmapPage
<1>3. CASE StackPage
  <2>1. OwnCall(StackBase + loc.i, "stack_mapped")
    BY <1>3 DEF StackPage, OwnCall
  <2>2. QED
    BY <1>3, <2>1, AllocateAndMapInv DEF StackPage
<1>4. QED
  BY <1>1, <1>2, <1>3, BitmapMappedInv, ZeroBitmapInv, StackMappedInv, StackDoneInv DEF Boot

LEMMA StutterInv ==
  ASSUME MemInv, UNCHANGED vars
  PROVE  MemInv'
<1> USE DEF vars, pmmVars, pagingVars, vmmVars
<1>1. /\ Leaves' = Leaves /\ Tables' = Tables /\ Roots' = Roots
      /\ Mapped' = Mapped /\ Backing' = Backing
  BY QuietTables
<1>2. TypeOK' /\ TreeInv'
  BY <1>1 DEF MemInv, TypeOK, TreeInv
<1>3. PhaseInv' /\ SpaceInv' /\ LoopInv' /\ RunInv'
  BY <1>1 DEF MemInv, PhaseInv, AfterDirect, AfterImage, SpaceInv, LoopInv, RunInv,
              JobPage, Allocating, Freeing
<1>4. CallInv' /\ JobInv'
  BY <1>1 DEF MemInv, CallInv, JobInv, JobPage, JobEntry
<1>5. EntryInv' /\ AccountInv'
  BY <1>1 DEF MemInv, EntryInv, FlagsFit, AccountInv
<1>6. MappedInv'
  BY <1>1 DEF MemInv, MappedInv, Expected, JobPage, Settled, ImageSettled,
                    DirectSettled, BitmapSettled, StackSettled, HeapSettled,
                    AfterImage, AfterDirect, AfterBitmap, Booting
<1>7. QED
  BY <1>2, <1>3, <1>4, <1>5, <1>6 DEF MemInv

LEMMA StepInv == MemInv /\ [Next]_vars => MemInv'
<1> SUFFICES ASSUME MemInv, [Next]_vars PROVE MemInv'
  OBVIOUS
<1>1. CASE walk.op # "none" /\ WalkStep /\ UNCHANGED vmmVars
  BY <1>1, WalkInv
<1>2. CASE walk.op = "none" /\ Boot
  BY <1>2, BootStepInv
<1>3. CASE walk.op = "none" /\ AllocOnePage
  <2>1. OwnCall(HEAP_START + loc.start + loc.i, "alloc_mapped")
    BY <1>3 DEF AllocOnePage, OwnCall
  <2>2. QED
    BY <1>3, <2>1, AllocateAndMapInv DEF AllocOnePage
<1>4. CASE walk.op = "none" /\ AllocMarkPage
  BY <1>4, AllocMarkInv
<1>5. CASE walk.op = "none" /\ FreeLookup
  BY <1>5, FreeLookupInv
<1>6. CASE walk.op = "none" /\ FreeFrame /\ panic = NoPanic
  BY <1>6, FreeFrameInv
<1>7. CASE walk.op = "none" /\ \E n \in AllocSizes : AllocPages(n)
  BY <1>7, AllocPagesInv
<1>8. CASE walk.op = "none" /\ \E a \in FreeArgs : FreePages(a[1], a[2])
  BY <1>8, FreePagesInv
<1>9. CASE UNCHANGED vars
  BY <1>9, StutterInv
<1>10. QED
  BY <1>1, <1>2, <1>3, <1>4, <1>5, <1>6, <1>7, <1>8, <1>9
  DEF Next, KernelStep, AllocStep, FreeStep, Call

\* Everything below rests on this: the tables are a tree and map what the
\* loops of boot, vmm_alloc_pages and vmm_free_pages have settled, no less and
\* no more; every frame in use has one owner; and a caller of map_page or
\* unmap_page can rely on what it got.
THEOREM MemoryInvariant == Spec => []MemInv
BY InitInv, StepInv, PTL DEF Spec

-----------------------------------------------------------------------------
(* Safety. *)

\* Every variable keeps its type: no frame number beyond the memory, no index
\* beyond a table, no bit beyond the heap, in any run on any machine.
THEOREM TypeCorrect == Spec => []TypeOK
<1>1. MemInv => TypeOK
  BY DEF MemInv
<1>2. QED
  BY <1>1, MemoryInvariant, PTL

\* The pages that a running map_page or unmap_page works on lie in the region
\* of its caller, and none of the regions meets another.
LEMMA JobRegion ==
  ASSUME MemInv
  PROVE  /\ pc \in MapPCs => JobPage \in VPages
         /\ pc \in MapPCs => JobPage \notin GuardRegion
         /\ pc \in {"alloc_mapped", "free_unmapped"} =>
              JobPage \in HeapRegion /\ JobPage = HEAP_START + loc.start + loc.i
<1>1. /\ pc = "section_mapped" => JobPage \in ImageRegion
      /\ pc = "hhdm_mapped" => JobPage \in DirectRegion
      /\ pc = "bitmap_mapped" => JobPage \in BitmapRegion
      /\ pc = "stack_mapped" => JobPage \in StackRegion
      /\ Allocating \/ Freeing => JobPage \in HeapRegion
  BY JobPlace DEF MemInv
<1>2. pc \in {"alloc_mapped", "free_unmapped"} => JobPage = HEAP_START + loc.start + loc.i
  BY DEF JobPage
<1>3. StackRegion \cap GuardRegion = {}
  BY Numbers DEF StackRegion, GuardRegion, StackBase
<1> HIDE DEF JobPage
<1>4. QED
  BY <1>1, <1>2, <1>3, Regions, VmmAssumption DEF MapPCs, OwnPCs, Allocating, Freeing

\* A heap page is mapped just when its bit in the heap's bitmap is 1, outside
\* the one page that a running vmm_alloc_pages or vmm_free_pages works on.
THEOREM BitmapAgrees == Spec => []HeapBitmapMatchesTables
<1>1. MemInv => HeapBitmapMatchesTables
  <2> SUFFICES ASSUME MemInv, ~Booting, NEW i \in HeapIdx,
                      ~(~(pc = "idle") /\ i = loc.start + loc.i)
               PROVE  (i \in vbmp) = IsMapped(HEAP_START + i)
    BY DEF HeapBitmapMatchesTables
  <2> DEFINE v == HEAP_START + i
  <2>1. /\ v \in HeapRegion /\ v - HEAP_START = i
        /\ \A k \in Nat : v = HEAP_START + k => k = i
    BY Numbers DEF HeapIdx, HeapRegion
  <2>2. v \in VPages
    BY <2>1, Regions
  <2>3. pc \in MapPCs \cup {"free_unmapped"} => v # JobPage
    <3>1. pc \in MapPCs \cup {"free_unmapped"} => pc \in {"alloc_mapped", "free_unmapped"}
      BY DEF MapPCs, OwnPCs, Booting
    <3>2. loc.start + loc.i \in Nat
      BY DEF MemInv, TypeOK
    <3>3. pc \in {"alloc_mapped", "free_unmapped"} => JobPage = HEAP_START + (loc.start + loc.i)
      BY JobRegion, Numbers DEF MemInv, TypeOK
    <3> HIDE DEF JobPage, v
    <3>4. QED
      BY <2>1, <3>1, <3>2, <3>3
  <2> HIDE DEF v
  <2>4. Settled(v) <=> i \in vbmp
    <3>1. HeapSettled(v) <=> i \in vbmp
      BY <2>1 DEF HeapSettled
    <3>2. QED
      BY <2>1, <3>1, Regions, Section
      DEF Settled, ImageSettled, DirectSettled, BitmapSettled, StackSettled
  <2>5. v \in Mapped <=> i \in vbmp
    BY <2>2, <2>3, <2>4 DEF MemInv, MappedInv, Expected
  <2>6. IsMapped(v) <=> i \in vbmp
    BY <2>2, <2>5, MappedIs
  <2>7. IsMapped(v) \in BOOLEAN
    BY DEF IsMapped
  <2>8. QED
    BY <2>6, <2>7 DEF v
<1>2. QED
  BY <1>1, MemoryInvariant, PTL

\* The page below the kernel stack is never mapped, by boot or by any call.
THEOREM GuardStaysUnmapped == Spec => []GuardPageUnmapped
<1>1. MemInv => GuardPageUnmapped
  <2> SUFFICES ASSUME MemInv, NEW v \in GuardRegion
               PROVE  ~IsMapped(v)
    BY DEF GuardPageUnmapped
  <2>1. v \in VPages
    <3>1. StackBase \in StackRegion
      BY Numbers DEF StackRegion
    <3>2. StackBase \in VPages
      BY <3>1, Regions
    <3>3. QED
      BY <3>2, Numbers, FanFacts DEF VPages, GuardRegion, StackBase
  <2>2. v \notin StackRegion
    BY Numbers DEF StackRegion, GuardRegion, StackBase
  <2>3. v \notin HeapRegion /\ v \notin BitmapRegion /\ v \notin DirectRegion /\ v \notin ImageRegion
    BY VmmAssumption
  <2>4. ~Settled(v)
    BY <2>2, <2>3, Section
    DEF Settled, ImageSettled, DirectSettled, BitmapSettled, StackSettled, HeapSettled
  <2>5. pc \in MapPCs => v # JobPage
    BY JobRegion
  <2>6. v \notin Mapped
    BY <2>1, <2>4, <2>5 DEF MemInv, MappedInv, Expected
  <2>7. QED
    BY <2>1, <2>6, MappedIs
<1>2. QED
  BY <1>1, MemoryInvariant, PTL

\* A settled page outside the heap is mapped, whatever a call is doing.
LEMMA SettledIsMapped ==
  ASSUME MemInv, NEW v \in VPages, v \notin HeapRegion, Settled(v)
  PROVE  v \in Mapped /\ LeafEntry(v) = Leaves[v]
<1>1. pc = "free_unmapped" => v # JobPage
  BY JobRegion
<1>2. v \in Mapped
  BY <1>1 DEF MemInv, MappedInv, Expected
<1>3. kernel_pml4 # 0
  BY <1>2, ZeroAbsent DEF Mapped, Leaves
<1>4. QED
  BY <1>2, <1>3, MappedIs

\* Once the address space is switched, the direct map reaches every frame and
\* the kernel image stays where it was linked.
THEOREM KernelSpaceStays == Spec => []KernelSpaceIntact
<1>1. MemInv => KernelSpaceIntact
  <2> SUFFICES ASSUME MemInv, hhdm_on
               PROVE  /\ \A f \in Frames : MapsTo(HHDM + f, f)
                      /\ \A s \in 1 .. Len(Sections) : "ALLOC" \in Sections[s].flags =>
                           \A v \in Sections[s].first .. Sections[s].last :
                             MapsTo(v, v - KVMA)
    BY DEF KernelSpaceIntact
  <2>1. AfterDirect /\ AfterImage
    BY DEF MemInv, PhaseInv, AfterDirect
  <2>2. ASSUME NEW f \in Frames
        PROVE  MapsTo(HHDM + f, f)
    <3> DEFINE v == HHDM + f
    <3>1. v \in DirectRegion /\ v - HHDM = f
      BY Numbers DEF DirectRegion, Frames
    <3> HIDE DEF v
    <3>2. v \in VPages /\ v \notin HeapRegion
      BY <3>1, Regions
    <3>3. Settled(v)
      BY <2>1, <3>1 DEF Settled, DirectSettled
    <3>4. v \in Mapped /\ LeafEntry(v) = Leaves[v]
      BY <3>2, <3>3, SettledIsMapped
    <3>5. Leaves[v].frame = f
      BY <3>1, <3>4 DEF MemInv, EntryInv
    <3>6. QED
      BY <3>4, <3>5 DEF MapsTo, Mapped, v
  <2>3. ASSUME NEW s \in SectionIds, NEW v \in SectionPages(s)
        PROVE  MapsTo(v, v - KVMA)
    <3>1. v \in ImageRegion /\ v \in VPages /\ v \notin HeapRegion
      BY Section, Regions
    <3>2. Settled(v)
      BY <2>1 DEF Settled, ImageSettled
    <3>3. v \in Mapped /\ LeafEntry(v) = Leaves[v]
      BY <3>1, <3>2, SettledIsMapped
    <3>4. Leaves[v].frame = v - KVMA
      BY <3>1, <3>3 DEF MemInv, EntryInv
    <3>5. QED
      BY <3>3, <3>4 DEF MapsTo, Mapped
  <2>4. QED
    BY <2>2, <2>3 DEF SectionIds, SectionPages
<1>2. QED
  BY <1>1, MemoryInvariant, PTL

\* The bitmap of pmm.c and the owners of frames agree: no frame is leaked, and
\* none is in use behind the bitmap's back.
THEOREM FramesAccounted == Spec => []FrameAccounting
<1>1. MemInv => FrameAccounting
  <2> SUFFICES ASSUME MemInv, panic = NoPanic
               PROVE  bmp = BootUsed \cup Tables \cup Backing \cup InFlight
    BY DEF FrameAccounting
  <2>1. bmp \subseteq BootUsed \cup Tables \cup Backing \cup InFlight
    BY Numbers DEF MemInv, AccountInv, InFlight
  <2>2. BootUsed \subseteq bmp /\ Tables \subseteq bmp
    BY DEF MemInv, SpaceInv
  <2>3. Backing \subseteq bmp
    BY BackingIs DEF MemInv, EntryInv, OwnLeaves
  <2>4. loc.p = 0 \/ loc.p \in bmp
    BY <2>3 DEF MemInv, LoopInv, JobInv
  <2>5. QED
    BY <2>1, <2>2, <2>3, <2>4 DEF InFlight
<1>2. QED
  BY <1>1, MemoryInvariant, PTL

-----------------------------------------------------------------------------
(* Panics. *)

\* Of the panics that only a broken invariant could cause, none happens but a
\* page fault: no argument of vmm_free_pages makes pmm_free_page see a free or
\* unaligned frame, and no page that is to be mapped is mapped already.
THEOREM NoBrokenInvariant == Spec => [](panic # "page fault" => NoInternalPanic)
<1>1. MemInv => (panic # "page fault" => NoInternalPanic)
  BY DEF MemInv, PhaseInv, Outcomes, NoPanic, NoInternalPanic
<1>2. QED
  BY <1>1, MemoryInvariant, PTL

\* On a machine whose memory boot.asm maps one to one entirely, there is no
\* page fault either.
THEOREM NoInternalPanicBelow1GiB ==
  ASSUME MaxPages <= IdentityPages
  PROVE  Spec => []NoInternalPanic
<1> DEFINE NoFault == panic # "page fault"
<1>1. \A f \in Frames : Reachable(f)
  BY PagingAssumption, PmmAssumption DEF Frames, Reachable
<1>2. Init => NoFault
  BY DEF Init, PmmInit, NoPanic
<1>3. NoFault /\ [Next]_vars => NoFault'
  <2> SUFFICES ASSUME NoFault, [Next]_vars PROVE NoFault'
    OBVIOUS
  <2>1. CASE UNCHANGED vars
    BY <2>1 DEF vars, pmmVars
  <2>2. CASE WalkStep
    BY <1>1, <2>2 DEF WalkStep, get_next_table, NextTablePresent, NextTableNew,
       NextTableNoMemory, MapLeaf, UnmapDown, UnmapLeaf, flush_tlb_single,
       PmmOutOfMemory, pmmVars
  <2>3. CASE Boot
    BY <1>1, <2>3 DEF Boot, InitPaging, AllocateRoot, MapSectionPage, SectionPageMapped,
       SectionsDone, MapDirectPage, DirectPageMapped, SwitchAddressSpace, BitmapPage,
       BitmapPageMapped, ZeroBitmap, StackPage, StackPageMapped, StackDone,
       AllocateAndMap, PmmOutOfMemory, pmmVars
  <2>4. CASE AllocStep \/ FreeStep
    BY <2>4 DEF AllocStep, FreeStep, AllocOnePage, AllocMarkPage, FreeLookup, FreeFrame,
       AllocateAndMap, PmmOutOfMemory, pmm_free_page, FreeUnaligned, FreeUnallocated,
       FreeAllocated, pmmVars
  <2>5. CASE Call
    BY <2>5 DEF Call, AllocPages, FreePages, pmmVars
  <2>6. QED
    BY <2>1, <2>2, <2>3, <2>4, <2>5 DEF Next, KernelStep
<1>4. Spec => []NoFault
  BY <1>2, <1>3, PTL DEF Spec
<1>5. QED
  BY <1>4, NoBrokenInvariant, PTL

-----------------------------------------------------------------------------
(* Frames enough for the tables of the boot.                               *)

\* What init_paging maps, and the tables that these pages need: one of each
\* level for every part of the address space that such a table covers.
BootPages == DirectRegion \cup UNION {SectionPages(k) : k \in SectionIds}

Levels == 1 .. 4

Part(lvl, v) ==
  CASE lvl = 1 -> v \div Fan
    [] lvl = 2 -> v \div (Fan * Fan)
    [] lvl = 3 -> v \div (Fan * Fan * Fan)
    [] OTHER   -> 0

TableOf(lvl, v) == <<lvl, Part(lvl, v)>>
BootTables == {TableOf(p[1], p[2]) : p \in Levels \X BootPages}

\* The frames that init_pmm leaves free and boot.asm has mapped.
LowFrames == {f \in Frames \ BootUsed : f < IdentityPages}

BootPath(m, r, t) == \E v \in BootPages, lvl \in Levels : OnPath(m, r, v, lvl, t)

\* Until the switch, every table is there for the sake of a page that boot maps.
BootInv == ~hhdm_on => \A t \in Tables : BootPath(mem, kernel_pml4, t)

LEMMA BootPagesAre ==
  /\ BootPages \subseteq VPages /\ HHDM \in BootPages
  /\ IsFiniteSet(BootTables)
<1>1. BootPages \subseteq VPages
  BY Regions, Section DEF BootPages
<1>2. HHDM \in BootPages
  BY Numbers DEF BootPages, DirectRegion
<1>3. IsFiniteSet(BootPages)
  <2>1. 0 \in Int /\ Fan * Fan * Fan * Fan - 1 \in Int
    BY FanFacts
  <2>2. IsFiniteSet(VPages)
    BY <2>1, FS_Interval DEF VPages
  <2>3. QED
    BY <1>1, <2>2, FS_Subset
<1>4. IsFiniteSet(Levels \X BootPages)
  <2>0. 1 \in Int /\ 4 \in Int
    OBVIOUS
  <2>1. IsFiniteSet(Levels)
    BY <2>0, FS_Interval, Zenon DEF Levels
  <2>2. QED
    BY <1>3, <2>1, FS_Product
<1>5. IsFiniteSet(BootTables)
  <2> DEFINE S == Levels \X BootPages
             h == [p \in S |-> TableOf(p[1], p[2])]
  <2>1. h \in Surjection(S, BootTables)
    BY DEF Surjection, BootTables
  <2> HIDE DEF S, h
  <2>2. QED
    BY <1>4, <2>1, FS_Surjection DEF S
<1>6. QED
  BY <1>1, <1>2, <1>5

\* A walk finds one table for all pages of a part.
LEMMA SamePart ==
  ASSUME NEW v \in VPages, NEW w \in VPages, NEW lvl \in Levels,
         Part(lvl, v) = Part(lvl, w)
  PROVE  /\ lvl <= 3 => PML4_IDX(v) = PML4_IDX(w)
         /\ lvl <= 2 => PDPT_IDX(v) = PDPT_IDX(w)
         /\ lvl = 1 => PD_IDX(v) = PD_IDX(w)
<1>1. v \in Nat /\ w \in Nat /\ Fan \in Nat \ {0} /\ Fan * Fan \in Nat \ {0}
  BY Numbers, FanFacts
<1>2. \A x \in {v, w} : /\ x \div (Fan * Fan) = (x \div Fan) \div Fan
                        /\ x \div (Fan * Fan * Fan) = (x \div (Fan * Fan)) \div Fan
  BY <1>1, DivDiv
<1>3. CASE lvl = 1
  BY <1>2, <1>3 DEF Part, PML4_IDX, PDPT_IDX, PD_IDX
<1>4. CASE lvl = 2
  BY <1>2, <1>4 DEF Part, PML4_IDX, PDPT_IDX
<1>5. CASE lvl = 3
  BY <1>5 DEF Part, PML4_IDX
<1>6. QED
  BY <1>3, <1>4, <1>5 DEF Levels

\* Nothing about the path of v but its indices above lvl matters.
LEMMA SamePath ==
  ASSUME NEW m, NEW r, NEW v \in VPages, NEW w \in VPages, NEW lvl \in Levels,
         Part(lvl, v) = Part(lvl, w), NEW t, NEW u, OnPath(m, r, v, lvl, t)
  PROVE  OnPath(m, r, w, lvl, u) <=> u = t
<1>1. CASE lvl = 4
  BY <1>1 DEF OnPath
<1>2. CASE lvl = 3
  BY <1>2, SamePart DEF OnPath, H3, T3
<1>3. CASE lvl = 2
  BY <1>3, SamePart DEF OnPath, H3, T3, H2, T2
<1>4. CASE lvl = 1
  <2>1. /\ PML4_IDX(v) = PML4_IDX(w) /\ PDPT_IDX(v) = PDPT_IDX(w)
        /\ PD_IDX(v) = PD_IDX(w)
    BY <1>4, SamePart
  <2>2. H2(m, r, v) = H2(m, r, w) /\ T2(m, r, v) = T2(m, r, w)
    BY <2>1 DEF H2, T2, H3, T3
  <2>3. H1(m, r, v) = H1(m, r, w) /\ T1(m, r, v) = T1(m, r, w)
    BY <2>1, <2>2 DEF H1, T1
  <2>4. QED
    BY <1>4, <2>3 DEF OnPath
<1>5. QED
  BY <1>1, <1>2, <1>3, <1>4 DEF Levels

\* Adding or replacing leaves and adding tables keeps all paths.
LEMMA PathsStay ==
  ASSUME NEW m, NEW n, NEW r,
         \A u \in Uppers(m, {r}) : \A j \in Index :
           Present(m[u][j]) => Present(n[u][j]) /\ n[u][j].frame = m[u][j].frame,
         NEW t, BootPath(m, r, t)
  PROVE  BootPath(n, r, t)
<1>1. PICK v \in BootPages, lvl \in Levels : OnPath(m, r, v, lvl, t)
  BY DEF BootPath
<1>2. v \in VPages /\ PML4_IDX(v) \in Index /\ PDPT_IDX(v) \in Index /\ PD_IDX(v) \in Index
  BY BootPagesAre, Digits
<1>3. r \in Uppers(m, {r})
  BY DEF Uppers
<1>4. H3(m, r, v) => /\ H3(n, r, v) /\ T3(n, r, v) = T3(m, r, v)
                     /\ T3(m, r, v) \in Uppers(m, {r})
  BY <1>2, <1>3, PathLevels DEF H3, T3, Uppers
<1>5. H2(m, r, v) => /\ H2(n, r, v) /\ T2(n, r, v) = T2(m, r, v)
                     /\ T2(m, r, v) \in Uppers(m, {r})
  BY <1>2, <1>4, PathLevels DEF H2, T2, Uppers
<1>6. H1(m, r, v) => H1(n, r, v) /\ T1(n, r, v) = T1(m, r, v)
  BY <1>2, <1>5 DEF H1, T1
<1>7. OnPath(n, r, v, lvl, t)
  BY <1>1, <1>4, <1>5, <1>6 DEF OnPath
<1>8. QED
  BY <1>7 DEF BootPath

\* As long as a table that boot needs is missing, a low frame is free.
LEMMA LowFrameLeft ==
  ASSUME MemInv, BootInv, ~hhdm_on, panic = NoPanic,
         Cardinality(BootTables) <= Cardinality(LowFrames),
         pc \notin OwnPCs, loc.p = 0,
         NEW w \in BootPages, NEW lvl \in Levels,
         ~\E t \in Tables : OnPath(mem, kernel_pml4, w, lvl, t)
  PROVE  \E f \in LowFrames : f \notin bmp
<1> SUFFICES ASSUME LowFrames \subseteq bmp PROVE FALSE
  OBVIOUS
<1> DEFINE m == mem
           r == kernel_pml4
           On(p, t) == p \in Levels \X BootPages /\ OnPath(m, r, p[2], p[1], t)
           Way(t) == CHOOSE p : On(p, t)
           g == [t \in Tables |-> TableOf(Way(t)[1], Way(t)[2])]
           k == TableOf(lvl, w)
<1>1. Backing = {}
  <2>1. ASSUME NEW v \in OwnPages PROVE v \notin Mapped
    <3>1. v \in VPages /\ v \notin DirectRegion /\ v \notin ImageRegion
      BY Regions DEF OwnPages
    <3>2. ~AfterDirect /\ ~AfterBitmap /\ Booting
      BY DEF MemInv, PhaseInv, AfterBitmap, AfterDirect, AfterImage, Booting
    <3>3. ~Settled(v)
      BY <3>1, <3>2, Section DEF Settled, ImageSettled, DirectSettled, BitmapSettled,
         StackSettled, HeapSettled, AfterDirect, AfterImage, AfterBitmap, Booting
    <3>4. pc \in MapPCs => v # JobPage
      BY <3>1, JobPlace DEF MemInv, MapPCs
    <3>5. QED
      BY <3>1, <3>3, <3>4 DEF MemInv, MappedInv, Expected
  <2>2. QED
    BY <2>1, BackingIs DEF OwnLeaves
<1>2. LowFrames \subseteq Tables
  BY <1>1, Numbers DEF MemInv, AccountInv, LowFrames
<1>3. \A t \in Tables : Way(t) \in Levels \X BootPages /\ OnPath(m, r, Way(t)[2], Way(t)[1], t)
  <2> SUFFICES ASSUME NEW t \in Tables PROVE On(Way(t), t)
    OBVIOUS
  <2>1. PICK v \in BootPages, l \in Levels : OnPath(m, r, v, l, t)
    BY DEF BootInv, BootPath
  <2>2. On(<<l, v>>, t)
    BY <2>1
  <2> HIDE DEF On
  <2>3. QED
    BY <2>2
<1> HIDE DEF Way
<1>4. \A t \in Tables : Way(t)[1] \in Levels /\ Way(t)[2] \in BootPages /\ Way(t)[2] \in VPages
  BY <1>3, BootPagesAre
<1>5. \A t \in Tables : g[t] \in BootTables \ {k}
  <2> SUFFICES ASSUME NEW t \in Tables PROVE g[t] \in BootTables /\ g[t] # k
    OBVIOUS
  <2>1. g[t] \in BootTables
    BY <1>3 DEF BootTables
  <2>2. ASSUME g[t] = k PROVE FALSE
    <3> DEFINE v == Way(t)[2]
    <3>1. Way(t)[1] = lvl /\ Part(lvl, v) = Part(lvl, w)
      BY <2>2 DEF TableOf
    <3>2. v \in VPages /\ w \in VPages /\ OnPath(m, r, v, lvl, t)
      BY <1>3, <1>4, <3>1, BootPagesAre
    <3> HIDE DEF v, m, r
    <3>3. OnPath(m, r, w, lvl, t)
      BY <3>1, <3>2, SamePath
    <3>4. QED
      BY <3>3 DEF m, r
  <2>3. QED
    BY <2>1, <2>2
<1>6. \A t, u \in Tables : g[t] = g[u] => t = u
  <2> SUFFICES ASSUME NEW t \in Tables, NEW u \in Tables, g[t] = g[u] PROVE t = u
    OBVIOUS
  <2> DEFINE l == Way(t)[1]
             v == Way(t)[2]
             x == Way(u)[2]
  <2>1. Way(u)[1] = l /\ Part(l, v) = Part(l, x)
    BY DEF TableOf
  <2>2. OnPath(m, r, v, l, t) /\ OnPath(m, r, x, l, u)
    BY <1>3, <2>1
  <2>3. l \in Levels /\ v \in VPages /\ x \in VPages
    BY <1>4
  <2> HIDE DEF l, v, x, m, r
  <2>4. OnPath(m, r, x, l, u) <=> u = t
    BY <2>1, <2>2, <2>3, SamePath
  <2>5. QED
    BY <2>2, <2>4
<1> HIDE DEF g
<1>7. k \in BootTables /\ IsFiniteSet(BootTables)
  <2>1. <<lvl, w>> \in Levels \X BootPages /\ k = TableOf(<<lvl, w>>[1], <<lvl, w>>[2])
    OBVIOUS
  <2> HIDE DEF k
  <2>2. QED
    BY <2>1, BootPagesAre DEF BootTables
<1>8. IsFiniteSet(BootTables \ {k}) /\ Cardinality(BootTables \ {k}) = Cardinality(BootTables) - 1
  BY <1>7, FS_RemoveElement
<1>9. [f \in LowFrames |-> g[f]] \in Injection(LowFrames, BootTables \ {k})
  BY <1>2, <1>5, <1>6 DEF Injection, IsInjective
<1>10. IsFiniteSet(LowFrames) /\ Cardinality(LowFrames) <= Cardinality(BootTables \ {k})
  BY <1>8, <1>9, FS_Injection
<1>11. Cardinality(BootTables) \in Nat /\ Cardinality(LowFrames) \in Nat
  BY <1>7, <1>10, FS_CardinalityType
<1>12. QED
  BY <1>8, <1>10, <1>11

\* pmm_alloc_page takes the first free frame.
LEMMA LowestIsLow ==
  ASSUME NEW f \in Frames, pmm_alloc_page(f), \E l \in LowFrames : l \notin bmp
  PROVE  Reachable(f)
<1>1. PICK l \in LowFrames : l \notin bmp
  OBVIOUS
<1>2. f <= l /\ l < IdentityPages /\ l \in Nat /\ f \in Nat
  BY <1>1, Numbers DEF pmm_alloc_page, FreeFrames, bitmap_test, LowFrames
<1>3. QED
  BY <1>2, PagingAssumption DEF Reachable

\* Before the switch, the page of a walk is one of boot's.
LEMMA BootCalls ==
  ASSUME MemInv, ~hhdm_on
  PROVE  /\ pc \notin OwnPCs /\ loc.p = 0
         /\ walk.op # "none" => walk.op = "map" /\ walk.v \in BootPages
<1>1. ~AfterDirect
  BY DEF MemInv, PhaseInv
<1>2. pc \in {"init_paging", "sections", "section_mapped", "hhdm", "hhdm_mapped"}
  BY <1>1 DEF AfterDirect, AfterImage
<1>3. loc.p = 0
  BY <1>2 DEF MemInv, LoopInv, OwnPCs
<1>4. ASSUME walk.op # "none"
      PROVE  walk.op = "map" /\ walk.v \in BootPages
  <2>1. walk.op = "map"
    BY <1>2, <1>4 DEF MemInv, CallInv, TypeOK
  <2>2. pc \in {"section_mapped", "hhdm_mapped"} /\ walk.v = JobPage
    BY <1>2, <2>1 DEF MemInv, CallInv, MapPCs, OwnPCs
  <2>3. pc = "section_mapped" => loc.n \in SectionIds /\ JobPage \in SectionPages(loc.n)
    BY DEF MemInv, LoopInv
  <2>4. pc = "hhdm_mapped" => JobPage \in DirectRegion
    BY JobPlace DEF MemInv
  <2>5. QED
    BY <2>1, <2>2, <2>3, <2>4 DEF BootPages
<1>5. QED
  BY <1>2, <1>3, <1>4 DEF OwnPCs

\* The table that get_next_table misses is not there at all.
LEMMA MissingTable ==
  ASSUME MemInv, walk.op # "none", walk.lvl > 1, ~Present(WalkEntry)
  PROVE  ~\E t \in Tables : OnPath(mem, kernel_pml4, walk.v, walk.lvl - 1, t)
<1>1. OnPath(mem, kernel_pml4, walk.v, walk.lvl, walk.tbl) /\ walk.lvl \in 1 .. 4
  BY MemTyped, WalkShape DEF MemInv, TreeInv
<1>2. CASE walk.lvl = 4
  BY <1>1, <1>2 DEF OnPath, WalkEntry, WalkIndex, IndexAt, H3
<1>3. CASE walk.lvl = 3
  BY <1>1, <1>3 DEF OnPath, WalkEntry, WalkIndex, IndexAt, H2
<1>4. CASE walk.lvl = 2
  BY <1>1, <1>4 DEF OnPath, WalkEntry, WalkIndex, IndexAt, H1
<1>5. QED
  BY <1>1, <1>2, <1>3, <1>4

LEMMA BootInvQuiet ==
  ASSUME BootInv, mem' = mem, kernel_pml4' = kernel_pml4, ~hhdm_on' => ~hhdm_on
  PROVE  BootInv'
BY QuietTables DEF BootInv, BootPath

LEMMA BootInvRoot ==
  ASSUME MemInv, pc = "init_paging", NEW f \in Frames, pmm_alloc_page(f),
         mem' = [mem EXCEPT ![f] = ZeroTable], kernel_pml4' = f
  PROVE  BootInv'
<1>1. Tables' = {f}
  BY FreshFrame, RootStep DEF MemInv, TypeOK, PhaseInv, Memories
<1>2. OnPath(mem', f, HHDM, 4, f)
  BY DEF OnPath
<1>3. BootPath(mem', f, f)
  BY <1>2, BootPagesAre DEF BootPath, Levels
<1>4. QED
  BY <1>1, <1>3 DEF BootInv

LEMMA BootInvTable ==
  ASSUME MemInv, BootInv, ~hhdm_on, walk.op = "map", walk.lvl > 1, ~Present(WalkEntry),
         NEW f \in Frames, pmm_alloc_page(f),
         mem' = [mem EXCEPT ![f] = ZeroTable,
                            ![walk.tbl][WalkIndex] =
                               [frame |-> f, flags |-> {"P", "W", "U"}]],
         kernel_pml4' = kernel_pml4
  PROVE  BootInv'
<1> DEFINE r == kernel_pml4
<1>1. WalkTyped /\ TreeInv /\ walk.op # "none"
  BY MemTyped DEF MemInv
<1>2. /\ walk.lvl \in 1 .. 4 /\ walk.tbl \in Tables /\ walk.tbl \in Frames
      /\ WalkIndex \in Index /\ Roots = {r} /\ Uppers(mem, {r}) \subseteq Tables
  BY <1>1, WalkShape, TablesAre DEF Uppers, AllTables
<1>3. f \notin Tables
  BY FreshFrame
<1>4. Tables' = Tables \cup {f} /\ OnPath(mem', r, walk.v, walk.lvl - 1, f)
  BY <1>1, <1>3, NewTableStep
<1>5. ASSUME NEW u \in Uppers(mem, {r}), NEW j \in Index, Present(mem[u][j])
      PROVE  Present(mem'[u][j]) /\ mem'[u][j].frame = mem[u][j].frame
  <2>1. u # f /\ (u # walk.tbl \/ j # WalkIndex) /\ u \in Frames
    BY <1>1, <1>2, <1>3, <1>5, PathFrames, TablesAre DEF WalkEntry, WalkTyped
  <2>2. mem'[u][j] = mem[u][j]
    BY <1>1, <1>2, <2>1 DEF WalkTyped, Memories
  <2>3. QED
    BY <1>5, <2>2
<1>6. \A t \in Tables : BootPath(mem', r, t)
  <2> DEFINE n == mem'
  <2>1. \A t \in Tables : BootPath(mem, r, t)
    BY DEF BootInv
  <2>2. \A u \in Uppers(mem, {r}) : \A j \in Index :
          Present(mem[u][j]) => Present(n[u][j]) /\ n[u][j].frame = mem[u][j].frame
    BY <1>5
  <2> HIDE DEF n, r
  <2>3. \A t \in Tables : BootPath(n, r, t)
    BY <2>1, <2>2, PathsStay
  <2>4. QED
    BY <2>3 DEF n
<1>7. BootPath(mem', r, f)
  <2>1. walk.v \in BootPages /\ walk.lvl - 1 \in Levels
    BY <1>1, <1>2, BootCalls DEF Levels
  <2>2. QED
    BY <1>4, <2>1 DEF BootPath
<1>8. QED
  BY <1>4, <1>6, <1>7 DEF BootInv

LEMMA BootInvLeaf ==
  ASSUME MemInv, BootInv, ~hhdm_on, walk.op # "none", walk.lvl = 1, NEW e,
         mem' = [mem EXCEPT ![walk.tbl][WalkIndex] = e], kernel_pml4' = kernel_pml4
  PROVE  BootInv'
<1> DEFINE r == kernel_pml4
<1>1. WalkTyped /\ TreeInv
  BY MemTyped DEF MemInv
<1>2. Tables' = Tables /\ Roots = {r} /\ IsTree(mem, {r})
  BY <1>1, LeafStep, WalkShape
<1>3. walk.tbl \in L1(mem, {r})
  BY <1>1, PathLevels DEF TreeInv, OnPath, WalkTyped
<1>4. walk.tbl \notin Uppers(mem, {r})
  BY <1>2, <1>3 DEF IsTree, Levelled, Uppers
<1>5. \A u \in Uppers(mem, {r}) : mem'[u] = mem[u]
  BY <1>1, <1>4, PathFrames DEF WalkTyped, Memories, Uppers, AllTables
<1>6. \A t \in Tables : BootPath(mem', r, t)
  BY <1>5, PathsStay DEF BootInv
<1>7. QED
  BY <1>2, <1>6 DEF BootInv

LEMMA BootInvStep == MemInv /\ BootInv /\ [Next]_vars => BootInv'
<1> SUFFICES ASSUME MemInv, BootInv, [Next]_vars, ~hhdm_on'
             PROVE  BootInv'
  BY DEF BootInv
<1>1. ~hhdm_on
  BY DEF Next, KernelStep, WalkStep, get_next_table, NextTablePresent, NextTableNew,
     NextTableNoMemory, MapLeaf, UnmapDown, UnmapLeaf, flush_tlb_single, Boot, InitPaging,
     AllocateRoot, MapSectionPage, SectionPageMapped, SectionsDone, MapDirectPage,
     DirectPageMapped, SwitchAddressSpace, BitmapPage, BitmapPageMapped, ZeroBitmap,
     StackPage, StackPageMapped, StackDone, AllocStep, FreeStep, AllocOnePage,
     AllocMarkPage, FreeLookup, FreeFrame, AllocateAndMap, Call, AllocPages, FreePages,
     vars, pagingVars, memVars
<1>2. CASE UNCHANGED <<mem, kernel_pml4>>
  BY <1>1, <1>2, BootInvQuiet
<1>3. CASE NextTableNew /\ walk.op = "map" /\ walk.lvl > 1
  BY <1>1, <1>2, <1>3, BootInvTable DEF NextTableNew, pagingVars
<1>4. CASE (MapLeaf \/ UnmapLeaf) /\ walk.op # "none" /\ walk.lvl = 1
  BY <1>1, <1>2, <1>4, BootInvLeaf DEF MapLeaf, UnmapLeaf
<1>5. CASE AllocateRoot
  BY <1>2, <1>5, BootInvRoot DEF AllocateRoot
<1>6. QED
  BY <1>2, <1>3, <1>4, <1>5
  DEF Next, KernelStep, WalkStep, get_next_table, NextTablePresent,
     NextTableNoMemory, MapLeaf, UnmapDown, UnmapLeaf, flush_tlb_single, Boot, InitPaging,
     MapSectionPage, SectionPageMapped, SectionsDone, MapDirectPage,
     DirectPageMapped, SwitchAddressSpace, BitmapPage, BitmapPageMapped, ZeroBitmap,
     StackPage, StackPageMapped, StackDone, AllocStep, FreeStep, AllocOnePage,
     AllocMarkPage, FreeLookup, FreeFrame, AllocateAndMap, Call, AllocPages, FreePages,
     vars, pagingVars, memVars

\* Whenever the boot needs a frame for a table, a low one is free.
LEMMA BootFindsLowFrame ==
  ASSUME Cardinality(BootTables) <= Cardinality(LowFrames),
         MemInv, BootInv, ~hhdm_on, panic = NoPanic,
         \/ pc = "init_paging"
         \/ walk.op = "map" /\ walk.lvl > 1 /\ ~Present(WalkEntry)
  PROVE  \E f \in LowFrames : f \notin bmp
<1>1. pc \notin OwnPCs /\ loc.p = 0
  BY BootCalls
<1>2. CASE pc = "init_paging"
  <2>1. Tables = {}
    <3>1. kernel_pml4 = 0 /\ Roots = {}
      BY <1>2, RootsAre DEF MemInv, PhaseInv
    <3>2. Kids(mem, {}) = {}
      <4>1. \A g : g \notin Kids(mem, {})
        BY KidsMembers
      <4>2. QED
        BY <4>1
    <3>3. QED
      BY <3>1, <3>2, TablesAre DEF AllTables, L3, L2, L1
  <2>2. HHDM \in BootPages /\ 4 \in Levels
    BY BootPagesAre DEF Levels
  <2>3. QED
    BY <1>1, <2>1, <2>2, LowFrameLeft
<1>3. CASE walk.op = "map" /\ walk.lvl > 1 /\ ~Present(WalkEntry)
  <2>1. walk.v \in BootPages
    BY <1>3, BootCalls
  <2>2. walk.lvl - 1 \in Levels
    BY <1>3 DEF MemInv, TypeOK, Levels
  <2>3. ~\E t \in Tables : OnPath(mem, kernel_pml4, walk.v, walk.lvl - 1, t)
    BY <1>3, MissingTable
  <2>4. QED
    BY <1>1, <2>1, <2>2, <2>3, LowFrameLeft
<1>4. QED
  BY <1>2, <1>3

\* With as many free frames below the first GiB as init_paging needs tables, no
\* new table (paging.c:43-57, 174-182) lies where boot.asm has mapped nothing.
THEOREM NoInternalPanicIfTablesFit ==
  ASSUME Cardinality(BootTables) <= Cardinality(LowFrames)
  PROVE  Spec => []NoInternalPanic
<1> DEFINE NoFault == panic # "page fault"
<1>1. Init => NoFault /\ BootInv
  <2> SUFFICES ASSUME Init PROVE NoFault /\ BootInv
    OBVIOUS
  <2>1. NoFault
    BY DEF Init, PmmInit, NoPanic
  <2>2. MemInv
    BY InitInv
  <2>3. kernel_pml4 = 0 /\ Roots = {} /\ Kids(mem, {}) = {}
    <3>1. \A g : g \notin Kids(mem, {})
      BY KidsMembers
    <3>2. QED
      BY <3>1, RootsAre DEF Init, PagingInit
  <2>4. Tables = {}
    BY <2>3, TablesAre DEF AllTables, L3, L2, L1
  <2>5. QED
    BY <2>1, <2>4 DEF BootInv
<1>2. MemInv /\ BootInv /\ NoFault /\ [Next]_vars => NoFault'
  <2> SUFFICES ASSUME MemInv, BootInv, NoFault, [Next]_vars PROVE NoFault'
    OBVIOUS
  <2>1. CASE UNCHANGED vars
    BY <2>1 DEF vars, pmmVars
  <2>2. CASE WalkStep /\ panic = NoPanic
    <3>1. ASSUME walk.op = "map", walk.lvl > 1, ~Present(WalkEntry),
                 NEW f \in Frames, pmm_alloc_page(f)
          PROVE  Reachable(f)
      <4>1. CASE hhdm_on
        BY <4>1 DEF Reachable
      <4>2. CASE ~hhdm_on
        BY <2>2, <3>1, <4>2, BootFindsLowFrame, LowestIsLow
      <4>3. QED
        BY <4>1, <4>2
    <3>2. QED
      BY <2>2, <3>1 DEF WalkStep, get_next_table, NextTablePresent, NextTableNew,
         NextTableNoMemory, MapLeaf, UnmapDown, UnmapLeaf, flush_tlb_single,
         PmmOutOfMemory, pmmVars
  <2>3. CASE Boot /\ panic = NoPanic
    <3>1. ASSUME pc = "init_paging", NEW f \in Frames, pmm_alloc_page(f)
          PROVE  Reachable(f)
      <4>1. ~hhdm_on
        BY <3>1 DEF MemInv, PhaseInv, AfterDirect, AfterImage
      <4>2. QED
        BY <2>3, <3>1, <4>1, BootFindsLowFrame, LowestIsLow
    <3>2. CASE AllocateRoot
      BY <3>1, <3>2 DEF AllocateRoot, PmmOutOfMemory
    <3>3. QED
      BY <2>3, <3>2 DEF Boot, InitPaging, MapSectionPage, SectionPageMapped,
         SectionsDone, MapDirectPage, DirectPageMapped, SwitchAddressSpace, BitmapPage,
         BitmapPageMapped, ZeroBitmap, StackPage, StackPageMapped, StackDone,
         AllocateAndMap, PmmOutOfMemory, pmmVars
  <2>4. CASE AllocStep \/ FreeStep
    BY <2>4 DEF AllocStep, FreeStep, AllocOnePage, AllocMarkPage, FreeLookup, FreeFrame,
       AllocateAndMap, PmmOutOfMemory, pmm_free_page, FreeUnaligned, FreeUnallocated,
       FreeAllocated, pmmVars
  <2>5. CASE Call
    BY <2>5 DEF Call, AllocPages, FreePages, pmmVars
  <2>6. QED
    BY <2>1, <2>2, <2>3, <2>4, <2>5 DEF Next, KernelStep
<1>3. Spec => []NoFault
  BY <1>1, <1>2, BootInvStep, MemoryInvariant, PTL DEF Spec
<1>4. QED
  BY <1>3, NoBrokenInvariant, PTL

-----------------------------------------------------------------------------
(* Trees and owners, counted.                                              *)

\* A function that tells the members of a finite set apart keeps their number.
LEMMA Injective ==
  ASSUME NEW S, IsFiniteSet(S), NEW g,
         \A x, y \in S : g[x] = g[y] => x = y
  PROVE  Cardinality({g[x] : x \in S}) = Cardinality(S)
<1> DEFINE T == {g[x] : x \in S}
           h == [x \in S |-> g[x]]
<1>1. h \in Surjection(S, T)
  BY DEF Surjection
<1>2. h \in Injection(S, T)
  BY DEF Injection, IsInjective
<1>3. QED
  BY <1>1, <1>2, FS_Surjection

\* No page table is shared, at any level: a write to one entry of a table
\* changes what one page, or one range of pages, translates to.
THEOREM TablesStayATree == Spec => []TablesFormATree
<1>1. MemInv => TablesFormATree
  <2> SUFFICES ASSUME MemInv PROVE TablesFormATree
    OBVIOUS
  <2>1. /\ PDPTs = L3(mem, Roots) /\ PDs = L2(mem, Roots) /\ PTs = L1(mem, Roots)
    BY DEF PTs, PDs, PDPTs, Children, Entries, Target, L1, L2, L3, Kids
  <2>2. Levelled(mem, Roots) /\ OneParent(mem, Uppers(mem, Roots))
    BY DEF MemInv, TreeInv, IsTree
  <2> DEFINE U == Roots \cup PDPTs \cup PDs
             upper == Entries(U)
             g == [e \in upper |-> Target(e)]
  <2>3. \A t, u \in U : \A i, j \in Index :
          Present(mem[t][i]) /\ Present(mem[u][j]) /\ mem[t][i].frame = mem[u][j].frame
            => t = u /\ i = j
    BY <2>1, <2>2 DEF OneParent, Uppers
  <2>4. \A x, y \in upper : g[x] = g[y] => x = y
    <3> SUFFICES ASSUME NEW x \in upper, NEW y \in upper, g[x] = g[y]
                 PROVE  x = y
      OBVIOUS
    <3> HIDE DEF U
    <3>1. /\ x \in U \X Index /\ Present(mem[x[1]][x[2]])
          /\ y \in U \X Index /\ Present(mem[y[1]][y[2]])
          /\ mem[x[1]][x[2]].frame = mem[y[1]][y[2]].frame
      BY DEF Entries, Target
    <3>2. x[1] = y[1] /\ x[2] = y[2]
      BY <2>3, <3>1
    <3>3. QED
      BY <3>1, <3>2
  <2>5. IsFiniteSet(upper)
    <3>1. U \subseteq Bits
      BY DEF MemInv, SpaceInv, TypeOK, Tables
    <3>2. IsFiniteSet(Bits) /\ IsFiniteSet(Index)
      <4>1. NumBits - 1 \in Int /\ Fan - 1 \in Int
        BY PmmAssumption, PagingAssumption
      <4>2. QED
        BY <4>1, FS_Interval DEF Bits, Index
    <3>3. IsFiniteSet(Bits \X Index)
      BY <3>2, FS_Product
    <3>4. upper \subseteq Bits \X Index
      BY <3>1 DEF Entries
    <3>5. QED
      BY <3>3, <3>4, FS_Subset
  <2>6. Cardinality({g[e] : e \in upper}) = Cardinality(upper)
    <3> HIDE DEF upper, g
    <3>1. QED
      BY <2>4, <2>5, Injective
  <2>7. {g[e] : e \in upper} = {Target(e) : e \in upper}
    OBVIOUS
  <2>8. QED
    BY <2>1, <2>2, <2>6, <2>7 DEF TablesFormATree, Levelled
<1>2. QED
  BY <1>1, MemoryInvariant, PTL

\* A frame behind a heap, stack or bitmap page is behind that page only, is no
\* table and is none of boot's.
THEOREM FramesAreExclusive == Spec => []ExclusiveFrames
<1>1. MemInv => ExclusiveFrames
  <2> SUFFICES ASSUME MemInv PROVE ExclusiveFrames
    OBVIOUS
  <2> DEFINE S == Mapped \cap OwnPages
             g == [v \in S |-> Leaves[v].frame]
  <2>1. \A v, w \in S : g[v] = g[w] => v = w
    BY DEF MemInv, EntryInv
  <2>2. IsFiniteSet(S)
    <3>1. IsFiniteSet(VPages)
      BY FS_Interval, FanFacts DEF VPages
    <3>2. S \subseteq VPages
      BY DEF Mapped
    <3>3. QED
      BY <3>1, <3>2, FS_Subset
  <2>3. Cardinality({g[v] : v \in S}) = Cardinality(S)
    <3> HIDE DEF S, g
    <3>1. QED
      BY <2>1, <2>2, Injective
  <2>4. {g[v] : v \in S} = Backing
    BY BackingIs DEF OwnLeaves
  <2>5. {v \in OwnPages : IsMapped(v)} = S
    BY MappedIs, OwnPagesAreVPages
  <2>6. Backing \cap (Tables \cup BootUsed) = {}
    BY BackingIs DEF OwnLeaves, MemInv, EntryInv
  <2>7. Tables \cap BootUsed = {}
    BY DEF MemInv, SpaceInv
  <2>8. QED
    BY <2>3, <2>4, <2>5, <2>6, <2>7 DEF ExclusiveFrames
<1>2. QED
  BY <1>1, MemoryInvariant, PTL

-----------------------------------------------------------------------------
(* Permissions.                                                            *)

\* From the invariant: a loaded page has the permissions of the first section
\* that is on it.
LEMMA FirstGrants ==
  ASSUME MemInv, hhdm_on, NEW s \in SectionIds, NEW v \in SectionPages(s)
  PROVE  \E k \in SectionIds :
           FirstOn(k, v) /\ LeafEntry(v).flags = PageFlags(Sections[k].flags)
<1>1. AfterImage
  BY DEF MemInv, PhaseInv, AfterDirect
<1>2. v \in ImageRegion /\ v \in VPages /\ v \notin HeapRegion
  BY Section, Regions
<1>3. Settled(v)
  BY <1>1 DEF Settled, ImageSettled
<1>4. v \in Mapped /\ LeafEntry(v) = Leaves[v]
  BY <1>2, <1>3, SettledIsMapped
<1>5. QED
  BY <1>2, <1>4 DEF MemInv, EntryInv, FlagsFit

LEMMA FlagsGrant ==
  ASSUME NEW v, NEW s \in SectionIds, LeafEntry(v).flags = PageFlags(Sections[s].flags)
  PROVE  Grants(v, s)
BY DEF Grants, PageFlags

\* No page has two first sections.
LEMMA OneIsFirst ==
  ASSUME NEW v, NEW j \in SectionIds, NEW k \in SectionIds, FirstOn(j, v), FirstOn(k, v)
  PROVE  j = k
<1>1. Len(Sections) \in Nat
  BY PagingAssumption
<1>2. QED
  BY <1>1 DEF FirstOn, SectionIds

\* For every image, however its sections share pages: the first section on a
\* page decides on its permissions, and nothing changes them any more.
THEOREM FirstSectionDecides == Spec => []SectionFlagsHonoured
<1>1. MemInv => SectionFlagsHonoured
  <2> SUFFICES ASSUME MemInv, hhdm_on,
                      NEW s \in SectionIds, NEW v \in SectionPages(s), FirstOn(s, v)
               PROVE  Grants(v, s)
    BY DEF SectionFlagsHonoured, SectionIds
  <2>1. PICK k \in SectionIds :
          FirstOn(k, v) /\ LeafEntry(v).flags = PageFlags(Sections[k].flags)
    BY FirstGrants
  <2>2. QED
    BY <2>1, OneIsFirst, FlagsGrant
<1>2. QED
  BY <1>1, MemoryInvariant, PTL

\* What the linker must respect, and linker.ld does with ALIGN(4K): sections
\* that share a page ask for the same permissions.
SectionsAgree ==
  \A j, k \in SectionIds :
    SectionPages(j) \cap SectionPages(k) # {}
      => PageFlags(Sections[j].flags) = PageFlags(Sections[k].flags)

EverySectionGranted ==
  hhdm_on => \A s \in SectionIds : \A v \in SectionPages(s) : Grants(v, s)

\* If it does, no permission is lost: each section has on all of its pages the
\* permissions that it asks for, no fewer and no more.
THEOREM PermissionsAreThoseAsked ==
  ASSUME SectionsAgree
  PROVE  Spec => []EverySectionGranted
<1>1. MemInv => EverySectionGranted
  <2> SUFFICES ASSUME MemInv, hhdm_on, NEW s \in SectionIds, NEW v \in SectionPages(s)
               PROVE  Grants(v, s)
    BY DEF EverySectionGranted
  <2>1. PICK k \in SectionIds :
          FirstOn(k, v) /\ LeafEntry(v).flags = PageFlags(Sections[k].flags)
    BY FirstGrants
  <2>2. v \in SectionPages(k)
    BY <2>1 DEF FirstOn
  <2>3. PageFlags(Sections[k].flags) = PageFlags(Sections[s].flags)
    BY <2>2 DEF SectionsAgree
  <2>4. QED
    BY <2>1, <2>3, FlagsGrant
<1>2. QED
  BY <1>1, MemoryInvariant, PTL

-----------------------------------------------------------------------------
(* Frames given back.                                                      *)

\* Only the end of vmm_free_pages's loop gives a frame back.
LEMMA OnlyFreeFrameFrees ==
  ASSUME [Next]_vars, ~(panic = NoPanic /\ walk.op = "none" /\ FreeFrame)
  PROVE  bmp \subseteq bmp'
<1>1. CASE UNCHANGED vars
  BY <1>1 DEF vars, pmmVars
<1>2. CASE WalkStep
  BY <1>2 DEF WalkStep, get_next_table, NextTablePresent, NextTableNew,
     NextTableNoMemory, MapLeaf, UnmapDown, UnmapLeaf, flush_tlb_single,
     pmm_alloc_page, PmmOutOfMemory, pmmVars
<1>3. CASE Boot
  BY <1>3 DEF Boot, InitPaging, AllocateRoot, MapSectionPage, SectionPageMapped,
     SectionsDone, MapDirectPage, DirectPageMapped, SwitchAddressSpace, BitmapPage,
     BitmapPageMapped, ZeroBitmap, StackPage, StackPageMapped, StackDone,
     AllocateAndMap, pmm_alloc_page, PmmOutOfMemory, pmmVars
<1>4. CASE AllocStep \/ FreeLookup
  BY <1>4 DEF AllocStep, AllocOnePage, AllocMarkPage, FreeLookup,
     AllocateAndMap, pmm_alloc_page, PmmOutOfMemory, pmmVars
<1>5. CASE Call
  BY <1>5 DEF Call, AllocPages, FreePages, pmmVars
<1>6. QED
  BY <1>1, <1>2, <1>3, <1>4, <1>5 DEF Next, KernelStep, FreeStep

\* A frame goes back to the pool only when nothing leads to it any more: no
\* page, no page table, and no translation that the TLB still holds.
THEOREM FreedFramesAreUnreachable == Spec => FreedFrameUnreachable
<1> DEFINE Unreachable ==
             \A f \in bmp \ bmp' :
               /\ f \notin Backing \cup Tables \cup BootUsed
               /\ \A t \in stale : t[2] # f
<1>1. MemInv /\ [Next]_vars => Unreachable
  <2> SUFFICES ASSUME MemInv, [Next]_vars, NEW f \in bmp \ bmp'
               PROVE  /\ f \notin Backing \cup Tables \cup BootUsed
                      /\ \A t \in stale : t[2] # f
    OBVIOUS
  <2>1. panic = NoPanic /\ walk.op = "none" /\ FreeFrame
    BY OnlyFreeFrameFrees
  <2>2. QED
    BY <2>1, FreeFrameStep
<1>2. QED
  <2> HIDE DEF Unreachable
  <2>1. Spec => [][Unreachable]_vars
    BY <1>1, MemoryInvariant, PTL DEF Spec
  <2>2. QED
    BY <2>1 DEF Unreachable, FreedFrameUnreachable

-----------------------------------------------------------------------------
(* The heap's pages, as callers see them.                                  *)

\* A step of boot, of a callee or of a loop changes nothing that callers own.
LEMMA QuietCalls ==
  ASSUME pc' = pc, loc'.start = loc.start, loc'.i = loc.i, loc'.n = loc.n, vbmp' = vbmp
  PROVE  Owned' = Owned /\ Running' = Running
BY DEF Owned, Running, Booting, Allocating, Freeing, Run

LEMMA BootingOwnsNothing ==
  /\ Booting => Owned = {} /\ Running = "none"
  /\ Booting' => Owned' = {} /\ Running' = "none"
BY DEF Owned, Running, Booting, Allocating, Freeing

\* The abstract state.
HeapState == <<Owned, Running, panic # NoPanic>>

HeapStep == PH!Next \/ UNCHANGED HeapState

LEMMA StopStep ==
  ASSUME panic = NoPanic, panic' # NoPanic, Owned' = Owned, Running' = Running
  PROVE  HeapStep
BY DEF HeapStep, PH!Next, PH!Stop

LEMMA AllocPagesCalls ==
  ASSUME MemInv, panic = NoPanic, NEW n \in AllocSizes, AllocPages(n)
  PROVE  HeapStep
<1>1. CASE Candidates(n) = {}
  <2>1. panic' # NoPanic /\ UNCHANGED <<pc, loc, vbmp>>
    BY <1>1 DEF AllocPages, NoPanic, vmmVars
  <2>2. QED
    BY <2>1, QuietCalls, StopStep
<1>2. CASE Candidates(n) # {}
  <2> DEFINE s == First(Candidates(n))
  <2>1. /\ pc = "idle" /\ pc' = "alloc" /\ loc' = [NoLoc EXCEPT !.n = n, !.start = s]
        /\ vbmp' = vbmp /\ panic' = panic
    BY <1>2 DEF AllocPages, vmmVars
  <2>2. s \in Nat
    BY <1>2, CandidateRuns, KernelAssumption, Numbers DEF MemInv, HeapIdx
  <2> HIDE DEF s
  <2>3. loc' = [i |-> 0, n |-> n, start |-> s, p |-> 0]
    BY <2>1 DEF NoLoc
  <2>4. Run(s, 0) = {}
    BY <2>2 DEF Run
  <2>5. Owned = vbmp /\ Running = "none"
    BY <2>1 DEF Owned, Running, Booting, Allocating, Freeing
  <2>6. Owned' = vbmp /\ Running' = "alloc"
    <3>1. loc'.start = s /\ loc'.i = 0
      BY <2>3
    <3>2. Owned' = vbmp' \ Run(loc'.start, loc'.i) /\ Running' = "alloc"
      BY <2>1 DEF Owned, Running, Booting, Allocating, Freeing, Run
    <3>3. Run(loc'.start, loc'.i) = {}
      BY <2>4, <3>1
    <3>4. QED
      BY <2>1, <3>2, <3>3
  <2>7. QED
    BY <2>1, <2>5, <2>6 DEF HeapStep, PH!Next, PH!CallAlloc
<1>3. QED
  BY <1>1, <1>2

LEMMA AllocMarkReturns ==
  ASSUME MemInv, walk.op = "none", panic = NoPanic, AllocMarkPage
  PROVE  HeapStep
<1>1. /\ pc = "alloc_mapped" /\ panic' = panic
      /\ vbmp' = vbmp \cup {loc.start + loc.i}
      /\ \/ /\ loc.i + 1 < loc.n
            /\ pc' = "alloc" /\ loc' = [loc EXCEPT !.i = @ + 1, !.p = 0]
         \/ /\ loc.i + 1 = loc.n
            /\ pc' = "idle" /\ loc' = NoLoc
  BY JobBacked DEF AllocMarkPage, OwnPCs, bitmap_set
<1> DEFINE s == loc.start
           i == loc.i
           n == loc.n
<1>2. /\ loc \in Locals /\ s \in Nat /\ i \in Nat /\ n \in Nat /\ i < n /\ s + n <= HEAP_PAGES
      /\ Run(s, i) \subseteq vbmp /\ Run(s + i, n - i) \cap vbmp = {}
  BY <1>1 DEF MemInv, TypeOK, RunInv, Allocating, Locals
<1>3. Owned = vbmp \ Run(s, i) /\ Running = "alloc"
  BY <1>1 DEF Owned, Running, Booting, Allocating, Freeing
<1>4. CASE /\ i + 1 < n /\ pc' = "alloc" /\ loc' = [loc EXCEPT !.i = @ + 1, !.p = 0]
  <2>1. loc'.start = s /\ loc'.i = i + 1
    BY <1>2, <1>4 DEF Locals
  <2>2. Owned' = vbmp' \ Run(loc'.start, loc'.i) /\ Running' = "alloc"
    BY <1>4 DEF Owned, Running, Booting, Allocating, Freeing, Run
  <2> HIDE DEF s, i, n
  <2>3. (vbmp \cup {s + i}) \ Run(s, i + 1) = vbmp \ Run(s, i)
    BY <1>2 DEF Run
  <2>4. Owned' = Owned
    BY <1>1, <1>3, <2>1, <2>2, <2>3 DEF s, i
  <2>5. QED
    BY <1>1, <1>3, <2>2, <2>4 DEF HeapStep, HeapState
<1>5. CASE i + 1 = n /\ pc' = "idle" /\ loc' = NoLoc
  <2>1. Owned' = vbmp' /\ Running' = "none"
    BY <1>5 DEF Owned, Running, Booting, Allocating, Freeing
  <2>2. vbmp' = vbmp \cup {s + i}
    BY <1>1
  <2> HIDE DEF s, i, n
  <2>3. Run(s, n) = PH!PageRun(s, n)
    BY DEF Run, PH!PageRun
  <2>4. Run(s, n) \cap (vbmp \ Run(s, i)) = {}
    BY <1>2 DEF Run
  <2>5. vbmp \cup {s + i} = (vbmp \ Run(s, i)) \cup Run(s, n)
    BY <1>2, <1>5 DEF Run
  <2>6. s \in 0 .. HEAP_PAGES /\ n \in 1 .. HEAP_PAGES
    BY <1>2, Numbers
  <2>7. PH!ReturnAlloc(s, n)
    BY <1>1, <1>2, <1>3, <2>1, <2>2, <2>3, <2>4, <2>5 DEF PH!ReturnAlloc
  <2>8. QED
    BY <2>6, <2>7 DEF HeapStep, PH!Next
<1>6. QED
  BY <1>1, <1>4, <1>5

LEMMA FreePagesCalls ==
  ASSUME MemInv, panic = NoPanic, NEW a \in FreeArgs, FreePages(a[1], a[2])
  PROVE  HeapStep
<1>1. /\ pc = "idle" /\ vbmp' = vbmp /\ panic' = panic
      /\ \/ UNCHANGED <<pc, loc>>
         \/ pc' = "free" /\ loc'.i = 0
  BY DEF FreePages, NoLoc, vmmVars, pmmVars
<1>2. CASE UNCHANGED <<pc, loc>>
  BY <1>1, <1>2, QuietCalls DEF HeapStep, HeapState
<1>3. CASE pc' = "free" /\ loc'.i = 0
  <2> DEFINE s == loc'.start
             n == loc'.n
  <2>1. MemInv'
    <3>1. walk.op = "none"
      BY <1>1 DEF MemInv, CallInv, MapPCs, OwnPCs, TypeOK
    <3>2. QED
      BY <3>1, FreePagesInv
  <2>2. s \in Nat /\ n \in Nat /\ s + n <= HEAP_PAGES /\ 0 < n
    BY <1>3, <2>1 DEF MemInv, TypeOK, RunInv, Freeing
  <2>3. Owned = vbmp /\ Running = "none"
    BY <1>1 DEF Owned, Running, Booting, Allocating, Freeing
  <2>4. Owned' = vbmp' \ Run(s, n) /\ Running' = "free"
    BY <1>3 DEF Owned, Running, Booting, Allocating, Freeing, Run
  <2> HIDE DEF s, n
  <2>5. Run(s, n) = PH!PageRun(s, n)
    BY DEF Run, PH!PageRun
  <2>6. s \in 0 .. HEAP_PAGES /\ n \in 1 .. HEAP_PAGES
    BY <2>2, Numbers
  <2>7. PH!CallFree(s, n)
    BY <1>1, <2>2, <2>3, <2>4, <2>5 DEF PH!CallFree
  <2>8. QED
    BY <1>1, <2>6, <2>7 DEF HeapStep, PH!Next
<1>4. QED
  BY <1>1, <1>2, <1>3

LEMMA FreeFrameReturns ==
  ASSUME MemInv, walk.op = "none", panic = NoPanic, FreeFrame
  PROVE  HeapStep
<1>1. /\ pc = "free_unmapped" /\ panic' = NoPanic
      /\ vbmp' = vbmp \ {loc.start + loc.i}
      /\ \/ /\ loc.i + 1 < loc.n
            /\ pc' = "free" /\ loc' = [loc EXCEPT !.i = @ + 1, !.p = 0]
         \/ /\ loc.i + 1 = loc.n
            /\ pc' = "idle" /\ loc' = NoLoc
  BY FreeFrameStep DEF FreeFrame, bitmap_clear
<1> DEFINE s == loc.start
           i == loc.i
           n == loc.n
<1>2. /\ loc \in Locals /\ s \in Nat /\ i \in Nat /\ n \in Nat /\ i < n
      /\ Run(s, i) \cap vbmp = {}
  BY <1>1 DEF MemInv, TypeOK, RunInv, Freeing, Locals
<1>3. Owned = vbmp \ Run(s, n) /\ Running = "free"
  BY <1>1 DEF Owned, Running, Booting, Allocating, Freeing
<1>4. CASE i + 1 < n /\ pc' = "free" /\ loc' = [loc EXCEPT !.i = @ + 1, !.p = 0]
  <2>1. loc'.start = s /\ loc'.n = n
    BY <1>2, <1>4 DEF Locals
  <2>2. Owned' = vbmp' \ Run(loc'.start, loc'.n) /\ Running' = "free"
    BY <1>4 DEF Owned, Running, Booting, Allocating, Freeing, Run
  <2> HIDE DEF s, i, n
  <2>3. (vbmp \ {s + i}) \ Run(s, n) = vbmp \ Run(s, n)
    BY <1>2 DEF Run
  <2>4. Owned' = Owned
    BY <1>1, <1>3, <2>1, <2>2, <2>3 DEF s, i
  <2>5. QED
    BY <1>1, <1>3, <2>2, <2>4 DEF HeapStep, HeapState
<1>5. CASE i + 1 = n /\ pc' = "idle" /\ loc' = NoLoc
  <2>1. Owned' = vbmp' /\ Running' = "none"
    BY <1>5 DEF Owned, Running, Booting, Allocating, Freeing
  <2>2. vbmp' = vbmp \ {s + i}
    BY <1>1
  <2> HIDE DEF s, i, n
  <2>3. vbmp \ {s + i} = vbmp \ Run(s, n)
    BY <1>2, <1>5 DEF Run
  <2>4. QED
    BY <1>1, <1>3, <2>1, <2>2, <2>3 DEF HeapStep, PH!Next, PH!ReturnFree
<1>6. QED
  BY <1>1, <1>4, <1>5

\* Every other step is invisible, or stops the machine.
LEMMA OtherSteps ==
  ASSUME MemInv, panic = NoPanic,
         \/ WalkStep /\ UNCHANGED vmmVars
         \/ Boot \/ AllocOnePage \/ FreeLookup
  PROVE  HeapStep
<1>1. CASE UNCHANGED <<pc, loc, vbmp>>
  BY <1>1, QuietCalls, StopStep DEF HeapStep, HeapState
<1>2. CASE Booting /\ pc' = "idle" /\ vbmp' = {} /\ panic' = panic
  <2>1. Owned' = {} /\ Running' = "none"
    BY <1>2 DEF Owned, Running, Booting, Allocating, Freeing
  <2>2. QED
    BY <1>2, <2>1, BootingOwnsNothing DEF HeapStep, HeapState
<1>3. CASE Booting /\ Booting' /\ panic' = panic
  BY <1>3, BootingOwnsNothing DEF HeapStep, HeapState
<1>4. CASE /\ vbmp' = vbmp /\ panic' = panic
           /\ loc'.start = loc.start /\ loc'.i = loc.i /\ loc'.n = loc.n
           /\ \/ pc = "alloc" /\ pc' = "alloc_mapped"
              \/ pc = "free" /\ pc' = "free_unmapped"
  BY <1>4 DEF HeapStep, HeapState, Owned, Running, Booting, Allocating, Freeing, Run
<1>5. CASE WalkStep /\ UNCHANGED vmmVars
  BY <1>1, <1>5 DEF WalkStep, vmmVars
<1>6. CASE Boot
  <2>1. CASE InitPaging /\ UNCHANGED vmmVars
    BY <1>1, <1>3, <2>1 DEF InitPaging, AllocateRoot, MapSectionPage, SectionPageMapped,
       SectionsDone, MapDirectPage, DirectPageMapped, SwitchAddressSpace, Booting,
       PmmOutOfMemory, pmmVars, vmmVars
  <2>2. CASE BitmapPage \/ BitmapPageMapped \/ ZeroBitmap \/ StackPage \/ StackPageMapped
    BY <1>1, <1>3, <2>2 DEF BitmapPage, BitmapPageMapped, ZeroBitmap, StackPage,
       StackPageMapped, AllocateAndMap, Booting, pmmVars, vmmVars
  <2>3. CASE StackDone
    BY <1>2, <2>3 DEF StackDone, Booting, MemInv, LoopInv, pmmVars, vmmVars
  <2>4. QED
    BY <1>6, <2>1, <2>2, <2>3 DEF Boot
<1>7. CASE AllocOnePage \/ FreeLookup
  <2>1. loc \in Locals
    BY DEF MemInv, TypeOK, Locals
  <2>2. \A q : loc' = [loc EXCEPT !.p = q] =>
          loc'.start = loc.start /\ loc'.i = loc.i /\ loc'.n = loc.n
    BY <2>1 DEF Locals
  <2>3. CASE AllocOnePage
    BY <1>1, <1>4, <2>2, <2>3 DEF AllocOnePage, AllocateAndMap, vmmVars
  <2>4. CASE FreeLookup
    BY <1>1, <1>4, <2>2, <2>4 DEF FreeLookup, vmmVars
  <2>5. QED
    BY <1>7, <2>3, <2>4
<1>8. QED
  BY <1>5, <1>6, <1>7

LEMMA HeapSteps ==
  ASSUME MemInv, [Next]_vars
  PROVE  HeapStep
<1>1. CASE UNCHANGED vars
  <2>1. UNCHANGED <<pc, loc, vbmp, panic>>
    BY <1>1 DEF vars, pmmVars, vmmVars
  <2>2. QED
    BY <2>1, QuietCalls DEF HeapStep, HeapState
<1>2. CASE panic = NoPanic /\ walk.op = "none" /\ AllocMarkPage
  BY <1>2, AllocMarkReturns
<1>3. CASE panic = NoPanic /\ walk.op = "none" /\ FreeFrame
  BY <1>3, FreeFrameReturns
<1>4. CASE panic = NoPanic /\ Call
  BY <1>4, AllocPagesCalls, FreePagesCalls DEF Call
<1>5. QED
  BY <1>1, <1>2, <1>3, <1>4, OtherSteps DEF Next, KernelStep, AllocStep, FreeStep

\* vmm_alloc_pages and vmm_free_pages, which work page by page, look atomic to
\* their callers: a run given out was nobody's, a page that is still being
\* unmapped is not given out, and no call touches another page.
THEOREM PageHeapImplemented == Spec => ImplementsPageHeap
<1>1. Init => PH!Init
  BY BootingOwnsNothing DEF Init, PmmInit, PagingInit, PH!Init, Booting
<1>2. MemInv /\ [Next]_vars => [PH!Next]_HeapState
  BY HeapSteps DEF HeapStep
<1>3. QED
  BY <1>1, <1>2, MemoryInvariant, PTL DEF Spec, ImplementsPageHeap, PH!Spec, HeapState

-----------------------------------------------------------------------------
(* The page tables, as one flat map.                                       *)

PageMap == {<<v, Leaves[v].frame>> : v \in Mapped}

\* What AddressSpace is shown: the four levels, read from the root.
TableMap == Below(Below(Below(Below({<<0, root>> : root \in Roots}))))

LEMMA BelowMembers ==
  ASSUME NEW W, NEW x
  PROVE  x \in Below(W) <=>
           \E w \in W : \E i \in Index :
             Present(mem[w[2]][i]) /\ x = <<w[1] * Fan + i, mem[w[2]][i].frame>>
BY DEF Below

\* The tables of the levels on the path of a page, with the digits so far.
LEMMA ReadAll ==
  ASSUME NEW v \in Mapped
  PROVE  <<v, Leaves[v].frame>> \in TableMap
<1> DEFINE m == mem
           r == kernel_pml4
           a == PML4_IDX(v)
           b == PDPT_IDX(v)
           c == PD_IDX(v)
           d == PT_IDX(v)
           W0 == {<<0, root>> : root \in Roots}
           W1 == Below(W0)
           W2 == Below(W1)
           W3 == Below(W2)
<1>1. r # 0 /\ v \in VPages /\ Present(Leaves[v]) /\ Leaves[v] = Leaf(m, r, v)
  BY LeavesAre, ZeroAbsent DEF Mapped, Leaves
<1>2. /\ H1(m, r, v) /\ H2(m, r, v) /\ H3(m, r, v)
      /\ Leaves[v] = m[T1(m, r, v)][d]
  BY <1>1, ZeroAbsent DEF Leaf, H1, H2
<1>3. a \in Index /\ b \in Index /\ c \in Index /\ d \in Index
      /\ v = ((a * Fan + b) * Fan + c) * Fan + d
  BY <1>1, Digits
<1>4. Index \subseteq Nat /\ Fan \in Nat
  BY FanFacts DEF Index
<1>5. <<0, r>> \in W0
  BY <1>1 DEF Roots
<1> HIDE DEF a, b, c, d, W0
<1>6. <<0 * Fan + a, T3(m, r, v)>> \in W1
  BY <1>2, <1>3, <1>5, BelowMembers DEF H3, T3, a
<1>7. 0 * Fan + a = a
  BY <1>3, <1>4
<1> HIDE DEF W1
<1>8. <<a * Fan + b, T2(m, r, v)>> \in W2
  BY <1>2, <1>3, <1>6, <1>7, BelowMembers DEF H2, T2, b
<1> HIDE DEF W2
<1>9. <<(a * Fan + b) * Fan + c, T1(m, r, v)>> \in W3
  BY <1>2, <1>3, <1>8, BelowMembers DEF H1, T1, c
<1> HIDE DEF W3
<1>10. <<((a * Fan + b) * Fan + c) * Fan + d, Leaves[v].frame>> \in Below(W3)
  BY <1>1, <1>2, <1>3, <1>9, BelowMembers
<1>11. QED
  BY <1>3, <1>10 DEF TableMap, W3, W2, W1, W0

LEMMA ReadOnly ==
  ASSUME NEW x \in TableMap
  PROVE  \E v \in Mapped : x = <<v, Leaves[v].frame>>
<1> DEFINE m == mem
           r == kernel_pml4
           W0 == {<<0, root>> : root \in Roots}
           W1 == Below(W0)
           W2 == Below(W1)
           W3 == Below(W2)
<1>1. \A w \in W0 : w = <<0, r>> /\ r # 0
  BY DEF Roots
<1>2. Index \subseteq Nat /\ Fan \in Nat
  BY FanFacts DEF Index
<1>3. x \in Below(W3)
  BY DEF TableMap
<1> HIDE DEF W3
<1>4. PICK w3 \in W3, d \in Index :
        Present(m[w3[2]][d]) /\ x = <<w3[1] * Fan + d, m[w3[2]][d].frame>>
  BY <1>3, BelowMembers
<1>5. w3 \in Below(W2)
  BY DEF W3
<1> HIDE DEF W2
<1>6. PICK w2 \in W2, c \in Index :
        Present(m[w2[2]][c]) /\ w3 = <<w2[1] * Fan + c, m[w2[2]][c].frame>>
  BY <1>5, BelowMembers
<1>7. w2 \in Below(W1)
  BY DEF W2
<1> HIDE DEF W1
<1>8. PICK w1 \in W1, b \in Index :
         Present(m[w1[2]][b]) /\ w2 = <<w1[1] * Fan + b, m[w1[2]][b].frame>>
  BY <1>7, BelowMembers
<1>9. w1 \in Below(W0)
  BY DEF W1
<1> HIDE DEF W0
<1>10. PICK w0 \in W0, a \in Index :
         Present(m[w0[2]][a]) /\ w1 = <<w0[1] * Fan + a, m[w0[2]][a].frame>>
  BY <1>9, BelowMembers
<1>11. w0[1] = 0 /\ w0[2] = r /\ r # 0
  BY <1>1
<1>12. w1 = <<a, m[r][a].frame>> /\ Present(m[r][a])
  BY <1>2, <1>10, <1>11
<1> DEFINE v == ((a * Fan + b) * Fan + c) * Fan + d
<1>13. /\ v \in VPages
       /\ PML4_IDX(v) = a /\ PDPT_IDX(v) = b /\ PD_IDX(v) = c /\ PT_IDX(v) = d
  BY Undigits
<1>14. w2 = <<a * Fan + b, m[w1[2]][b].frame>> /\ w3 = <<(a * Fan + b) * Fan + c, m[w2[2]][c].frame>>
       /\ x = <<v, m[w3[2]][d].frame>>
  BY <1>4, <1>6, <1>8, <1>12
<1>15. /\ w1[2] = m[r][a].frame /\ w2[2] = m[w1[2]][b].frame /\ w3[2] = m[w2[2]][c].frame
       /\ Present(m[w1[2]][b]) /\ Present(m[w2[2]][c]) /\ Present(m[w3[2]][d])
  BY <1>4, <1>6, <1>8, <1>12
<1> HIDE DEF v
<1>16. H3(m, r, v) /\ T3(m, r, v) = w1[2]
  BY <1>12, <1>13, <1>15 DEF H3, T3
<1>17. H2(m, r, v) /\ T2(m, r, v) = w2[2]
  BY <1>13, <1>16, <1>15 DEF H2, T2
<1>18. H1(m, r, v) /\ T1(m, r, v) = w3[2]
  BY <1>13, <1>17, <1>15 DEF H1, T1
<1>19. Leaf(m, r, v) = m[w3[2]][d]
  BY <1>13, <1>18 DEF Leaf
<1>20. Leaves[v] = m[w3[2]][d]
  BY <1>11, <1>13, <1>19, LeavesAre
<1>21. v \in Mapped
  BY <1>4, <1>13, <1>20 DEF Mapped
<1>22. QED
  BY <1>14, <1>20, <1>21

LEMMA FlatMap == TableMap = PageMap
BY ReadAll, ReadOnly DEF PageMap

\* A step that changes no leaf changes no map; one that changes a leaf changes
\* the map at its page.
LEMMA LeavesSame ==
  ASSUME Leaves' = Leaves
  PROVE  PageMap' = PageMap
<1>1. Mapped' = Mapped
  BY SameLeaves
<1>2. QED
  BY <1>1 DEF PageMap

LEMMA MapsOne ==
  ASSUME NEW p \in VPages \ Mapped, NEW e \in Entry, Present(e),
         Leaves' = [Leaves EXCEPT ![p] = e]
  PROVE  AS!Step(PageMap, PageMap')
<1>1. /\ Mapped' = Mapped \cup {p} /\ Leaves'[p] = e
      /\ \A v \in VPages \ {p} : Leaves'[v] = Leaves[v]
  BY PresentSet
<1>2. Mapped \subseteq VPages /\ e.frame \in Frames
  BY DEF Mapped, Entry
<1>3. PageMap' = PageMap \cup {<<p, e.frame>>}
  BY <1>1, <1>2 DEF PageMap
<1>4. p \notin AS!Pages(PageMap)
  BY DEF PageMap, AS!Pages
<1>5. <<p, e.frame>> \notin PageMap
  BY DEF PageMap
<1> HIDE DEF PageMap
<1>6. PageMap' \ PageMap = {<<p, e.frame>>} /\ PageMap \ PageMap' = {}
  BY <1>3, <1>5
<1>7. \E x \in PageMap' \ PageMap :
        PageMap' \ PageMap = {x} /\ x[1] \in VPages \ AS!Pages(PageMap) /\ x[2] \in Frames
  <2> DEFINE x == <<p, e.frame>>
  <2>1. x[1] = p /\ x[2] = e.frame /\ x \in PageMap' \ PageMap
    BY <1>6
  <2> HIDE DEF x
  <2>2. PageMap' \ PageMap = {x}
    BY <1>6 DEF x
  <2>3. QED
    BY <1>2, <1>4, <2>1, <2>2
<1>8. QED
  BY <1>6, <1>7 DEF AS!Step

LEMMA UnmapsOne ==
  ASSUME NEW p \in Mapped, Leaves' = [Leaves EXCEPT ![p] = Zero]
  PROVE  AS!Step(PageMap, PageMap')
<1>1. Leaves'[p] = Zero /\ \A v \in VPages \ {p} : Leaves'[v] = Leaves[v]
  BY DEF Leaves, Mapped
<1>2. Mapped' = Mapped \ {p}
  BY <1>1, ZeroAbsent DEF Mapped
<1>3. PageMap' = PageMap \ {<<p, Leaves[p].frame>>} /\ <<p, Leaves[p].frame>> \in PageMap
  BY <1>1, <1>2 DEF PageMap, Mapped
<1> HIDE DEF PageMap
<1>4. PageMap' \ PageMap = {} /\ PageMap \ PageMap' = {<<p, Leaves[p].frame>>}
  BY <1>3
<1>5. QED
  BY <1>4 DEF AS!Step

LEMMA MapSteps ==
  ASSUME MemInv, [Next]_vars
  PROVE  AS!Step(PageMap, PageMap') \/ PageMap' = PageMap
<1>0. CASE UNCHANGED <<mem, kernel_pml4>>
  BY <1>0, QuietTables, LeavesSame
<1>1. CASE walk.op # "none" /\ WalkStep
  <2>1. WalkTyped /\ TreeInv /\ walk.op # "none"
    BY <1>1, MemTyped DEF MemInv
  <2>2. CASE get_next_table
    <3>1. CASE NextTableNew
      <4>1. PICK f \in Frames :
              /\ pmm_alloc_page(f)
              /\ \/ /\ mem' = [mem EXCEPT
                         ![f] = ZeroTable,
                         ![walk.tbl][WalkIndex] = [frame |-> f, flags |-> {"P", "W", "U"}]]
                    /\ UNCHANGED kernel_pml4
                 \/ UNCHANGED pagingVars
        BY <3>1 DEF NextTableNew
      <4>2. f \notin Tables
        BY <4>1, FreshFrame
      <4>3. ~Present(WalkEntry) /\ walk.lvl > 1
        BY <2>2, <3>1 DEF get_next_table, NextTableNew
      <4>4. QED
        BY <1>0, <2>1, <4>1, <4>2, <4>3, NewTableStep, LeavesSame DEF pagingVars
    <3>2. QED
      BY <1>0, <2>2, <3>1 DEF get_next_table, NextTablePresent, NextTableNoMemory, memVars,
                              pagingVars
  <2>3. CASE MapLeaf
    <3>1. CASE /\ ~Present(WalkEntry)
               /\ mem' = [mem EXCEPT ![walk.tbl][WalkIndex] = walk.entry]
      <4>1. /\ walk.op = "map" /\ walk.lvl = 1 /\ kernel_pml4' = kernel_pml4
        BY <2>3 DEF MapLeaf
      <4>2. Leaves' = [Leaves EXCEPT ![walk.v] = walk.entry]
        BY <2>1, <3>1, <4>1, LeafStep
      <4>3. walk.v \in VPages \ Mapped
        BY <2>1, <3>1, <4>1, LeafRead DEF WalkTyped, Mapped
      <4>4. walk.entry \in Entry /\ Present(walk.entry)
        BY <4>1, JobPlace DEF MemInv, CallInv
      <4>5. QED
        BY <4>2, <4>3, <4>4, MapsOne
    <3>2. QED
      BY <1>0, <2>3, <3>1 DEF MapLeaf
  <2>4. CASE UnmapLeaf
    <3>1. CASE /\ Present(WalkEntry)
               /\ mem' = [mem EXCEPT ![walk.tbl][WalkIndex] = Zero]
      <4>1. /\ walk.op = "unmap" /\ walk.lvl = 1 /\ kernel_pml4' = kernel_pml4
        BY <2>4 DEF UnmapLeaf
      <4>2. Leaves' = [Leaves EXCEPT ![walk.v] = Zero]
        BY <2>1, <3>1, <4>1, LeafStep
      <4>3. walk.v \in Mapped
        BY <4>1, UnmapJob
      <4>4. QED
        BY <4>2, <4>3, UnmapsOne
    <3>2. QED
      BY <1>0, <2>4, <3>1 DEF UnmapLeaf
  <2>5. CASE UnmapDown \/ flush_tlb_single
    BY <1>0, <2>5 DEF UnmapDown, flush_tlb_single, memVars
  <2>6. QED
    BY <1>1, <2>2, <2>3, <2>4, <2>5 DEF WalkStep
<1>2. CASE AllocateRoot
  <2>1. CASE \E f \in Frames : /\ pmm_alloc_page(f) /\ kernel_pml4' = f
                               /\ mem' = [mem EXCEPT ![f] = ZeroTable]
    <3>1. PICK f \in Frames : /\ pmm_alloc_page(f) /\ kernel_pml4' = f
                              /\ mem' = [mem EXCEPT ![f] = ZeroTable]
      BY <2>1
    <3>2. f # 0
      BY <3>1, FreshFrame
    <3>3. mem \in Memories /\ kernel_pml4 = 0
      BY <1>2 DEF AllocateRoot, MemInv, TypeOK, PhaseInv, Memories
    <3>4. QED
      BY <3>1, <3>2, <3>3, RootStep, LeavesSame
  <2>2. QED
    BY <1>0, <1>2, <2>1 DEF AllocateRoot
<1>3. CASE Boot
  BY <1>0, <1>2, <1>3 DEF Boot, InitPaging, MapSectionPage, SectionPageMapped,
     SectionsDone, MapDirectPage, DirectPageMapped, SwitchAddressSpace, BitmapPage,
     BitmapPageMapped, ZeroBitmap, StackPage, StackPageMapped, StackDone,
     AllocateAndMap, memVars, pagingVars
<1>4. CASE AllocStep \/ FreeStep \/ Call \/ UNCHANGED vars
  BY <1>0, <1>4 DEF AllocStep, FreeStep, Call, AllocOnePage, AllocMarkPage, FreeLookup, FreeFrame,
     AllocPages, FreePages, AllocateAndMap, memVars, pagingVars, vars
<1>5. QED
  BY <1>1, <1>3, <1>4 DEF Next, KernelStep

\* The four levels of tables behave as one flat map from pages to frames: a
\* step maps one page that was not mapped or unmaps one that was, and no page
\* ever moves to another frame without being unmapped first.
THEOREM AddressSpaceImplemented == Spec => ImplementsAddressSpace
<1>1. Init => TableMap = {}
  <2> SUFFICES ASSUME Init PROVE PageMap = {}
    BY FlatMap
  <2>1. Mapped = {}
    BY ZeroAbsent DEF Init, PagingInit, Mapped, Leaves
  <2>2. QED
    BY <2>1 DEF PageMap
<1>2. TableMap' = PageMap'
  <2>1. (TableMap = PageMap)'
    BY FlatMap, PTL
  <2>2. QED
    BY <2>1
<1>3. MemInv /\ [Next]_vars => AS!Step(TableMap, TableMap') \/ TableMap' = TableMap
  BY <1>2, FlatMap, MapSteps
<1>4. Init => AS!Init
  BY <1>1 DEF AS!Init, TableMap
<1>5. MemInv /\ [Next]_vars => [AS!Next]_TableMap
  BY <1>3 DEF AS!Next, TableMap
<1>6. QED
  BY <1>4, <1>5, MemoryInvariant, PTL DEF Spec, ImplementsAddressSpace, AS!Spec, TableMap
=============================================================================
