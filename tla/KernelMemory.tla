---------------------------- MODULE KernelMemory ----------------------------
(***************************************************************************)
(* The memory subsystem as kernel_stage1 assembles it: init_paging,        *)
(* vmm_init and vmm_setup_stack run once, on the bitmap that init_pmm left *)
(* behind; then the kernel calls vmm_alloc_pages and vmm_free_pages.       *)
(***************************************************************************)
EXTENDS VMM, FiniteSets

CONSTANTS
  AllocSizes,    \* the page counts that callers ask for
  FreeArgs       \* the <<page, count>> pairs that callers may free

ASSUME KernelAssumption ==
  /\ AllocSizes \subseteq Nat
  /\ FreeArgs \subseteq VPages \X Nat

\* The heap, the only caller of vmm_free_pages, frees runs that it was given:
\* no end of a range that it passes is beyond 64 bits.
ASSUME CallersAssumption ==
  \A a \in FreeArgs : a[1] + a[2] < WORD

vars == <<pmmVars, pagingVars, vmmVars, pc, loc>>

Init == PmmInit /\ PagingInit /\ VmmInit

Boot ==
  \/ InitPaging /\ UNCHANGED vmmVars
  \/ BitmapPage \/ BitmapPageMapped \/ ZeroBitmap
  \/ StackPage \/ StackPageMapped \/ StackDone

AllocStep == AllocOnePage \/ AllocMarkPage
FreeStep  == FreeLookup \/ FreeFrame

\* A call from the rest of the kernel.
Call ==
  \/ \E n \in AllocSizes : AllocPages(n)
  \/ \E a \in FreeArgs : FreePages(a[1], a[2])

\* One thread of control: a callee finishes before its caller continues, and
\* a panic is the end.
KernelStep ==
  /\ panic = NoPanic
  /\ \/ walk.op # "none" /\ WalkStep /\ UNCHANGED vmmVars
     \/ walk.op = "none" /\ (Boot \/ AllocStep \/ FreeStep)

Next ==
  \/ KernelStep
  \/ panic = NoPanic /\ walk.op = "none" /\ Call
  \/ Halt /\ UNCHANGED vars

\* The processor goes on executing whatever call has been made.
Spec == Init /\ [][Next]_vars /\ WF_vars(KernelStep)
-----------------------------------------------------------------------------
(* The state of the subsystem, as the properties see it. *)

\* The present entries of the tables in S, as <<table, index>>.
Entries(S) == {e \in S \X Index : Present(mem[e[1]][e[2]])}
Target(e)  == mem[e[1]][e[2]].frame

Children(S) == {Target(e) : e \in Entries(S)}

Roots  == IF kernel_pml4 = 0 THEN {} ELSE {kernel_pml4}
PDPTs  == Children(Roots)
PDs    == Children(PDPTs)
PTs    == Children(PDs)
Tables == Roots \cup PDPTs \cup PDs \cup PTs

\* The pages that are backed by a frame of their own.
OwnPages == HeapRegion \cup BitmapRegion \cup StackRegion
Backing  == {LeafEntry(v).frame : v \in {w \in OwnPages : IsMapped(w)}}

\* The frame a loop holds between pmm_alloc_page and the end of kmap, or
\* between kunmap and pmm_free_page.
InFlight == IF loc.p = 0 THEN {} ELSE {loc.p}

Booting == pc \notin {"idle", "alloc", "alloc_mapped", "free", "free_unmapped"}
Allocating == pc \in {"alloc", "alloc_mapped"}
Freeing    == pc \in {"free", "free_unmapped"}

PCs == {"init_paging", "sections", "section_mapped", "hhdm", "hhdm_mapped",
        "vmm_init", "bitmap_mapped", "vmm_setup_stack", "stack_mapped",
        "idle", "alloc", "alloc_mapped", "free", "free_unmapped"}

TypeOK ==
  /\ bmp \subseteq Bits
  /\ panic \in {NoPanic} \cup PmmPanics \cup PagingPanics \cup VmmPanics
  /\ mem \in [Frames -> [Index -> Entry]]
  /\ kernel_pml4 \in Frames
  /\ hhdm_on \in BOOLEAN
  /\ stale \subseteq VPages \X Frames
  /\ walk \in [op : {"none", "map", "unmap", "invlpg"}, v : VPages,
               entry : Entry, lvl : 0 .. 4, tbl : Frames]
  /\ ret \in 0 .. 2
  /\ pc \in PCs
  /\ loc \in [i : Nat, n : Nat, start : Nat, p : Frames]
  /\ vbmp \subseteq HeapIdx
  /\ last_allocated_index \in 0 .. HEAP_PAGES

-----------------------------------------------------------------------------
(* Safety. *)

\* No table is shared: the four levels are disjoint sets of allocated frames,
\* and each table below the root is the target of one entry only.  This is
\* what makes a write to a table change the translation of one page.
TablesFormATree ==
  /\ Roots \cap (PDPTs \cup PDs \cup PTs) = {}
  /\ PDPTs \cap (PDs \cup PTs) = {} /\ PDs \cap PTs = {}
  /\ LET upper == Entries(Roots \cup PDPTs \cup PDs)
     IN  Cardinality({Target(e) : e \in upper}) = Cardinality(upper)

\* Every frame whose bit is set is accounted for, and only those: boot's, the
\* page tables, the frames behind heap, stack and bitmap, and the one a call
\* is working on.  A frame in no class is leaked; one missing from the bitmap
\* would be handed out again while it is in use.
FrameAccounting ==
  panic = NoPanic => bmp = BootUsed \cup Tables \cup Backing \cup InFlight

\* A frame behind a heap, stack or bitmap page is behind that page only, is no
\* page table and is none of boot's frames.
ExclusiveFrames ==
  /\ Cardinality(Backing) = Cardinality({v \in OwnPages : IsMapped(v)})
  /\ Backing \cap (Tables \cup BootUsed) = {}
  /\ Tables \cap BootUsed = {}

\* The heap's bitmap and the page tables agree, except for the page that a
\* running call is working on.
HeapBitmapMatchesTables ==
  ~Booting =>
    \A i \in HeapIdx :
      \/ (i \in vbmp) = IsMapped(HEAP_START + i)
      \/ ~(pc = "idle") /\ i = loc.start + loc.i

MapsTo(v, f) == LET e == LeafEntry(v) IN Present(e) /\ e.frame = f

\* Once it is live, the direct map reaches every frame, and the kernel image
\* stays mapped at its link address; nothing vmm.c does can unmap them.
KernelSpaceIntact ==
  hhdm_on =>
    /\ \A f \in Frames : MapsTo(HHDM + f, f)
    /\ \A s \in 1 .. Len(Sections) : "ALLOC" \in Sections[s].flags =>
         \A v \in Sections[s].first .. Sections[s].last :
           MapsTo(v, v - KVMA)

\* The pages that section s of the image has something on, if it is loaded.
SectionPages(s) ==
  IF "ALLOC" \in Sections[s].flags THEN Sections[s].first .. Sections[s].last ELSE {}

\* Of the sections on page v, s is the first.
FirstOn(s, v) ==
  /\ v \in SectionPages(s)
  /\ \A r \in 1 .. (s - 1) : v \notin SectionPages(r)

\* Page v is writable, and executable, just when section s asks for it.
Grants(v, s) ==
  LET flags == LeafEntry(v).flags
  IN  /\ "WRITE" \in Sections[s].flags <=> "W" \in flags
      /\ "EXECINSTR" \in Sections[s].flags <=> "NX" \notin flags

\* map_page leaves a page alone that is mapped already, so of two sections that
\* share a page the first decides: it gets the permissions it asks for, and
\* the second gets neither more nor fewer than the first asked for.  No later
\* call changes that.
SectionFlagsHonoured ==
  hhdm_on =>
    \A s \in 1 .. Len(Sections) : \A v \in SectionPages(s) :
      FirstOn(s, v) => Grants(v, s)

\* The page below the kernel stack is never mapped, so running off the stack
\* faults instead of writing into something else.
GuardPageUnmapped == \A v \in GuardRegion : ~IsMapped(v)

\* The panics that only a broken invariant of the kernel can cause: no legal
\* or illegal argument of vmm_free_pages makes pmm_free_page see a free frame,
\* no page the bitmap calls free is already mapped, no table of the boot-time
\* page tables lies outside the identity map.
NoInternalPanic ==
  panic \notin {"PMM: unaligned address", "PMM: double free", "page fault",
               "Kernel ELF mapping failed", "HHDM mapping failed",
               "VMM: kmap failed", "VMM: stack map fail"}

\* A frame goes back to the pool only when no heap, stack or bitmap page and
\* no TLB entry still leads to it, and it is neither a table nor boot's.
FreedFrameUnreachable ==
  [][\A f \in bmp \ bmp' :
       /\ f \notin Backing \cup Tables \cup BootUsed
       /\ \A t \in stale : t[2] # f]_vars

-----------------------------------------------------------------------------
(* Refinement and liveness. *)

\* From the tables W, each with the number that leads to it, one level down.
Below(W) ==
  UNION {{<<w[1] * Fan + i, mem[w[2]][i].frame>> :
            i \in {j \in Index : Present(mem[w[2]][j])}} : w \in W}

\* The four levels of tables implement one flat map of pages to frames.
AS == INSTANCE AddressSpace
        WITH Page <- VPages, Frame <- Frames,
             amap <- Below(Below(Below(Below({<<0, root>> : root \in Roots}))))
ImplementsAddressSpace == AS!Spec

\* What callers own: a run becomes theirs when the call returns, and stops
\* being theirs when they call vmm_free_pages.
Owned ==
  CASE Booting    -> {}
    [] Allocating -> vbmp \ Run(loc.start, loc.i)
    [] Freeing    -> vbmp \ Run(loc.start, loc.n)
    [] OTHER      -> vbmp

Running ==
  CASE Allocating -> "alloc" [] Freeing -> "free" [] OTHER -> "none"

\* The page-by-page loops of vmm_alloc_pages and vmm_free_pages behave like
\* the atomic calls of PageHeap: no page is given to two callers, a page still
\* being unmapped is not given out, and a call changes no other page.
PH == INSTANCE PageHeap
        WITH Pages <- HEAP_PAGES, owned <- Owned, call <- Running,
             stopped <- panic # NoPanic
ImplementsPageHeap == PH!Spec

\* Boot completes and every call returns, unless the kernel panics.
CallsReturn == pc # "idle" ~> (pc = "idle" \/ panic # NoPanic)

-----------------------------------------------------------------------------
(* What the code says of itself, and does not do. *)

\* pmm.c says pmm_alloc_page returns NULL when it is out of memory, and every
\* caller tests for it; no run may then end in the allocator's own panic.
OutOfMemoryReturnsNull == panic # "PMM: out of memory"

\* vmm_alloc_pages panics with "kernel heap exhausted" only when no run of the
\* requested length is free.
ExhaustedMeansNoRoom ==
  [][\A n \in AllocSizes \ {0} :
       /\ AllocPages(n) /\ panic' = "VMM: kernel heap exhausted"
       => Fits(n, 0, HEAP_PAGES) = {}]_vars
=============================================================================
