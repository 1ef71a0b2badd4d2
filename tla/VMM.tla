-------------------------------- MODULE VMM --------------------------------
(***************************************************************************)
(* The kernel's virtual memory manager, kernel/mm/vmm.c: a next-fit bitmap *)
(* allocator of heap pages, each backed by a frame of its own, and the     *)
(* permanent kernel stack.  One step per call that vmm.c makes.            *)
(***************************************************************************)
EXTENDS Paging

CONSTANTS
  BITMAP_START, BITMAP_PAGES,   \* VMM_BITMAP_VIRT_START and its pages
  HEAP_START, HEAP_PAGES,       \* KERNEL_HEAP_START, KERNEL_HEAP_SIZE
  STACK_START,                  \* KERNEL_STACK_RANGE_START
  STACK_GUARD, STACK_PAGES,     \* KERNEL_STACK_GUARD, KERNEL_STACK_SIZE
  WORD                          \* the pages that 64 bits can address, 2^52

HeapIdx    == 0 .. (HEAP_PAGES - 1)
HeapRegion == HEAP_START .. (HEAP_START + HEAP_PAGES - 1)
BitmapRegion == BITMAP_START .. (BITMAP_START + BITMAP_PAGES - 1)

\* Mutant: the stack begins where its range begins.
StackBaseUnguarded == STACK_START
StackBase    == STACK_START + STACK_GUARD
StackRegion  == StackBase .. (StackBase + STACK_PAGES - 1)
GuardRegion  == STACK_START .. (STACK_START + STACK_GUARD - 1)
DirectRegion == HHDM .. (HHDM + MaxPages - 1)
ImageRegion  == {KVMA + f : f \in Frames} \cap VPages

\* The layout of vmm.h: the regions do not meet.
ASSUME VmmAssumption ==
  /\ {HEAP_START, BITMAP_START, STACK_START} \subseteq VPages
  /\ {HEAP_PAGES, BITMAP_PAGES, STACK_PAGES} \subseteq Nat \ {0}
  /\ STACK_GUARD \in Nat
  /\ WORD \in Nat /\ \A v \in VPages : v < WORD
  /\ HeapRegion \cup BitmapRegion \cup StackRegion \subseteq VPages
  /\ HeapRegion \cap BitmapRegion = {}
  /\ (HeapRegion \cup BitmapRegion)
       \cap (StackRegion \cup GuardRegion) = {}
  /\ (HeapRegion \cup BitmapRegion \cup StackRegion \cup GuardRegion)
       \cap (DirectRegion \cup ImageRegion) = {}
  /\ DirectRegion \cap ImageRegion = {}

VARIABLES
  vbmp,                  \* the heap page indexes whose bit is 1
  last_allocated_index   \* where the next search begins

vmmVars == <<vbmp, last_allocated_index>>

VmmPanics == {"VMM: kernel heap exhausted", "VMM: kmap failed",
              "VMM: never mapped", "VMM: stack map fail"}

bitmap_set(i)   == vbmp' = vbmp \cup {i}
\* Mutant: the whole byte of the bitmap is cleared.
bitmap_clearByte(i) == vbmp' = {j \in vbmp : j \div 8 # i \div 8}
bitmap_clear(i) == vbmp' = vbmp \ {i}

VmmInit ==
  /\ vbmp = HeapIdx      \* unmapped memory: any content, until vmm_init
  /\ last_allocated_index = 0

-----------------------------------------------------------------------------
\* p = pmm_alloc_page() and the call of kmap(v, p, flags) on the result.
AllocateAndMap(v, next) ==
  \/ /\ \E f \in Frames :
          /\ pmm_alloc_page(f)
          /\ loc' = [loc EXCEPT !.p = f]
          /\ CallMapPage(v, f, {"P", "W"})
     /\ pc' = next
     /\ UNCHANGED <<panic, memVars, ret, vmmVars>>
  \/ /\ PmmOutOfMemory
     /\ UNCHANGED <<pagingVars, vmmVars, pc, loc>>

-----------------------------------------------------------------------------
(* vmm_init: the bitmap's pages are mapped (kmap's result is not looked    *)
(* at), then zeroed.                                                       *)

BitmapPage ==
  /\ pc = "vmm_init" /\ loc.i < BITMAP_PAGES
  /\ AllocateAndMap(BITMAP_START + loc.i, "bitmap_mapped")

BitmapPageMapped ==
  /\ pc = "bitmap_mapped"
  /\ pc' = "vmm_init" /\ loc' = [loc EXCEPT !.i = @ + 1]
  /\ UNCHANGED <<pmmVars, pagingVars, vmmVars>>

\* Mutant: the loop that zeroes the bitmap is missing.
ZeroBitmapMissing ==
  /\ pc = "vmm_init" /\ loc.i = BITMAP_PAGES
  /\ pc' = "vmm_setup_stack" /\ loc' = NoLoc
  /\ UNCHANGED <<pmmVars, pagingVars, vmmVars>>

ZeroBitmap ==
  /\ pc = "vmm_init" /\ loc.i = BITMAP_PAGES
  /\ vbmp' = {}
  /\ pc' = "vmm_setup_stack" /\ loc' = NoLoc
  /\ UNCHANGED <<pmmVars, pagingVars, last_allocated_index>>

-----------------------------------------------------------------------------
(* vmm_setup_stack, above the guard; then kernel_stage2. *)

StackPage ==
  /\ pc = "vmm_setup_stack" /\ loc.i < STACK_PAGES
  /\ AllocateAndMap(StackBase + loc.i, "stack_mapped")

StackPageMapped ==
  /\ pc = "stack_mapped"
  /\ \/ /\ ret = 0
        /\ pc' = "vmm_setup_stack" /\ loc' = [loc EXCEPT !.i = @ + 1]
        /\ UNCHANGED panic
     \/ /\ ret # 0
        /\ panic' = "VMM: stack map fail"
        /\ UNCHANGED <<pc, loc>>
  /\ UNCHANGED <<bmp, pagingVars, vmmVars>>

StackDone ==
  /\ pc = "vmm_setup_stack" /\ loc.i = STACK_PAGES
  /\ pc' = "idle" /\ loc' = NoLoc
  /\ UNCHANGED <<pmmVars, pagingVars, vmmVars>>

-----------------------------------------------------------------------------
(* vmm_alloc_pages *)

Run(s, n) == s .. (s + n - 1)

\* Mutant: the scan stops one clear bit early.
FitsShort(n, begin, end) ==
  {s \in HeapIdx : /\ n > 0 /\ begin <= s /\ s + n <= end
                   /\ Run(s, n - 1) \cap vbmp = {}}

\* Where the scan of [begin, end) may stop: n clear bits in a row inside it.
\* The counter compared with n is at least 1, so n = 0 is never found.
Fits(n, begin, end) ==
  {s \in HeapIdx : /\ n > 0 /\ begin <= s /\ s + n <= end
                   /\ Run(s, n) \cap vbmp = {}}

First(S) == CHOOSE s \in S : \A t \in S : s <= t

\* Mutant: the count of clear bits is carried from pass 0 into pass 1.
CandidatesCarried(n) ==
  LET up   == Fits(n, last_allocated_index, HEAP_PAGES)
      wrap == {s \in last_allocated_index .. (HEAP_PAGES - 1) :
                 /\ HEAP_PAGES < s + n
                 /\ s + n <= HEAP_PAGES + last_allocated_index
                 /\ {i % HEAP_PAGES : i \in Run(s, n)} \cap vbmp = {}}
  IN  IF up \cup wrap # {} THEN up \cup wrap
      ELSE Fits(n, 0, last_allocated_index)

\* Pass 0 goes from last_allocated_index up, pass 1 from 0 to just below it;
\* the count of clear bits starts again at 0 in pass 1.
Candidates(n) ==
  LET up == Fits(n, last_allocated_index, HEAP_PAGES)
  IN  IF up # {} THEN up ELSE Fits(n, 0, last_allocated_index)

AllocPages(n) ==
  /\ pc = "idle"
  /\ \/ /\ Candidates(n) # {}
        /\ loc' = [NoLoc EXCEPT !.n = n, !.start = First(Candidates(n))]
        /\ pc' = "alloc"
        /\ UNCHANGED panic
     \/ /\ Candidates(n) = {}
        /\ panic' = "VMM: kernel heap exhausted"
        /\ UNCHANGED <<pc, loc>>
  /\ UNCHANGED <<bmp, pagingVars, vmmVars>>

AllocOnePage ==
  /\ pc = "alloc"
  /\ AllocateAndMap(HEAP_START + loc.start + loc.i, "alloc_mapped")

\* After the last page, the next search begins behind the run.
AllocMarkPage ==
  /\ pc = "alloc_mapped"
  /\ \/ /\ ret = 0
        /\ bitmap_set(loc.start + loc.i)
        /\ \/ /\ loc.i + 1 < loc.n
              /\ pc' = "alloc" /\ loc' = [loc EXCEPT !.i = @ + 1, !.p = 0]
              /\ UNCHANGED last_allocated_index
           \/ /\ loc.i + 1 = loc.n
              /\ pc' = "idle" /\ loc' = NoLoc
              /\ last_allocated_index' = loc.start + loc.n
        /\ UNCHANGED panic
     \/ /\ ret # 0
        /\ panic' = "VMM: kmap failed"
        /\ UNCHANGED <<pc, loc, vmmVars>>
  /\ UNCHANGED <<bmp, pagingVars>>

-----------------------------------------------------------------------------
(* vmm_free_pages *)

\* Mutant: the lower bound is not checked.
InHeapBelow(v, n) == (v + n) % WORD <= HEAP_START + HEAP_PAGES

\* The end of the range is computed in 64 bits, and wraps for a huge n.
InHeap(v, n) ==
  v >= HEAP_START /\ (v + n) % WORD <= HEAP_START + HEAP_PAGES

FreePages(v, n) ==
  /\ pc = "idle"
  /\ \/ /\ ~InHeap(v, n)
        /\ ret' = 1                        \* return -1
        /\ UNCHANGED <<pc, loc>>
     \/ /\ InHeap(v, n) /\ n = 0
        /\ ret' = 0
        /\ UNCHANGED <<pc, loc>>
     \/ /\ InHeap(v, n) /\ n > 0
        /\ pc' = "free"
        /\ loc' = [NoLoc EXCEPT !.n = n, !.start = v - HEAP_START]
        /\ UNCHANGED ret
  /\ UNCHANGED <<pmmVars, memVars, walk, vmmVars>>

\* kvirt_to_phys before the page is unmapped; 0 panics.
FreeLookup ==
  /\ pc = "free"
  /\ LET v == HEAP_START + loc.start + loc.i
     IN \/ /\ virt_to_phys(v) # 0
           /\ loc' = [loc EXCEPT !.p = virt_to_phys(v)]
           /\ CallUnmapPage(v)
           /\ pc' = "free_unmapped"
           /\ UNCHANGED panic
        \/ /\ virt_to_phys(v) = 0
           /\ panic' = "VMM: never mapped"
           /\ UNCHANGED <<pc, loc, walk>>
  /\ UNCHANGED <<bmp, memVars, ret, vmmVars>>

\* kunmap's result is not looked at: the frame goes back in any case, and
\* then the bit is cleared, unless pmm_free_page panics.
FreeFrame ==
  /\ pc = "free_unmapped"
  /\ pmm_free_page(idx_to_addr(loc.p))
  /\ \/ /\ panic' = NoPanic
        /\ bitmap_clear(loc.start + loc.i)
        /\ \/ /\ loc.i + 1 < loc.n
              /\ pc' = "free" /\ loc' = [loc EXCEPT !.i = @ + 1, !.p = 0]
              /\ UNCHANGED ret
           \/ /\ loc.i + 1 = loc.n
              /\ pc' = "idle" /\ loc' = NoLoc /\ ret' = 0
     \/ /\ panic' # NoPanic
        /\ UNCHANGED <<vbmp, pc, loc, ret>>
  /\ UNCHANGED <<memVars, walk, last_allocated_index>>
=============================================================================
