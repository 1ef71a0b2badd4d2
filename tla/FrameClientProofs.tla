------------------------- MODULE FrameClientProofs -------------------------
(***************************************************************************)
(* The physical memory manager is correct for every size of memory and     *)
(* every set of frames that boot reserves.                                 *)
(***************************************************************************)
EXTENDS FrameClient, TLAPS

\* addr_to_idx of an address inside the managed memory is one of its frames.
LEMMA IndexOfAddress ==
  ASSUME NEW a \in 0 .. (MaxPages * PAGE_SIZE - 1)
  PROVE  addr_to_idx(a) \in Frames
<1>1. PAGE_SIZE \in Nat \ {0} /\ MaxPages \in Nat \ {0}
  BY PmmAssumption
<1>2. MaxPages * PAGE_SIZE \in Nat
  BY <1>1
<1>3. a \in Nat /\ a < MaxPages * PAGE_SIZE
  BY <1>2
<1>4. a \div PAGE_SIZE \in Nat /\ PAGE_SIZE * (a \div PAGE_SIZE) <= a
  BY <1>1, <1>3
<1>5. a \div PAGE_SIZE < MaxPages
  BY <1>1, <1>3, <1>4
<1>6. QED
  BY <1>1, <1>4, <1>5 DEF addr_to_idx, Frames

\* The inductive invariant needs both halves: without the types a frame taken
\* might lie outside the bitmap, without the accounting a frame freed might be
\* one that boot reserved.
IInv == TypeOK /\ FramesAccounted

LEMMA InitIInv == Init => IInv
BY PmmAssumption
DEF Init, PmmInit, IInv, TypeOK, FramesAccounted, NoPanic, NULL, Frames

LEMMA AllocIInv == IInv /\ CallAlloc => IInv'
<1> SUFFICES ASSUME IInv, CallAlloc
             PROVE  IInv'
  OBVIOUS
<1> USE DEF IInv, TypeOK, FramesAccounted
<1>1. CASE PmmOutOfMemory /\ UNCHANGED <<held, got>>
  BY <1>1 DEF PmmOutOfMemory, PmmPanics
<1>2. CASE /\ \E i \in Frames : /\ pmm_alloc_page(i)
                                /\ held' = held \cup {i}
                                /\ got' = i
           /\ UNCHANGED panic
  <2>1. PICK i \in Frames : /\ pmm_alloc_page(i)
                            /\ held' = held \cup {i}
                            /\ got' = i
    BY <1>2
  <2>2. i \in Bits /\ i \notin bmp
    BY <2>1, PmmAssumption DEF pmm_alloc_page, FreeFrames, bitmap_test, Frames, Bits
  <2>3. bmp' = bmp \cup {i}
    BY <2>1 DEF pmm_alloc_page
  <2>4. QED
    BY <1>2, <2>1, <2>2, <2>3
<1>3. QED
  BY <1>1, <1>2 DEF CallAlloc

LEMMA FreeIInv == IInv /\ panic = NoPanic /\ CallFree => IInv'
<1> SUFFICES ASSUME IInv, panic = NoPanic, CallFree
             PROVE  IInv'
  OBVIOUS
<1> USE DEF IInv, TypeOK, FramesAccounted
<1>1. PICK a \in Callable :
        /\ pmm_free_page(a)
        /\ \/ /\ panic' = NoPanic
              /\ held' = held \ {addr_to_idx(a)}
              /\ got' = NULL
           \/ /\ panic' # NoPanic
              /\ UNCHANGED <<held, got>>
  BY DEF CallFree
<1>2. addr_to_idx(a) \notin BootUsed
  BY DEF Callable
<1>3. NULL \in Frames
  BY PmmAssumption DEF NULL, Frames
<1>4. CASE FreeUnaligned(a) \/ FreeUnallocated(a)
  BY <1>1, <1>4 DEF FreeUnaligned, FreeUnallocated, PmmPanics, NoPanic
<1>5. CASE FreeAllocated(a)
  BY <1>1, <1>2, <1>3, <1>5 DEF FreeAllocated
<1>6. QED
  BY <1>1, <1>4, <1>5 DEF pmm_free_page

LEMMA StepIInv == IInv /\ [Next]_clientVars => IInv'
<1> SUFFICES ASSUME IInv, [Next]_clientVars
             PROVE  IInv'
  OBVIOUS
<1>1. CASE panic = NoPanic /\ CallAlloc
  BY <1>1, AllocIInv
<1>2. CASE panic = NoPanic /\ CallFree
  BY <1>2, FreeIInv
<1>3. CASE Halt /\ UNCHANGED <<held, got>>
  BY <1>3 DEF Halt, pmmVars, IInv, TypeOK, FramesAccounted
<1>4. CASE UNCHANGED clientVars
  BY <1>4 DEF clientVars, pmmVars, IInv, TypeOK, FramesAccounted
<1>5. QED
  BY <1>1, <1>2, <1>3, <1>4 DEF Next

\* The bitmap has only bits of the bitmap, callers hold and get only frames.
THEOREM TypeCorrect == Spec => []TypeOK
<1>1. IInv => TypeOK
  BY DEF IInv
<1>2. QED
  BY <1>1, InitIInv, StepIInv, PTL DEF Spec

\* Whatever sequence of pmm_alloc_page and pmm_free_page the callers make, the
\* set bits are exactly those of the reserved and of the held frames.
THEOREM AccountingCorrect == Spec => []FramesAccounted
<1>1. IInv => FramesAccounted
  BY DEF IInv
<1>2. QED
  BY <1>1, InitIInv, StepIInv, PTL DEF Spec

-----------------------------------------------------------------------------
LEMMA InitRefines == Init => FA!Init
BY DEF Init, PmmInit, FA!Init

LEMMA AllocRefines ==
  IInv /\ panic = NoPanic /\ CallAlloc => FA!Next
<1> SUFFICES ASSUME IInv, panic = NoPanic, CallAlloc
             PROVE  FA!Next
  OBVIOUS
<1>1. CASE PmmOutOfMemory /\ UNCHANGED <<held, got>>
  <2>1. FA!Stop
    BY <1>1 DEF FA!Stop, PmmOutOfMemory, NoPanic
  <2>2. QED
    BY <2>1 DEF FA!Next
<1>2. CASE /\ \E i \in Frames : /\ pmm_alloc_page(i)
                                /\ held' = held \cup {i}
                                /\ got' = i
           /\ UNCHANGED panic
  <2>1. PICK i \in Frames : /\ pmm_alloc_page(i)
                            /\ held' = held \cup {i}
                            /\ got' = i
    BY <1>2
  <2>2. i \notin bmp
    BY <2>1 DEF pmm_alloc_page, FreeFrames, bitmap_test
  <2>3. i \in Pool /\ i \notin held
    BY <2>1, <2>2 DEF Pool, IInv, FramesAccounted
  <2>4. FA!Take(i)
    BY <1>2, <2>1, <2>3 DEF FA!Take, Pool
  <2>5. QED
    BY <2>3, <2>4 DEF FA!Next
<1>3. QED
  BY <1>1, <1>2 DEF CallAlloc

LEMMA FreeRefines ==
  IInv /\ panic = NoPanic /\ CallFree => FA!Next
<1> SUFFICES ASSUME IInv, panic = NoPanic, CallFree
             PROVE  FA!Next
  OBVIOUS
<1>1. PICK a \in Callable :
        /\ pmm_free_page(a)
        /\ \/ /\ panic' = NoPanic
              /\ held' = held \ {addr_to_idx(a)}
              /\ got' = NULL
           \/ /\ panic' # NoPanic
              /\ UNCHANGED <<held, got>>
  BY DEF CallFree
<1>2. CASE FreeUnaligned(a) \/ FreeUnallocated(a)
  <2>1. FA!Stop
    BY <1>1, <1>2 DEF FA!Stop, FreeUnaligned, FreeUnallocated, NoPanic
  <2>2. QED
    BY <2>1 DEF FA!Next
<1>3. CASE FreeAllocated(a)
  <2>1. addr_to_idx(a) \in Pool
    BY IndexOfAddress DEF Callable, Pool
  <2>2. addr_to_idx(a) \in held
    BY <1>3, <2>1 DEF FreeAllocated, bitmap_test, IInv, FramesAccounted, Pool
  <2>3. FA!Give(addr_to_idx(a))
    BY <1>1, <1>3, <2>2 DEF FA!Give, FreeAllocated
  <2>4. QED
    BY <2>1, <2>3 DEF FA!Next
<1>4. QED
  BY <1>1, <1>2, <1>3 DEF pmm_free_page

LEMMA StepRefines ==
  IInv /\ [Next]_clientVars => [FA!Next]_<<held, got, panic # NoPanic>>
<1> SUFFICES ASSUME IInv, [Next]_clientVars
             PROVE  FA!Next \/ UNCHANGED <<held, got, panic # NoPanic>>
  OBVIOUS
<1>1. CASE panic = NoPanic /\ CallAlloc
  BY <1>1, AllocRefines
<1>2. CASE panic = NoPanic /\ CallFree
  BY <1>2, FreeRefines
<1>3. CASE Halt /\ UNCHANGED <<held, got>>
  BY <1>3 DEF Halt, pmmVars
<1>4. CASE UNCHANGED clientVars
  BY <1>4 DEF clientVars, pmmVars
<1>5. QED
  BY <1>1, <1>2, <1>3, <1>4 DEF Next

\* pmm_alloc_page and pmm_free_page implement the abstract pool of frames: a
\* frame has at most one holder, whatever the callers do.
THEOREM Refines == Spec => ImplementsFrameAllocator
  BY InitIInv, StepIInv, InitRefines, StepRefines, PTL
  DEF Spec, ImplementsFrameAllocator, FA!Spec
=============================================================================
