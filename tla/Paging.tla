------------------------------- MODULE Paging -------------------------------
(***************************************************************************)
(* The four-level page tables of kernel/mm/paging.c.  Tables live in       *)
(* physical frames taken from the PMM, whose contents are junk until they  *)
(* are zeroed; map_page and unmap_page run one table level per step, as    *)
(* the callees of a single thread of control.                              *)
(*                                                                         *)
(* Addresses are page and frame numbers: every caller passes page-aligned  *)
(* ones, and PAGE_ADDR_MASK drops the offset.  A level has Fan entries     *)
(* where the hardware has 512.                                             *)
(***************************************************************************)
EXTENDS PMM, Integers, Sequences

CONSTANTS
  Fan,            \* entries in a table
  IdentityPages,  \* ONE_GIB in pages: what boot.asm maps one to one
  HHDM,           \* NEW_HDDM, as a page number
  KVMA,           \* KERNEL_VMA, as a page number
  Sections        \* the ELF section headers of the kernel image

Index  == 0 .. (Fan - 1)
VPages == 0 .. (Fan * Fan * Fan * Fan - 1)
Flags  == {"P", "W", "U", "NX"}
SectionFlags == {"WRITE", "ALLOC", "EXECINSTR"}

ASSUME PagingAssumption ==
  /\ Fan \in Nat \ {0}
  /\ IdentityPages \in Nat
  /\ HHDM \in VPages /\ KVMA \in VPages
  /\ HHDM + MaxPages - 1 \in VPages
  /\ Sections \in Seq([flags : SUBSET SectionFlags, first : Nat, last : Nat])
  /\ \A s \in 1 .. Len(Sections) :
       "ALLOC" \in Sections[s].flags =>
         \A v \in Sections[s].first .. Sections[s].last :
           v \in VPages /\ v >= KVMA /\ v - KVMA \in Frames

VARIABLES
  mem,           \* the contents of every frame, read as a page table
  kernel_pml4,   \* the root table, 0 until init_paging allocates it
  hhdm_on,       \* cr3 holds kernel_pml4 and g_hhdm_offset is NEW_HDDM
  stale,         \* <<v, f>>: unmapped, but the TLB may still hold it
  walk,          \* the frame of the map_page or unmap_page that is running
  ret,           \* its last result
  pc, loc        \* the caller: where it is, and its locals

pagingVars == <<mem, kernel_pml4, hhdm_on, stale, walk, ret>>
memVars    == <<mem, kernel_pml4, hhdm_on, stale>>

Entry == [frame : Frames, flags : SUBSET Flags]
Zero  == [frame |-> 0, flags |-> {}]
Junk  == [frame |-> 0, flags |-> {"P"}]   \* what an old frame may hold
Present(e) == "P" \in e.flags

NoWalk == [op |-> "none", v |-> 0, entry |-> Zero, lvl |-> 0, tbl |-> 0]
NoLoc  == [i |-> 0, n |-> 0, start |-> 0, p |-> 0]

PagingPanics == {"page fault", "Kernel ELF mapping failed",
                 "HHDM mapping failed"}

-----------------------------------------------------------------------------
PT_IDX(v)   == v % Fan
PD_IDX(v)   == (v \div Fan) % Fan
PDPT_IDX(v) == (v \div (Fan * Fan)) % Fan
PML4_IDX(v) == (v \div (Fan * Fan * Fan)) % Fan

\* The index that level lvl of the walk (4 is the PML4) takes from v.
IndexAt(lvl, v) ==
  CASE lvl = 4 -> PML4_IDX(v)
    [] lvl = 3 -> PDPT_IDX(v)
    [] lvl = 2 -> PD_IDX(v)
    [] OTHER   -> PT_IDX(v)

\* What the processor finds when it walks the tables: the entry of v in a table
\* that an upper entry points to, if it does.
EntryBelow(e, index) == IF Present(e) THEN mem[e.frame][index] ELSE Zero

\* The leaf entry of v, Zero if a table on the way is absent.
LeafEntry(v) ==
  LET e4 == mem[kernel_pml4][PML4_IDX(v)]
      e3 == EntryBelow(e4, PDPT_IDX(v))
      e2 == EntryBelow(e3, PD_IDX(v))
  IN  EntryBelow(e2, PT_IDX(v))

IsMapped(v) == kernel_pml4 # 0 /\ Present(LeafEntry(v))

\* The frame of the next table.  0 says that there is none, so that an entry
\* which leads to frame 0 counts as absent here.
get_table_if_present(table, index) ==
  IF Present(mem[table][index]) THEN mem[table][index].frame ELSE 0

\* As a frame: 0 also stands for "not mapped".
virt_to_phys(v) ==
  LET Under(table, index) ==
        IF table = 0 THEN 0 ELSE get_table_if_present(table, index)
      pdpt == get_table_if_present(kernel_pml4, PML4_IDX(v))
      pd   == Under(pdpt, PDPT_IDX(v))
      pt   == Under(pd, PD_IDX(v))
  IN  Under(pt, PT_IDX(v))

\* phys_to_virt(f) is an address the current page tables map: through the
\* direct map once it is live, through boot.asm's identity map before.
Reachable(f) == hhdm_on \/ f < IdentityPages

\* Mutant: the frame is taken as it comes.
ZeroTableJunk == [i \in Index |-> Junk]
ZeroTable == [i \in Index |-> Zero]

-----------------------------------------------------------------------------
(* map_page *)

\* A call: the walk starts at the root.
CallMapPage(v, p, flags) ==
  walk' = [op |-> "map", v |-> v, entry |-> [frame |-> p, flags |-> flags],
           lvl |-> 4, tbl |-> kernel_pml4]

Return(r) == walk' = NoWalk /\ ret' = r

WalkIndex  == IndexAt(walk.lvl, walk.v)
WalkEntry  == mem[walk.tbl][WalkIndex]
WalkDown(t) == walk' = [walk EXCEPT !.lvl = @ - 1, !.tbl = t] /\ UNCHANGED ret

\* A table in frame 0 is taken for a missing one: map_page returns -1,
\* written 1.
NextTablePresent ==
  /\ Present(WalkEntry)
  /\ IF WalkEntry.frame # 0 THEN WalkDown(WalkEntry.frame) ELSE Return(1)
  /\ UNCHANGED <<memVars, pmmVars>>

\* The new table is zeroed before the entry that makes it reachable.
NextTableNew ==
  /\ ~Present(WalkEntry)
  /\ \E f \in Frames :
       /\ pmm_alloc_page(f)
       /\ \/ /\ Reachable(f)
             /\ mem' = [mem EXCEPT
                  ![f] = ZeroTable,
                  ![walk.tbl][WalkIndex] =
                     [frame |-> f, flags |-> {"P", "W", "U"}]]
             /\ WalkDown(f)
             /\ UNCHANGED <<panic, kernel_pml4, hhdm_on, stale>>
          \/ /\ ~Reachable(f)
             /\ panic' = "page fault"
             /\ UNCHANGED pagingVars

NextTableNoMemory ==
  /\ ~Present(WalkEntry)
  /\ PmmOutOfMemory
  /\ UNCHANGED pagingVars

get_next_table ==
  /\ walk.op = "map" /\ walk.lvl > 1
  /\ NextTablePresent \/ NextTableNew \/ NextTableNoMemory

\* Mutant: a page that is mapped to the same frame gets the flags asked for last.
MapLeafLastFlags ==
  /\ walk.op = "map" /\ walk.lvl = 1
  /\ \/ /\ Present(WalkEntry) /\ WalkEntry.frame # walk.entry.frame
        /\ Return(2)
        /\ UNCHANGED mem
     \/ /\ ~Present(WalkEntry) \/ WalkEntry.frame = walk.entry.frame
        /\ mem' = [mem EXCEPT ![walk.tbl][WalkIndex] = walk.entry]
        /\ Return(0)
  /\ UNCHANGED <<pmmVars, kernel_pml4, hhdm_on, stale>>

\* The page table itself: 0 if it already maps the same frame (whatever the
\* flags asked for), -2 if another one, written here as 2.
MapLeaf ==
  /\ walk.op = "map" /\ walk.lvl = 1
  /\ \/ /\ Present(WalkEntry)
        /\ Return(IF WalkEntry.frame = walk.entry.frame THEN 0 ELSE 2)
        /\ UNCHANGED mem
     \/ /\ ~Present(WalkEntry)
        /\ mem' = [mem EXCEPT ![walk.tbl][WalkIndex] = walk.entry]
        /\ Return(0)
  /\ UNCHANGED <<pmmVars, kernel_pml4, hhdm_on, stale>>

-----------------------------------------------------------------------------
(* unmap_page *)

CallUnmapPage(v) ==
  walk' = [op |-> "unmap", v |-> v, entry |-> Zero,
           lvl |-> 4, tbl |-> kernel_pml4]

\* -1, written 1, if a level is missing.
UnmapDown ==
  /\ walk.op = "unmap" /\ walk.lvl > 1
  /\ LET table == get_table_if_present(walk.tbl, WalkIndex)
     IN  \/ table # 0 /\ WalkDown(table)
         \/ table = 0 /\ Return(1)
  /\ UNCHANGED <<memVars, pmmVars>>

\* The entry is cleared; until invlpg the TLB may go on translating.
UnmapLeaf ==
  /\ walk.op = "unmap" /\ walk.lvl = 1
  /\ \/ /\ Present(WalkEntry)
        /\ mem' = [mem EXCEPT ![walk.tbl][WalkIndex] = Zero]
        /\ stale' = stale \cup {<<walk.v, WalkEntry.frame>>}
        /\ walk' = [walk EXCEPT !.op = "invlpg"]
        /\ UNCHANGED ret
     \/ /\ ~Present(WalkEntry)
        /\ Return(1)
        /\ UNCHANGED <<mem, stale>>
  /\ UNCHANGED <<pmmVars, kernel_pml4, hhdm_on>>

\* Mutant: unmap_page does not invalidate the TLB entry.
flush_tlb_singleMissing ==
  /\ walk.op = "invlpg"
  /\ Return(0)
  /\ UNCHANGED <<pmmVars, memVars>>

flush_tlb_single ==
  /\ walk.op = "invlpg"
  /\ stale' = {t \in stale : t[1] # walk.v}
  /\ Return(0)
  /\ UNCHANGED <<pmmVars, mem, kernel_pml4, hhdm_on>>

\* The callee runs to completion before its caller goes on.
WalkStep ==
  /\ get_next_table \/ MapLeaf \/ UnmapDown \/ UnmapLeaf \/ flush_tlb_single
  /\ UNCHANGED <<pc, loc>>

-----------------------------------------------------------------------------
(* init_paging *)

AllocateRoot ==
  /\ pc = "init_paging"
  /\ \/ /\ \E f \in Frames :
             /\ pmm_alloc_page(f)
             /\ \/ /\ Reachable(f)
                   /\ kernel_pml4' = f
                   /\ mem' = [mem EXCEPT ![f] = ZeroTable]
                   /\ pc' = "sections"
                   /\ loc' = [NoLoc EXCEPT !.n = 1, !.i = 0]
                   /\ UNCHANGED panic
                \/ /\ ~Reachable(f)
                   /\ panic' = "page fault"
                   /\ UNCHANGED <<kernel_pml4, mem, pc, loc>>
     \/ PmmOutOfMemory /\ UNCHANGED <<kernel_pml4, mem, pc, loc>>
  /\ UNCHANGED <<hhdm_on, stale, walk, ret>>

PageFlags(sh_flags) ==
  {"P"} \cup (IF "WRITE" \in sh_flags THEN {"W"} ELSE {})
        \cup (IF "EXECINSTR" \in sh_flags THEN {} ELSE {"NX"})

\* map_kernel_elf_sections: loc.n is the section, loc.i the page in it.
MapSectionPage ==
  /\ pc = "sections" /\ loc.n <= Len(Sections)
  /\ LET s == Sections[loc.n]
         v == s.first + loc.i
     IN \/ /\ "ALLOC" \in s.flags /\ v <= s.last
           /\ CallMapPage(v, v - KVMA, PageFlags(s.flags))
           /\ pc' = "section_mapped"
           /\ UNCHANGED loc
        \/ /\ "ALLOC" \notin s.flags \/ v > s.last
           /\ loc' = [loc EXCEPT !.n = @ + 1, !.i = 0]
           /\ UNCHANGED <<pc, walk>>
  /\ UNCHANGED <<pmmVars, memVars, ret>>

SectionPageMapped ==
  /\ pc = "section_mapped"
  /\ \/ /\ ret = 0
        /\ pc' = "sections"
        /\ loc' = [loc EXCEPT !.i = @ + 1]
        /\ UNCHANGED panic
     \/ /\ ret # 0
        /\ panic' = "Kernel ELF mapping failed"
        /\ UNCHANGED <<pc, loc>>
  /\ UNCHANGED <<bmp, pagingVars>>

SectionsDone ==
  /\ pc = "sections" /\ loc.n > Len(Sections)
  /\ pc' = "hhdm" /\ loc' = NoLoc
  /\ UNCHANGED <<pmmVars, pagingVars>>

MapDirectPage ==
  /\ pc = "hhdm" /\ loc.i < MaxPages
  /\ CallMapPage(HHDM + loc.i, loc.i, {"P", "W", "NX"})
  /\ pc' = "hhdm_mapped"
  /\ UNCHANGED <<pmmVars, memVars, ret, loc>>

\* Mutant: the loop does not advance.
DirectPageMappedStuck ==
  /\ pc = "hhdm_mapped"
  /\ ret = 0
  /\ pc' = "hhdm"
  /\ UNCHANGED <<pmmVars, pagingVars, loc>>

DirectPageMapped ==
  /\ pc = "hhdm_mapped"
  /\ \/ /\ ret = 0
        /\ pc' = "hhdm"
        /\ loc' = [loc EXCEPT !.i = @ + 1]
        /\ UNCHANGED panic
     \/ /\ ret # 0
        /\ panic' = "HHDM mapping failed"
        /\ UNCHANGED <<pc, loc>>
  /\ UNCHANGED <<bmp, pagingVars>>

\* load_cr3, set_console_write_loc, g_hhdm_offset, flush_tlb and the move of
\* the PMM's bitmap pointer: straight-line code with interrupts off, which
\* touches no table, no bitmap and no screen until all of it is done, so that
\* the order of the five is not told apart here.
SwitchAddressSpace ==
  /\ pc = "hhdm" /\ loc.i = MaxPages
  /\ hhdm_on' = TRUE
  /\ stale' = {}
  /\ pc' = "vmm_init" /\ loc' = NoLoc
  /\ UNCHANGED <<pmmVars, mem, kernel_pml4, walk, ret>>

InitPaging ==
  \/ AllocateRoot
  \/ MapSectionPage \/ SectionPageMapped \/ SectionsDone
  \/ MapDirectPage \/ DirectPageMapped
  \/ SwitchAddressSpace

PagingInit ==
  /\ mem = [f \in Frames |-> [i \in Index |-> Junk]]
  /\ kernel_pml4 = 0
  /\ hhdm_on = FALSE
  /\ stale = {}
  /\ walk = NoWalk
  /\ ret = 0
  /\ pc = "init_paging"
  /\ loc = NoLoc
=============================================================================
