------------------------------ MODULE KHeapInv ------------------------------
(***************************************************************************)
(* The inductive invariant of KHeap.  Its parts are operators of the       *)
(* majors mj, the minors mn and the alignment information inf, so that     *)
(* they can also be stated of what a step has done so far.                 *)
(***************************************************************************)
EXTENDS KHeap

\* What a block costs beyond the bytes that were asked for, and a major beyond
\* its block.
BlockCost == ALIGNMENT + ALIGN_INFO
MajorCost == BlockCost + MajorHdr + MinorHdr + PageSize

\* No caller asks for so much that a size, rounded up to whole pages, leaves
\* the unsigned int that allocate_new_page computes it in, nor for so many
\* objects that their product leaves the int of kcalloc.
RequestsFit ==
  /\ \A n \in ReqSizes : n + MajorCost <= UINT
  /\ \A k \in Counts, n \in ReqSizes : 2 * (k * n) < UINT /\ k * n + MajorCost <= UINT

-----------------------------------------------------------------------------
(* Types. *)

LocRec == [op : {"none", "kmalloc", "kcalloc", "krealloc"}, asked : Nat, req : Nat,
           size : Nat, old : Nat, maj : Nat, startedBet : BOOLEAN, bestSize : Nat,
           p : Nat]

MajorsTyped(mj) == mj \in [DOMAIN mj -> MajorRec] /\ DOMAIN mj \subseteq Addr
MinorsTyped(mn) == mn \in [DOMAIN mn -> MinorRec] /\ DOMAIN mn \subseteq Addr

Typed ==
  /\ MajorsTyped(majors) /\ MinorsTyped(minors)
  /\ info \in [DOMAIN info -> Nat]
  /\ held \in [DOMAIN held -> Nat] /\ DOMAIN held \subseteq DOMAIN info
  /\ loc \in LocRec /\ pc \in {"idle", "scan", "return"} /\ halted \in BOOLEAN

-----------------------------------------------------------------------------
(* Majors. *)

MajorPages(mj, x) == PageRun(x \div PageSize, mj[x].pages)

\* A major is a run of pages, and its size is theirs.
MajorInv(mj, x) ==
  /\ x = (x \div PageSize) * PageSize
  /\ mj[x].pages >= 1
  /\ MajorPages(mj, x) \subseteq Pages
  /\ mj[x].size = mj[x].pages * PageSize
  /\ mj[x].size < UINT
  /\ mj[x].usage <= mj[x].size

\* No two share a page, and they own all the pages that are in use.
MajorsInv(mj, us) ==
  /\ \A x \in DOMAIN mj : MajorInv(mj, x)
  /\ \A x, y \in DOMAIN mj : x # y => MajorPages(mj, x) \cap MajorPages(mj, y) = {}
  /\ us = UNION {MajorPages(mj, x) : x \in DOMAIN mj}

Linked(mj, root, x) ==
  /\ x # root => mj[x].prev \in DOMAIN mj /\ mj[mj[x].prev].next = x
  /\ mj[x].next # NULL => mj[x].next \in DOMAIN mj /\ mj[mj[x].next].prev = x

\* The list starts at the root, is linked both ways, and is no ring.
ListInv(mj, root) ==
  /\ root = NULL <=> DOMAIN mj = {}
  /\ root # NULL => root \in DOMAIN mj /\ mj[root].prev = NULL
  /\ \A x \in DOMAIN mj : Linked(mj, root, x)
  /\ \E ord \in [DOMAIN mj -> Nat] :
       \A x \in DOMAIN mj : mj[x].next # NULL => ord[x] < ord[mj[x].next]

\* No pointer to a major that was given back.
SearchInv ==
  /\ l_bestBet \in DOMAIN majors \cup {NULL}
  /\ pc = "scan" => loc.maj \in DOMAIN majors

\* Only a major that has just been appended is empty, and it has room.
EmptyInv ==
  \A x \in DOMAIN majors :
    majors[x].first = NULL =>
      /\ pc = "scan" /\ x = loc.maj
      /\ MajorHdr + (MinorHdr + loc.size) <= majors[x].size

-----------------------------------------------------------------------------
(* Minors. *)

LiveIn(mn) == {a \in DOMAIN mn : mn[a].magic = "MAGIC"}
Own(mn, x) == {a \in LiveIn(mn) : mn[a].block = x}
End(mn, a) == a + (MinorHdr + mn[a].size)

\* A live block lies in its major and has room for what was asked for.
BlockInv(mj, mn, a) ==
  /\ mn[a].block \in DOMAIN mj
  /\ a >= mn[a].block + MajorHdr
  /\ End(mn, a) <= mn[a].block + mj[mn[a].block].size
  /\ mn[a].req_size + BlockCost <= mn[a].size

\* Its neighbours in the list are the nearest blocks of the major.
NextInv(mn, a) ==
  mn[a].next # NULL =>
    /\ mn[a].next \in Own(mn, mn[a].block)
    /\ mn[mn[a].next].prev = a
    /\ End(mn, a) <= mn[a].next

PrevInv(mj, mn, a) ==
  IF mn[a].prev = NULL THEN mj[mn[a].block].first = a
  ELSE mn[a].prev \in Own(mn, mn[a].block) /\ mn[mn[a].prev].next = a

NearestInv(mn, a) ==
  \A c \in Own(mn, mn[a].block) :
    /\ a < c => mn[a].next # NULL /\ mn[a].next <= c
    /\ c < a => mn[a].prev # NULL /\ c <= mn[a].prev

FirstInv(mj, mn, x) ==
  IF mj[x].first = NULL THEN Own(mn, x) = {}
  ELSE mj[x].first \in Own(mn, x) /\ mn[mj[x].first].prev = NULL

MinorsInv(mj, mn) ==
  /\ \A a \in LiveIn(mn) : /\ BlockInv(mj, mn, a)
                           /\ NextInv(mn, a) /\ PrevInv(mj, mn, a) /\ NearestInv(mn, a)
  /\ \A x \in DOMAIN mj : FirstInv(mj, mn, x)

-----------------------------------------------------------------------------
(* Pointers. *)

HeaderOf(inf, p) == p - inf[p] - MinorHdr

PointerInv(mn, inf, p) ==
  /\ p \in Addr /\ ALIGN_INFO <= inf[p] /\ inf[p] < BlockCost
  /\ HeaderOf(inf, p) \in DOMAIN mn
  /\ p = ALIGN(HeaderOf(inf, p) + MinorHdr)

InfoInv(mn, inf) == \A p \in DOMAIN inf : PointerInv(mn, inf, p)

\* The one dead header is that of the pointer freed last; it still points
\* forward.
DeadInv(mn, inf, last) ==
  /\ \A a \in DOMAIN mn \ LiveIn(mn) :
       /\ last # NULL /\ a = HeaderOf(inf, last)
       /\ mn[a].next # NULL => mn[a].next \in LiveIn(mn) /\ a < mn[a].next
  /\ last # NULL =>
       last \in DOMAIN inf /\ HeaderOf(inf, last) \in DOMAIN mn \ LiveIn(mn)

HeldInv ==
  \A p \in DOMAIN held :
    /\ HeaderOf(info, p) \in LiveIn(minors)
    /\ held[p] = minors[HeaderOf(info, p)].req_size

-----------------------------------------------------------------------------
(* The call that runs. *)

RequestInv(l) ==
  /\ l.asked = l.req /\ l.size = l.req + BlockCost
  /\ l.req + MajorCost <= UINT
  /\ l.op = "krealloc" => l.old \in DOMAIN held

CallInv ==
  /\ pc # "idle" => RequestInv(loc)
  /\ pc = "return" => /\ loc.p \in DOMAIN info \ DOMAIN held
                      /\ HeaderOf(info, loc.p) \in LiveIn(minors)
                      /\ minors[HeaderOf(info, loc.p)].req_size = loc.asked

-----------------------------------------------------------------------------

\* The counters are AccountingExact: the search trusts them.
HeapInv ==
  /\ Typed /\ MajorsInv(majors, used) /\ ListInv(majors, l_memRoot)
  /\ SearchInv /\ EmptyInv /\ MinorsInv(majors, minors)
  /\ InfoInv(minors, info) /\ DeadInv(minors, info, lost) /\ HeldInv
  /\ CallInv /\ AccountingExact
=============================================================================
