------------------------------- MODULE KHeap -------------------------------
(***************************************************************************)
(* The kernel heap, kernel/mm/kheap.c (liballoc): runs of pages from       *)
(* vmm_alloc_pages are "majors", each with a header and a list of          *)
(* "minors", the blocks behind the pointers that callers hold.  kmalloc's  *)
(* walk over the majors takes one step per iteration of its loop; kfree    *)
(* has no loop and is one step.                                            *)
(*                                                                         *)
(* An address is a number of units from the page before the heap, so that  *)
(* 0 is NULL and belongs to no page.                                       *)
(***************************************************************************)
EXTENDS Integers, Sequences, FiniteSets

CONSTANTS
  PageSize, PageCount,    \* l_pageSize, l_pageCount
  HeapPages,              \* the pages vmm.c can hand out
  MajorHdr, MinorHdr,     \* sizeof(struct liballoc_major), ..._minor)
  ALIGNMENT, ALIGN_INFO,
  UINT,                   \* 2^32: unsigned int wraps here
  SIZE_T,                 \* 2^64: size_t and unsigned long wrap here
  ReqSizes,               \* the sizes that callers ask for
  Counts                  \* the numbers of objects that they kcalloc

ASSUME KHeapAssumption ==
  /\ {PageSize, PageCount, HeapPages, MajorHdr, MinorHdr,
      ALIGNMENT, ALIGN_INFO, UINT, SIZE_T} \subseteq Nat \ {0}
  /\ PageSize % ALIGNMENT = 0
  /\ PageCount * PageSize < UINT /\ UINT <= SIZE_T
  /\ ReqSizes \cup Counts \subseteq 0 .. (SIZE_T - 1)

NULL  == 0
Pages == 1 .. HeapPages

VARIABLES
  l_memRoot, l_bestBet,     \* addresses of majors
  l_inuse, l_allocated,
  majors,      \* address |-> [prev, next, pages, size, usage, first]
  minors,      \* address |-> [prev, next, block, magic, size, req_size]
  info,        \* pointer |-> the alignment information stored before it
  used,        \* the pages vmm.c has handed out
  held,        \* pointer |-> the bytes its holder has asked for
  lost,        \* the pointer freed last: a caller may free it once more
  pc, loc,     \* where the running call is, and its locals
  halted       \* vmm_alloc_pages has panicked

heapVars == <<l_memRoot, l_bestBet, l_inuse, l_allocated, majors, minors, info, used>>
vars     == <<heapVars, held, lost, pc, loc, halted>>

\* An unsigned int, and a size_t, keep the low bits of what is put in them.
uint(x)   == x % UINT
size_t(x) == x % SIZE_T

\* An int is the same bits, read with a sign.
int(x) == IF 2 * uint(x) < UINT THEN uint(x) ELSE uint(x) - UINT

NoCall == [op |-> "none", asked |-> 0, req |-> 0, size |-> 0, old |-> NULL,
           maj |-> NULL, startedBet |-> FALSE, bestSize |-> 0, p |-> NULL]

\* f with x mapped to y, and f without the points of S.
Put(f, x, y)  == [a \in DOMAIN f \cup {x} |-> IF a = x THEN y ELSE f[a]]
Drop(f, S)    == [a \in DOMAIN f \ S |-> f[a]]

-----------------------------------------------------------------------------
(* Alignment. *)

AlignDiff(q) == LET rest == (q + ALIGN_INFO) % ALIGNMENT
                IN  IF rest = 0 THEN 0 ELSE ALIGNMENT - rest
ALIGN(q)     == q + ALIGN_INFO + AlignDiff(q)
AlignInfo(q) == AlignDiff(q) + ALIGN_INFO

UNALIGN(p) == IF info[p] < ALIGNMENT + ALIGN_INFO THEN p - info[p] ELSE p

\* What malloc asks of a block for req bytes.
\* Mutant: no room for the alignment itself.
AdjustedSizeTight(req) == size_t(req + ALIGN_INFO)
AdjustedSize(req) == size_t(req + ALIGNMENT + ALIGN_INFO)

MinorOf(p) == UNALIGN(p) - MinorHdr

-----------------------------------------------------------------------------
(* allocate_new_page *)

RoundedPages(st) ==
  IF st % PageSize = 0 THEN st \div PageSize ELSE (st \div PageSize) + 1

\* Its argument and st are unsigned ints.
NewMajorPages(size) ==
  LET st == uint(uint(size) + MajorHdr + MinorHdr)
  IN  IF RoundedPages(st) < PageCount THEN PageCount ELSE RoundedPages(st)

PageRun(s, n) == s .. (s + n - 1)

\* The runs of n free pages: liballoc_alloc returns one of them.
FreeRuns(n) == {s \in Pages : PageRun(s, n) \subseteq Pages \ used}

NewMajor(size, prev) ==
  LET st == NewMajorPages(size)
  IN  [prev |-> prev, next |-> NULL, pages |-> st, size |-> uint(st * PageSize),
       usage |-> MajorHdr, first |-> NULL]

\* liballoc_alloc hands out the run of pages that starts at page s.
TakePages(s, size) ==
  /\ used' = used \cup PageRun(s, NewMajorPages(size))
  /\ l_allocated' = l_allocated + NewMajor(size, NULL).size

\* vmm_alloc_pages panics instead of returning NULL, and may do so while some
\* run is free (see VMM).
OutOfPages ==
  /\ halted' = TRUE
  /\ UNCHANGED <<heapVars, held, lost, pc, loc>>

-----------------------------------------------------------------------------
(* The lists. *)

\* The minors of a major, first to last, following next.
MinorList(maj) ==
  LET chain[a \in DOMAIN minors \cup {NULL}] ==
        IF a = NULL THEN <<>> ELSE <<a>> \o chain[minors[a].next]
  IN  chain[majors[maj].first]

\* Mutant: the header of minor a counts as free space.
GapBehindHeader(maj, a) ==
  size_t((IF minors[a].next = NULL THEN maj + majors[maj].size
                                  ELSE minors[a].next) - a - minors[a].size)

\* The gap behind minor a, up to the next minor or to the end of the major.
GapBehind(maj, a) ==
  size_t((IF minors[a].next = NULL THEN maj + majors[maj].size
                                  ELSE minors[a].next) - a - MinorHdr - minors[a].size)

GapInFront(maj) == size_t(majors[maj].first - maj - MajorHdr)

\* The bytes of a stale header that kfree reads: the minor and, for a pointer
\* to it, the alignment information.
StaleBytes(p) == MinorOf(p) .. (p - ALIGN_INFO)

\* The block that kmalloc returns: a minor at address a of major maj, whose
\* record is m up to now, linked between the minors before and after.
Place(m, maj, a, before, after) ==
  LET p     == ALIGN(a + MinorHdr)
      gone  == /\ lost # NULL
               /\ StaleBytes(lost) \cap a .. (a + MinorHdr + loc.size - 1) # {}
      kept  == IF gone THEN Drop(minors, {MinorOf(lost)}) ELSE minors
      linked == [x \in DOMAIN kept |->
                   CASE x = before -> [kept[x] EXCEPT !.next = a]
                     [] x = after  -> [kept[x] EXCEPT !.prev = a]
                     [] OTHER      -> kept[x]]
  IN  /\ minors' = Put(linked, a,
           [prev |-> before, next |-> after, block |-> maj, magic |-> "MAGIC",
            size |-> uint(loc.size), req_size |-> uint(loc.req)])
      /\ majors' = [m EXCEPT
           ![maj].usage = uint(@ + loc.size + MinorHdr),
           ![maj].first = IF before = NULL THEN a ELSE @]
      /\ l_inuse' = l_inuse + loc.size
      /\ info' = Put(IF gone THEN Drop(info, {lost}) ELSE info,
                     p, AlignInfo(a + MinorHdr))
      /\ lost' = IF gone THEN NULL ELSE lost
      /\ loc' = [loc EXCEPT !.p = p]
      /\ pc' = "return"

-----------------------------------------------------------------------------
(* kmalloc *)

\* Up to the loop.  The size wraps; if it wraps to 0 the call is kmalloc(1).
\* The first call of all sets up l_memRoot.
StartMalloc(op, req, asked, old) ==
  LET r    == IF AdjustedSize(req) = 0 THEN 1 ELSE req
      size == AdjustedSize(r)
      call == [NoCall EXCEPT !.op = op, !.asked = asked, !.req = r,
                             !.size = size, !.old = old]
      free == uint(majors[l_bestBet].size - majors[l_bestBet].usage)
  IN \/ /\ l_memRoot = NULL
        /\ \/ \E s \in FreeRuns(NewMajorPages(size)) :
                /\ TakePages(s, size)
                /\ majors' = Put(majors, s * PageSize, NewMajor(size, NULL))
                /\ l_memRoot' = s * PageSize
                /\ loc' = [call EXCEPT !.maj = s * PageSize]
                /\ pc' = "scan"
                /\ UNCHANGED <<l_bestBet, l_inuse, minors, info, held, lost, halted>>
           \/ OutOfPages
     \/ /\ l_memRoot # NULL
        /\ loc' = CASE l_bestBet = NULL -> [call EXCEPT !.maj = l_memRoot]
                     [] l_bestBet # NULL /\ free <= size_t(size + MinorHdr) ->
                          [call EXCEPT !.maj = l_memRoot, !.bestSize = free]
                     [] OTHER ->
                          [call EXCEPT !.maj = l_bestBet, !.bestSize = free,
                                       !.startedBet = TRUE]
        /\ pc' = "scan"
        /\ UNCHANGED <<heapVars, held, lost, halted>>

Here == majors[loc.maj]
Need == size_t(loc.size + MinorHdr)
Free == uint(Here.size - Here.usage)

\* Every iteration remembers a major with more room than any seen so far.
Better == loc.bestSize < Free
RememberBest ==
  /\ l_bestBet' = IF Better THEN loc.maj ELSE l_bestBet
  /\ UNCHANGED <<l_memRoot, held, halted>>
BestSize == IF Better THEN Free ELSE loc.bestSize

GoTo(maj, startedBet) ==
  /\ loc' = [loc EXCEPT !.maj = maj, !.startedBet = startedBet,
                        !.bestSize = BestSize]
  /\ UNCHANGED <<pc, minors, info, l_inuse, lost>>

\* The same two steps serve a major without room (CASE 1) and one whose room
\* is in pieces (CASE 5): the next major, or once more from the root.
NextMajor ==
  /\ Here.next # NULL
  /\ GoTo(Here.next, loc.startedBet)
  /\ UNCHANGED <<majors, used, l_allocated>>

\* Mutant: the second round does not know that it is the second.
StartOverForever ==
  /\ Here.next = NULL /\ loc.startedBet
  /\ GoTo(l_memRoot, TRUE)
  /\ UNCHANGED <<majors, used, l_allocated>>

StartOver ==
  /\ Here.next = NULL /\ loc.startedBet
  /\ GoTo(l_memRoot, FALSE)
  /\ UNCHANGED <<majors, used, l_allocated>>

\* ... or a new major at the end of the list, for which s was free.
Appended(s) ==
  Put([majors EXCEPT ![loc.maj].next = s * PageSize],
      s * PageSize, NewMajor(loc.size, loc.maj))

\* CASE 1 falls through to CASE 2 in the new major.
AppendAndPlace ==
  /\ Here.next = NULL /\ ~loc.startedBet
  /\ \E s \in FreeRuns(NewMajorPages(loc.size)) :
       /\ TakePages(s, loc.size)
       /\ Place(Appended(s), s * PageSize, s * PageSize + MajorHdr, NULL, NULL)

\* CASE 5 looks at it in the next iteration.
AppendAndGo ==
  /\ Here.next = NULL /\ ~loc.startedBet
  /\ \E s \in FreeRuns(NewMajorPages(loc.size)) :
       /\ TakePages(s, loc.size)
       /\ majors' = Appended(s)
       /\ GoTo(s * PageSize, FALSE)

NoMajorLeft ==
  /\ Here.next = NULL /\ ~loc.startedBet
  /\ OutOfPages

InsertAt(a, before, after) ==
  /\ Place(majors, loc.maj, a, before, after)
  /\ UNCHANGED <<used, l_allocated>>

\* CASE 3 and CASE 4 look for a gap: in front of the first minor, then behind
\* each in the order of the list.
FrontFits == GapInFront(loc.maj) >= Need
Fitting   == {k \in 1 .. Len(MinorList(loc.maj)) :
                GapBehind(loc.maj, MinorList(loc.maj)[k]) >= Need}

Case1 == /\ Free < Need
         /\ \/ RememberBest /\ (NextMajor \/ StartOver \/ AppendAndPlace)
            \/ NoMajorLeft

Case2 == /\ Free >= Need /\ Here.first = NULL
         /\ RememberBest
         /\ InsertAt(loc.maj + MajorHdr, NULL, NULL)

Case3 == /\ Free >= Need /\ Here.first # NULL /\ FrontFits
         /\ RememberBest
         /\ InsertAt(loc.maj + MajorHdr, NULL, Here.first)

Case4 == /\ Free >= Need /\ Here.first # NULL /\ ~FrontFits
         /\ RememberBest
         /\ \E k \in Fitting :
              /\ \A j \in Fitting : k <= j
              /\ LET min == MinorList(loc.maj)[k]
                 IN  InsertAt(min + MinorHdr + minors[min].size, min, minors[min].next)

Case5 == /\ Free >= Need /\ Here.first # NULL /\ ~FrontFits /\ Fitting = {}
         /\ \/ RememberBest /\ (NextMajor \/ StartOver \/ AppendAndGo)
            \/ NoMajorLeft

Scan == pc = "scan" /\ (Case1 \/ Case2 \/ Case3 \/ Case4 \/ Case5)

-----------------------------------------------------------------------------
(* kfree *)

\* The stale header of the pointer freed before is forgotten: this model lets
\* a caller free only the last one twice.
Forget(f, x) == Drop(f, IF lost = NULL THEN {} ELSE {x})

\* The block leaves its list; its header stays in memory, marked DEAD.
Unlinked(min) ==
  LET m == minors[min]
      f == Forget(minors, MinorOf(lost))
  IN  [x \in DOMAIN f |->
         CASE x = min    -> [f[x] EXCEPT !.magic = "DEAD"]
           [] x = m.prev -> [f[x] EXCEPT !.next = m.next]
           [] x = m.next -> [f[x] EXCEPT !.prev = m.prev]
           [] OTHER      -> f[x]]

\* Mutant: usage keeps the header.
ShrunkBySize(min) ==
  LET m == minors[min]
  IN  [majors EXCEPT ![m.block].usage = uint(@ - m.size),
                     ![m.block].first = IF m.prev = NULL THEN m.next ELSE @]

Shrunk(min) ==
  LET m == minors[min]
  IN  [majors EXCEPT ![m.block].usage = uint(@ - m.size - MinorHdr),
                     ![m.block].first = IF m.prev = NULL THEN m.next ELSE @]

\* Mutant: l_bestBet survives its major.
BestBetKept(maj) == l_bestBet
BestBetWithout(maj) == IF l_bestBet = maj THEN NULL ELSE l_bestBet

\* Mutant: every major is given back as if it had the least size.
PagesOfLeast(maj) == PageRun(maj \div PageSize, PageCount)
PagesOf(maj) == PageRun(maj \div PageSize, majors[maj].pages)

\* A major with nothing left in it goes back, and all that was in it is gone.
ReleaseMajor(p, maj) ==
  LET m == majors[maj]
  IN  /\ l_memRoot' = IF l_memRoot = maj THEN m.next ELSE l_memRoot
      /\ l_bestBet' = BestBetWithout(maj)
      /\ majors' = [x \in DOMAIN majors \ {maj} |->
           CASE x = m.prev -> [majors[x] EXCEPT !.next = m.next]
             [] x = m.next -> [majors[x] EXCEPT !.prev = m.prev]
             [] OTHER      -> majors[x]]
      /\ l_allocated' = l_allocated - m.size
      /\ used' = used \ PagesOf(maj)
      /\ minors' = Drop(Unlinked(MinorOf(p)), {MinorOf(p)})
      /\ info' = Drop(Forget(info, lost), {p})
      /\ lost' = NULL

\* bestSize and majSize are ints.
KeepMajor(p, maj) ==
  LET now  == Shrunk(MinorOf(p))
      room(x) == int(now[x].size - now[x].usage)
  IN  /\ l_bestBet' = IF l_bestBet # NULL /\ room(maj) > room(l_bestBet)
                        THEN maj ELSE l_bestBet
      /\ majors' = now
      /\ minors' = Unlinked(MinorOf(p))
      /\ info' = Forget(info, lost)
      /\ lost' = p
      /\ UNCHANGED <<l_memRoot, l_allocated, used>>

\* Mutant: the magic number is not looked at.
kfreeUnchecked(p) ==
  LET min == MinorOf(p)
      maj == minors[min].block
  IN  /\ l_inuse' = l_inuse - minors[min].size
      /\ \/ Shrunk(min)[maj].first = NULL /\ ReleaseMajor(p, maj)
         \/ Shrunk(min)[maj].first # NULL /\ KeepMajor(p, maj)

\* kfree(p), for a p that kmalloc once returned and whose header is intact.
kfree(p) ==
  LET min == MinorOf(p)
      maj == minors[min].block
  IN \/ /\ minors[min].magic # "MAGIC"
        /\ UNCHANGED <<heapVars, lost>>
     \/ /\ minors[min].magic = "MAGIC"
        /\ l_inuse' = l_inuse - minors[min].size
        /\ \/ Shrunk(min)[maj].first = NULL /\ ReleaseMajor(p, maj)
           \/ Shrunk(min)[maj].first # NULL /\ KeepMajor(p, maj)

-----------------------------------------------------------------------------
(* The calls, by callers that pass only pointers they hold, or the one they *)
(* have just freed.                                                        *)

Callable == DOMAIN held \cup ({lost} \ {NULL})
Idle     == pc = "idle" /\ ~halted

CallMalloc == Idle /\ \E n \in ReqSizes : StartMalloc("kmalloc", n, n, NULL)

\* real_size is an int: the product wraps, and is sign-extended for kmalloc.
\* What kcalloc then writes through the pointer is not part of the heap.
RealSize(nobj, n) == size_t(int(nobj * n))

CallCalloc ==
  /\ Idle
  /\ \E nobj \in Counts, n \in ReqSizes :
       StartMalloc("kcalloc", RealSize(nobj, n), nobj * n, NULL)

\* kfree, and krealloc with size 0.
CallFree ==
  /\ Idle
  /\ \E p \in Callable :
       /\ kfree(p)
       /\ held' = Drop(held, {p})
  /\ UNCHANGED <<pc, loc, halted>>

\* Mutant: size, which includes the bytes for alignment, instead of req_size.
ReallocInPlaceBySize ==
  /\ Idle
  /\ \E p \in DOMAIN held, n \in ReqSizes \ {0} :
       LET min == MinorOf(p)
       IN  /\ minors[min].size >= n
           /\ minors' = [minors EXCEPT ![min].req_size = uint(n)]
           /\ held' = [held EXCEPT ![p] = n]
  /\ UNCHANGED <<l_memRoot, l_bestBet, l_inuse, l_allocated, majors, info, used,
                 lost, pc, loc, halted>>

\* A block whose req_size is large enough already only changes its req_size;
\* a stale pointer gets NULL back and changes nothing.
ReallocInPlace ==
  /\ Idle
  /\ \E p \in Callable, n \in ReqSizes \ {0} :
       LET min == MinorOf(p)
       IN \/ /\ minors[min].magic # "MAGIC"
             /\ UNCHANGED <<minors, held>>
          \/ /\ minors[min].magic = "MAGIC" /\ minors[min].req_size >= n
             /\ minors' = [minors EXCEPT ![min].req_size = uint(n)]
             /\ held' = [held EXCEPT ![p] = n]
  /\ UNCHANGED <<l_memRoot, l_bestBet, l_inuse, l_allocated, majors, info, used,
                 lost, pc, loc, halted>>

\* Otherwise a new block is found first, and the old one kept until then.
ReallocByMoving ==
  /\ Idle
  /\ \E p \in Callable, n \in ReqSizes \ {0} :
       /\ minors[MinorOf(p)].magic = "MAGIC"
       /\ minors[MinorOf(p)].req_size < n
       /\ StartMalloc("krealloc", n, n, p)

Call == CallMalloc \/ CallCalloc \/ CallFree \/ ReallocInPlace \/ ReallocByMoving

\* The pointer goes to the caller; krealloc has first copied the old content
\* and freed the old block.
ReturnNew ==
  /\ pc = "return" /\ loc.op # "krealloc"
  /\ held' = Put(held, loc.p, loc.asked)
  /\ UNCHANGED <<heapVars, lost>>

ReturnMoved ==
  /\ pc = "return" /\ loc.op = "krealloc"
  /\ kfree(loc.old)
  /\ held' = Put(Drop(held, {loc.old}), loc.p, loc.asked)

Return ==
  /\ ReturnNew \/ ReturnMoved
  /\ pc' = "idle" /\ loc' = NoCall
  /\ UNCHANGED halted

Init ==
  /\ l_memRoot = NULL /\ l_bestBet = NULL
  /\ l_inuse = 0 /\ l_allocated = 0
  /\ majors = <<>> /\ minors = <<>> /\ info = <<>>
  /\ used = {} /\ held = <<>> /\ lost = NULL
  /\ pc = "idle" /\ loc = NoCall
  /\ halted = FALSE

Work == ~halted /\ (Scan \/ Return)
Halted == halted /\ UNCHANGED vars
Next == Call \/ Work \/ Halted

\* A call, once made, goes on running.
Spec == Init /\ [][Next]_vars /\ WF_vars(Work)

-----------------------------------------------------------------------------
(* The shape of the heap. *)

Addr == PageSize .. ((HeapPages + 1) * PageSize - 1)

MajorRec == [prev : Nat, next : Nat, pages : Nat, size : Nat, usage : Nat, first : Nat]
MinorRec == [prev : Nat, next : Nat, block : Nat, magic : {"MAGIC", "DEAD"},
             size : Nat, req_size : Nat]

TypeOK ==
  /\ {l_memRoot, l_bestBet, lost} \subseteq Addr \cup {NULL}
  /\ l_inuse \in Nat /\ l_allocated \in Nat
  /\ DOMAIN majors \subseteq Addr /\ \A a \in DOMAIN majors : majors[a] \in MajorRec
  /\ DOMAIN minors \subseteq Addr /\ \A a \in DOMAIN minors : minors[a] \in MinorRec
  /\ DOMAIN info \subseteq Addr /\ \A p \in DOMAIN info : info[p] \in Nat
  /\ used \subseteq Pages
  /\ DOMAIN held \subseteq DOMAIN info
  /\ pc \in {"idle", "scan", "return"}
  /\ halted \in BOOLEAN

Live == {a \in DOMAIN minors : minors[a].magic = "MAGIC"}

\* The majors that next leads to from l_memRoot are all there are, prev leads
\* back, and no global and no local points to a major that was given back.
MajorListSound ==
  /\ l_memRoot = NULL <=> DOMAIN majors = {}
  /\ l_memRoot # NULL => l_memRoot \in DOMAIN majors /\ majors[l_memRoot].prev = NULL
  /\ l_bestBet \in DOMAIN majors \cup {NULL}
  /\ pc = "scan" => loc.maj \in DOMAIN majors
  /\ \A a \in DOMAIN majors :
       /\ a # l_memRoot => /\ majors[a].prev \in DOMAIN majors
                           /\ majors[majors[a].prev].next = a
       /\ majors[a].next # NULL => /\ majors[a].next \in DOMAIN majors
                                   /\ majors[majors[a].next].prev = a

\* The minors of a major are its live blocks in the order of their addresses,
\* linked both ways; no block reaches into the next or out of the major.
MinorListsSound ==
  \A maj \in DOMAIN majors :
    LET list == MinorList(maj)
        n    == Len(list)
    IN  /\ {list[k] : k \in 1 .. n} = {a \in Live : minors[a].block = maj}
        /\ \A k \in 1 .. n :
             /\ minors[list[k]].prev = IF k = 1 THEN NULL ELSE list[k - 1]
             /\ list[k] >= maj + MajorHdr
             /\ list[k] + MinorHdr + minors[list[k]].size
                  <= IF k = n THEN maj + majors[maj].size ELSE list[k + 1]

\* The counters agree with the lists: the search trusts usage to skip a major,
\* and usage going wrong would lose or overrun memory.
FSE == INSTANCE FiniteSetsExt
SizesOf(S) == FSE!MapThenSumSet(LAMBDA a : minors[a].size, S)

AccountingExact ==
  /\ \A maj \in DOMAIN majors :
       LET own == {a \in Live : minors[a].block = maj}
       IN  majors[maj].usage =
             MajorHdr + SizesOf(own) + MinorHdr * Cardinality(own)
  /\ l_inuse = SizesOf(Live)
  /\ l_allocated = FSE!MapThenSumSet(LAMBDA maj : majors[maj].size, DOMAIN majors)

\* Pages are held exactly while a major lives in them, and between calls no
\* major is empty: kfree leaks no page, and returns none too early.
PagesBelongToMajors ==
  /\ used = UNION {PageRun(maj \div PageSize, majors[maj].pages) :
                      maj \in DOMAIN majors}
  /\ pc = "idle" => \A maj \in DOMAIN majors : majors[maj].first # NULL

\* A pointer is aligned, its alignment information lies in its own block, and
\* the block has room for all the bytes that were asked for.
BlocksHoldTheirBytes ==
  \A p \in DOMAIN held :
    LET min == MinorOf(p)
    IN  /\ p % ALIGNMENT = 0
        /\ min \in Live
        /\ p - ALIGN_INFO >= min + MinorHdr
        /\ p + held[p] <= min + MinorHdr + minors[min].size

\* Callers see blocks that appear, shrink, move and disappear at one instant
\* and never overlap, krealloc's old and new block included.
HB == INSTANCE HeapBlocks WITH blocks <- held
ImplementsHeapBlocks == HB!Spec

\* Every call returns, unless the pages run out: the loop over the majors,
\* which starts at the best bet, starts over at the root, and takes majors
\* that turn out to be fragmented, comes to an end.
CallsReturn == pc # "idle" ~> (pc = "idle" \/ halted)

-----------------------------------------------------------------------------
(* What comments of the code say, and the code does not do. *)

\* "The major with the most free memory."
BestBetIsBest ==
  pc = "idle" /\ l_bestBet # NULL =>
    \A maj \in DOMAIN majors :
      majors[maj].size - majors[maj].usage
        <= majors[l_bestBet].size - majors[l_bestBet].usage

\* "next one will be okay": a major that is appended for a request has room
\* for it.
NextOneIsOkay ==
  [][\A maj \in DOMAIN majors' \ DOMAIN majors :
       l_memRoot # NULL =>
         majors'[maj].size >= MajorHdr + MinorHdr + loc.size]_vars
=============================================================================
