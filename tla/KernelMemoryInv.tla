-------------------------- MODULE KernelMemoryInv --------------------------
(***************************************************************************)
(* The inductive invariant of KernelMemory.  First the four-level tables   *)
(* of Paging as pure data: what a walk down the path of a page finds, and  *)
(* what a write to one entry changes.  Then what the invariant says of     *)
(* them, as one map from pages to leaf entries.                            *)
(***************************************************************************)
EXTENDS KernelMemory, Numbers

-----------------------------------------------------------------------------
(* The digits of a page number. *)

LEMMA FanFacts ==
  /\ Fan \in Nat \ {0} /\ Fan * Fan \in Nat \ {0} /\ Fan * Fan * Fan \in Nat \ {0}
  /\ Fan * Fan * Fan * Fan \in Nat \ {0}
<1>1. Fan \in Nat \ {0}
  BY PagingAssumption
<1>2. \A x, y \in Nat \ {0} : x * y \in Nat \ {0}
  OBVIOUS
<1>3. QED
  BY <1>1, <1>2

\* PML4_IDX, PDPT_IDX, PD_IDX and PT_IDX are the digits of a page number.
LEMMA Digits ==
  ASSUME NEW v \in VPages
  PROVE  /\ PML4_IDX(v) \in Index /\ PDPT_IDX(v) \in Index
         /\ PD_IDX(v) \in Index /\ PT_IDX(v) \in Index
         /\ v = ((PML4_IDX(v) * Fan + PDPT_IDX(v)) * Fan + PD_IDX(v)) * Fan + PT_IDX(v)
<1> DEFINE F == Fan
           q1 == v \div F
           q2 == q1 \div F
           q3 == q2 \div F
<1>0. F \in Nat \ {0} /\ F * F \in Nat \ {0} /\ F * F * F \in Nat \ {0}
  BY FanFacts
<1>1. v \in Nat /\ v < F * F * F * F
  BY FanFacts DEF VPages
<1> HIDE DEF F
<1>2. q1 \in Nat /\ v % F \in 0 .. F - 1 /\ v = F * q1 + (v % F)
  BY <1>0, <1>1, DivMod
<1> HIDE DEF q1
<1>3. q2 \in Nat /\ q1 % F \in 0 .. F - 1 /\ q1 = F * q2 + (q1 % F)
  BY <1>0, <1>2, DivMod
<1> HIDE DEF q2
<1>4. q3 \in Nat /\ q2 % F \in 0 .. F - 1 /\ q2 = F * q3 + (q2 % F)
  BY <1>0, <1>3, DivMod
<1> HIDE DEF q3
<1>5. v \div (F * F) = q2
  BY <1>0, <1>1, DivDiv DEF q1, q2
<1>6. v \div (F * F * F) = q3
  BY <1>0, <1>1, <1>5, DivDiv DEF q3
<1>7. q3 < F
  <2>1. \A x, y, w \in Nat : x <= y => w * x <= w * y
    OBVIOUS
  <2>2. SUFFICES ASSUME F <= q3 PROVE FALSE
    BY <1>0, <1>4
  <2>3. F * F <= F * q3
    BY <1>0, <1>4, <2>1, <2>2
  <2>4. F * F <= q2
    BY <1>0, <1>4, <2>3
  <2>5. F * (F * F) <= F * q2
    BY <1>0, <1>3, <2>1, <2>4
  <2>6. F * (F * F) <= q1
    BY <1>0, <1>2, <1>3, <2>5
  <2>7. F * (F * (F * F)) <= F * q1
    BY <1>0, <1>2, <2>1, <2>6
  <2>8. F * (F * (F * F)) = F * F * F * F
    BY <1>0
  <2>9. QED
    BY <1>0, <1>1, <1>2, <2>7, <2>8
<1>8. q3 % F = q3
  BY <1>0, <1>4, <1>7, SmallMod
<1>9. /\ PT_IDX(v) = v % F /\ PD_IDX(v) = q1 % F
      /\ PDPT_IDX(v) = q2 % F /\ PML4_IDX(v) = q3
  BY <1>5, <1>6, <1>8 DEF PT_IDX, PD_IDX, PDPT_IDX, PML4_IDX, F, q1
<1>10. /\ q2 = q3 * F + (q2 % F)
       /\ q1 = q2 * F + (q1 % F)
       /\ v = q1 * F + (v % F)
  BY <1>0, <1>2, <1>3, <1>4
<1>11. v = ((q3 * F + (q2 % F)) * F + (q1 % F)) * F + (v % F)
  BY <1>10
<1>12. q3 \in 0 .. F - 1
  BY <1>0, <1>4, <1>7
<1>13. QED
  BY <1>2, <1>3, <1>4, <1>9, <1>11, <1>12 DEF Index, F

\* Every four digits are those of one page.
LEMMA Undigits ==
  ASSUME NEW a \in Index, NEW b \in Index, NEW c \in Index, NEW d \in Index
  PROVE  LET v == ((a * Fan + b) * Fan + c) * Fan + d
         IN  /\ v \in VPages
             /\ PML4_IDX(v) = a /\ PDPT_IDX(v) = b /\ PD_IDX(v) = c /\ PT_IDX(v) = d
<1> DEFINE F == Fan
           q2 == a * F + b
           q1 == q2 * F + c
           v  == q1 * F + d
<1>0. F \in Nat \ {0} /\ F * F \in Nat \ {0} /\ F * F * F \in Nat \ {0}
  BY FanFacts
<1>1. a \in 0 .. F - 1 /\ b \in 0 .. F - 1 /\ c \in 0 .. F - 1 /\ d \in 0 .. F - 1
  BY DEF Index
<1> HIDE DEF F
<1>2. a \in Nat /\ q2 \in Nat /\ q2 = F * a + b
  BY <1>0, <1>1
<1> HIDE DEF q2
<1>3. q1 \in Nat /\ q1 = F * q2 + c
  BY <1>0, <1>1, <1>2
<1> HIDE DEF q1
<1>4. v \in Nat /\ v = F * q1 + d
  BY <1>0, <1>1, <1>3
<1> HIDE DEF v
<1>5. v \div F = q1 /\ v % F = d
  BY <1>0, <1>1, <1>3, <1>4, DivUnique
<1>6. q1 \div F = q2 /\ q1 % F = c
  BY <1>0, <1>1, <1>2, <1>3, DivUnique
<1>7. q2 \div F = a /\ q2 % F = b
  BY <1>0, <1>1, <1>2, DivUnique
<1>8. v \div (F * F) = q2
  BY <1>0, <1>4, <1>5, <1>6, DivDiv
<1>9. v \div (F * F * F) = a
  BY <1>0, <1>4, <1>7, <1>8, DivDiv
<1>10. a % F = a
  BY <1>0, <1>1, SmallMod
<1>11. v < F * F * F * F
  <2>1. \A x, y, w \in Nat : x <= y => w * x <= w * y
    OBVIOUS
  <2>2. F * (a + 1) <= F * F
    BY <1>0, <1>1, <2>1
  <2>3. q2 + 1 <= F * F
    BY <1>0, <1>1, <1>2, <2>2
  <2>4. F * (q2 + 1) <= F * (F * F)
    BY <1>0, <1>2, <2>1, <2>3
  <2>5. q1 + 1 <= F * (F * F)
    BY <1>0, <1>1, <1>2, <1>3, <2>4
  <2>6. F * (q1 + 1) <= F * (F * (F * F))
    BY <1>0, <1>3, <2>1, <2>5
  <2>7. F * (F * (F * F)) = F * F * F * F /\ F * (q1 + 1) = F * q1 + F
    BY <1>0, <1>3
  <2>8. F * F * F * F \in Nat /\ F * q1 \in Nat
    BY <1>0, <1>3
  <2>9. QED
    BY <1>0, <1>1, <1>4, <2>6, <2>7, <2>8
<1>12. v \in VPages
  BY <1>4, <1>11, FanFacts DEF VPages, F
<1>13. PML4_IDX(v) = a /\ PDPT_IDX(v) = b /\ PD_IDX(v) = c /\ PT_IDX(v) = d
  BY <1>5, <1>6, <1>7, <1>8, <1>9, <1>10 DEF PML4_IDX, PDPT_IDX, PD_IDX, PT_IDX, F
<1>14. QED
  BY <1>12, <1>13 DEF v, q1, q2, F

-----------------------------------------------------------------------------
(* Tables and their children. *)

Memories == [Frames -> [Index -> Entry]]

\* Children of KernelMemory, for any memory m.
Kids(m, S) ==
  {m[e[1]][e[2]].frame : e \in {d \in S \X Index : Present(m[d[1]][d[2]])}}

\* The levels below the roots R, and all tables together.
L3(m, R) == Kids(m, R)
L2(m, R) == Kids(m, L3(m, R))
L1(m, R) == Kids(m, L2(m, R))
AllTables(m, R) == R \cup L3(m, R) \cup L2(m, R) \cup L1(m, R)
Uppers(m, R)    == R \cup L3(m, R) \cup L2(m, R)

\* The levels are disjoint, and no table has two entries above it.
Levelled(m, R) ==
  /\ R \cap (L3(m, R) \cup L2(m, R) \cup L1(m, R)) = {}
  /\ L3(m, R) \cap (L2(m, R) \cup L1(m, R)) = {}
  /\ L2(m, R) \cap L1(m, R) = {}

OneParent(m, U) ==
  \A t, u \in U : \A i, j \in Index :
    Present(m[t][i]) /\ Present(m[u][j]) /\ m[t][i].frame = m[u][j].frame
      => t = u /\ i = j

IsTree(m, R) == Levelled(m, R) /\ OneParent(m, Uppers(m, R))

LEMMA KidsMembers ==
  ASSUME NEW m, NEW S, NEW f
  PROVE  f \in Kids(m, S)
           <=> \E t \in S : \E i \in Index : Present(m[t][i]) /\ f = m[t][i].frame
<1>1. ASSUME f \in Kids(m, S)
      PROVE  \E t \in S : \E i \in Index : Present(m[t][i]) /\ f = m[t][i].frame
  BY <1>1 DEF Kids
<1>2. ASSUME NEW t \in S, NEW i \in Index, Present(m[t][i]), f = m[t][i].frame
      PROVE  f \in Kids(m, S)
  <2>1. /\ <<t, i>> \in {d \in S \X Index : Present(m[d[1]][d[2]])}
        /\ f = m[<<t, i>>[1]][<<t, i>>[2]].frame
    BY <1>2
  <2>2. QED
    BY <2>1 DEF Kids
<1>3. QED
  BY <1>1, <1>2

LEMMA KidsAreFrames ==
  ASSUME NEW m \in Memories, NEW S, S \subseteq Frames
  PROVE  Kids(m, S) \subseteq Frames
<1>1. SUFFICES ASSUME NEW f \in Kids(m, S)
               PROVE  f \in Frames
  OBVIOUS
<1>2. PICK t \in S, i \in Index : f = m[t][i].frame
  BY <1>1, KidsMembers
<1>3. m[t][i] \in Entry
  BY DEF Memories
<1>4. QED
  BY <1>2, <1>3 DEF Entry

\* The children of unchanged tables are unchanged.
LEMMA KidsSame ==
  ASSUME NEW m, NEW n, NEW S,
         \A t \in S : \A i \in Index : n[t][i] = m[t][i]
  PROVE  Kids(n, S) = Kids(m, S)
<1>1. \A f : f \in Kids(n, S) <=> f \in Kids(m, S)
  <2>1. SUFFICES ASSUME NEW f
                 PROVE  f \in Kids(n, S) <=> f \in Kids(m, S)
    OBVIOUS
  <2>2. QED
    BY KidsMembers
<1>2. QED
  BY <1>1

\* Among the tables S, memories m and n differ in one entry, absent in m and
\* pointing to f in n.
NewEntry(m, n, S, t, i, f) ==
  /\ t \in S /\ i \in Index
  /\ ~Present(m[t][i]) /\ Present(n[t][i]) /\ n[t][i].frame = f
  /\ \A u \in S : \A j \in Index : (u # t \/ j # i) => n[u][j] = m[u][j]

\* The tables then get one child more.
LEMMA KidsAdd ==
  ASSUME NEW m, NEW n, NEW S, NEW t, NEW i, NEW f, NewEntry(m, n, S, t, i, f)
  PROVE  Kids(n, S) = Kids(m, S) \cup {f}
<1> USE DEF NewEntry
<1>1. ASSUME NEW g, g \in Kids(n, S)
      PROVE  g \in Kids(m, S) \cup {f}
  <2>1. PICK u \in S, j \in Index : Present(n[u][j]) /\ g = n[u][j].frame
    BY <1>1, KidsMembers
  <2>2. CASE u = t /\ j = i
    BY <2>1, <2>2
  <2>3. CASE u # t \/ j # i
    BY <2>1, <2>3, KidsMembers
  <2>4. QED
    BY <2>2, <2>3
<1>2. ASSUME NEW g, g \in Kids(m, S)
      PROVE  g \in Kids(n, S)
  <2>1. PICK u \in S, j \in Index : Present(m[u][j]) /\ g = m[u][j].frame
    BY <1>2, KidsMembers
  <2>2. u # t \/ j # i
    BY <2>1
  <2>3. QED
    BY <2>1, <2>2, KidsMembers
<1>3. f \in Kids(n, S)
  BY KidsMembers
<1>4. QED
  BY <1>1, <1>2, <1>3

\* A table without present entries has no children.
LEMMA KidsZero ==
  ASSUME NEW m, NEW S, NEW f, \A i \in Index : ~Present(m[f][i])
  PROVE  Kids(m, S \cup {f}) = Kids(m, S)
<1>1. ASSUME NEW g
      PROVE  g \in Kids(m, S \cup {f}) <=> g \in Kids(m, S)
  BY KidsMembers
<1>2. QED
  BY <1>1

-----------------------------------------------------------------------------
(* The path of a page: whether the table of a level is there, and which one *)
(* it is.                                                                   *)

H3(m, r, v) == Present(m[r][PML4_IDX(v)])
T3(m, r, v) == m[r][PML4_IDX(v)].frame
H2(m, r, v) == H3(m, r, v) /\ Present(m[T3(m, r, v)][PDPT_IDX(v)])
T2(m, r, v) == m[T3(m, r, v)][PDPT_IDX(v)].frame
H1(m, r, v) == H2(m, r, v) /\ Present(m[T2(m, r, v)][PD_IDX(v)])
T1(m, r, v) == m[T2(m, r, v)][PD_IDX(v)].frame

\* LeafEntry of Paging, for any memory m and root r.
Leaf(m, r, v) == IF H1(m, r, v) THEN m[T1(m, r, v)][PT_IDX(v)] ELSE Zero

\* t is the table that a walk for v looks at on level lvl.
OnPath(m, r, v, lvl, t) ==
  \/ lvl = 4 /\ t = r
  \/ lvl = 3 /\ H3(m, r, v) /\ t = T3(m, r, v)
  \/ lvl = 2 /\ H2(m, r, v) /\ t = T2(m, r, v)
  \/ lvl = 1 /\ H1(m, r, v) /\ t = T1(m, r, v)

LEMMA PathLevels ==
  ASSUME NEW m, NEW r, NEW v \in VPages
  PROVE  /\ H3(m, r, v) => T3(m, r, v) \in L3(m, {r})
         /\ H2(m, r, v) => T2(m, r, v) \in L2(m, {r})
         /\ H1(m, r, v) => T1(m, r, v) \in L1(m, {r})
<1>1. PML4_IDX(v) \in Index /\ PDPT_IDX(v) \in Index /\ PD_IDX(v) \in Index
  BY Digits
<1>2. H3(m, r, v) => T3(m, r, v) \in L3(m, {r})
  BY <1>1, KidsMembers DEF H3, T3, L3
<1>3. H2(m, r, v) => T2(m, r, v) \in L2(m, {r})
  BY <1>1, <1>2, KidsMembers DEF H2, T2, L2
<1>4. H1(m, r, v) => T1(m, r, v) \in L1(m, {r})
  BY <1>1, <1>3, KidsMembers DEF H1, T1, L1
<1>5. QED
  BY <1>2, <1>3, <1>4

\* Two pages that share a leaf entry are the same page.
LEMMA PathsDiffer ==
  ASSUME NEW m, NEW r, IsTree(m, {r}),
         NEW v \in VPages, NEW w \in VPages,
         H1(m, r, v), H1(m, r, w), T1(m, r, v) = T1(m, r, w), PT_IDX(v) = PT_IDX(w)
  PROVE  v = w
<1> DEFINE U == Uppers(m, {r})
<1>1. \A x \in {v, w} : /\ PML4_IDX(x) \in Index /\ PDPT_IDX(x) \in Index
                        /\ PD_IDX(x) \in Index
  BY Digits
<1>2. \A x \in {v, w} : /\ H3(m, r, x) /\ H2(m, r, x)
                        /\ T3(m, r, x) \in U /\ T2(m, r, x) \in U
  BY PathLevels DEF H1, H2, Uppers
<1>3. r \in U
  BY DEF Uppers
<1>4. OneParent(m, U)
  BY DEF IsTree
<1> HIDE DEF U
<1>5. T2(m, r, v) = T2(m, r, w) /\ PD_IDX(v) = PD_IDX(w)
  BY <1>1, <1>2, <1>4 DEF OneParent, H1, T1
<1>6. T3(m, r, v) = T3(m, r, w) /\ PDPT_IDX(v) = PDPT_IDX(w)
  BY <1>1, <1>2, <1>4, <1>5 DEF OneParent, H2, T2
<1>7. PML4_IDX(v) = PML4_IDX(w)
  BY <1>1, <1>2, <1>3, <1>4, <1>6 DEF OneParent, H3, T3
<1>8. QED
  BY <1>5, <1>6, <1>7, Digits

-----------------------------------------------------------------------------
(* A write to the leaf entry of v, as map_page and unmap_page make it. *)

\* n differs from m in entry i of table t only.
OnlyAt(m, n, t, i) ==
  \A u \in Frames : \A j \in Index : (u # t \/ j # i) => n[u][j] = m[u][j]

LEMMA PathFrames ==
  ASSUME NEW m \in Memories, NEW r \in Frames
  PROVE  AllTables(m, {r}) \subseteq Frames
BY KidsAreFrames DEF AllTables, L3, L2, L1

\* No table appears or disappears, and no path changes.
LEMMA LeafWriteTables ==
  ASSUME NEW m \in Memories, NEW n, NEW r \in Frames, IsTree(m, {r}),
         NEW t \in L1(m, {r}), NEW i \in Index, OnlyAt(m, n, t, i)
  PROVE  /\ L3(n, {r}) = L3(m, {r})
         /\ L2(n, {r}) = L2(m, {r})
         /\ L1(n, {r}) = L1(m, {r})
         /\ IsTree(n, {r})
         /\ \A w \in VPages : /\ H3(n, r, w) = H3(m, r, w) /\ T3(n, r, w) = T3(m, r, w)
                              /\ H2(n, r, w) = H2(m, r, w)
                              /\ H2(m, r, w) => T2(n, r, w) = T2(m, r, w)
                              /\ H1(n, r, w) = H1(m, r, w)
                              /\ H1(m, r, w) => T1(n, r, w) = T1(m, r, w)
<1> DEFINE U == Uppers(m, {r})
<1>1. U \subseteq Frames /\ t \notin U
  BY PathFrames DEF IsTree, Levelled, Uppers, AllTables
<1>2. \A u \in U : \A j \in Index : n[u][j] = m[u][j]
  BY <1>1 DEF OnlyAt
<1>3. L3(n, {r}) = L3(m, {r})
  BY <1>2, KidsSame DEF L3, Uppers
<1>4. L2(n, {r}) = L2(m, {r})
  <2>1. \A u \in L3(m, {r}) : \A j \in Index : n[u][j] = m[u][j]
    BY <1>2 DEF Uppers
  <2>2. Kids(n, L3(m, {r})) = Kids(m, L3(m, {r}))
    BY <2>1, KidsSame
  <2>3. QED
    BY <1>3, <2>2 DEF L2
<1>5. L1(n, {r}) = L1(m, {r})
  <2>1. \A u \in L2(m, {r}) : \A j \in Index : n[u][j] = m[u][j]
    BY <1>2 DEF Uppers
  <2>2. Kids(n, L2(m, {r})) = Kids(m, L2(m, {r}))
    BY <2>1, KidsSame
  <2>3. QED
    BY <1>4, <2>2 DEF L1
<1>6. Uppers(n, {r}) = U
  BY <1>3, <1>4 DEF Uppers
<1>7. Levelled(n, {r})
  BY <1>3, <1>4, <1>5 DEF IsTree, Levelled
<1>8. OneParent(n, U)
  <2>1. OneParent(m, U)
    BY DEF IsTree
  <2> HIDE DEF U
  <2>2. QED
    BY <1>2, <2>1 DEF OneParent
<1>9. IsTree(n, {r})
  BY <1>6, <1>7, <1>8 DEF IsTree
<1>10. ASSUME NEW w \in VPages
       PROVE  /\ H3(n, r, w) = H3(m, r, w) /\ T3(n, r, w) = T3(m, r, w)
              /\ H2(n, r, w) = H2(m, r, w)
              /\ H2(m, r, w) => T2(n, r, w) = T2(m, r, w)
              /\ H1(n, r, w) = H1(m, r, w)
              /\ H1(m, r, w) => T1(n, r, w) = T1(m, r, w)
  <2>1. /\ PML4_IDX(w) \in Index /\ PDPT_IDX(w) \in Index
        /\ PD_IDX(w) \in Index
    BY Digits
  <2>2. /\ r \in U
        /\ H3(m, r, w) => T3(m, r, w) \in U
        /\ H2(m, r, w) => T2(m, r, w) \in U
    BY PathLevels DEF Uppers
  <2> HIDE DEF U
  <2>3. H3(n, r, w) = H3(m, r, w) /\ T3(n, r, w) = T3(m, r, w)
    BY <1>2, <2>1, <2>2 DEF H3, T3
  <2>4. /\ H2(n, r, w) = H2(m, r, w)
        /\ H2(m, r, w) => T2(n, r, w) = T2(m, r, w)
    BY <1>2, <2>1, <2>2, <2>3 DEF H2, T2
  <2>5. /\ H1(n, r, w) = H1(m, r, w)
        /\ H1(m, r, w) => T1(n, r, w) = T1(m, r, w)
    <3>1. H2(m, r, w) => n[T2(m, r, w)][PD_IDX(w)] = m[T2(m, r, w)][PD_IDX(w)]
      BY <1>2, <2>1, <2>2
    <3>2. H1(m, r, w) => H2(m, r, w)
      BY DEF H1
    <3>3. QED
      BY <2>4, <3>1, <3>2 DEF H1, T1
  <2>6. QED
    BY <2>3, <2>4, <2>5
<1>11. QED
  BY <1>3, <1>4, <1>5, <1>9, <1>10

\* The translation of v changes, and that of no other page.
LeafWritten(m, n, r, v) ==
  /\ AllTables(n, {r}) = AllTables(m, {r})
  /\ IsTree(n, {r})
  /\ H1(n, r, v) /\ T1(n, r, v) = T1(m, r, v)
  /\ Leaf(n, r, v) = n[T1(m, r, v)][PT_IDX(v)]
  /\ \A w \in VPages \ {v} : Leaf(n, r, w) = Leaf(m, r, w)

LEMMA LeafWrite ==
  ASSUME NEW m \in Memories, NEW n, NEW r \in Frames, IsTree(m, {r}),
         NEW v \in VPages, H1(m, r, v),
         OnlyAt(m, n, T1(m, r, v), PT_IDX(v))
  PROVE  LeafWritten(m, n, r, v)
<1> DEFINE t == T1(m, r, v)
<1>1. t \in L1(m, {r}) /\ PT_IDX(v) \in Index
  BY PathLevels, Digits
<1>2. /\ L3(n, {r}) = L3(m, {r}) /\ L2(n, {r}) = L2(m, {r}) /\ L1(n, {r}) = L1(m, {r})
      /\ IsTree(n, {r})
  BY <1>1, LeafWriteTables
<1>3. \A w \in VPages : /\ H1(n, r, w) = H1(m, r, w)
                        /\ H1(m, r, w) => T1(n, r, w) = T1(m, r, w)
  BY <1>1, LeafWriteTables
<1>4. Leaf(n, r, v) = n[t][PT_IDX(v)]
  BY <1>3 DEF Leaf
<1>5. ASSUME NEW w \in VPages \ {v}
      PROVE  Leaf(n, r, w) = Leaf(m, r, w)
  <2>1. CASE ~H1(m, r, w)
    BY <1>3, <2>1 DEF Leaf
  <2>2. CASE H1(m, r, w)
    <3>1. T1(m, r, w) # t \/ PT_IDX(w) # PT_IDX(v)
      BY <2>2, PathsDiffer
    <3>2. T1(m, r, w) \in Frames /\ PT_IDX(w) \in Index
      BY <2>2, PathLevels, PathFrames, Digits DEF AllTables
    <3>3. n[T1(m, r, w)][PT_IDX(w)] = m[T1(m, r, w)][PT_IDX(w)]
      BY <3>1, <3>2 DEF OnlyAt
    <3>4. T1(n, r, w) = T1(m, r, w) /\ H1(n, r, w)
      BY <1>3, <2>2
    <3>5. QED
      BY <2>2, <3>3, <3>4 DEF Leaf
  <2>3. QED
    BY <2>1, <2>2
<1>6. AllTables(n, {r}) = AllTables(m, {r})
  BY <1>2 DEF AllTables
<1>7. QED
  BY <1>1, <1>2, <1>3, <1>4, <1>5, <1>6 DEF LeafWritten

-----------------------------------------------------------------------------
(* A new table, as get_next_table makes it: frame f, which is no table yet, *)
(* is zeroed, and an absent entry of a table gets it as its target.         *)

NewTable(m, n, t, i, f) ==
  /\ ~Present(m[t][i]) /\ Present(n[t][i]) /\ n[t][i].frame = f
  /\ \A j \in Index : n[f][j] = Zero
  /\ \A u \in Frames \ {f} : \A j \in Index : (u # t \/ j # i) => n[u][j] = m[u][j]

LEMMA ZeroAbsent == ~Present(Zero)
BY DEF Present, Zero

\* One parent each, still.
LEMMA NewTableOneParent ==
  ASSUME NEW m, NEW n, NEW U, NEW V, NEW f, f \notin U,
         U \subseteq Frames, V \subseteq U \cup {f}, NEW t \in U, NEW i \in Index,
         \A u \in U : \A j \in Index : Present(m[u][j]) => m[u][j].frame # f,
         OneParent(m, U), NewTable(m, n, t, i, f)
  PROVE  OneParent(n, V)
<1>1. SUFFICES ASSUME NEW a \in V, NEW b \in V, NEW j \in Index, NEW k \in Index,
                      Present(n[a][j]), Present(n[b][k]),
                      n[a][j].frame = n[b][k].frame
               PROVE  a = b /\ j = k
  BY DEF OneParent
<1>2. \A x \in V : \A l \in Index : Present(n[x][l]) => x \in U /\ x # f
  BY ZeroAbsent DEF NewTable
<1>3. a \in U /\ b \in U /\ a # f /\ b # f
  BY <1>1, <1>2
<1>4. \A x \in U : \A l \in Index : (x # t \/ l # i) => n[x][l] = m[x][l]
  BY DEF NewTable
<1>5. n[t][i].frame = f
  BY DEF NewTable
<1>6. CASE (a # t \/ j # i) /\ (b # t \/ k # i)
  BY <1>1, <1>3, <1>4, <1>6 DEF OneParent
<1>7. CASE (a = t /\ j = i) /\ (b # t \/ k # i)
  BY <1>1, <1>3, <1>4, <1>5, <1>7
<1>8. CASE (a # t \/ j # i) /\ (b = t /\ k = i)
  BY <1>1, <1>3, <1>4, <1>5, <1>8
<1>9. QED
  BY <1>6, <1>7, <1>8

\* What adding table f under the table that v's walk has reached on level lvl
\* does: one table more, no page maps differently, and the walk goes on in f.
Extends(m, n, r, v, lvl, f) ==
  /\ AllTables(n, {r}) = AllTables(m, {r}) \cup {f}
  /\ IsTree(n, {r})
  /\ \A w \in VPages : Leaf(n, r, w) = Leaf(m, r, w)
  /\ OnPath(n, r, v, lvl - 1, f)

\* What the three levels have in common: the other entries keep their values,
\* the new table is empty, and every table still has one parent.
NewTableEffect(m, n, r, t, i, f) ==
  /\ \A u \in AllTables(m, {r}) : \A j \in Index :
       (u # t \/ j # i) => n[u][j] = m[u][j]
  /\ \A j \in Index : ~Present(n[f][j])
  /\ \A V : V \subseteq Uppers(m, {r}) \cup {f} => OneParent(n, V)

LEMMA NewTableFacts ==
  ASSUME NEW m \in Memories, NEW n, NEW r \in Frames, IsTree(m, {r}),
         NEW f \in Frames, f \notin AllTables(m, {r}),
         NEW t \in Uppers(m, {r}), NEW i \in Index, NewTable(m, n, t, i, f)
  PROVE  NewTableEffect(m, n, r, t, i, f)
<1> DEFINE U == Uppers(m, {r})
<1>1. AllTables(m, {r}) \subseteq Frames
  BY PathFrames
<1>2. \A u \in AllTables(m, {r}) : \A j \in Index : (u # t \/ j # i) => n[u][j] = m[u][j]
  BY <1>1 DEF NewTable
<1>3. \A j \in Index : ~Present(n[f][j])
  BY ZeroAbsent DEF NewTable
<1>4. ASSUME NEW u \in U, NEW j \in Index, Present(m[u][j])
      PROVE  m[u][j].frame # f
  <2>1. m[u][j].frame \in Kids(m, {r}) \/ m[u][j].frame \in Kids(m, L3(m, {r}))
          \/ m[u][j].frame \in Kids(m, L2(m, {r}))
    BY <1>4, KidsMembers DEF Uppers
  <2>2. m[u][j].frame \in AllTables(m, {r})
    BY <2>1 DEF AllTables, L3, L2, L1
  <2>3. QED
    BY <2>2
<1>5. U \subseteq Frames /\ f \notin U /\ OneParent(m, U)
  BY <1>1 DEF AllTables, Uppers, IsTree
<1>6. ASSUME NEW V, V \subseteq U \cup {f}
      PROVE  OneParent(n, V)
  <2> HIDE DEF U
  <2>1. t \in U
    BY DEF U
  <2>2. \A u \in U : \A j \in Index : Present(m[u][j]) => m[u][j].frame # f
    BY <1>4
  <2>3. QED
    BY <1>5, <1>6, <2>1, <2>2, NewTableOneParent
<1>7. QED
  BY <1>2, <1>3, <1>6 DEF NewTableEffect

\* Under the root.
LEMMA NewPDPT ==
  ASSUME NEW m \in Memories, NEW n, NEW r \in Frames, IsTree(m, {r}),
         NEW f \in Frames, f \notin AllTables(m, {r}), NEW v \in VPages,
         NewTable(m, n, r, PML4_IDX(v), f)
  PROVE  Extends(m, n, r, v, 4, f)
<1> DEFINE i == PML4_IDX(v)
<1>0. r \in Uppers(m, {r}) /\ i \in Index /\ f # r
  BY Digits DEF Uppers, AllTables
<1>1. /\ \A u \in AllTables(m, {r}) : \A j \in Index : (u # r \/ j # i) => n[u][j] = m[u][j]
      /\ \A j \in Index : ~Present(n[f][j])
      /\ \A V : V \subseteq Uppers(m, {r}) \cup {f} => OneParent(n, V)
  <2>1. NewTableEffect(m, n, r, r, i, f)
    BY <1>0, NewTableFacts
  <2>2. QED
    BY <2>1 DEF NewTableEffect
<1>2. ~Present(m[r][i]) /\ Present(n[r][i]) /\ n[r][i].frame = f
  BY DEF NewTable
<1> HIDE DEF i
<1>3. Levelled(m, {r})
  BY DEF IsTree
<1>4. \A u \in L3(m, {r}) \cup L2(m, {r}) \cup L1(m, {r}) : \A j \in Index : n[u][j] = m[u][j]
  BY <1>1, <1>3 DEF Levelled, AllTables
<1>5. L3(n, {r}) = L3(m, {r}) \cup {f}
  <2>1. NewEntry(m, n, {r}, r, i, f)
    BY <1>0, <1>1, <1>2 DEF AllTables, NewEntry
  <2>2. Kids(n, {r}) = Kids(m, {r}) \cup {f}
    BY <2>1, KidsAdd
  <2>3. QED
    BY <2>2 DEF L3
<1>6. L2(n, {r}) = L2(m, {r})
  <2>1. Kids(n, L3(m, {r}) \cup {f}) = Kids(n, L3(m, {r}))
    BY <1>1, KidsZero
  <2>2. Kids(n, L3(m, {r})) = Kids(m, L3(m, {r}))
    BY <1>4, KidsSame
  <2>3. QED
    BY <1>5, <2>1, <2>2 DEF L2
<1>7. L1(n, {r}) = L1(m, {r})
  <2>1. Kids(n, L2(m, {r})) = Kids(m, L2(m, {r}))
    BY <1>4, KidsSame
  <2>2. QED
    BY <1>6, <2>1 DEF L1
<1>8. IsTree(n, {r})
  <2>1. Levelled(n, {r})
    BY <1>3, <1>5, <1>6, <1>7 DEF Levelled, AllTables
  <2>2. OneParent(n, Uppers(n, {r}))
    BY <1>1, <1>5, <1>6 DEF Uppers
  <2>3. QED
    BY <2>1, <2>2 DEF IsTree
<1>9. ASSUME NEW w \in VPages
      PROVE  Leaf(n, r, w) = Leaf(m, r, w)
  <2>0. /\ PML4_IDX(w) \in Index /\ PDPT_IDX(w) \in Index
        /\ PD_IDX(w) \in Index /\ PT_IDX(w) \in Index
    BY Digits
  <2>1. CASE PML4_IDX(w) = i
    <3>1. ~H1(m, r, w)
      BY <1>2, <2>1 DEF H1, H2, H3
    <3>2. T3(n, r, w) = f /\ ~H2(n, r, w)
      BY <1>1, <1>2, <2>0, <2>1 DEF H2, T3
    <3>3. ~H1(n, r, w)
      BY <3>2 DEF H1
    <3>4. QED
      BY <3>1, <3>3 DEF Leaf
  <2>2. CASE PML4_IDX(w) # i
    <3>1. H3(n, r, w) = H3(m, r, w) /\ T3(n, r, w) = T3(m, r, w)
      BY <1>1, <2>0, <2>2 DEF H3, T3, AllTables
    <3>2. H3(m, r, w) => T3(m, r, w) \in L3(m, {r})
      BY PathLevels
    <3>3. H2(n, r, w) = H2(m, r, w) /\ (H2(m, r, w) => T2(n, r, w) = T2(m, r, w))
      BY <1>4, <2>0, <3>1, <3>2 DEF H2, T2
    <3>4. H2(m, r, w) => T2(m, r, w) \in L2(m, {r})
      BY PathLevels
    <3>5. H1(n, r, w) = H1(m, r, w) /\ (H1(m, r, w) => T1(n, r, w) = T1(m, r, w))
      BY <1>4, <2>0, <3>3, <3>4 DEF H1, T1
    <3>6. H1(m, r, w) => T1(m, r, w) \in L1(m, {r})
      BY PathLevels
    <3>7. QED
      BY <1>4, <2>0, <3>5, <3>6 DEF Leaf
  <2>3. QED
    BY <2>1, <2>2
<1>10. OnPath(n, r, v, 3, f)
  BY <1>2 DEF OnPath, H3, T3, i
<1>11. AllTables(n, {r}) = AllTables(m, {r}) \cup {f}
  BY <1>5, <1>6, <1>7 DEF AllTables
<1>12. QED
  BY <1>8, <1>9, <1>10, <1>11 DEF Extends

\* Under a table of the third level.
LEMMA NewPD ==
  ASSUME NEW m \in Memories, NEW n, NEW r \in Frames, IsTree(m, {r}),
         NEW f \in Frames, f \notin AllTables(m, {r}), NEW v \in VPages,
         H3(m, r, v), NewTable(m, n, T3(m, r, v), PDPT_IDX(v), f)
  PROVE  Extends(m, n, r, v, 3, f)
<1> DEFINE i == PDPT_IDX(v)
           t == T3(m, r, v)
<1>0. t \in L3(m, {r}) /\ i \in Index
  BY PathLevels, Digits
<1>1. /\ \A u \in AllTables(m, {r}) : \A j \in Index : (u # t \/ j # i) => n[u][j] = m[u][j]
      /\ \A j \in Index : ~Present(n[f][j])
      /\ \A V : V \subseteq Uppers(m, {r}) \cup {f} => OneParent(n, V)
  <2>1. t \in Uppers(m, {r})
    BY <1>0 DEF Uppers
  <2>2. NewTableEffect(m, n, r, t, i, f)
    BY <1>0, <2>1, NewTableFacts
  <2>3. QED
    BY <2>2 DEF NewTableEffect
<1>2. ~Present(m[t][i]) /\ Present(n[t][i]) /\ n[t][i].frame = f
  BY DEF NewTable
<1>3. Levelled(m, {r})
  BY DEF IsTree
<1> HIDE DEF i, t
<1>4. \A u \in {r} \cup L2(m, {r}) \cup L1(m, {r}) : \A j \in Index : n[u][j] = m[u][j]
  BY <1>0, <1>1, <1>3 DEF Levelled, AllTables
<1>5. L3(n, {r}) = L3(m, {r})
  BY <1>4, KidsSame DEF L3
<1>6. L2(n, {r}) = L2(m, {r}) \cup {f}
  <2>1. NewEntry(m, n, L3(m, {r}), t, i, f)
    BY <1>0, <1>1, <1>2 DEF AllTables, NewEntry
  <2>2. Kids(n, L3(m, {r})) = Kids(m, L3(m, {r})) \cup {f}
    BY <2>1, KidsAdd
  <2>3. QED
    BY <1>5, <2>2 DEF L2
<1>7. L1(n, {r}) = L1(m, {r})
  <2>1. Kids(n, L2(m, {r}) \cup {f}) = Kids(n, L2(m, {r}))
    BY <1>1, KidsZero
  <2>2. Kids(n, L2(m, {r})) = Kids(m, L2(m, {r}))
    BY <1>4, KidsSame
  <2>3. QED
    BY <1>6, <2>1, <2>2 DEF L1
<1>8. IsTree(n, {r})
  <2>1. Levelled(n, {r})
    BY <1>3, <1>5, <1>6, <1>7 DEF Levelled, AllTables
  <2>2. OneParent(n, Uppers(n, {r}))
    BY <1>1, <1>5, <1>6 DEF Uppers
  <2>3. QED
    BY <2>1, <2>2 DEF IsTree
<1>9. \A w \in VPages : H3(n, r, w) = H3(m, r, w) /\ T3(n, r, w) = T3(m, r, w)
  <2>1. \A w \in VPages : PML4_IDX(w) \in Index
    BY Digits
  <2>2. QED
    BY <1>4, <2>1 DEF H3, T3
<1>10. ASSUME NEW w \in VPages
       PROVE  Leaf(n, r, w) = Leaf(m, r, w)
  <2>0. /\ PML4_IDX(w) \in Index /\ PDPT_IDX(w) \in Index
        /\ PD_IDX(w) \in Index /\ PT_IDX(w) \in Index
    BY Digits
  <2>1. CASE T3(m, r, w) = t /\ PDPT_IDX(w) = i
    <3>1. ~H1(m, r, w)
      BY <1>2, <2>1 DEF H1, H2
    <3>2. T2(n, r, w) = f /\ ~H1(n, r, w)
      BY <1>1, <1>2, <1>9, <2>0, <2>1 DEF H1, T2
    <3>3. QED
      BY <3>1, <3>2 DEF Leaf
  <2>2. CASE T3(m, r, w) # t \/ PDPT_IDX(w) # i
    <3>1. H3(m, r, w) => T3(m, r, w) \in AllTables(m, {r})
      BY PathLevels DEF AllTables
    <3>2. H2(n, r, w) = H2(m, r, w) /\ (H2(m, r, w) => T2(n, r, w) = T2(m, r, w))
      BY <1>1, <1>9, <2>0, <2>2, <3>1 DEF H2, T2
    <3>3. H2(m, r, w) => T2(m, r, w) \in L2(m, {r})
      BY PathLevels
    <3>4. H1(n, r, w) = H1(m, r, w) /\ (H1(m, r, w) => T1(n, r, w) = T1(m, r, w))
      BY <1>4, <2>0, <3>2, <3>3 DEF H1, T1
    <3>5. H1(m, r, w) => T1(m, r, w) \in L1(m, {r})
      BY PathLevels
    <3>6. QED
      BY <1>4, <2>0, <3>4, <3>5 DEF Leaf
  <2>3. QED
    BY <2>1, <2>2
<1>11. OnPath(n, r, v, 2, f)
  BY <1>2, <1>9 DEF OnPath, H2, T2, i, t
<1>12. AllTables(n, {r}) = AllTables(m, {r}) \cup {f}
  BY <1>5, <1>6, <1>7 DEF AllTables
<1>13. QED
  BY <1>8, <1>10, <1>11, <1>12 DEF Extends

\* Under a table of the second level.
LEMMA NewPT ==
  ASSUME NEW m \in Memories, NEW n, NEW r \in Frames, IsTree(m, {r}),
         NEW f \in Frames, f \notin AllTables(m, {r}), NEW v \in VPages,
         H2(m, r, v), NewTable(m, n, T2(m, r, v), PD_IDX(v), f)
  PROVE  Extends(m, n, r, v, 2, f)
<1> DEFINE i == PD_IDX(v)
           t == T2(m, r, v)
<1>0. t \in L2(m, {r}) /\ i \in Index
  BY PathLevels, Digits
<1>1. /\ \A u \in AllTables(m, {r}) : \A j \in Index : (u # t \/ j # i) => n[u][j] = m[u][j]
      /\ \A j \in Index : ~Present(n[f][j])
      /\ \A V : V \subseteq Uppers(m, {r}) \cup {f} => OneParent(n, V)
  <2>1. t \in Uppers(m, {r})
    BY <1>0 DEF Uppers
  <2>2. NewTableEffect(m, n, r, t, i, f)
    BY <1>0, <2>1, NewTableFacts
  <2>3. QED
    BY <2>2 DEF NewTableEffect
<1>2. ~Present(m[t][i]) /\ Present(n[t][i]) /\ n[t][i].frame = f
  BY DEF NewTable
<1>3. Levelled(m, {r})
  BY DEF IsTree
<1> HIDE DEF i, t
<1>4. \A u \in {r} \cup L3(m, {r}) \cup L1(m, {r}) : \A j \in Index : n[u][j] = m[u][j]
  BY <1>0, <1>1, <1>3 DEF Levelled, AllTables
<1>5. L3(n, {r}) = L3(m, {r})
  BY <1>4, KidsSame DEF L3
<1>6. L2(n, {r}) = L2(m, {r})
  <2>1. Kids(n, L3(m, {r})) = Kids(m, L3(m, {r}))
    BY <1>4, KidsSame
  <2>2. QED
    BY <1>5, <2>1 DEF L2
<1>7. L1(n, {r}) = L1(m, {r}) \cup {f}
  <2>1. NewEntry(m, n, L2(m, {r}), t, i, f)
    BY <1>0, <1>1, <1>2 DEF AllTables, NewEntry
  <2>2. Kids(n, L2(m, {r})) = Kids(m, L2(m, {r})) \cup {f}
    BY <2>1, KidsAdd
  <2>3. QED
    BY <1>6, <2>2 DEF L1
<1>8. IsTree(n, {r})
  <2>1. Levelled(n, {r})
    BY <1>3, <1>5, <1>6, <1>7 DEF Levelled, AllTables
  <2>2. OneParent(n, Uppers(n, {r}))
    BY <1>1, <1>5, <1>6 DEF Uppers
  <2>3. QED
    BY <2>1, <2>2 DEF IsTree
<1>9. ASSUME NEW w \in VPages
      PROVE  /\ H2(n, r, w) = H2(m, r, w)
             /\ H2(m, r, w) => T2(n, r, w) = T2(m, r, w)
  <2>0. PML4_IDX(w) \in Index /\ PDPT_IDX(w) \in Index
    BY Digits
  <2>1. H3(n, r, w) = H3(m, r, w) /\ T3(n, r, w) = T3(m, r, w)
    BY <1>4, <2>0 DEF H3, T3
  <2>2. H3(m, r, w) => T3(m, r, w) \in L3(m, {r})
    BY PathLevels
  <2>3. QED
    BY <1>4, <2>0, <2>1, <2>2 DEF H2, T2
<1>10. ASSUME NEW w \in VPages
       PROVE  Leaf(n, r, w) = Leaf(m, r, w)
  <2>0. PD_IDX(w) \in Index /\ PT_IDX(w) \in Index
    BY Digits
  <2>1. CASE H2(m, r, w) /\ T2(m, r, w) = t /\ PD_IDX(w) = i
    <3>1. ~H1(m, r, w) /\ Leaf(m, r, w) = Zero
      BY <1>2, <2>1 DEF H1, Leaf
    <3>2. T1(n, r, w) = f /\ H1(n, r, w)
      BY <1>2, <1>9, <2>1 DEF H1, T1
    <3>3. n[f][PT_IDX(w)] = Zero
      BY <2>0 DEF NewTable
    <3>4. QED
      BY <3>1, <3>2, <3>3 DEF Leaf
  <2>2. CASE H2(m, r, w) /\ (T2(m, r, w) # t \/ PD_IDX(w) # i)
    <3>1. T2(m, r, w) \in AllTables(m, {r})
      BY <2>2, PathLevels DEF AllTables
    <3>2. H1(n, r, w) = H1(m, r, w) /\ T1(n, r, w) = T1(m, r, w)
      BY <1>1, <1>9, <2>0, <2>2, <3>1 DEF H1, T1
    <3>3. H1(m, r, w) => T1(m, r, w) \in L1(m, {r})
      BY PathLevels
    <3>4. QED
      BY <1>4, <2>0, <3>2, <3>3 DEF Leaf
  <2>3. CASE ~H2(m, r, w)
    BY <1>9, <2>3 DEF Leaf, H1
  <2>4. QED
    BY <2>1, <2>2, <2>3
<1>11. OnPath(n, r, v, 1, f)
  <2>1. H2(n, r, v) /\ T2(n, r, v) = t
    BY <1>9 DEF t
  <2>2. QED
    BY <1>2, <2>1 DEF OnPath, H1, T1, i
<1>12. AllTables(n, {r}) = AllTables(m, {r}) \cup {f}
  BY <1>5, <1>6, <1>7 DEF AllTables
<1>13. QED
  BY <1>8, <1>10, <1>11, <1>12 DEF Extends

\* The three together.
LEMMA NewTableExtends ==
  ASSUME NEW m \in Memories, NEW n, NEW r \in Frames, IsTree(m, {r}),
         NEW f \in Frames, f \notin AllTables(m, {r}), NEW v \in VPages,
         NEW lvl \in 2 .. 4, NEW t, OnPath(m, r, v, lvl, t),
         NewTable(m, n, t, IndexAt(lvl, v), f)
  PROVE  Extends(m, n, r, v, lvl, f)
<1>1. CASE lvl = 4
  BY <1>1, NewPDPT DEF OnPath, IndexAt
<1>2. CASE lvl = 3
  BY <1>2, NewPD DEF OnPath, IndexAt
<1>3. CASE lvl = 2
  BY <1>3, NewPT DEF OnPath, IndexAt
<1>4. QED
  BY <1>1, <1>2, <1>3

-----------------------------------------------------------------------------
(* What the tables say, as one map from pages to leaf entries. *)

Leaves == [v \in VPages |-> IF kernel_pml4 = 0 THEN Zero ELSE LeafEntry(v)]

Mapped == {v \in VPages : Present(Leaves[v])}

\* The tables have the shape of a tree, and a walk is on the path of its page.
TreeInv ==
  /\ IsTree(mem, Roots)
  /\ walk.op # "none" => /\ kernel_pml4 # 0
                         /\ OnPath(mem, kernel_pml4, walk.v, walk.lvl, walk.tbl)

LEMMA TablesAre == Tables = AllTables(mem, Roots)
BY DEF Tables, PTs, PDs, PDPTs, Children, Entries, Target, AllTables, L1, L2, L3, Kids

LEMMA RootsAre ==
  /\ kernel_pml4 # 0 => Roots = {kernel_pml4}
  /\ kernel_pml4 = 0 => Roots = {}
BY DEF Roots

\* LeafEntry, for any memory m and root r.
LeafOf(m, r, v) ==
  LET e4 == m[r][PML4_IDX(v)]
      e3 == IF Present(e4) THEN m[e4.frame][PDPT_IDX(v)] ELSE Zero
      e2 == IF Present(e3) THEN m[e3.frame][PD_IDX(v)] ELSE Zero
  IN  IF Present(e2) THEN m[e2.frame][PT_IDX(v)] ELSE Zero

LEMMA LeafIs ==
  ASSUME NEW m, NEW r, NEW v
  PROVE  LeafOf(m, r, v) = Leaf(m, r, v)
<1> DEFINE e4 == m[r][PML4_IDX(v)]
           e3 == IF Present(e4) THEN m[e4.frame][PDPT_IDX(v)] ELSE Zero
           e2 == IF Present(e3) THEN m[e3.frame][PD_IDX(v)] ELSE Zero
<1>1. LeafOf(m, r, v) = IF Present(e2) THEN m[e2.frame][PT_IDX(v)] ELSE Zero
  BY DEF LeafOf
<1>2. CASE ~H3(m, r, v)
  BY <1>1, <1>2, ZeroAbsent DEF H3, H2, H1, Leaf
<1>3. CASE H3(m, r, v)
  <2>1. e3 = m[T3(m, r, v)][PDPT_IDX(v)]
    BY <1>3 DEF H3, T3
  <2>2. CASE ~H2(m, r, v)
    <3>1. ~Present(e3)
      BY <1>3, <2>1, <2>2 DEF H2
    <3> HIDE DEF e3
    <3>2. QED
      BY <1>1, <2>2, <3>1, ZeroAbsent DEF H1, Leaf
  <2>3. CASE H2(m, r, v)
    <3>1. Present(e3)
      BY <2>1, <2>3 DEF H2
    <3>2. e2 = m[T2(m, r, v)][PD_IDX(v)]
      BY <2>1, <3>1 DEF T2
    <3> HIDE DEF e2
    <3>3. QED
      BY <1>1, <2>3, <3>2 DEF H1, T1, Leaf
  <2>4. QED
    BY <2>2, <2>3
<1>4. QED
  BY <1>2, <1>3

\* Before and after a step.
LEMMA LeavesAre ==
  /\ kernel_pml4 # 0 => Leaves = [v \in VPages |-> Leaf(mem, kernel_pml4, v)]
  /\ kernel_pml4' # 0 => Leaves' = [v \in VPages |-> Leaf(mem', kernel_pml4', v)]
<1>1. \A v \in VPages : LeafEntry(v) = Leaf(mem, kernel_pml4, v)
  <2>1. \A v \in VPages : LeafEntry(v) = LeafOf(mem, kernel_pml4, v)
    BY DEF LeafEntry, EntryBelow, LeafOf
  <2>2. QED
    BY <2>1, LeafIs
<1>2. \A v \in VPages : LeafEntry(v)' = Leaf(mem', kernel_pml4', v)
  <2>1. \A v \in VPages : LeafEntry(v)' = LeafOf(mem', kernel_pml4', v)
    BY DEF LeafEntry, EntryBelow, LeafOf
  <2>2. QED
    BY <2>1, LeafIs
<1>3. QED
  BY <1>1, <1>2 DEF Leaves

LEMMA TablesPrimed ==
  /\ Tables' = AllTables(mem', Roots')
  /\ kernel_pml4' # 0 => Roots' = {kernel_pml4'}
  /\ kernel_pml4' = 0 => Roots' = {}
BY DEF Roots, Tables, PTs, PDs, PDPTs, Children, Entries, Target, AllTables, L1, L2, L3, Kids

\* Nothing changes when the memory does not.
LEMMA QuietTables ==
  ASSUME mem' = mem, kernel_pml4' = kernel_pml4
  PROVE  /\ Leaves' = Leaves /\ Tables' = Tables /\ Roots' = Roots
         /\ Mapped' = Mapped /\ Backing' = Backing
<1>1. Roots' = Roots
  BY DEF Roots
<1>2. Tables' = Tables
  BY <1>1, TablesAre, TablesPrimed
<1>3. \A v \in VPages : LeafEntry(v)' = LeafEntry(v)
  BY DEF LeafEntry, EntryBelow
<1>4. Leaves' = Leaves
  BY <1>3 DEF Leaves
<1>5. Mapped' = Mapped
  BY <1>4 DEF Mapped
<1>6. Backing' = Backing
  BY <1>3 DEF Backing, IsMapped, LeafEntry, EntryBelow
<1>7. QED
  BY <1>1, <1>2, <1>4, <1>5, <1>6

\* Both views agree.
LEMMA MappedIs ==
  /\ kernel_pml4 # 0 => \A v \in VPages : Leaves[v] = LeafEntry(v)
  /\ \A v \in VPages : IsMapped(v) <=> v \in Mapped
BY ZeroAbsent DEF Leaves, Mapped, IsMapped

OwnLeaves == {Leaves[v].frame : v \in Mapped \cap OwnPages}

LEMMA OwnPagesAreVPages == OwnPages \subseteq VPages
BY VmmAssumption DEF OwnPages

LEMMA BackingIs == Backing = OwnLeaves
<1>1. {w \in OwnPages : IsMapped(w)} = Mapped \cap OwnPages
  BY MappedIs, OwnPagesAreVPages
<1>2. \A v \in Mapped : LeafEntry(v) = Leaves[v]
  BY ZeroAbsent DEF Leaves, Mapped
<1>3. QED
  BY <1>1, <1>2 DEF Backing, OwnLeaves

LEMMA BackingPrimed == Backing' = OwnLeaves'
<1>1. (Backing = OwnLeaves)'
  BY BackingIs, PTL
<1>2. QED
  BY <1>1

-----------------------------------------------------------------------------
(* The steps that write a table. *)

WalkTyped ==
  /\ mem \in Memories /\ kernel_pml4 \in Frames /\ walk.v \in VPages
  /\ walk.lvl \in 0 .. 4

LEMMA WalkShape ==
  ASSUME WalkTyped, TreeInv, walk.op # "none"
  PROVE  /\ walk.lvl \in 1 .. 4
         /\ walk.tbl \in AllTables(mem, {kernel_pml4}) /\ walk.tbl \in Frames
         /\ WalkIndex \in Index
         /\ Roots = {kernel_pml4} /\ IsTree(mem, {kernel_pml4})
<1>1. OnPath(mem, kernel_pml4, walk.v, walk.lvl, walk.tbl)
  BY DEF TreeInv
<1>2. Roots = {kernel_pml4}
  BY DEF TreeInv, Roots
<1>3. walk.lvl \in 1 .. 4
  BY <1>1 DEF OnPath
<1>4. walk.tbl \in AllTables(mem, {kernel_pml4})
  BY <1>1, PathLevels DEF OnPath, AllTables, WalkTyped
<1>5. WalkIndex \in Index
  BY Digits DEF WalkIndex, IndexAt, WalkTyped
<1>6. QED
  BY <1>2, <1>3, <1>4, <1>5, PathFrames DEF TreeInv, WalkTyped

\* get_next_table finds the table of the next level.
LEMMA DownStep ==
  ASSUME WalkTyped, TreeInv, walk.op # "none", walk.lvl > 1, Present(WalkEntry)
  PROVE  OnPath(mem, kernel_pml4, walk.v, walk.lvl - 1, WalkEntry.frame)
<1>1. OnPath(mem, kernel_pml4, walk.v, walk.lvl, walk.tbl)
  BY DEF TreeInv
<1>2. CASE walk.lvl = 4
  BY <1>1, <1>2 DEF OnPath, WalkEntry, WalkIndex, IndexAt, H3, T3
<1>3. CASE walk.lvl = 3
  BY <1>1, <1>3 DEF OnPath, WalkEntry, WalkIndex, IndexAt, H2, T2
<1>4. CASE walk.lvl = 2
  BY <1>1, <1>4 DEF OnPath, WalkEntry, WalkIndex, IndexAt, H1, T1
<1>5. QED
  BY <1>2, <1>3, <1>4, WalkShape

\* Where a table is missing, the page is not mapped.
LEMMA MissingMeansUnmapped ==
  ASSUME WalkTyped, TreeInv, walk.op # "none", walk.lvl > 1, ~Present(WalkEntry)
  PROVE  Leaves[walk.v] = Zero
<1>1. OnPath(mem, kernel_pml4, walk.v, walk.lvl, walk.tbl)
  BY DEF TreeInv
<1>2. ~H1(mem, kernel_pml4, walk.v)
  <2>1. CASE walk.lvl = 4
    BY <1>1, <2>1 DEF OnPath, WalkEntry, WalkIndex, IndexAt, H1, H2, H3, T3
  <2>2. CASE walk.lvl = 3
    BY <1>1, <2>2 DEF OnPath, WalkEntry, WalkIndex, IndexAt, H1, H2, T2
  <2>3. CASE walk.lvl = 2
    BY <1>1, <2>3 DEF OnPath, WalkEntry, WalkIndex, IndexAt, H1, T1
  <2>4. QED
    BY <2>1, <2>2, <2>3, WalkShape
<1>3. Leaves[walk.v] = Leaf(mem, kernel_pml4, walk.v)
  BY LeavesAre DEF WalkTyped, TreeInv
<1>4. QED
  BY <1>2, <1>3 DEF Leaf

\* get_next_table makes a table.
LEMMA NewTableStep ==
  ASSUME WalkTyped, TreeInv, walk.op # "none", walk.lvl > 1, ~Present(WalkEntry),
         NEW f \in Frames, f \notin Tables,
         mem' = [mem EXCEPT ![f] = ZeroTable,
                            ![walk.tbl][WalkIndex] =
                               [frame |-> f, flags |-> {"P", "W", "U"}]],
         kernel_pml4' = kernel_pml4
  PROVE  /\ Leaves' = Leaves /\ Tables' = Tables \cup {f}
         /\ IsTree(mem', Roots')
         /\ OnPath(mem', kernel_pml4, walk.v, walk.lvl - 1, f)
<1> DEFINE m == mem
           n == mem'
           r == kernel_pml4
           t == walk.tbl
           i == WalkIndex
           v == walk.v
           lvl == walk.lvl
           e == [frame |-> f, flags |-> {"P", "W", "U"}]
<1>1. /\ m \in Memories /\ r \in Frames /\ v \in VPages /\ lvl \in 2 .. 4
      /\ t \in AllTables(m, {r}) /\ t \in Frames /\ i \in Index
      /\ IsTree(m, {r}) /\ OnPath(m, r, v, lvl, t)
  BY WalkShape DEF WalkTyped, TreeInv
<1>2. r # 0 /\ Roots = {r} /\ Roots' = {r}
  BY WalkShape DEF TreeInv, Roots
<1>3. f \notin AllTables(m, {r}) /\ f # t
  BY <1>1, <1>2, TablesAre
<1>4. NewTable(m, n, t, i, f)
  <2>1. n[t][i] = e
    BY <1>1, <1>3 DEF Memories
  <2>2. \A j \in Index : n[f][j] = Zero
    BY <1>1, <1>3 DEF Memories, ZeroTable
  <2>3. \A u \in Frames \ {f} : \A j \in Index : (u # t \/ j # i) => n[u][j] = m[u][j]
    BY <1>1, <1>3 DEF Memories
  <2>4. Present(e) /\ e.frame = f
    BY DEF Present
  <2>5. ~Present(m[t][i])
    BY DEF WalkEntry
  <2>6. QED
    BY <2>1, <2>2, <2>3, <2>4, <2>5 DEF NewTable
<1>5. i = IndexAt(lvl, v)
  BY DEF WalkIndex
<1> HIDE DEF m, n, r, t, i, v, lvl, e
<1>6. Extends(m, n, r, v, lvl, f)
  BY <1>1, <1>3, <1>4, <1>5, NewTableExtends
<1>7. Tables' = Tables \cup {f} /\ IsTree(n, Roots')
  BY <1>2, <1>6, TablesAre, TablesPrimed DEF Extends, m, n, r
<1>8. Leaves' = Leaves
  <2>1. Leaves = [w \in VPages |-> Leaf(m, r, w)] /\ Leaves' = [w \in VPages |-> Leaf(n, r, w)]
    BY <1>2, LeavesAre DEF m, n, r
  <2>2. QED
    BY <1>6, <2>1 DEF Extends
<1>9. QED
  BY <1>6, <1>7, <1>8 DEF Extends, m, n, r, t, i, v, lvl, e

\* map_page and unmap_page write the leaf entry.
LEMMA LeafStep ==
  ASSUME WalkTyped, TreeInv, walk.op # "none", walk.lvl = 1, NEW e,
         mem' = [mem EXCEPT ![walk.tbl][WalkIndex] = e],
         kernel_pml4' = kernel_pml4
  PROVE  /\ Leaves' = [Leaves EXCEPT ![walk.v] = e] /\ Tables' = Tables
         /\ IsTree(mem', Roots')
         /\ OnPath(mem', kernel_pml4, walk.v, 1, walk.tbl)
<1> DEFINE m == mem
           n == mem'
           r == kernel_pml4
           t == walk.tbl
           v == walk.v
<1>1. /\ m \in Memories /\ r \in Frames /\ v \in VPages
      /\ t \in Frames /\ WalkIndex \in Index /\ IsTree(m, {r})
  BY WalkShape DEF WalkTyped
<1>2. r # 0 /\ Roots = {r} /\ Roots' = {r}
  BY WalkShape DEF TreeInv, Roots
<1>3. H1(m, r, v) /\ t = T1(m, r, v) /\ WalkIndex = PT_IDX(v)
  BY DEF TreeInv, OnPath, WalkIndex, IndexAt
<1>4. n[t][PT_IDX(v)] = e /\ OnlyAt(m, n, t, PT_IDX(v))
  BY <1>1, <1>3 DEF Memories, OnlyAt
<1> HIDE DEF m, n, r, t, v
<1>5. /\ AllTables(n, {r}) = AllTables(m, {r})
      /\ IsTree(n, {r})
      /\ H1(n, r, v) /\ T1(n, r, v) = T1(m, r, v)
      /\ Leaf(n, r, v) = n[T1(m, r, v)][PT_IDX(v)]
      /\ \A w \in VPages \ {v} : Leaf(n, r, w) = Leaf(m, r, w)
  <2>1. OnlyAt(m, n, T1(m, r, v), PT_IDX(v))
    BY <1>3, <1>4
  <2>2. LeafWritten(m, n, r, v)
    BY <1>1, <1>3, <2>1, LeafWrite
  <2>3. QED
    BY <2>2 DEF LeafWritten
<1>6. Tables' = Tables /\ IsTree(n, Roots')
  BY <1>2, <1>5, TablesAre, TablesPrimed DEF m, n, r
<1>7. Leaves' = [Leaves EXCEPT ![v] = e]
  <2>1. Leaves = [w \in VPages |-> Leaf(m, r, w)] /\ Leaves' = [w \in VPages |-> Leaf(n, r, w)]
    BY <1>2, LeavesAre DEF m, n, r
  <2>2. Leaf(n, r, v) = e
    BY <1>3, <1>4, <1>5
  <2>3. QED
    BY <1>5, <2>1, <2>2
<1>8. OnPath(n, r, v, 1, t)
  BY <1>3, <1>5 DEF OnPath
<1>9. QED
  BY <1>6, <1>7, <1>8 DEF m, n, r, t, v

LEMMA LeafRead ==
  ASSUME WalkTyped, TreeInv, walk.op # "none", walk.lvl = 1
  PROVE  WalkEntry = Leaves[walk.v]
<1>1. Leaves[walk.v] = Leaf(mem, kernel_pml4, walk.v)
  BY LeavesAre DEF WalkTyped, TreeInv
<1>2. QED
  BY <1>1 DEF TreeInv, OnPath, WalkEntry, WalkIndex, IndexAt, Leaf

\* init_paging makes the root: the empty map stays empty.
LEMMA RootStep ==
  ASSUME mem \in Memories, kernel_pml4 = 0, NEW f \in Frames, f # 0,
         mem' = [mem EXCEPT ![f] = ZeroTable], kernel_pml4' = f
  PROVE  Leaves' = Leaves /\ Tables' = {f} /\ IsTree(mem', Roots')
<1>1. Roots' = {f}
  BY DEF Roots
<1>2. \A i \in Index : ~Present(mem'[f][i])
  BY ZeroAbsent DEF Memories, ZeroTable
<1>3. Kids(mem', {f}) = {} /\ Kids(mem', {}) = {}
  <2> DEFINE n == mem'
  <2>1. \A i \in Index : ~Present(n[f][i])
    BY <1>2
  <2> HIDE DEF n
  <2>2. Kids(n, {}) = {}
    <3>1. \A g : g \notin Kids(n, {})
      BY KidsMembers
    <3>2. QED
      BY <3>1
  <2>3. {} \cup {f} = {f}
    OBVIOUS
  <2>4. Kids(n, {} \cup {f}) = Kids(n, {})
    BY <2>1, KidsZero
  <2>5. QED
    BY <2>2, <2>3, <2>4 DEF n
<1>4. L3(mem', {f}) = {} /\ L2(mem', {f}) = {} /\ L1(mem', {f}) = {}
  BY <1>3 DEF L1, L2, L3
<1>5. Tables' = {f}
  BY <1>1, <1>4, TablesPrimed DEF AllTables
<1>6. IsTree(mem', {f})
  BY <1>2, <1>4 DEF IsTree, Levelled, OneParent, Uppers
<1>7. Leaves' = Leaves
  <2>1. \A v \in VPages : ~H1(mem', f, v)
    BY <1>2, Digits DEF H1, H2, H3
  <2>2. Leaves' = [v \in VPages |-> Leaf(mem', f, v)]
    BY LeavesAre
  <2>3. QED
    BY <2>1, <2>2 DEF Leaf, Leaves
<1>8. QED
  BY <1>1, <1>5, <1>6, <1>7

-----------------------------------------------------------------------------
(* The pages of the image, and how far the loops of the boot have come. *)

SectionIds == 1 .. Len(Sections)

AfterImage  == pc \notin {"init_paging", "sections", "section_mapped"}
AfterDirect == AfterImage /\ pc \notin {"hhdm", "hhdm_mapped"}
AfterBitmap == AfterDirect /\ pc \notin {"vmm_init", "bitmap_mapped"}

\* The pages that the code before pc has mapped for good.
ImageSettled(v) ==
  \E k \in SectionIds :
    /\ v \in SectionPages(k)
    /\ \/ AfterImage
       \/ /\ pc \in {"sections", "section_mapped"}
          /\ \/ k < loc.n
             \/ k = loc.n /\ v < Sections[k].first + loc.i

DirectSettled(v) ==
  /\ v \in DirectRegion
  /\ AfterDirect \/ (pc \in {"hhdm", "hhdm_mapped"} /\ v < HHDM + loc.i)

BitmapSettled(v) ==
  /\ v \in BitmapRegion
  /\ AfterBitmap \/ (pc \in {"vmm_init", "bitmap_mapped"} /\ v < BITMAP_START + loc.i)

StackSettled(v) ==
  /\ v \in StackRegion
  /\ ~Booting \/ (pc \in {"vmm_setup_stack", "stack_mapped"} /\ v < StackBase + loc.i)

HeapSettled(v) ==
  ~Booting /\ v \in HeapRegion /\ v - HEAP_START \in vbmp

Settled(v) ==
  \/ ImageSettled(v) \/ DirectSettled(v)
  \/ BitmapSettled(v) \/ StackSettled(v) \/ HeapSettled(v)

-----------------------------------------------------------------------------
(* The callers of map_page and unmap_page. *)

OwnPCs == {"bitmap_mapped", "stack_mapped", "alloc_mapped"}
MapPCs == OwnPCs \cup {"section_mapped", "hhdm_mapped"}

\* The page that the caller at pc has asked to map or unmap, and the entry.
JobPage ==
  CASE pc = "section_mapped" -> Sections[loc.n].first + loc.i
    [] pc = "hhdm_mapped"    -> HHDM + loc.i
    [] pc = "bitmap_mapped"  -> BITMAP_START + loc.i
    [] pc = "stack_mapped"   -> StackBase + loc.i
    [] OTHER                 -> HEAP_START + loc.start + loc.i

JobEntry ==
  CASE pc = "section_mapped" -> [frame |-> (Sections[loc.n].first + loc.i) - KVMA,
                                 flags |-> PageFlags(Sections[loc.n].flags)]
    [] pc = "hhdm_mapped"    -> [frame |-> loc.i, flags |-> {"P", "W", "NX"}]
    [] OTHER                 -> [frame |-> loc.p, flags |-> {"P", "W"}]

\* The pages that the tables must map: what is settled, with the job's page
\* once map_page has returned, without it once unmap_page has cleared it.
Expected(v) ==
  \/ pc \in MapPCs /\ walk.op = "none" /\ v = JobPage
  \/ Settled(v) /\ ~(pc = "free_unmapped" /\ walk.op # "unmap" /\ v = JobPage)

-----------------------------------------------------------------------------
(* The invariant. *)

\* The panics that can happen.
Outcomes == {NoPanic, "PMM: out of memory", "page fault",
             "VMM: kernel heap exhausted", "VMM: never mapped"}

PhaseInv ==
  /\ panic \in Outcomes
  /\ pc = "init_paging" <=> kernel_pml4 = 0
  /\ hhdm_on <=> AfterDirect

\* Boot's frames stay set, and no table is one of them.
SpaceInv ==
  /\ BootUsed \subseteq bmp
  /\ Tables \subseteq bmp
  /\ Tables \cap BootUsed = {}

\* The locals of the loops.
LoopInv ==
  /\ pc \in {"init_paging", "idle"} => loc = NoLoc
  /\ pc \in {"sections", "section_mapped"} => loc.n >= 1
  /\ pc = "section_mapped" => loc.n \in SectionIds /\ JobPage \in SectionPages(loc.n)
  /\ pc = "hhdm" => loc.i <= MaxPages
  /\ pc = "hhdm_mapped" => loc.i < MaxPages
  /\ pc = "vmm_init" => loc.i <= BITMAP_PAGES
  /\ pc = "bitmap_mapped" => loc.i < BITMAP_PAGES
  /\ pc = "vmm_setup_stack" => loc.i <= STACK_PAGES
  /\ pc = "stack_mapped" => loc.i < STACK_PAGES
  /\ pc \in {"vmm_setup_stack", "stack_mapped"} => vbmp = {}
  /\ pc \in {"vmm_init", "vmm_setup_stack"} => loc.p = 0 \/ loc.p \in Backing
  /\ pc \notin OwnPCs \cup {"vmm_init", "vmm_setup_stack", "free_unmapped"} => loc.p = 0

\* The run that a call of the heap works on, page by page.
RunInv ==
  /\ Allocating \/ Freeing => loc.i < loc.n /\ loc.start + loc.n <= HEAP_PAGES
  /\ Allocating => /\ Run(loc.start, loc.i) \subseteq vbmp
                   /\ Run(loc.start + loc.i, loc.n - loc.i) \cap vbmp = {}
  /\ Freeing => Run(loc.start, loc.i) \cap vbmp = {}

\* A walk works on the page of its caller; the TLB holds an old translation
\* only between the write of unmap_page and its invlpg.
CallInv ==
  /\ walk.op = "map" => pc \in MapPCs /\ walk.entry = JobEntry
  /\ walk.op \in {"unmap", "invlpg"} => pc = "free_unmapped"
  /\ walk.op # "none" => walk.v = JobPage
  /\ walk.op = "invlpg" => walk.lvl = 1
  /\ stale = IF walk.op = "invlpg" THEN {<<JobPage, loc.p>>} ELSE {}

\* What the caller may rely on: map_page has done what it was asked to, and
\* the frame of the job is nobody else's.
JobInv ==
  /\ pc \in MapPCs /\ walk.op = "none" =>
       ret = 0 /\ Leaves[JobPage].frame = JobEntry.frame
  /\ pc \in OwnPCs \cup {"free_unmapped"} =>
       loc.p \in bmp /\ loc.p \notin Tables /\ loc.p \notin BootUsed
  /\ pc \in OwnPCs /\ walk.op = "map" => loc.p \notin Backing
  /\ pc = "free_unmapped" =>
       IF walk.op = "unmap" THEN JobPage \in Mapped /\ Leaves[JobPage].frame = loc.p
       ELSE loc.p \notin Backing

FlagsFit(v) ==
  \E k \in SectionIds :
    FirstOn(k, v) /\ Leaves[v].flags = PageFlags(Sections[k].flags)

\* Where the pages of each region lead.
EntryInv ==
  /\ \A v \in Mapped \cap DirectRegion : Leaves[v].frame = v - HHDM
  /\ \A v \in Mapped \cap ImageRegion : Leaves[v].frame = v - KVMA /\ FlagsFit(v)
  /\ \A v \in Mapped \cap OwnPages :
       /\ Leaves[v].frame \in bmp
       /\ Leaves[v].frame \notin Tables /\ Leaves[v].frame \notin BootUsed
  /\ \A v, w \in Mapped \cap OwnPages : Leaves[v].frame = Leaves[w].frame => v = w

MappedInv == \A v \in VPages : v \in Mapped <=> Expected(v)

AccountInv ==
  panic = NoPanic =>
    \A f \in bmp : f \in BootUsed \/ f \in Tables \/ f \in Backing \/ f = loc.p

MemInv ==
  /\ TypeOK /\ TreeInv /\ PhaseInv /\ SpaceInv /\ LoopInv /\ RunInv
  /\ CallInv /\ JobInv /\ EntryInv /\ MappedInv /\ AccountInv

-----------------------------------------------------------------------------
(* The layout of the address space. *)

LEMMA Numbers ==
  /\ MaxPages \in Nat \ {0} /\ 0 \in BootUsed
  /\ HHDM \in Nat /\ KVMA \in Nat /\ HEAP_START \in Nat /\ BITMAP_START \in Nat
  /\ STACK_START \in Nat /\ STACK_GUARD \in Nat /\ StackBase \in Nat
  /\ HEAP_PAGES \in Nat \ {0} /\ BITMAP_PAGES \in Nat \ {0} /\ STACK_PAGES \in Nat \ {0}
  /\ VPages \subseteq Nat /\ Frames \subseteq Nat /\ Frames \subseteq Bits /\ 0 \in Frames
<1>1. VPages \subseteq Nat /\ Frames \subseteq Nat
  BY FanFacts, PmmAssumption DEF VPages, Frames
<1>2. /\ MaxPages \in Nat \ {0} /\ 0 \in BootUsed
      /\ Frames \subseteq Bits /\ 0 \in Frames
  BY PmmAssumption DEF Frames, Bits
<1>3. HHDM \in Nat /\ KVMA \in Nat
  BY <1>1, PagingAssumption
<1>4. HEAP_START \in Nat /\ BITMAP_START \in Nat /\ STACK_START \in Nat
  BY <1>1, VmmAssumption
<1>5. /\ HEAP_PAGES \in Nat \ {0} /\ BITMAP_PAGES \in Nat \ {0} /\ STACK_PAGES \in Nat \ {0}
      /\ STACK_GUARD \in Nat
  BY VmmAssumption
<1>6. QED
  BY <1>1, <1>2, <1>3, <1>4, <1>5 DEF StackBase

LEMMA Section ==
  ASSUME NEW k \in SectionIds
  PROVE  /\ Sections[k].flags \subseteq SectionFlags
         /\ Sections[k].first \in Nat /\ Sections[k].last \in Nat
         /\ SectionPages(k) \subseteq ImageRegion
         /\ \A v \in SectionPages(k) : v - KVMA \in Frames /\ v >= Sections[k].first
<1>1. Sections[k] \in [flags : SUBSET SectionFlags, first : Nat, last : Nat]
  <2> DEFINE R == [flags : SUBSET SectionFlags, first : Nat, last : Nat]
  <2>1. Sections \in Seq(R)
    BY PagingAssumption
  <2> HIDE DEF R
  <2>2. Sections[k] \in R
    BY <2>1 DEF SectionIds
  <2>3. QED
    BY <2>2 DEF R
<1>2. \A v \in SectionPages(k) : v \in VPages /\ v >= KVMA /\ v - KVMA \in Frames
  BY PagingAssumption DEF SectionIds, SectionPages
<1>3. \A v \in SectionPages(k) : v = KVMA + (v - KVMA) /\ v >= Sections[k].first
  BY <1>1, <1>2, Numbers DEF SectionPages
<1>4. SectionPages(k) \subseteq ImageRegion
  BY <1>2, <1>3 DEF ImageRegion
<1>5. QED
  BY <1>1, <1>2, <1>3, <1>4

LEMMA ImageFrames == \A v \in ImageRegion : v \in VPages /\ v - KVMA \in Frames
BY Numbers DEF ImageRegion

\* The regions of pages are disjoint.
LEMMA Regions ==
  /\ ImageRegion \subseteq VPages /\ DirectRegion \subseteq VPages
  /\ HeapRegion \subseteq VPages /\ BitmapRegion \subseteq VPages
  /\ StackRegion \subseteq VPages
  /\ ImageRegion \cap DirectRegion = {} /\ ImageRegion \cap HeapRegion = {}
  /\ ImageRegion \cap BitmapRegion = {} /\ ImageRegion \cap StackRegion = {}
  /\ DirectRegion \cap HeapRegion = {} /\ DirectRegion \cap BitmapRegion = {}
  /\ DirectRegion \cap StackRegion = {} /\ HeapRegion \cap BitmapRegion = {}
  /\ HeapRegion \cap StackRegion = {} /\ BitmapRegion \cap StackRegion = {}
<1>1. DirectRegion \subseteq VPages
  BY Numbers, PagingAssumption, FanFacts DEF DirectRegion, VPages
<1>2. ImageRegion \subseteq VPages
  BY DEF ImageRegion
<1>3. QED
  BY <1>1, <1>2, VmmAssumption

\* The page and the entry of a job.
LEMMA JobPlace ==
  ASSUME TypeOK, LoopInv, RunInv
  PROVE  /\ pc = "section_mapped" => JobPage \in ImageRegion /\ JobEntry.frame = JobPage - KVMA
         /\ pc = "hhdm_mapped" => JobPage \in DirectRegion /\ JobEntry.frame = JobPage - HHDM
         /\ pc = "bitmap_mapped" => JobPage \in BitmapRegion
         /\ pc = "stack_mapped" => JobPage \in StackRegion
         /\ Allocating \/ Freeing => JobPage \in HeapRegion
         /\ pc \in OwnPCs \cup {"free_unmapped"} => JobEntry = [frame |-> loc.p, flags |-> {"P", "W"}]
         /\ pc \in MapPCs => JobEntry \in Entry /\ Present(JobEntry)
<1>1. loc.i \in Nat /\ loc.n \in Nat /\ loc.start \in Nat /\ loc.p \in Frames
  BY DEF TypeOK
<1>2. ASSUME pc = "section_mapped"
      PROVE  /\ JobPage \in ImageRegion /\ JobEntry.frame = JobPage - KVMA
             /\ JobEntry \in Entry /\ Present(JobEntry)
  <2>1. loc.n \in SectionIds /\ JobPage \in SectionPages(loc.n)
    BY <1>2 DEF LoopInv
  <2>2. JobPage \in ImageRegion /\ JobPage - KVMA \in Frames
    BY <2>1, Section
  <2>3. JobEntry = [frame |-> JobPage - KVMA, flags |-> PageFlags(Sections[loc.n].flags)]
    <3>1. JobPage = Sections[loc.n].first + loc.i
      BY <1>2 DEF JobPage
    <3>2. JobEntry = [frame |-> (Sections[loc.n].first + loc.i) - KVMA,
                      flags |-> PageFlags(Sections[loc.n].flags)]
      BY <1>2 DEF JobEntry
    <3> HIDE DEF JobPage
    <3>3. QED
      BY <3>1, <3>2
  <2>4. /\ PageFlags(Sections[loc.n].flags) \subseteq Flags
        /\ "P" \in PageFlags(Sections[loc.n].flags)
    BY DEF PageFlags, Flags
  <2> HIDE DEF JobPage
  <2>5. QED
    BY <2>2, <2>3, <2>4 DEF Entry, Present
<1>3. ASSUME pc = "hhdm_mapped"
      PROVE  /\ JobPage \in DirectRegion /\ JobEntry.frame = JobPage - HHDM
             /\ JobEntry \in Entry /\ Present(JobEntry)
  <2>1. JobPage = HHDM + loc.i /\ loc.i < MaxPages
    BY <1>3 DEF JobPage, LoopInv
  <2>2. JobEntry = [frame |-> loc.i, flags |-> {"P", "W", "NX"}]
    BY <1>3 DEF JobEntry
  <2>3. JobPage \in DirectRegion /\ loc.i = JobPage - HHDM /\ loc.i \in Frames
    BY <1>1, <2>1, Numbers DEF DirectRegion, Frames
  <2> HIDE DEF JobPage
  <2>4. QED
    BY <2>2, <2>3 DEF Entry, Present, Flags
<1>4. pc = "bitmap_mapped" => JobPage \in BitmapRegion
  BY <1>1, Numbers DEF JobPage, LoopInv, BitmapRegion
<1>5. pc = "stack_mapped" => JobPage \in StackRegion
  BY <1>1, Numbers DEF JobPage, LoopInv, StackRegion
<1>6. Allocating \/ Freeing => JobPage \in HeapRegion
  BY <1>1, Numbers DEF JobPage, RunInv, HeapRegion, Allocating, Freeing
<1>7. pc \in OwnPCs \cup {"free_unmapped"} => JobEntry = [frame |-> loc.p, flags |-> {"P", "W"}]
  BY DEF JobEntry, OwnPCs
<1>8. pc \in OwnPCs => JobEntry \in Entry /\ Present(JobEntry)
  BY <1>1, <1>7 DEF Entry, Present, Flags
<1>9. QED
  BY <1>2, <1>3, <1>4, <1>5, <1>6, <1>7, <1>8 DEF MapPCs

\* An own page that is about to be mapped is not mapped yet.
LEMMA JobUnsettled ==
  ASSUME TypeOK, LoopInv, RunInv, pc \in OwnPCs
  PROVE  ~Settled(JobPage) /\ JobPage \in OwnPages
<1>1. loc.i \in Nat /\ loc.n \in Nat /\ loc.start \in Nat
  BY DEF TypeOK
<1>2. CASE pc = "bitmap_mapped"
  <2>1. JobPage \in BitmapRegion /\ JobPage = BITMAP_START + loc.i
    BY <1>2, JobPlace DEF JobPage
  <2>2. ~BitmapSettled(JobPage)
    BY <1>1, <1>2, <2>1, Numbers DEF BitmapSettled, AfterBitmap
  <2> HIDE DEF JobPage
  <2>3. QED
    BY <2>1, <2>2, Regions, Section
    DEF Settled, ImageSettled, DirectSettled, StackSettled, HeapSettled, OwnPages
<1>3. CASE pc = "stack_mapped"
  <2>1. JobPage \in StackRegion /\ JobPage = StackBase + loc.i
    BY <1>3, JobPlace DEF JobPage
  <2>2. ~StackSettled(JobPage)
    BY <1>1, <1>3, <2>1, Numbers DEF StackSettled, Booting
  <2> HIDE DEF JobPage
  <2>3. QED
    BY <2>1, <2>2, Regions, Section
    DEF Settled, ImageSettled, DirectSettled, BitmapSettled, HeapSettled, OwnPages
<1>4. CASE pc = "alloc_mapped"
  <2>1. JobPage \in HeapRegion /\ JobPage - HEAP_START = loc.start + loc.i
    BY <1>1, <1>4, JobPlace, Numbers DEF JobPage, Allocating
  <2>2. loc.start + loc.i \notin vbmp
    BY <1>1, <1>4 DEF RunInv, Allocating, Run
  <2>3. ~HeapSettled(JobPage)
    BY <2>1, <2>2 DEF HeapSettled
  <2> HIDE DEF JobPage
  <2>4. QED
    BY <2>1, <2>3, Regions, Section
    DEF Settled, ImageSettled, DirectSettled, BitmapSettled, StackSettled, OwnPages
<1>5. QED
  BY <1>2, <1>3, <1>4 DEF OwnPCs
=============================================================================
