---------------------------- MODULE KHeapProofs ----------------------------
(***************************************************************************)
(* Theorems about the kernel heap.                                         *)
(***************************************************************************)
EXTENDS KHeapInv, Numbers

-----------------------------------------------------------------------------
(* Sums of sizes.                                                          *)

TotalSize(m, S) == FSE!MapThenSumSet(LAMBDA a : m[a].size, S)

\* The recursion by which MapThenSumSet computes.
Some(s) == CHOOSE x \in s : TRUE

SumStep(m, f, s) ==
  IF s = {} THEN 0 ELSE m[Some(s)].size + f[s \ {Some(s)}]

Sums(m, S, f) == f = [s \in SUBSET S |-> SumStep(m, f, s)]

LEMMA TotalIsChosen ==
  ASSUME NEW m, NEW S
  PROVE  TotalSize(m, S) = (CHOOSE f : Sums(m, S, f))[S]
BY DEF TotalSize, FSE!MapThenSumSet, FSE!MapThenFoldSet, Sums, SumStep, Some

\* There is only one such function, ...
LEMMA SumsUnique ==
  ASSUME NEW m, NEW S, IsFiniteSet(S), NEW T, NEW f, NEW g,
         Sums(m, S, f), Sums(m, T, g), NEW u \in SUBSET S, u \subseteq T
  PROVE  f[u] = g[u]
<1> DEFINE Bad == {s \in SUBSET S : s \subseteq T /\ f[s] # g[s]}
<1>1. SUFFICES ASSUME Bad # {}
               PROVE  FALSE
  OBVIOUS
<1>2. Bad \subseteq SUBSET S
  OBVIOUS
<1> HIDE DEF Bad
<1>3. PICK s \in Bad : \A y \in Bad : y \subseteq s => y = s
  BY <1>1, <1>2, LeastSet
<1>4. s \subseteq S /\ s \subseteq T /\ f[s] # g[s]
  BY <1>3 DEF Bad
<1>5. f[s] = SumStep(m, f, s) /\ g[s] = SumStep(m, g, s)
  BY <1>4 DEF Sums
<1>6. s # {} /\ f[s \ {Some(s)}] # g[s \ {Some(s)}]
  BY <1>4, <1>5 DEF SumStep
<1>7. Some(s) \in s
  BY <1>6 DEF Some
<1>8. s \ {Some(s)} \in Bad
  BY <1>4, <1>6 DEF Bad
<1>9. QED
  BY <1>3, <1>7, <1>8

\* ... and there is one.
LEMMA SumsExist ==
  ASSUME NEW m, NEW S, IsFiniteSet(S)
  PROVE  \E f : Sums(m, S, f)
<1> DEFINE Bad == {s \in SUBSET S : ~ \E f : Sums(m, s, f)}
<1>1. SUFFICES ASSUME Bad # {}
               PROVE  FALSE
  OBVIOUS
<1>2. Bad \subseteq SUBSET S
  OBVIOUS
<1> HIDE DEF Bad
<1>3. PICK T \in Bad : \A y \in Bad : y \subseteq T => y = T
  BY <1>1, <1>2, LeastSet
<1> DEFINE F(s) == CHOOSE f : Sums(m, s, f)
<1>4. \A s \in SUBSET T : s # T => Sums(m, s, F(s))
  BY <1>2, <1>3 DEF Bad
<1>5. IsFiniteSet(T)
  BY <1>2, FS_Subset
<1> DEFINE V(s) == F(s)[s]
<1>6. ASSUME NEW s \in SUBSET T, s # T, s # {}
      PROVE  V(s) = m[Some(s)].size + V(s \ {Some(s)})
  <2> DEFINE u == s \ {Some(s)}
  <2>1. Some(s) \in s
    BY <1>6 DEF Some
  <2>2. u \in SUBSET T /\ u # T /\ u \subseteq s
    BY <2>1, <1>6
  <2>3. Sums(m, s, F(s)) /\ Sums(m, u, F(u))
    BY <1>4, <1>6, <2>2
  <2>4. IsFiniteSet(u) /\ IsFiniteSet(s)
    BY <1>5, <2>2, <1>6, FS_Subset
  <2> HIDE DEF F
  <2>5. F(s)[s] = SumStep(m, F(s), s)
    BY <2>3 DEF Sums
  <2>6. V(s) = SumStep(m, F(s), s) /\ V(u) = F(u)[u]
    BY <2>5
  <2>7. F(s)[u] = F(u)[u]
    <3> DEFINE f == F(s)
               g == F(u)
    <3>1. Sums(m, s, f) /\ Sums(m, u, g)
      BY <2>3
    <3> HIDE DEF f, g, u
    <3>2. f[u] = g[u]
      BY <2>2, <2>4, <3>1, SumsUnique
    <3>3. QED
      BY <3>2 DEF f, g
  <2>8. QED
    BY <1>6, <2>6, <2>7 DEF SumStep
<1>7. ASSUME {} # T
      PROVE V({}) = 0
  <2>1. Sums(m, {}, F({}))
    BY <1>4, <1>7
  <2> HIDE DEF F
  <2>2. F({})[{}] = SumStep(m, F({}), {})
    BY <2>1 DEF Sums
  <2>3. QED
    BY <2>2 DEF SumStep
<1> DEFINE W(s) == IF s = {} THEN 0 ELSE m[Some(s)].size + V(s \ {Some(s)})
           g == [s \in SUBSET T |-> W(s)]
<1> HIDE DEF V
<1>8. \A s \in SUBSET T : s # T => V(s) = W(s)
  BY <1>6, <1>7
<1> HIDE DEF W
<1>9. ASSUME NEW s \in SUBSET T
      PROVE  W(s) = SumStep(m, g, s)
  <2>1. CASE s = {}
    BY <2>1 DEF W, SumStep
  <2>2. CASE s # {}
    <3>1. Some(s) \in s
      BY <2>2 DEF Some
    <3>2. g[s \ {Some(s)}] = V(s \ {Some(s)})
      BY <1>8, <1>9, <3>1
    <3> HIDE DEF g
    <3>3. QED
      BY <2>2, <3>2 DEF W, SumStep
  <2>3. QED
    BY <2>1, <2>2
<1>10. Sums(m, T, g)
  BY <1>9 DEF Sums
<1>11. QED
  BY <1>3, <1>10 DEF Bad

LEMMA TotalSums ==
  ASSUME NEW m, NEW S, IsFiniteSet(S), NEW f, Sums(m, S, f), NEW u \in SUBSET S
  PROVE  TotalSize(m, u) = f[u]
<1> DEFINE g == CHOOSE f1 : Sums(m, u, f1)
<1>1. IsFiniteSet(u)
  BY FS_Subset
<1>2. Sums(m, u, g)
  BY <1>1, SumsExist
<1>3. TotalSize(m, u) = g[u]
  BY TotalIsChosen
<1> HIDE DEF g
<1>4. QED
  BY <1>1, <1>2, <1>3, SumsUnique

LEMMA TotalStep ==
  ASSUME NEW m, NEW S, IsFiniteSet(S)
  PROVE  /\ TotalSize(m, {}) = 0
         /\ S # {} => /\ Some(S) \in S
                      /\ TotalSize(m, S) = m[Some(S)].size + TotalSize(m, S \ {Some(S)})
<1>1. PICK f : Sums(m, S, f)
  BY SumsExist
<1>2. TotalSize(m, {}) = f[{}] /\ TotalSize(m, S) = f[S]
  BY <1>1, TotalSums
<1>3. TotalSize(m, S \ {Some(S)}) = f[S \ {Some(S)}]
  BY <1>1, TotalSums
<1>4. f[{}] = SumStep(m, f, {}) /\ f[S] = SumStep(m, f, S)
  BY <1>1 DEF Sums
<1>5. S # {} => Some(S) \in S
  BY DEF Some
<1>6. QED
  BY <1>2, <1>3, <1>4, <1>5 DEF SumStep

Sized(m, S) == \A x \in S : m[x].size \in Nat

LEMMA TotalType ==
  ASSUME NEW m, NEW S, IsFiniteSet(S), Sized(m, S), NEW u \in SUBSET S
  PROVE  TotalSize(m, u) \in Nat
<1> DEFINE Bad == {s \in SUBSET S : TotalSize(m, s) \notin Nat}
<1>1. SUFFICES ASSUME Bad # {}
               PROVE  FALSE
  OBVIOUS
<1>2. Bad \subseteq SUBSET S
  OBVIOUS
<1> HIDE DEF Bad
<1>3. PICK s \in Bad : \A y \in Bad : y \subseteq s => y = s
  BY <1>1, <1>2, LeastSet
<1>4. s \subseteq S /\ IsFiniteSet(s) /\ TotalSize(m, s) \notin Nat
  BY <1>2, <1>3, FS_Subset DEF Bad
<1>5. s # {}
  <2>1. TotalSize(m, {}) = 0
    BY <1>4, TotalStep
  <2>2. QED
    BY <1>4, <2>1
<1>6. Some(s) \in s /\ TotalSize(m, s) = m[Some(s)].size + TotalSize(m, s \ {Some(s)})
  BY <1>4, <1>5, TotalStep
<1>7. m[Some(s)].size \in Nat
  BY <1>4, <1>6 DEF Sized
<1>8. s \ {Some(s)} \in Bad
  BY <1>4, <1>6, <1>7 DEF Bad
<1>9. QED
  BY <1>3, <1>6, <1>8

\* The order in which the elements are taken does not matter.
LEMMA TotalAdd ==
  ASSUME NEW m, NEW S, IsFiniteSet(S), Sized(m, S), NEW u \in SUBSET S, NEW x \in S \ u
  PROVE  TotalSize(m, u \cup {x}) = m[x].size + TotalSize(m, u)
<1> DEFINE Good(s) == \A y \in S \ s : TotalSize(m, s \cup {y}) = m[y].size + TotalSize(m, s)
           Bad == {s \in SUBSET S : ~Good(s)}
<1>1. SUFFICES ASSUME Bad # {}
               PROVE  FALSE
  OBVIOUS
<1>2. Bad \subseteq SUBSET S
  OBVIOUS
<1> HIDE DEF Bad
<1>3. PICK s \in Bad : \A y \in Bad : y \subseteq s => y = s
  BY <1>1, <1>2, LeastSet
<1>4. PICK y \in S \ s : TotalSize(m, s \cup {y}) # m[y].size + TotalSize(m, s)
  BY <1>3 DEF Bad
<1> DEFINE T == s \cup {y}
           c == Some(T)
           r == s \ {c}
<1>5. s \subseteq S /\ T \subseteq S /\ IsFiniteSet(T) /\ T # {}
  BY <1>2, <1>3, FS_Subset
<1>6. c \in T /\ TotalSize(m, T) = m[c].size + TotalSize(m, T \ {c})
  BY <1>5, TotalStep
<1>7. c # y
  <2>1. c = y => T \ {c} = s
    OBVIOUS
  <2> HIDE DEF c
  <2>2. QED
    BY <1>4, <1>6, <2>1
<1>8. r \subseteq s /\ r # s /\ r \in SUBSET S
  BY <1>5, <1>6, <1>7
<1>9. Good(r)
  BY <1>3, <1>8 DEF Bad
<1>10. /\ TotalSize(m, r \cup {y}) = m[y].size + TotalSize(m, r)
       /\ TotalSize(m, r \cup {c}) = m[c].size + TotalSize(m, r)
  BY <1>5, <1>6, <1>9
<1>11. r \cup {y} = T \ {c} /\ r \cup {c} = s
  BY <1>6, <1>7
<1>12. m[c].size \in Nat /\ m[y].size \in Nat /\ TotalSize(m, r) \in Nat
  BY <1>5, <1>6, <1>8, TotalType DEF Sized
<1> HIDE DEF c, r
<1>13. TotalSize(m, T) = m[c].size + (m[y].size + TotalSize(m, r))
  BY <1>6, <1>10, <1>11
<1>14. TotalSize(m, s) = m[c].size + TotalSize(m, r)
  BY <1>10, <1>11
<1>15. QED
  BY <1>4, <1>12, <1>13, <1>14

\* Only the sizes of the elements count.
LEMMA TotalSame ==
  ASSUME NEW m, NEW n, NEW S, IsFiniteSet(S), \A x \in S : m[x].size = n[x].size
  PROVE  TotalSize(m, S) = TotalSize(n, S)
<1>1. PICK f : Sums(m, S, f)
  BY SumsExist
<1>2. \A s \in SUBSET S : SumStep(m, f, s) = SumStep(n, f, s)
  <2>1. \A s \in SUBSET S : s # {} => Some(s) \in S
    BY DEF Some
  <2>2. QED
    BY <2>1 DEF SumStep
<1>3. Sums(n, S, f)
  BY <1>1, <1>2 DEF Sums
<1>4. QED
  BY <1>1, <1>3, TotalSums

-----------------------------------------------------------------------------
(* Numbers.                                                                *)

LEMMA Sizes ==
  /\ PageSize \in Nat /\ PageSize > 0 /\ PageCount \in Nat /\ PageCount > 0
  /\ HeapPages \in Nat /\ HeapPages > 0
  /\ MajorHdr \in Nat /\ MajorHdr > 0 /\ MinorHdr \in Nat /\ MinorHdr > 0
  /\ ALIGNMENT \in Nat /\ ALIGNMENT > 0 /\ ALIGN_INFO \in Nat /\ ALIGN_INFO > 0
  /\ UINT \in Nat /\ UINT > 0 /\ SIZE_T \in Nat /\ UINT <= SIZE_T
  /\ PageCount * PageSize < UINT
  /\ ReqSizes \subseteq Nat /\ Counts \subseteq Nat
  /\ BlockCost = ALIGNMENT + ALIGN_INFO
  /\ MajorCost = BlockCost + MajorHdr + MinorHdr + PageSize
<1>1. SIZE_T \in Nat /\ \A n \in 0 .. (SIZE_T - 1) : n \in Nat
  BY KHeapAssumption
<1>2. QED
  BY <1>1, KHeapAssumption DEF BlockCost, MajorCost

\* ALIGN rounds up to the next aligned address that leaves room for the
\* alignment information.
LEMMA Alignment ==
  ASSUME NEW q \in Nat
  PROVE  /\ AlignInfo(q) \in Nat /\ ALIGN(q) = q + AlignInfo(q)
         /\ ALIGN_INFO <= AlignInfo(q) /\ AlignInfo(q) < BlockCost
         /\ ALIGN(q) % ALIGNMENT = 0
<1> DEFINE A == ALIGNMENT
           n == q + ALIGN_INFO
           r == n % A
           d == n \div A
<1>1. n \in Nat /\ A \in Nat /\ A > 0
  BY Sizes
<1>2. r \in 0 .. (A - 1) /\ d \in Nat /\ n = A * d + r
  <2> HIDE DEF n, A
  <2>1. QED
    BY <1>1
<1>3. AlignDiff(q) = IF r = 0 THEN 0 ELSE A - r
  BY DEF AlignDiff
<1>4. AlignDiff(q) \in 0 .. (A - 1)
  <2> HIDE DEF n, A, r
  <2>1. QED
    BY <1>1, <1>2, <1>3
<1>5. ALIGN(q) = n + AlignDiff(q) /\ AlignInfo(q) = AlignDiff(q) + ALIGN_INFO
  BY DEF ALIGN, AlignInfo
<1>6. (n + AlignDiff(q)) % A = 0
  <2> HIDE DEF n, A, r, d
  <2>1. CASE r = 0
    BY <1>1, <1>2, <1>3, <2>1
  <2>2. CASE r # 0
    <3>1. n + AlignDiff(q) = A * (d + 1)
      BY <1>1, <1>2, <1>3, <2>2
    <3>2. (A * (d + 1)) % A = 0
      BY <1>1, <1>2
    <3>3. QED
      BY <3>1, <3>2
  <2>3. QED
    BY <2>1, <2>2
<1>7. QED
  BY <1>4, <1>5, <1>6, Sizes

\* What fits keeps its value.
LEMMA Widths ==
  ASSUME NEW x \in Nat
  PROVE  /\ uint(x) \in Nat /\ uint(x) < UINT /\ uint(x) <= x
         /\ size_t(x) \in Nat /\ size_t(x) <= x
         /\ x < UINT => uint(x) = x /\ size_t(x) = x
<1>1. \A k \in Nat : k > 0 => /\ x % k \in Nat /\ x % k < k /\ x % k <= x
                              /\ x < k => x % k = x
  <2> TAKE k \in Nat
  <2> HAVE k > 0
  <2> DEFINE r == x % k
             d == x \div k
  <2>1. r \in 0 .. (k - 1) /\ d \in Nat /\ x = k * d + r
    OBVIOUS
  <2>2. k * d \in Nat
    BY <2>1
  <2>3. x < k => x % k = x
    OBVIOUS
  <2> HIDE DEF r, d
  <2>4. r \in Nat /\ r < k /\ r <= x
    BY <2>1, <2>2
  <2>5. QED
    BY <2>3, <2>4 DEF r
<1>2. SIZE_T > 0 /\ UINT <= SIZE_T /\ UINT \in Nat /\ SIZE_T \in Nat /\ UINT > 0
  BY Sizes
<1>3. QED
  BY <1>1, <1>2 DEF uint, size_t

-----------------------------------------------------------------------------
(* The lists of minors.                                                    *)

\* The recursion by which MinorList computes, on a set D of minors.
ChainStep(m, f, a) == IF a = NULL THEN <<>> ELSE <<a>> \o f[m[a].next]

Chains(m, D, f) == f = [a \in D \cup {NULL} |-> ChainStep(m, f, a)]

LEMMA MinorListIsChosen ==
  ASSUME NEW maj
  PROVE  MinorList(maj) = (CHOOSE f : Chains(minors, DOMAIN minors, f))[majors[maj].first]
BY DEF MinorList, Chains, ChainStep

\* No list leaves the set D, and every list rises.
Forward(m, D) ==
  \A a \in D : m[a].next # NULL => m[a].next \in D /\ a < m[a].next

LEMMA ChainsExist ==
  ASSUME NEW m, NEW D, IsFiniteSet(D), D \subseteq Nat \ {NULL}, Forward(m, D)
  PROVE  \E f : Chains(m, D, f)
<1> DEFINE Bad == {T \in SUBSET D : Forward(m, T) /\ ~ \E f : Chains(m, T, f)}
<1>1. SUFFICES ASSUME Bad # {}
               PROVE  FALSE
  OBVIOUS
<1>2. Bad \subseteq SUBSET D
  OBVIOUS
<1> HIDE DEF Bad
<1>3. PICK T \in Bad : \A y \in Bad : y \subseteq T => y = T
  BY ONLY IsFiniteSet(D), <1>1, <1>2, LeastSet
<1>4. T \subseteq Nat \ {NULL} /\ Forward(m, T) /\ ~ \E f : Chains(m, T, f)
  BY <1>2, <1>3 DEF Bad
<1>5. T # {}
  <2> SUFFICES ASSUME T = {}
               PROVE  FALSE
    OBVIOUS
  <2> DEFINE f == [a \in {NULL} |-> <<>>]
  <2>1. \A a \in {NULL} : ChainStep(m, f, a) = <<>>
    BY DEF ChainStep
  <2> HIDE DEF f
  <2>2. T \cup {NULL} = {NULL}
    OBVIOUS
  <2>3. Chains(m, T, f)
    BY <2>1, <2>2 DEF Chains, f
  <2>4. QED
    BY <1>4, <2>3
<1>6. PICK x \in T : \A y \in T : x <= y
  BY <1>4, <1>5, LeastNumber
<1> DEFINE U == T \ {x}
<1>7. \A a \in T : m[a].next \in U \cup {NULL}
  BY <1>4, <1>6 DEF Forward
<1>8. Forward(m, U)
  BY <1>4, <1>7 DEF Forward
<1>9. PICK f : Chains(m, U, f)
  BY <1>2, <1>3, <1>8 DEF Bad
<1> DEFINE g == [a \in T \cup {NULL} |-> IF a = x THEN ChainStep(m, f, x) ELSE f[a]]
<1>10. \A a \in U \cup {NULL} : g[a] = f[a] /\ f[a] = ChainStep(m, f, a)
  BY <1>4, <1>9 DEF Chains
<1>11. \A a \in T : g[m[a].next] = f[m[a].next]
  BY <1>7, <1>10
<1>12. g[x] = ChainStep(m, f, x)
  OBVIOUS
<1>13. g = [a \in T \cup {NULL} |-> g[a]]
  OBVIOUS
<1> HIDE DEF g
<1>14. \A a \in T \cup {NULL} : g[a] = ChainStep(m, g, a)
  BY <1>10, <1>11, <1>12 DEF ChainStep
<1>15. Chains(m, T, g)
  BY <1>13, <1>14 DEF Chains
<1>16. QED
  BY <1>4, <1>15

\* The minors of a list that starts at a: each is followed by its next one, and
\* the last one has none.
Follows(m, list, a) ==
  /\ Len(list) >= 1 /\ list[1] = a
  /\ \A k \in 1 .. Len(list) :
       IF k = Len(list) THEN m[list[k]].next = NULL
       ELSE m[list[k]].next = list[k + 1]

LEMMA ChainsFollow ==
  ASSUME NEW m, NEW D, IsFiniteSet(D), D \subseteq Nat \ {NULL}, Forward(m, D),
         NEW f, Chains(m, D, f), NEW a \in D
  PROVE  f[a] \in Seq(D) /\ Follows(m, f[a], a)
<1> DEFINE Good(b) == f[b] \in Seq(D) /\ Follows(m, f[b], b)
           After(b) == {c \in D : c >= b}
           Bad == {After(b) : b \in {c \in D : ~Good(c)}}
<1>1. SUFFICES ASSUME Bad # {}
               PROVE  FALSE
  OBVIOUS
<1>2. Bad \subseteq SUBSET D
  OBVIOUS
<1> HIDE DEF Bad, Good, After
<1>3. PICK T \in Bad : \A y \in Bad : y \subseteq T => y = T
  BY <1>1, <1>2, LeastSet
<1>4. PICK b \in D : ~Good(b) /\ T = After(b)
  BY <1>3 DEF Bad
<1> DEFINE n == m[b].next
<1>5. f[b] = <<b>> \o f[n] /\ f[NULL] = <<>> /\ b \in Nat
  BY DEF Chains, ChainStep
<1>6. CASE n = NULL
  <2>1. f[n] = <<>>
    BY <1>5, <1>6
  <2>2. <<b>> \o <<>> = <<b>>
    OBVIOUS
  <2>3. f[b] = <<b>>
    BY <1>5, <2>1, <2>2
  <2>4. Follows(m, <<b>>, b)
    BY <1>6 DEF Follows
  <2>5. QED
    BY <1>4, <2>3, <2>4 DEF Good
<1>7. CASE n # NULL
  <2>1. n \in D /\ b < n /\ n \in Nat
    BY <1>7 DEF Forward
  <2>2. After(n) \subseteq T /\ b \in T /\ b \notin After(n)
    <3>1. \A c \in D : c \in Nat
      OBVIOUS
    <3>2. \A c \in D : c >= n => c >= b
      BY <1>5, <2>1, <3>1
    <3>3. b >= b /\ ~(b >= n)
      BY <1>5, <2>1
    <3>4. QED
      BY <1>4, <3>2, <3>3 DEF After
  <2>3. Good(n)
    BY <1>3, <2>1, <2>2 DEF Bad
  <2> DEFINE rest == f[n]
  <2>4. rest \in Seq(D) /\ Len(rest) \in Nat /\ Len(rest) >= 1 /\ rest[1] = n
    BY <2>3 DEF Follows, Good
  <2>5. \A k \in 1 .. Len(rest) :
          IF k = Len(rest) THEN m[rest[k]].next = NULL
          ELSE m[rest[k]].next = rest[k + 1]
    BY <2>3 DEF Follows, Good
  <2> HIDE DEF rest
  <2> DEFINE list == <<b>> \o rest
  <2>6. /\ list \in Seq(D) /\ Len(list) = Len(rest) + 1 /\ list[1] = b
        /\ \A k \in 1 .. Len(rest) : list[k + 1] = rest[k]
    BY <2>4
  <2>7. f[b] = list
    BY <1>5 DEF rest
  <2> HIDE DEF list
  <2>8. ASSUME NEW k \in 1 .. Len(list)
        PROVE  IF k = Len(list) THEN m[list[k]].next = NULL
               ELSE m[list[k]].next = list[k + 1]
    <3>1. CASE k = 1
      <4>1. k # Len(list) /\ list[1 + 1] = rest[1]
        BY <2>4, <2>6, <3>1
      <4>2. QED
        BY <2>4, <2>6, <3>1, <4>1
    <3>2. CASE k # 1
      <4> DEFINE j == k - 1
      <4>1. j \in 1 .. Len(rest) /\ k = j + 1
        <5>1. Len(list) = Len(rest) + 1 /\ Len(rest) \in Nat
          BY <2>4, <2>6
        <5>2. QED
          BY <3>2, <5>1
      <4> HIDE DEF j
      <4>2. list[k] = rest[j] /\ (k = Len(list) <=> j = Len(rest))
        BY <2>4, <2>6, <4>1
      <4>3. j # Len(rest) => list[k + 1] = rest[j + 1]
        <5>1. j # Len(rest) => j + 1 \in 1 .. Len(rest)
          BY <2>4, <4>1
        <5>2. QED
          BY <2>6, <4>1, <5>1
      <4>4. QED
        BY <2>5, <4>1, <4>2, <4>3
    <3>3. QED
      BY <3>1, <3>2
  <2>9. Follows(m, list, b)
    BY <2>4, <2>6, <2>8 DEF Follows
  <2>10. QED
    BY <1>4, <2>6, <2>7, <2>9 DEF Good
<1>8. QED
  BY <1>6, <1>7

-----------------------------------------------------------------------------
(* Where majors and blocks lie.                                            *)

LEMMA Addresses ==
  /\ NULL = 0 /\ NULL \notin Addr /\ Addr \subseteq Nat \ {NULL} /\ IsFiniteSet(Addr)
  /\ \A x \in Addr : x \in Nat /\ x >= PageSize
  /\ HeapPages * PageSize \in Nat
<1>1. NULL = 0 /\ HeapPages * PageSize \in Nat
  BY Sizes DEF NULL
<1>2. Addr = PageSize .. (HeapPages * PageSize + (PageSize - 1))
  <2>1. (HeapPages + 1) * PageSize - 1 = HeapPages * PageSize + (PageSize - 1)
    BY Sizes
  <2>2. QED
    BY <2>1 DEF Addr
<1> DEFINE e == HeapPages * PageSize + (PageSize - 1)
<1>3. e \in Int /\ PageSize \in Int
  BY <1>1, Sizes
<1>4. IsFiniteSet(PageSize .. e)
  BY <1>3, FS_Interval
<1> HIDE DEF e
<1>5. Addr = PageSize .. e
  BY <1>2 DEF e
<1>6. QED
  BY <1>1, <1>3, <1>4, <1>5, Sizes

LEMMA Times ==
  \A i, j, k \in Nat : /\ i * k \in Nat /\ (i + j) * k = i * k + j * k
                       /\ i <= j => i * k <= j * k
<1> TAKE i, j, k \in Nat
<1>1. i * k \in Nat /\ (i + j) * k = i * k + j * k
  OBVIOUS
<1>2. ASSUME i <= j
      PROVE  i * k <= j * k
  <2> DEFINE d == j - i
  <2>1. d \in Nat /\ j = i + d
    BY <1>2
  <2> HIDE DEF d
  <2>2. (i + d) * k = i * k + d * k /\ d * k \in Nat /\ i * k \in Nat
    BY <2>1
  <2>3. QED
    BY <2>1, <2>2
<1>3. QED
  BY <1>1, <1>2

\* A run of pages, as addresses.
Within(x, n) ==
  /\ x \in Nat /\ n \in Nat /\ x >= PageSize /\ n >= PageSize
  /\ x + n <= HeapPages * PageSize + PageSize

LEMMA RunExtent ==
  ASSUME NEW s \in Nat, NEW n \in Nat, n >= 1, PageRun(s, n) \subseteq Pages
  PROVE  /\ s >= 1 /\ s + n <= HeapPages + 1
         /\ Within(s * PageSize, n * PageSize)
         /\ (s * PageSize) \div PageSize = s
         /\ s * PageSize \in Addr
<1>1. s \in PageRun(s, n) /\ s + (n - 1) \in PageRun(s, n)
  BY DEF PageRun
<1>2. s >= 1 /\ s + n <= HeapPages + 1
  BY <1>1, Sizes DEF Pages
<1>3. /\ 1 * PageSize <= s * PageSize /\ 1 * PageSize <= n * PageSize
      /\ s * PageSize \in Nat /\ n * PageSize \in Nat
      /\ (s + n) * PageSize = s * PageSize + n * PageSize
      /\ (s + n) * PageSize <= (HeapPages + 1) * PageSize
      /\ (HeapPages + 1) * PageSize = HeapPages * PageSize + 1 * PageSize
  <2>1. 1 \in Nat /\ s + n \in Nat /\ HeapPages \in Nat /\ HeapPages + 1 \in Nat /\ PageSize \in Nat
    BY Sizes
  <2>2. QED
    BY <1>2, <2>1, Times
<1>4. (s * PageSize) \div PageSize = s
  BY Sizes
<1> DEFINE x == s * PageSize
           y == n * PageSize
           z == HeapPages * PageSize
           w == (s + n) * PageSize
           v == (HeapPages + 1) * PageSize
<1>5. 1 * PageSize = PageSize /\ z \in Nat
  BY Sizes, Addresses
<1>6. /\ PageSize <= x /\ PageSize <= y /\ x \in Nat /\ y \in Nat
      /\ w = x + y /\ w <= v /\ v = z + PageSize
  BY <1>3, <1>5
<1>7. x \in PageSize .. (v - 1)
  <2> HIDE DEF x, y, z, w, v
  <2>1. QED
    BY <1>5, <1>6, Sizes
<1>8. x + y <= z + PageSize
  <2> HIDE DEF x, y, z, w, v
  <2>1. QED
    BY <1>6
<1>9. Within(x, y)
  <2> HIDE DEF x, y
  <2>1. QED
    BY <1>6, <1>8 DEF Within
<1>10. QED
  BY <1>2, <1>4, <1>7, <1>9 DEF Addr

\* Disjoint runs of pages are disjoint runs of addresses.
LEMMA RunsApart ==
  ASSUME NEW s \in Nat, NEW n \in Nat, n >= 1, NEW t \in Nat, NEW m \in Nat, m >= 1,
         PageRun(s, n) \cap PageRun(t, m) = {}
  PROVE  s * PageSize + n * PageSize <= t * PageSize
           \/ t * PageSize + m * PageSize <= s * PageSize
<1>1. s + n <= t \/ t + m <= s
  <2> SUFFICES ASSUME s < t + m, t < s + n
               PROVE  FALSE
    OBVIOUS
  <2>1. s <= t => t \in PageRun(s, n) /\ t \in PageRun(t, m)
    BY DEF PageRun
  <2>2. t <= s => s \in PageRun(s, n) /\ s \in PageRun(t, m)
    BY DEF PageRun
  <2>3. QED
    BY <2>1, <2>2
<1>2. /\ (s + n) * PageSize = s * PageSize + n * PageSize
      /\ (t + m) * PageSize = t * PageSize + m * PageSize
      /\ s + n <= t => (s + n) * PageSize <= t * PageSize
      /\ t + m <= s => (t + m) * PageSize <= s * PageSize
  <2>1. s + n \in Nat /\ t + m \in Nat /\ PageSize \in Nat
    BY Sizes
  <2>2. QED
    BY <2>1, Times
<1>3. QED
  BY <1>1, <1>2

LEMMA MajorExtent ==
  ASSUME NEW mj, NEW us, MajorsTyped(mj), MajorsInv(mj, us), NEW x \in DOMAIN mj
  PROVE  /\ Within(x, mj[x].size) /\ mj[x].size < UINT /\ mj[x].usage <= mj[x].size
         /\ mj[x] \in MajorRec /\ x # NULL
         /\ \A y \in DOMAIN mj :
              x # y => x + mj[x].size <= y \/ y + mj[y].size <= x
<1> DEFINE s(y) == y \div PageSize
<1>1. \A y \in DOMAIN mj :
        /\ y \in Nat /\ y # NULL /\ s(y) \in Nat /\ y = s(y) * PageSize
        /\ mj[y] \in MajorRec /\ mj[y].pages \in Nat /\ mj[y].pages >= 1
        /\ mj[y].size = mj[y].pages * PageSize
        /\ PageRun(s(y), mj[y].pages) \subseteq Pages
  <2> TAKE y \in DOMAIN mj
  <2>1. y \in Addr /\ y \in Nat /\ y # NULL /\ mj[y] \in MajorRec
    BY Addresses DEF MajorsTyped
  <2>2. MajorInv(mj, y)
    BY DEF MajorsInv
  <2>3. y \div PageSize \in Nat
    BY <2>1, Sizes
  <2>4. QED
    BY <2>1, <2>2, <2>3 DEF MajorInv, MajorPages, MajorRec
<1>2. MajorInv(mj, x)
  BY DEF MajorsInv
<1> HIDE DEF s
<1>3. Within(x, mj[x].size)
  BY <1>1, RunExtent
<1>4. ASSUME NEW y \in DOMAIN mj, x # y
      PROVE  x + mj[x].size <= y \/ y + mj[y].size <= x
  <2>1. PageRun(s(x), mj[x].pages) \cap PageRun(s(y), mj[y].pages) = {}
    BY <1>4 DEF MajorsInv, MajorPages, s
  <2> DEFINE i == s(x)
             j == s(y)
             n == mj[x].pages
             m == mj[y].pages
  <2>2. i \in Nat /\ j \in Nat /\ n \in Nat /\ m \in Nat /\ n >= 1 /\ m >= 1
    BY <1>1
  <2>3. x = i * PageSize /\ y = j * PageSize /\ mj[x].size = n * PageSize /\ mj[y].size = m * PageSize
    BY <1>1
  <2> HIDE DEF i, j, n, m
  <2>4. PageRun(i, n) \cap PageRun(j, m) = {}
    BY <2>1 DEF i, j, n, m
  <2>5. QED
    BY <2>2, <2>3, <2>4, RunsApart
<1>5. QED
  BY <1>1, <1>2, <1>3, <1>4 DEF MajorInv

LEMMA MinorFacts ==
  ASSUME NEW mn, MinorsTyped(mn), NEW a \in DOMAIN mn
  PROVE  /\ a \in Addr /\ a \in Nat /\ a # NULL
         /\ mn[a] \in MinorRec
         /\ mn[a].prev \in Nat /\ mn[a].next \in Nat /\ mn[a].block \in Nat
         /\ mn[a].size \in Nat /\ mn[a].req_size \in Nat
         /\ mn[a].magic \in {"MAGIC", "DEAD"}
         /\ End(mn, a) \in Nat /\ End(mn, a) > a /\ End(mn, a) = a + (MinorHdr + mn[a].size)
<1>1. a \in Addr /\ a \in Nat /\ a # NULL /\ mn[a] \in MinorRec
  BY Addresses DEF MinorsTyped
<1>2. QED
  BY <1>1, Sizes DEF MinorRec, End

LEMMA LiveFacts ==
  ASSUME NEW mn, MinorsTyped(mn)
  PROVE  /\ \A a \in LiveIn(mn) : a \in DOMAIN mn
         /\ \A x : \A a \in Own(mn, x) : a \in LiveIn(mn) /\ mn[a].block = x
         /\ \A a \in LiveIn(mn) : a \in Own(mn, mn[a].block)
BY DEF LiveIn, Own

SoundMajors(mj, us) == MajorsTyped(mj) /\ MajorsInv(mj, us)
SoundMinors(mj, mn) == MinorsTyped(mn) /\ MinorsInv(mj, mn)

LEMMA BlocksApart ==
  ASSUME NEW mj, NEW us, NEW mn, SoundMajors(mj, us), SoundMinors(mj, mn),
         NEW a \in LiveIn(mn), NEW b \in LiveIn(mn), a # b
  PROVE  End(mn, a) <= b \/ End(mn, b) <= a
<1>1. /\ a \in Nat /\ b \in Nat /\ End(mn, a) \in Nat /\ End(mn, b) \in Nat
      /\ mn[a].next \in Nat /\ mn[b].next \in Nat
  BY MinorFacts, LiveFacts DEF SoundMinors
<1>2. CASE mn[a].block = mn[b].block
  <2>1. a \in Own(mn, mn[b].block) /\ b \in Own(mn, mn[a].block)
    BY <1>2, LiveFacts DEF SoundMinors
  <2>2. NextInv(mn, a) /\ NextInv(mn, b) /\ NearestInv(mn, a) /\ NearestInv(mn, b)
    BY DEF SoundMinors, MinorsInv
  <2>3. CASE a < b
    <3>1. mn[a].next # NULL /\ mn[a].next <= b
      BY <2>1, <2>2, <2>3 DEF NearestInv
    <3>2. End(mn, a) <= mn[a].next
      BY <2>2, <3>1 DEF NextInv
    <3>3. QED
      BY <1>1, <3>1, <3>2
  <2>4. CASE b < a
    <3>1. mn[b].next # NULL /\ mn[b].next <= a
      BY <2>1, <2>2, <2>4 DEF NearestInv
    <3>2. End(mn, b) <= mn[b].next
      BY <2>2, <3>1 DEF NextInv
    <3>3. QED
      BY <1>1, <3>1, <3>2
  <2>5. QED
    BY <1>1, <2>3, <2>4
<1>3. CASE mn[a].block # mn[b].block
  <2> DEFINE x == mn[a].block
             y == mn[b].block
  <2>1. BlockInv(mj, mn, a) /\ BlockInv(mj, mn, b)
    BY DEF SoundMinors, MinorsInv
  <2>2. /\ x \in DOMAIN mj /\ a >= x + MajorHdr /\ End(mn, a) <= x + mj[x].size
        /\ y \in DOMAIN mj /\ b >= y + MajorHdr /\ End(mn, b) <= y + mj[y].size
    BY <2>1 DEF BlockInv
  <2> HIDE DEF x, y
  <2>3. x # y
    BY <1>3 DEF x, y
  <2>4. x + mj[x].size <= y \/ y + mj[y].size <= x
    BY <2>2, <2>3, MajorExtent DEF SoundMajors
  <2>5. x \in Nat /\ y \in Nat /\ mj[x].size \in Nat /\ mj[y].size \in Nat
    BY <2>2, MajorExtent DEF SoundMajors, Within
  <2>6. QED
    BY <1>1, <2>2, <2>4, <2>5, Sizes
<1>4. QED
  BY <1>2, <1>3

-----------------------------------------------------------------------------
(* A gap, and a block that is put into it.                                 *)

\* Between before and after in major x, from a up to e, there is nothing.
Gap(mj, mn, x, before, after, a, e) ==
  /\ x \in DOMAIN mj /\ a \in Nat /\ e \in Nat /\ a < e
  /\ IF before = NULL
     THEN after = mj[x].first /\ x + MajorHdr <= a
     ELSE before \in Own(mn, x) /\ after = mn[before].next /\ End(mn, before) <= a
  /\ IF after = NULL THEN e <= x + mj[x].size ELSE e <= after

LEMMA GapPlace ==
  ASSUME NEW mj, NEW us, NEW mn, SoundMajors(mj, us), SoundMinors(mj, mn),
         NEW x, NEW before, NEW after, NEW a, NEW e, Gap(mj, mn, x, before, after, a, e)
  PROVE  /\ after # NULL => /\ after \in Own(mn, x)
                            /\ mn[after].prev = before
         /\ x + MajorHdr <= a /\ e <= x + mj[x].size
         /\ \A b \in Own(mn, x) :
              b = before \/ b = after \/ (before # NULL /\ b < before) \/ (after # NULL /\ after < b)
<1>1. /\ x \in DOMAIN mj /\ a \in Nat /\ e \in Nat /\ a < e
      /\ FirstInv(mj, mn, x)
      /\ x \in Nat /\ mj[x].size \in Nat
  BY MajorExtent DEF Gap, SoundMajors, SoundMinors, MinorsInv, Within
<1>2. ASSUME NEW b \in Own(mn, x)
      PROVE  /\ b \in Nat /\ End(mn, b) \in Nat /\ b < End(mn, b)
             /\ x + MajorHdr <= b /\ End(mn, b) <= x + mj[x].size
             /\ NextInv(mn, b) /\ PrevInv(mj, mn, b) /\ NearestInv(mn, b)
             /\ mn[b].block = x /\ mn[b].next \in Nat /\ mn[b].prev \in Nat
  <2>1. b \in LiveIn(mn) /\ b \in DOMAIN mn /\ mn[b].block = x
    BY LiveFacts DEF SoundMinors
  <2>2. BlockInv(mj, mn, b) /\ NextInv(mn, b) /\ PrevInv(mj, mn, b) /\ NearestInv(mn, b)
    BY <2>1 DEF SoundMinors, MinorsInv
  <2>3. QED
    BY <2>1, <2>2, MinorFacts DEF BlockInv, SoundMinors
<1>3. after # NULL => after \in Own(mn, x) /\ mn[after].prev = before
  <2>1. CASE before = NULL
    BY <1>1, <2>1 DEF Gap, FirstInv
  <2>2. CASE before # NULL
    <3>1. before \in Own(mn, x) /\ after = mn[before].next
      BY <2>2 DEF Gap
    <3>2. NextInv(mn, before) /\ mn[before].block = x
      BY <1>2, <3>1
    <3>3. QED
      BY <3>1, <3>2 DEF NextInv
  <2>3. QED
    BY <2>1, <2>2
<1>4. x + MajorHdr <= a
  <2>1. CASE before = NULL
    BY <2>1 DEF Gap
  <2>2. CASE before # NULL
    <3>1. before \in Own(mn, x) /\ End(mn, before) <= a
      BY <2>2 DEF Gap
    <3>2. QED
      BY <1>1, <1>2, <3>1, Sizes
  <2>3. QED
    BY <2>1, <2>2
<1>5. e <= x + mj[x].size
  <2>1. CASE after = NULL
    BY <2>1 DEF Gap
  <2>2. CASE after # NULL
    <3>1. e <= after
      BY <2>2 DEF Gap
    <3>2. QED
      BY <1>1, <1>2, <1>3, <2>2, <3>1
  <2>3. QED
    BY <2>1, <2>2
<1>6. ASSUME NEW b \in Own(mn, x), b # before, b # after
      PROVE  (before # NULL /\ b < before) \/ (after # NULL /\ after < b)
  <2>1. CASE before = NULL
    <3>1. after = mj[x].first
      BY <2>1 DEF Gap
    <3>2. after # NULL
      BY <1>1, <3>1 DEF FirstInv
    <3>3. after \in Own(mn, x) /\ mn[after].prev = NULL
      BY <1>3, <2>1, <3>2
    <3>4. NearestInv(mn, after) /\ mn[after].block = x /\ after \in Nat /\ b \in Nat
      BY <1>2, <3>3
    <3>5. ~(b < after)
      BY <3>3, <3>4 DEF NearestInv
    <3>6. QED
      BY <1>6, <3>2, <3>4, <3>5
  <2>2. CASE before # NULL
    <3>1. before \in Own(mn, x) /\ after = mn[before].next
      BY <2>2 DEF Gap
    <3>2. NearestInv(mn, before) /\ mn[before].block = x /\ before \in Nat /\ b \in Nat /\ after \in Nat
      BY <1>2, <3>1
    <3>3. before < b => after # NULL /\ after <= b
      BY <3>1, <3>2 DEF NearestInv
    <3>4. QED
      BY <1>6, <2>2, <3>2, <3>3
  <2>3. QED
    BY <2>1, <2>2
<1>7. QED
  BY <1>3, <1>4, <1>5, <1>6

\* Nothing of a live block lies in the gap.
LEMMA GapIsFree ==
  ASSUME NEW mj, NEW us, NEW mn, SoundMajors(mj, us), SoundMinors(mj, mn),
         NEW x, NEW before, NEW after, NEW a, NEW e, Gap(mj, mn, x, before, after, a, e),
         NEW b \in LiveIn(mn)
  PROVE  /\ End(mn, b) <= a \/ e <= b
         /\ b # a
         /\ mn[b].block = x /\ b < a => before # NULL /\ b <= before
         /\ mn[b].block = x /\ a < b => after # NULL /\ after <= b
<1>1. /\ b \in Nat /\ End(mn, b) \in Nat /\ b < End(mn, b) /\ BlockInv(mj, mn, b)
      /\ x \in DOMAIN mj /\ a \in Nat /\ e \in Nat /\ a < e /\ x \in Nat /\ mj[x].size \in Nat
  BY MinorFacts, LiveFacts, MajorExtent
  DEF Gap, SoundMajors, SoundMinors, MinorsInv, Within
<1>2. x + MajorHdr <= a /\ e <= x + mj[x].size
  BY GapPlace
<1>3. CASE mn[b].block # x
  <2> DEFINE y == mn[b].block
  <2>1. y \in DOMAIN mj /\ b >= y + MajorHdr /\ End(mn, b) <= y + mj[y].size /\ y # x
    BY <1>1, <1>3 DEF BlockInv
  <2> HIDE DEF y
  <2>2. y \in Nat /\ mj[y].size \in Nat /\ (x + mj[x].size <= y \/ y + mj[y].size <= x)
    BY <1>1, <2>1, MajorExtent DEF SoundMajors, Within
  <2>3. End(mn, b) <= a \/ e <= b
    BY <1>1, <1>2, <2>1, <2>2, Sizes
  <2>4. QED
    BY <1>1, <1>3, <2>3
<1>4. CASE mn[b].block = x
  <2>1. b \in Own(mn, x)
    BY <1>4, LiveFacts DEF SoundMinors
  <2>2. b = before \/ b = after \/ (before # NULL /\ b < before) \/ (after # NULL /\ after < b)
    BY <2>1, GapPlace
  <2>3. ASSUME before # NULL, b = before \/ b < before
        PROVE  End(mn, b) <= a
    <3>1. before \in Own(mn, x) /\ End(mn, before) <= a
      BY <2>3 DEF Gap
    <3>2. before \in LiveIn(mn) /\ before \in Nat /\ End(mn, before) \in Nat /\ before < End(mn, before)
      BY <3>1, LiveFacts, MinorFacts DEF SoundMinors
    <3>3. b # before => End(mn, b) <= before
      <4> SUFFICES ASSUME b # before
                   PROVE  End(mn, b) <= before
        OBVIOUS
      <4>1. End(mn, b) <= before \/ End(mn, before) <= b
        BY <3>2, BlocksApart
      <4>2. QED
        BY <1>1, <2>3, <3>2, <4>1
    <3>4. QED
      BY <1>1, <3>1, <3>2, <3>3
  <2>4. ASSUME after # NULL, b = after \/ after < b
        PROVE  e <= b
    <3>1. e <= after /\ after \in Own(mn, x)
      BY <2>4, GapPlace DEF Gap
    <3>2. after \in Nat
      BY <3>1, LiveFacts, MinorFacts DEF SoundMinors
    <3>3. QED
      BY <1>1, <2>4, <3>1, <3>2
  <2>5. b \in Nat /\ b # NULL
    BY LiveFacts, MinorFacts DEF SoundMinors
  <2>6. CASE before # NULL /\ (b = before \/ b < before)
    <3>1. End(mn, b) <= a /\ before \in Nat
      BY <2>3, <2>6, LiveFacts, MinorFacts DEF SoundMinors, Gap
    <3>2. QED
      BY <1>1, <2>6, <3>1
  <2>7. CASE after # NULL /\ (b = after \/ after < b)
    <3>1. e <= b /\ after \in Nat
      BY <2>4, <2>7, GapPlace, LiveFacts, MinorFacts DEF SoundMinors
    <3>2. QED
      BY <1>1, <2>7, <3>1
  <2>8. QED
    BY <2>2, <2>5, <2>6, <2>7
<1>5. QED
  BY <1>3, <1>4

\* The lists with a new block a between before and after.
Inserted(mj, mn, mj2, mn2, x, before, after, a) ==
  /\ DOMAIN mj2 = DOMAIN mj
  /\ \A y \in DOMAIN mj : /\ mj2[y].size = mj[y].size
                          /\ mj2[y].first = IF y = x /\ before = NULL THEN a ELSE mj[y].first
  /\ LiveIn(mn2) = LiveIn(mn) \cup {a}
  /\ mn2[a].block = x /\ mn2[a].prev = before /\ mn2[a].next = after
  /\ \A b \in LiveIn(mn) :
       /\ mn2[b].block = mn[b].block /\ mn2[b].size = mn[b].size
       /\ mn2[b].req_size = mn[b].req_size
       /\ mn2[b].next = IF b = before THEN a ELSE mn[b].next
       /\ mn2[b].prev = IF b = after THEN a ELSE mn[b].prev

LEMMA InsertKeepsLists ==
  ASSUME NEW mj, NEW us, NEW mn, SoundMajors(mj, us), SoundMinors(mj, mn),
         NEW x, NEW before, NEW after, NEW a, NEW e, Gap(mj, mn, x, before, after, a, e),
         NEW mj2, NEW mn2, Inserted(mj, mn, mj2, mn2, x, before, after, a),
         MinorsTyped(mn2), e = End(mn2, a), mn2[a].req_size + BlockCost <= mn2[a].size
  PROVE  MinorsInv(mj2, mn2)
<1>1. /\ DOMAIN mj2 = DOMAIN mj /\ x \in DOMAIN mj
      /\ \A y \in DOMAIN mj : /\ mj2[y].size = mj[y].size
                              /\ mj2[y].first = IF y = x /\ before = NULL THEN a ELSE mj[y].first
  BY DEF Inserted, Gap
<1>2. /\ LiveIn(mn2) = LiveIn(mn) \cup {a}
      /\ mn2[a].block = x /\ mn2[a].prev = before /\ mn2[a].next = after
  BY DEF Inserted
<1>3. \A b \in LiveIn(mn) :
        /\ mn2[b].block = mn[b].block /\ mn2[b].size = mn[b].size
        /\ mn2[b].req_size = mn[b].req_size
        /\ mn2[b].next = IF b = before THEN a ELSE mn[b].next
        /\ mn2[b].prev = IF b = after THEN a ELSE mn[b].prev
        /\ End(mn2, b) = End(mn, b)
  BY DEF Inserted, End
<1>4. \A y : Own(mn2, y) = IF y = x THEN Own(mn, y) \cup {a} ELSE Own(mn, y)
  BY <1>2, <1>3 DEF Own
<1>5. /\ before # NULL => before \in Own(mn, x) /\ End(mn, before) <= a
      /\ after # NULL => after \in Own(mn, x) /\ mn[after].prev = before /\ e <= after
      /\ IF before = NULL THEN after = mj[x].first ELSE after = mn[before].next
      /\ a \in Nat /\ a < e /\ x + MajorHdr <= a /\ e <= x + mj[x].size
      /\ a \notin LiveIn(mn) /\ a # NULL
  <2>1. a \in LiveIn(mn2)
    BY <1>2
  <2>2. a # NULL
    BY <2>1, LiveFacts, MinorFacts
  <2>3. a \notin LiveIn(mn)
    BY GapIsFree
  <2>4. /\ after # NULL => after \in Own(mn, x) /\ mn[after].prev = before
        /\ x + MajorHdr <= a /\ e <= x + mj[x].size
    BY GapPlace
  <2>5. QED
    BY <2>2, <2>3, <2>4 DEF Gap
<1>6. \A b \in LiveIn(mn) : /\ BlockInv(mj, mn, b) /\ NextInv(mn, b)
                            /\ PrevInv(mj, mn, b) /\ NearestInv(mn, b)
                            /\ b \in Own(mn, mn[b].block) /\ b \in Nat /\ b # NULL
  BY LiveFacts, MinorFacts DEF SoundMinors, MinorsInv
<1>7. BlockInv(mj2, mn2, a) /\ NextInv(mn2, a) /\ PrevInv(mj2, mn2, a)
  <2>1. BlockInv(mj2, mn2, a)
    BY <1>1, <1>2, <1>5 DEF BlockInv
  <2>2. NextInv(mn2, a)
    BY <1>2, <1>3, <1>4, <1>5 DEF NextInv, Own
  <2>3. PrevInv(mj2, mn2, a)
    BY <1>1, <1>2, <1>3, <1>4, <1>5 DEF PrevInv, Own
  <2>4. QED
    BY <2>1, <2>2, <2>3
<1>8. NearestInv(mn2, a)
  <2> SUFFICES ASSUME NEW c \in Own(mn, x)
               PROVE  /\ a < c => after # NULL /\ after <= c
                      /\ c < a => before # NULL /\ c <= before
    BY <1>2, <1>4, <1>5 DEF NearestInv
  <2>1. c \in LiveIn(mn) /\ mn[c].block = x
    BY DEF Own
  <2>2. QED
    BY <2>1, GapIsFree
<1>9. ASSUME NEW b \in LiveIn(mn)
      PROVE  BlockInv(mj2, mn2, b) /\ NextInv(mn2, b) /\ PrevInv(mj2, mn2, b)
  <2> DEFINE y == mn[b].block
  <2>1. BlockInv(mj2, mn2, b)
    BY <1>1, <1>3, <1>6 DEF BlockInv
  <2>2. NextInv(mn2, b)
    <3>1. CASE b = before
      <4>1. mn2[b].next = a /\ mn2[b].block = x /\ b \in Own(mn, x)
        <5>1. b # NULL
          BY <1>6
        <5>2. b \in Own(mn, x) /\ mn[b].block = x
          BY <1>5, <3>1, <5>1 DEF Own
        <5>3. QED
          BY <1>3, <3>1, <5>2
      <4>2. a \in Own(mn2, x) /\ mn2[a].prev = b /\ End(mn2, b) <= a
        BY <1>2, <1>3, <1>4, <1>5, <1>6, <3>1
      <4>3. QED
        BY <4>1, <4>2 DEF NextInv
    <3>2. CASE b # before
      <4>1. mn2[b].next = mn[b].next /\ mn2[b].block = y
        BY <1>3, <3>2
      <4> DEFINE n == mn[b].next
      <4>2. CASE n # NULL
        <5>1. n \in Own(mn, y) /\ mn[n].prev = b /\ End(mn, b) <= n
          BY <1>6, <4>2 DEF NextInv
        <5>2. n \in LiveIn(mn) /\ n # after
          BY <1>5, <3>2, <4>2, <5>1 DEF Own
        <5>3. mn2[n].prev = b /\ n \in Own(mn2, y) /\ End(mn2, b) = End(mn, b)
          BY <1>3, <1>4, <5>1, <5>2
        <5>4. QED
          BY <4>1, <5>1, <5>3 DEF NextInv
      <4>3. CASE n = NULL
        BY <4>1, <4>3 DEF NextInv
      <4>4. QED
        BY <4>2, <4>3
    <3>3. QED
      BY <3>1, <3>2
  <2>3. PrevInv(mj2, mn2, b)
    <3>1. CASE b = after
      <4>1. mn2[b].prev = a /\ mn2[b].block = x /\ b \in Own(mn, x)
        <5>1. b # NULL
          BY <1>6
        <5>2. b \in Own(mn, x) /\ mn[b].block = x
          BY <1>5, <3>1, <5>1 DEF Own
        <5>3. QED
          BY <1>3, <3>1, <5>2
      <4>2. a \in Own(mn2, x) /\ mn2[a].next = b
        BY <1>2, <1>4, <3>1
      <4>3. QED
        BY <1>5, <4>1, <4>2 DEF PrevInv
    <3>2. CASE b # after
      <4>1. mn2[b].prev = mn[b].prev /\ mn2[b].block = y
        BY <1>3, <3>2
      <4> DEFINE q == mn[b].prev
      <4>2. CASE q # NULL
        <5>1. q \in Own(mn, y) /\ mn[q].next = b
          BY <1>6, <4>2 DEF PrevInv
        <5>2. q \in LiveIn(mn) /\ q # before
          BY <1>5, <3>2, <4>2, <5>1 DEF Own
        <5>3. mn2[q].next = b /\ q \in Own(mn2, y)
          BY <1>3, <1>4, <5>1, <5>2
        <5>4. QED
          BY <4>1, <4>2, <5>3 DEF PrevInv
      <4>3. CASE q = NULL
        <5>1. mj[y].first = b /\ y \in DOMAIN mj
          BY <1>6, <4>3 DEF PrevInv, BlockInv
        <5>2. ~(y = x /\ before = NULL)
          BY <1>5, <3>2, <5>1
        <5>3. mj2[y].first = b
          BY <1>1, <5>1, <5>2
        <5>4. QED
          BY <4>1, <4>3, <5>3 DEF PrevInv
      <4>4. QED
        BY <4>2, <4>3
    <3>3. QED
      BY <3>1, <3>2
  <2>4. QED
    BY <2>1, <2>2, <2>3
<1>10. ASSUME NEW b \in LiveIn(mn)
       PROVE  NearestInv(mn2, b)
  <2> DEFINE y == mn[b].block
  <2>1. mn2[b].block = y
    BY <1>3
  <2>2. ASSUME NEW c \in Own(mn, y)
        PROVE  /\ b < c => mn2[b].next # NULL /\ mn2[b].next <= c
               /\ c < b => mn2[b].prev # NULL /\ c <= mn2[b].prev
    <3>1. /\ b < c => mn[b].next # NULL /\ mn[b].next <= c
          /\ c < b => mn[b].prev # NULL /\ c <= mn[b].prev
      BY <1>6 DEF NearestInv
    <3>2. c \in LiveIn(mn) /\ mn[c].block = y /\ c \in Nat /\ b \in Nat
      BY <1>6 DEF Own
    <3>3. CASE b < c /\ b = before
      <4>1. mn2[b].next = a /\ y = x /\ after = mn[b].next
        BY <1>3, <1>5, <3>3, LiveFacts, MinorFacts DEF SoundMinors
      <4>2. a <= c
        <5>1. a < e /\ e <= after /\ after <= c /\ after \in Nat /\ e \in Nat
          BY <1>5, <3>1, <3>3, <4>1, LiveFacts, MinorFacts DEF SoundMinors, Gap
        <5>2. QED
          BY <1>5, <3>2, <5>1
      <4>3. QED
        BY <1>5, <3>2, <3>3, <4>1, <4>2
    <3>4. CASE c < b /\ b = after
      <4>1. mn2[b].prev = a /\ y = x /\ before = mn[b].prev
        BY <1>3, <1>5, <3>4, LiveFacts, MinorFacts DEF SoundMinors
      <4>2. c <= a
        <5>1. before \in Own(mn, x) /\ End(mn, before) <= a /\ c <= before
          BY <1>5, <3>1, <3>4, <4>1
        <5>2. before \in Nat /\ End(mn, before) \in Nat /\ before < End(mn, before)
          BY <5>1, LiveFacts, MinorFacts DEF SoundMinors
        <5>3. QED
          BY <1>5, <3>2, <5>1, <5>2
      <4>3. QED
        BY <1>5, <3>2, <3>4, <4>1, <4>2
    <3>5. CASE b < c /\ b # before
      BY <1>3, <3>1, <3>2, <3>5
    <3>6. CASE c < b /\ b # after
      BY <1>3, <3>1, <3>2, <3>6
    <3>7. QED
      BY <3>2, <3>3, <3>4, <3>5, <3>6
  <2>3. ASSUME y = x
        PROVE  /\ b < a => mn2[b].next # NULL /\ mn2[b].next <= a
               /\ a < b => mn2[b].prev # NULL /\ a <= mn2[b].prev
    <3>1. /\ b < a => before # NULL /\ b <= before
          /\ a < b => after # NULL /\ after <= b
      BY <2>3, GapIsFree
    <3>2. CASE b < a
      <4>1. before \in Own(mn, x) /\ before \in Nat /\ before # NULL /\ b <= before /\ b \in Nat
        BY <1>5, <1>6, <3>1, <3>2, LiveFacts, MinorFacts DEF SoundMinors
      <4>2. CASE b = before
        BY <1>3, <1>5, <3>2, <4>1, <4>2
      <4>3. CASE b # before
        <5>1. b < before /\ mn2[b].next = mn[b].next
          BY <1>3, <4>1, <4>3
        <5>2. mn[b].next # NULL /\ mn[b].next <= before
          BY <1>6, <2>3, <4>1, <5>1 DEF NearestInv
        <5>3. mn[b].next \in Nat /\ End(mn, before) <= a /\ before < End(mn, before) /\ End(mn, before) \in Nat
          BY <1>5, <4>1, LiveFacts, MinorFacts DEF SoundMinors
        <5>4. QED
          BY <1>5, <3>2, <4>1, <5>1, <5>2, <5>3
      <4>4. QED
        BY <4>2, <4>3
    <3>3. CASE a < b
      <4>1. after \in Own(mn, x) /\ after \in Nat /\ after # NULL /\ after <= b /\ b \in Nat
        BY <1>5, <1>6, <3>1, <3>3, LiveFacts, MinorFacts DEF SoundMinors
      <4>2. CASE b = after
        BY <1>3, <1>5, <3>3, <4>1, <4>2
      <4>3. CASE b # after
        <5>1. after < b /\ mn2[b].prev = mn[b].prev
          BY <1>3, <4>1, <4>3
        <5>2. mn[b].prev # NULL /\ after <= mn[b].prev
          BY <1>6, <2>3, <4>1, <5>1 DEF NearestInv
        <5>3. mn[b].prev \in Nat /\ e <= after /\ e \in Nat
          BY <1>5, <4>1, LiveFacts, MinorFacts DEF SoundMinors, Gap
        <5>4. QED
          BY <1>5, <3>3, <4>1, <5>1, <5>2, <5>3
      <4>4. QED
        BY <4>2, <4>3
    <3>4. QED
      BY <1>5, <1>6, <3>2, <3>3
  <2>4. QED
    BY <1>4, <2>1, <2>2, <2>3 DEF NearestInv
<1>11. ASSUME NEW y \in DOMAIN mj2
       PROVE  FirstInv(mj2, mn2, y)
  <2>1. y \in DOMAIN mj /\ FirstInv(mj, mn, y)
    BY <1>1 DEF SoundMinors, MinorsInv
  <2>2. CASE y = x /\ before = NULL
    <3>1. mj2[y].first = a /\ a \in Own(mn2, y) /\ mn2[a].prev = NULL
      BY <1>1, <1>2, <1>4, <2>1, <2>2
    <3>2. QED
      BY <1>5, <3>1 DEF FirstInv
  <2>3. CASE ~(y = x /\ before = NULL)
    <3>1. mj2[y].first = mj[y].first
      BY <1>1, <2>1, <2>3
    <3>2. CASE mj[y].first = NULL
      <4>1. Own(mn, y) = {}
        BY <2>1, <3>2 DEF FirstInv
      <4>2. y # x
        BY <1>5, <2>3, <4>1
      <4>3. QED
        BY <1>4, <3>1, <3>2, <4>1, <4>2 DEF FirstInv
    <3>3. CASE mj[y].first # NULL
      <4> DEFINE f == mj[y].first
      <4>1. f \in Own(mn, y) /\ mn[f].prev = NULL
        BY <2>1, <3>3 DEF FirstInv
      <4>2. f \in LiveIn(mn) /\ mn[f].block = y
        BY <4>1 DEF Own
      <4>3. f # after
        BY <1>5, <2>3, <3>3, <4>1, <4>2 DEF Own
      <4>4. mn2[f].prev = NULL /\ f \in Own(mn2, y)
        BY <1>3, <1>4, <4>1, <4>2, <4>3
      <4>5. QED
        BY <3>1, <3>3, <4>4 DEF FirstInv
    <3>4. QED
      BY <3>2, <3>3
  <2>4. QED
    BY <2>2, <2>3
<1>12. QED
  BY <1>2, <1>7, <1>8, <1>9, <1>10, <1>11 DEF MinorsInv

-----------------------------------------------------------------------------
(* A block that is taken out.                                              *)

Removed(mj, mn, mj2, mn2, x, before, after, a) ==
  /\ a \in LiveIn(mn)
  /\ mn[a].block = x /\ mn[a].prev = before /\ mn[a].next = after
  /\ DOMAIN mj2 = DOMAIN mj
  /\ \A y \in DOMAIN mj : /\ mj2[y].size = mj[y].size
                          /\ mj2[y].first = IF y = x /\ before = NULL THEN after ELSE mj[y].first
  /\ LiveIn(mn2) = LiveIn(mn) \ {a}
  /\ \A b \in LiveIn(mn2) :
       /\ mn2[b].block = mn[b].block /\ mn2[b].size = mn[b].size
       /\ mn2[b].req_size = mn[b].req_size
       /\ mn2[b].next = IF b = before THEN after ELSE mn[b].next
       /\ mn2[b].prev = IF b = after THEN before ELSE mn[b].prev

LEMMA RemoveKeepsLists ==
  ASSUME NEW mj, NEW mn, SoundMinors(mj, mn),
         NEW x, NEW before, NEW after, NEW a, NEW mj2, NEW mn2,
         Removed(mj, mn, mj2, mn2, x, before, after, a), MinorsTyped(mn2)
  PROVE  MinorsInv(mj2, mn2)
<1>1. /\ DOMAIN mj2 = DOMAIN mj
      /\ \A y \in DOMAIN mj : /\ mj2[y].size = mj[y].size
                              /\ mj2[y].first = IF y = x /\ before = NULL THEN after ELSE mj[y].first
  BY DEF Removed
<1>2. /\ a \in LiveIn(mn) /\ LiveIn(mn2) = LiveIn(mn) \ {a}
      /\ mn[a].block = x /\ mn[a].prev = before /\ mn[a].next = after
  BY DEF Removed
<1>3. \A b \in LiveIn(mn2) :
        /\ mn2[b].block = mn[b].block /\ mn2[b].size = mn[b].size
        /\ mn2[b].req_size = mn[b].req_size
        /\ mn2[b].next = IF b = before THEN after ELSE mn[b].next
        /\ mn2[b].prev = IF b = after THEN before ELSE mn[b].prev
        /\ End(mn2, b) = End(mn, b)
  BY DEF Removed, End
<1>4. \A y : Own(mn2, y) = Own(mn, y) \ {a}
  BY <1>2, <1>3 DEF Own
<1>5. \A b \in LiveIn(mn) : /\ BlockInv(mj, mn, b) /\ NextInv(mn, b)
                            /\ PrevInv(mj, mn, b) /\ NearestInv(mn, b)
                            /\ b \in Own(mn, mn[b].block) /\ b \in Nat /\ b # NULL
                            /\ mn[b].next \in Nat /\ mn[b].prev \in Nat
                            /\ End(mn, b) \in Nat /\ b < End(mn, b)
  BY LiveFacts, MinorFacts DEF SoundMinors, MinorsInv
<1>6. /\ a \in Own(mn, x) /\ a \in Nat /\ a # NULL
      /\ before # NULL => before \in Own(mn, x) /\ mn[before].next = a
      /\ before = NULL => mj[x].first = a
      /\ after # NULL => after \in Own(mn, x) /\ mn[after].prev = a /\ End(mn, a) <= after
      /\ \A c \in Own(mn, x) : /\ a < c => after # NULL /\ after <= c
                               /\ c < a => before # NULL /\ c <= before
  BY <1>2, <1>5 DEF PrevInv, NextInv, NearestInv
<1>7. /\ before # NULL => before \in LiveIn(mn) /\ before \in Nat
      /\ after # NULL => after \in LiveIn(mn) /\ after \in Nat
      /\ before # a /\ after # a
  <2>1. before # NULL => before \in LiveIn(mn) /\ before \in Nat
    BY <1>5, <1>6 DEF Own
  <2>2. after # NULL => after \in LiveIn(mn) /\ after \in Nat
    BY <1>5, <1>6 DEF Own
  <2>3. after # a
    BY <1>2, <1>5, <1>6, <2>2
  <2>4. before # a
    BY <1>2, <1>6, <2>3
  <2>5. QED
    BY <2>1, <2>2, <2>3, <2>4
<1>8. ASSUME NEW b \in LiveIn(mn2)
      PROVE  BlockInv(mj2, mn2, b) /\ NextInv(mn2, b) /\ PrevInv(mj2, mn2, b)
  <2> DEFINE y == mn[b].block
  <2>0. b \in LiveIn(mn) /\ b # a
    BY <1>2
  <2>1. BlockInv(mj2, mn2, b)
    BY <1>1, <1>3, <1>5, <2>0 DEF BlockInv
  <2>2. NextInv(mn2, b)
    <3>1. CASE b = before
      <4>1. mn2[b].next = after /\ mn2[b].block = x
        BY <1>3, <1>5, <1>6, <2>0, <3>1 DEF Own
      <4>2. CASE after # NULL
        <5>1. after \in Own(mn2, x) /\ mn2[after].prev = b
          BY <1>2, <1>3, <1>4, <1>6, <1>7, <3>1, <4>2
        <5>2. End(mn2, b) <= after
          <6>1. End(mn, b) <= a
            BY <1>5, <1>6, <2>0, <3>1 DEF NextInv
          <6>2. a < End(mn, a) /\ End(mn, a) <= after /\ End(mn, a) \in Nat /\ End(mn, b) \in Nat
            BY <1>2, <1>5, <1>6, <2>0, <4>2
          <6>3. QED
            BY <1>3, <1>6, <1>7, <4>2, <6>1, <6>2
        <5>3. QED
          BY <4>1, <5>1, <5>2 DEF NextInv
      <4>3. CASE after = NULL
        BY <4>1, <4>3 DEF NextInv
      <4>4. QED
        BY <4>2, <4>3
    <3>2. CASE b # before
      <4>1. mn2[b].next = mn[b].next /\ mn2[b].block = y
        BY <1>3, <3>2
      <4> DEFINE n == mn[b].next
      <4>2. CASE n # NULL
        <5>1. n \in Own(mn, y) /\ mn[n].prev = b /\ End(mn, b) <= n
          BY <1>5, <2>0, <4>2 DEF NextInv
        <5>2. n # a /\ n # after
          BY <1>2, <1>6, <2>0, <3>2, <4>2, <5>1
        <5>3. n \in LiveIn(mn2) /\ n \in Own(mn2, y)
          BY <1>2, <1>4, <5>1, <5>2 DEF Own
        <5>4. mn2[n].prev = b /\ End(mn2, b) = End(mn, b)
          BY <1>3, <5>1, <5>2, <5>3
        <5>5. QED
          BY <4>1, <5>1, <5>3, <5>4 DEF NextInv
      <4>3. CASE n = NULL
        BY <4>1, <4>3 DEF NextInv
      <4>4. QED
        BY <4>2, <4>3
    <3>3. QED
      BY <3>1, <3>2
  <2>3. PrevInv(mj2, mn2, b)
    <3>1. CASE b = after
      <4>1. mn2[b].prev = before /\ mn2[b].block = x
        BY <1>3, <1>5, <1>6, <2>0, <3>1 DEF Own
      <4>2. CASE before # NULL
        <5>1. before \in Own(mn2, x) /\ mn2[before].next = b
          BY <1>2, <1>3, <1>4, <1>6, <1>7, <3>1, <4>2
        <5>2. QED
          BY <4>1, <4>2, <5>1 DEF PrevInv
      <4>3. CASE before = NULL
        <5>1. x \in DOMAIN mj
          BY <1>2, <1>5 DEF BlockInv
        <5>2. mj2[x].first = b
          BY <1>1, <3>1, <4>3, <5>1
        <5>3. QED
          BY <4>1, <4>3, <5>2 DEF PrevInv
      <4>4. QED
        BY <4>2, <4>3
    <3>2. CASE b # after
      <4>1. mn2[b].prev = mn[b].prev /\ mn2[b].block = y
        BY <1>3, <3>2
      <4> DEFINE q == mn[b].prev
      <4>2. CASE q # NULL
        <5>1. q \in Own(mn, y) /\ mn[q].next = b
          BY <1>5, <2>0, <4>2 DEF PrevInv
        <5>2. q # a /\ q # before
          BY <1>2, <1>6, <2>0, <3>2, <4>2, <5>1
        <5>3. q \in LiveIn(mn2) /\ q \in Own(mn2, y)
          BY <1>2, <1>4, <5>1, <5>2 DEF Own
        <5>4. mn2[q].next = b
          BY <1>3, <5>1, <5>2, <5>3
        <5>5. QED
          BY <4>1, <4>2, <5>3, <5>4 DEF PrevInv
      <4>3. CASE q = NULL
        <5>1. mj[y].first = b /\ y \in DOMAIN mj
          BY <1>5, <2>0, <4>3 DEF PrevInv, BlockInv
        <5>2. ~(y = x /\ before = NULL)
          BY <1>6, <2>0, <5>1
        <5>3. mj2[y].first = b
          BY <1>1, <5>1, <5>2
        <5>4. QED
          BY <4>1, <4>3, <5>3 DEF PrevInv
      <4>4. QED
        BY <4>2, <4>3
    <3>3. QED
      BY <3>1, <3>2
  <2>4. QED
    BY <2>1, <2>2, <2>3
<1>9. ASSUME NEW b \in LiveIn(mn2)
      PROVE  NearestInv(mn2, b)
  <2> DEFINE y == mn[b].block
  <2>1. b \in LiveIn(mn) /\ b # a /\ mn2[b].block = y
    BY <1>2, <1>3
  <2> SUFFICES ASSUME NEW c \in Own(mn, y), c # a
               PROVE  /\ b < c => mn2[b].next # NULL /\ mn2[b].next <= c
                      /\ c < b => mn2[b].prev # NULL /\ c <= mn2[b].prev
    BY <1>4, <2>1 DEF NearestInv
  <2>2. /\ b < c => mn[b].next # NULL /\ mn[b].next <= c
        /\ c < b => mn[b].prev # NULL /\ c <= mn[b].prev
        /\ b \in Nat /\ c \in Nat
    BY <1>5, <2>1 DEF NearestInv, Own
  <2>3. CASE b < c
    <3>1. CASE b = before
      <4>1. y = x /\ mn[b].next = a /\ mn2[b].next = after
        BY <1>3, <1>5, <1>6, <2>1, <3>1 DEF Own
      <4>2. a < c
        BY <1>6, <2>2, <2>3, <4>1
      <4>3. QED
        BY <1>6, <2>2, <2>3, <4>1, <4>2
    <3>2. CASE b # before
      BY <1>3, <2>2, <2>3, <3>2
    <3>3. QED
      BY <3>1, <3>2
  <2>4. CASE c < b
    <3>1. CASE b = after
      <4>1. y = x /\ mn[b].prev = a /\ mn2[b].prev = before
        BY <1>3, <1>5, <1>6, <2>1, <3>1 DEF Own
      <4>2. c < a
        BY <1>6, <2>2, <2>4, <4>1
      <4>3. QED
        BY <1>6, <2>2, <2>4, <4>1, <4>2
    <3>2. CASE b # after
      BY <1>3, <2>2, <2>4, <3>2
    <3>3. QED
      BY <3>1, <3>2
  <2>5. QED
    BY <2>3, <2>4
<1>10. ASSUME NEW y \in DOMAIN mj2
       PROVE  FirstInv(mj2, mn2, y)
  <2>1. y \in DOMAIN mj /\ FirstInv(mj, mn, y)
    BY <1>1 DEF SoundMinors, MinorsInv
  <2>2. CASE y = x /\ before = NULL
    <3>1. mj2[y].first = after
      BY <1>1, <2>1, <2>2
    <3>2. CASE after = NULL
      <4>1. \A c \in Own(mn, x) : c = a
        <5> TAKE c \in Own(mn, x)
        <5>1. c \in Nat
          BY <1>5 DEF Own
        <5>2. ~(a < c) /\ ~(c < a)
          BY <1>6, <2>2, <3>2
        <5>3. QED
          BY <1>6, <5>1, <5>2
      <4>2. Own(mn2, y) = {}
        BY <1>4, <2>2, <4>1
      <4>3. QED
        BY <3>1, <3>2, <4>2 DEF FirstInv
    <3>3. CASE after # NULL
      <4>1. after \in LiveIn(mn2) /\ after \in Own(mn2, y)
        BY <1>2, <1>4, <1>6, <1>7, <2>2, <3>3
      <4>2. mn2[after].prev = NULL
        BY <1>3, <2>2, <4>1
      <4>3. QED
        BY <3>1, <3>3, <4>1, <4>2 DEF FirstInv
    <3>4. QED
      BY <3>2, <3>3
  <2>3. CASE ~(y = x /\ before = NULL)
    <3>1. mj2[y].first = mj[y].first
      BY <1>1, <2>1, <2>3
    <3>2. CASE mj[y].first = NULL
      <4>1. Own(mn, y) = {}
        BY <2>1, <3>2 DEF FirstInv
      <4>2. QED
        BY <1>4, <3>1, <3>2, <4>1 DEF FirstInv
    <3>3. CASE mj[y].first # NULL
      <4> DEFINE f == mj[y].first
      <4>1. f \in Own(mn, y) /\ mn[f].prev = NULL
        BY <2>1, <3>3 DEF FirstInv
      <4>2. f \in LiveIn(mn) /\ mn[f].block = y
        BY <4>1 DEF Own
      <4>3. f # a /\ f # after
        BY <1>2, <1>6, <2>3, <3>3, <4>1, <4>2
      <4>4. f \in LiveIn(mn2) /\ f \in Own(mn2, y)
        BY <1>2, <1>4, <4>1, <4>2, <4>3
      <4>5. mn2[f].prev = NULL
        BY <1>3, <4>1, <4>3, <4>4
      <4>6. QED
        BY <3>1, <3>3, <4>4, <4>5 DEF FirstInv
    <3>4. QED
      BY <3>2, <3>3
  <2>4. QED
    BY <2>2, <2>3
<1>11. QED
  BY <1>8, <1>9, <1>10 DEF MinorsInv

-----------------------------------------------------------------------------
(* The counters.                                                           *)

\* The bytes that the blocks of major x take, with their headers.
Load(mn, x) == TotalSize(mn, Own(mn, x)) + MinorHdr * Cardinality(Own(mn, x))

Ledger(mj, mn) == \A x \in DOMAIN mj : mj[x].usage = MajorHdr + Load(mn, x)

LEMMA MinorsFinite ==
  ASSUME NEW mn, MinorsTyped(mn)
  PROVE  /\ IsFiniteSet(LiveIn(mn)) /\ Sized(mn, LiveIn(mn))
         /\ \A x : /\ Own(mn, x) \subseteq LiveIn(mn)
                   /\ IsFiniteSet(Own(mn, x)) /\ Sized(mn, Own(mn, x))
                   /\ Cardinality(Own(mn, x)) \in Nat
<1>1. LiveIn(mn) \subseteq Addr
  BY DEF LiveIn, MinorsTyped
<1>2. IsFiniteSet(LiveIn(mn))
  BY <1>1, Addresses, FS_Subset
<1>3. Sized(mn, LiveIn(mn))
  BY LiveFacts, MinorFacts DEF Sized
<1>4. \A x : Own(mn, x) \subseteq LiveIn(mn)
  BY DEF Own
<1>5. \A x : IsFiniteSet(Own(mn, x)) /\ Cardinality(Own(mn, x)) \in Nat
  BY <1>2, <1>4, FS_Subset, FS_CardinalityType
<1>6. \A x : Sized(mn, Own(mn, x))
  BY <1>3, <1>4 DEF Sized
<1>7. QED
  BY <1>2, <1>3, <1>4, <1>5, <1>6

Accounts(mj, mn, inuse, allocated) ==
  /\ Ledger(mj, mn)
  /\ inuse = TotalSize(mn, LiveIn(mn))
  /\ allocated = TotalSize(mj, DOMAIN mj)

LEMMA AccountsAre ==
  MinorsTyped(minors) =>
    (AccountingExact <=> Accounts(majors, minors, l_inuse, l_allocated))
<1> SUFFICES ASSUME MinorsTyped(minors)
             PROVE  AccountingExact <=> Accounts(majors, minors, l_inuse, l_allocated)
  OBVIOUS
<1>1. Live = LiveIn(minors) /\ \A x : {a \in Live : minors[a].block = x} = Own(minors, x)
  BY DEF Live, LiveIn, Own
<1>2. \A S : SizesOf(S) = TotalSize(minors, S)
  BY DEF SizesOf, TotalSize
<1>3. FSE!MapThenSumSet(LAMBDA maj : majors[maj].size, DOMAIN majors)
        = TotalSize(majors, DOMAIN majors)
  BY DEF TotalSize
<1>4. \A x : MajorHdr + TotalSize(minors, Own(minors, x))
                      + MinorHdr * Cardinality(Own(minors, x)) = MajorHdr + Load(minors, x)
  <2> TAKE x
  <2> DEFINE s == TotalSize(minors, Own(minors, x))
             c == Cardinality(Own(minors, x))
  <2>1. s \in Nat /\ c \in Nat
    BY MinorsFinite, TotalType
  <2>2. Load(minors, x) = s + MinorHdr * c
    BY DEF Load
  <2> HIDE DEF s, c
  <2>3. MinorHdr * c \in Nat
    BY <2>1, Sizes
  <2>4. MajorHdr + s + MinorHdr * c = MajorHdr + Load(minors, x)
    BY <2>1, <2>2, <2>3, Sizes
  <2>5. QED
    BY <2>4 DEF s, c
<1>5. \A maj \in DOMAIN majors :
        (LET own == {a \in Live : minors[a].block = maj}
         IN  majors[maj].usage =
               MajorHdr + SizesOf(own) + MinorHdr * Cardinality(own))
        <=> majors[maj].usage = MajorHdr + Load(minors, maj)
  BY <1>1, <1>2, <1>4
<1>6. QED
  BY <1>1, <1>2, <1>3, <1>5 DEF AccountingExact, Ledger, Accounts

LEMMA AccountsPrimed ==
  MinorsTyped(minors') =>
    (AccountingExact' <=> Accounts(majors', minors', l_inuse', l_allocated'))
<1>1. (MinorsTyped(minors) =>
         (AccountingExact <=> Accounts(majors, minors, l_inuse, l_allocated)))'
  BY AccountsAre, PTL
<1>2. QED
  BY <1>1

\* mn2 has one block more than mn, a; the others keep major and size.
OneMore(mn, mn2, a) ==
  /\ LiveIn(mn2) = LiveIn(mn) \cup {a} /\ a \notin LiveIn(mn)
  /\ \A b \in LiveIn(mn) : mn2[b].block = mn[b].block /\ mn2[b].size = mn[b].size

LEMMA OneMoreCounted ==
  ASSUME NEW mn, NEW mn2, MinorsTyped(mn), MinorsTyped(mn2), NEW a, OneMore(mn, mn2, a)
  PROVE  /\ TotalSize(mn, LiveIn(mn)) \in Nat
         /\ TotalSize(mn2, LiveIn(mn2)) = TotalSize(mn, LiveIn(mn)) + mn2[a].size
         /\ \A x : /\ Load(mn, x) \in Nat
                   /\ Load(mn2, x) = IF x = mn2[a].block
                                     THEN Load(mn, x) + (MinorHdr + mn2[a].size)
                                     ELSE Load(mn, x)
         /\ mn2[a].size \in Nat
<1>1. a \in LiveIn(mn2) /\ a \in DOMAIN mn2 /\ mn2[a].size \in Nat
  BY LiveFacts, MinorFacts DEF OneMore
<1>2. ASSUME NEW S, S \subseteq LiveIn(mn)
      PROVE  /\ TotalSize(mn, S) \in Nat
             /\ TotalSize(mn2, S) = TotalSize(mn, S)
             /\ TotalSize(mn2, S \cup {a}) = TotalSize(mn, S) + mn2[a].size
  <2>1. IsFiniteSet(LiveIn(mn)) /\ Sized(mn, LiveIn(mn))
    BY MinorsFinite
  <2>2. TotalSize(mn, S) \in Nat
    BY <1>2, <2>1, TotalType
  <2>3. IsFiniteSet(S) /\ \A b \in S : mn[b].size = mn2[b].size
    BY <1>2, <2>1, FS_Subset DEF OneMore
  <2>4. TotalSize(mn2, S) = TotalSize(mn, S)
    BY <2>3, TotalSame
  <2>5. IsFiniteSet(LiveIn(mn2)) /\ Sized(mn2, LiveIn(mn2))
    BY MinorsFinite
  <2>6. S \in SUBSET LiveIn(mn2) /\ a \in LiveIn(mn2) \ S
    BY <1>2 DEF OneMore
  <2>7. TotalSize(mn2, S \cup {a}) = mn2[a].size + TotalSize(mn2, S)
    BY <2>5, <2>6, TotalAdd
  <2>8. QED
    BY <1>1, <2>2, <2>4, <2>7
<1>3. ASSUME NEW x
      PROVE  /\ Load(mn, x) \in Nat
             /\ Load(mn2, x) = IF x = mn2[a].block
                               THEN Load(mn, x) + (MinorHdr + mn2[a].size)
                               ELSE Load(mn, x)
  <2>1. Own(mn, x) \subseteq LiveIn(mn) /\ a \notin Own(mn, x)
        /\ IsFiniteSet(Own(mn, x)) /\ Cardinality(Own(mn, x)) \in Nat
    BY MinorsFinite DEF OneMore
  <2>2. Own(mn2, x) = IF x = mn2[a].block THEN Own(mn, x) \cup {a} ELSE Own(mn, x)
    BY DEF OneMore, Own
  <2>3. Cardinality(Own(mn, x) \cup {a}) = Cardinality(Own(mn, x)) + 1
    BY <2>1, FS_AddElement
  <2> DEFINE c == Cardinality(Own(mn, x))
             s == TotalSize(mn, Own(mn, x))
  <2>4. /\ s \in Nat /\ TotalSize(mn2, Own(mn, x)) = s
        /\ TotalSize(mn2, Own(mn, x) \cup {a}) = s + mn2[a].size
    BY <1>2, <2>1
  <2>5. MinorHdr * c \in Nat /\ MinorHdr * (c + 1) = MinorHdr * c + MinorHdr /\ MinorHdr \in Nat
    <3>1. c \in Nat
      BY <2>1
    <3> HIDE DEF c
    <3>2. QED
      BY <3>1, Sizes
  <2> DEFINE d == MinorHdr * c
  <2>6. Load(mn, x) = s + d
    BY DEF Load
  <2>7. CASE x = mn2[a].block
    <3>1. Load(mn2, x) = (s + mn2[a].size) + (d + MinorHdr)
      BY <2>2, <2>3, <2>4, <2>5, <2>7 DEF Load
    <3> HIDE DEF s, d
    <3>2. QED
      BY <1>1, <2>4, <2>5, <2>6, <2>7, <3>1 DEF d
  <2>8. CASE x # mn2[a].block
    <3>1. Load(mn2, x) = s + d
      BY <2>2, <2>4, <2>8 DEF Load
    <3> HIDE DEF s, d
    <3>2. QED
      BY <2>4, <2>5, <2>6, <2>8, <3>1 DEF d
  <2>9. QED
    BY <2>7, <2>8
<1>4. QED
  BY <1>1, <1>2, <1>3 DEF OneMore

\* Nothing counts but the live blocks, and for an empty major nothing at all.
LEMMA SameLoad ==
  ASSUME NEW mn, NEW mn2, MinorsTyped(mn), LiveIn(mn2) = LiveIn(mn),
         \A b \in LiveIn(mn) : mn2[b].block = mn[b].block /\ mn2[b].size = mn[b].size
  PROVE  /\ TotalSize(mn2, LiveIn(mn2)) = TotalSize(mn, LiveIn(mn))
         /\ \A x : Own(mn2, x) = Own(mn, x) /\ Load(mn2, x) = Load(mn, x)
<1>1. \A x : Own(mn2, x) = Own(mn, x)
  BY DEF Own
<1>2. \A S \in SUBSET LiveIn(mn) : TotalSize(mn2, S) = TotalSize(mn, S)
  <2> TAKE S \in SUBSET LiveIn(mn)
  <2>1. IsFiniteSet(S) /\ \A b \in S : mn2[b].size = mn[b].size
    BY MinorsFinite, FS_Subset
  <2>2. QED
    BY <2>1, TotalSame
<1>3. QED
  BY <1>1, <1>2, MinorsFinite DEF Load

LEMMA EmptyLoad ==
  ASSUME NEW mn, NEW x, Own(mn, x) = {}
  PROVE  Load(mn, x) = 0
<1>1. IsFiniteSet({}) /\ Cardinality({}) = 0
  BY FS_EmptySet
<1>2. TotalSize(mn, {}) = 0
  BY <1>1, TotalStep
<1>3. QED
  BY <1>1, <1>2, Sizes DEF Load

\* One major more, or less.
LEMMA MajorsCounted ==
  ASSUME NEW mj, NEW mj2, MajorsTyped(mj), MajorsTyped(mj2), NEW x, x \notin DOMAIN mj,
         DOMAIN mj2 = DOMAIN mj \cup {x}, \A y \in DOMAIN mj : mj2[y].size = mj[y].size
  PROVE  /\ TotalSize(mj, DOMAIN mj) \in Nat
         /\ TotalSize(mj2, DOMAIN mj2) = TotalSize(mj, DOMAIN mj) + mj2[x].size
         /\ mj2[x].size \in Nat
<1>1. IsFiniteSet(DOMAIN mj2) /\ IsFiniteSet(DOMAIN mj)
  BY Addresses, FS_Subset DEF MajorsTyped
<1>2. Sized(mj2, DOMAIN mj2) /\ Sized(mj, DOMAIN mj)
  BY DEF Sized, MajorsTyped, MajorRec
<1>3. TotalSize(mj2, DOMAIN mj \cup {x}) = mj2[x].size + TotalSize(mj2, DOMAIN mj)
  BY <1>1, <1>2, TotalAdd
<1>4. TotalSize(mj2, DOMAIN mj) = TotalSize(mj, DOMAIN mj)
  BY <1>1, TotalSame
<1>5. TotalSize(mj, DOMAIN mj) \in Nat
  BY <1>1, <1>2, TotalType
<1>6. mj2[x].size \in Nat
  BY <1>2 DEF Sized
<1>7. QED
  BY <1>3, <1>4, <1>5, <1>6

LEMMA MajorsCountedSame ==
  ASSUME NEW mj, NEW mj2, MajorsTyped(mj), DOMAIN mj2 = DOMAIN mj,
         \A y \in DOMAIN mj : mj2[y].size = mj[y].size
  PROVE  TotalSize(mj2, DOMAIN mj2) = TotalSize(mj, DOMAIN mj)
<1>1. IsFiniteSet(DOMAIN mj)
  BY Addresses, FS_Subset DEF MajorsTyped
<1>2. QED
  BY <1>1, TotalSame

-----------------------------------------------------------------------------
(* Pointers.                                                               *)

LEMMA PointerFacts ==
  ASSUME NEW mn, MinorsTyped(mn), NEW inf, inf \in [DOMAIN inf -> Nat], InfoInv(mn, inf)
  PROVE  /\ \A p \in DOMAIN inf :
              /\ p \in Nat /\ p # NULL /\ HeaderOf(inf, p) \in DOMAIN mn
              /\ HeaderOf(inf, p) \in Nat /\ inf[p] \in Nat
              /\ p = HeaderOf(inf, p) + (MinorHdr + inf[p])
              /\ ALIGN_INFO <= inf[p] /\ inf[p] < BlockCost
              /\ p = ALIGN(HeaderOf(inf, p) + MinorHdr) /\ p % ALIGNMENT = 0
         /\ \A p, q \in DOMAIN inf : HeaderOf(inf, p) = HeaderOf(inf, q) => p = q
<1>1. ASSUME NEW p \in DOMAIN inf
      PROVE  /\ p \in Nat /\ p # NULL /\ HeaderOf(inf, p) \in DOMAIN mn
             /\ HeaderOf(inf, p) \in Nat /\ inf[p] \in Nat
             /\ p = HeaderOf(inf, p) + (MinorHdr + inf[p])
             /\ ALIGN_INFO <= inf[p] /\ inf[p] < BlockCost
             /\ p = ALIGN(HeaderOf(inf, p) + MinorHdr) /\ p % ALIGNMENT = 0
  <2> DEFINE h == HeaderOf(inf, p)
  <2>1. /\ ALIGN_INFO <= inf[p] /\ inf[p] < BlockCost
        /\ h \in DOMAIN mn /\ p = ALIGN(h + MinorHdr)
    BY DEF InfoInv, PointerInv
  <2>2. h \in Nat /\ h # NULL /\ inf[p] \in Nat
    BY <2>1, MinorFacts
  <2>3. h = (p - inf[p]) - MinorHdr
    BY DEF HeaderOf
  <2> HIDE DEF h
  <2>4. h + MinorHdr \in Nat
    BY <2>2, Sizes
  <2>5. /\ AlignInfo(h + MinorHdr) \in Nat
        /\ ALIGN(h + MinorHdr) = (h + MinorHdr) + AlignInfo(h + MinorHdr)
        /\ ALIGN(h + MinorHdr) % ALIGNMENT = 0
    BY <2>4, Alignment
  <2>6. p \in Nat /\ p > h /\ p % ALIGNMENT = 0
    BY <2>1, <2>2, <2>5, Sizes
  <2>7. p = h + (MinorHdr + inf[p]) /\ p # NULL
    BY <2>2, <2>3, <2>6, Sizes, Addresses
  <2>8. QED
    BY <2>1, <2>2, <2>6, <2>7 DEF h
<1>2. QED
  BY <1>1

LEMMA MinorOfIs ==
  ASSUME Typed, InfoInv(minors, info), NEW p \in DOMAIN info
  PROVE  MinorOf(p) = HeaderOf(info, p)
<1>1. info[p] < BlockCost
  BY PointerFacts DEF Typed
<1>2. QED
  BY <1>1 DEF MinorOf, UNALIGN, HeaderOf, BlockCost

\* The pointer to a block lies in it, with its alignment information and all
\* the bytes that were asked for.
LEMMA PointerInBlock ==
  ASSUME NEW mj, NEW mn, SoundMinors(mj, mn),
         NEW inf, inf \in [DOMAIN inf -> Nat], InfoInv(mn, inf),
         NEW p \in DOMAIN inf, HeaderOf(inf, p) \in LiveIn(mn)
  PROVE  LET h == HeaderOf(inf, p)
         IN  /\ h + MinorHdr <= p - ALIGN_INFO /\ p < End(mn, h)
             /\ p + mn[h].req_size <= End(mn, h)
<1> DEFINE h == HeaderOf(inf, p)
<1>1. /\ h \in Nat /\ inf[p] \in Nat /\ p \in Nat /\ p = h + (MinorHdr + inf[p])
      /\ ALIGN_INFO <= inf[p] /\ inf[p] < BlockCost
  BY PointerFacts DEF SoundMinors
<1>2. /\ mn[h].size \in Nat /\ mn[h].req_size \in Nat
      /\ End(mn, h) = h + (MinorHdr + mn[h].size)
  BY LiveFacts, MinorFacts DEF SoundMinors
<1>3. mn[h].req_size + BlockCost <= mn[h].size
  BY DEF SoundMinors, MinorsInv, BlockInv
<1> HIDE DEF h
<1>4. QED
  BY <1>1, <1>2, <1>3, Sizes DEF h

-----------------------------------------------------------------------------
(* A major that only changes its usage or its first block.                 *)

SameMajors(mj, mj2) ==
  /\ DOMAIN mj2 = DOMAIN mj
  /\ \A x \in DOMAIN mj :
       /\ mj2[x].prev = mj[x].prev /\ mj2[x].next = mj[x].next
       /\ mj2[x].pages = mj[x].pages /\ mj2[x].size = mj[x].size
       /\ mj2[x].usage <= mj[x].size

LEMMA MajorsKept ==
  ASSUME NEW mj, NEW mj2, NEW us, NEW root, SoundMajors(mj, us), ListInv(mj, root),
         SameMajors(mj, mj2), MajorsTyped(mj2)
  PROVE  SoundMajors(mj2, us) /\ ListInv(mj2, root)
<1>1. \A x \in DOMAIN mj : MajorPages(mj2, x) = MajorPages(mj, x)
  BY DEF SameMajors, MajorPages
<1>2. \A x \in DOMAIN mj2 : MajorInv(mj2, x)
  BY <1>1 DEF SameMajors, SoundMajors, MajorsInv, MajorInv
<1>3. us = UNION {MajorPages(mj2, x) : x \in DOMAIN mj2}
  BY <1>1 DEF SameMajors, SoundMajors, MajorsInv
<1>4. \A x, y \in DOMAIN mj2 : x # y => MajorPages(mj2, x) \cap MajorPages(mj2, y) = {}
  BY <1>1 DEF SameMajors, SoundMajors, MajorsInv
<1>5. SoundMajors(mj2, us)
  BY <1>2, <1>3, <1>4 DEF SoundMajors, MajorsInv
<1>6. \A x \in DOMAIN mj2 : Linked(mj2, root, x)
  BY DEF SameMajors, ListInv, Linked
<1>7. \E ord \in [DOMAIN mj2 -> Nat] :
         \A x \in DOMAIN mj2 : mj2[x].next # NULL => ord[x] < ord[mj2[x].next]
  BY DEF SameMajors, ListInv
<1>8. ListInv(mj2, root)
  BY <1>6, <1>7 DEF SameMajors, ListInv
<1>9. QED
  BY <1>5, <1>8

-----------------------------------------------------------------------------
(* The block that kmalloc places.                                          *)

LEMMA RequestSizes ==
  ASSUME Typed, RequestInv(loc)
  PROVE  /\ loc.req \in Nat /\ loc.size \in Nat /\ loc.size = loc.req + BlockCost
         /\ uint(loc.size) = loc.size /\ uint(loc.req) = loc.req /\ loc.asked = loc.req
         /\ Need = MinorHdr + loc.size /\ Need \in Nat
         /\ MajorHdr + (Need + PageSize) <= UINT
<1>1. loc.req \in Nat /\ loc.size \in Nat
  BY DEF Typed, LocRec
<1>2. loc.size = loc.req + BlockCost /\ loc.req + MajorCost <= UINT /\ loc.asked = loc.req
  BY DEF RequestInv
<1>3. loc.size < UINT /\ loc.req < UINT
  BY <1>1, <1>2, Sizes
<1>4. uint(loc.size) = loc.size /\ uint(loc.req) = loc.req
  BY <1>1, <1>3, Widths
<1>5. Need = MinorHdr + loc.size
  <2>1. /\ loc.size + MinorHdr \in Nat /\ loc.size + MinorHdr < UINT
        /\ loc.size + MinorHdr = MinorHdr + loc.size
    BY <1>1, <1>2, Sizes
  <2>2. size_t(loc.size + MinorHdr) = loc.size + MinorHdr
    BY <2>1, Widths
  <2>3. QED
    BY <2>1, <2>2 DEF Need
<1>6. QED
  BY <1>1, <1>2, <1>4, <1>5, Sizes

\* The stale header is overwritten.
Gone(a) ==
  lost # NULL /\ StaleBytes(lost) \cap a .. (a + MinorHdr + loc.size - 1) # {}

KeptMinors(a) == IF Gone(a) THEN Drop(minors, {MinorOf(lost)}) ELSE minors
KeptInfo(a)   == IF Gone(a) THEN Drop(info, {lost}) ELSE info

\* What holds when a call looks for a place, in the majors m.
Searching(m, us) ==
  /\ SoundMajors(m, us) /\ SoundMinors(m, minors)
  /\ Typed /\ InfoInv(minors, info) /\ DeadInv(minors, info, lost) /\ HeldInv
  /\ RequestInv(loc)

\* It has found one.
Found(m, us, maj, a, before, after) ==
  /\ Searching(m, us)
  /\ Gap(m, minors, maj, before, after, a, a + (MinorHdr + loc.size))
  /\ m[maj].usage + Need <= m[maj].size

LEMMA StaleHeader ==
  ASSUME NEW m, NEW us, NEW maj, NEW a, NEW before, NEW after,
         Found(m, us, maj, a, before, after)
  PROVE  /\ lost # NULL => /\ lost \in DOMAIN info
                           /\ MinorOf(lost) = HeaderOf(info, lost)
                           /\ HeaderOf(info, lost) \in DOMAIN minors \ LiveIn(minors)
         /\ a \in DOMAIN minors => Gone(a) /\ a = HeaderOf(info, lost)
         /\ \A q \in DOMAIN info : q = ALIGN(a + MinorHdr) => Gone(a) /\ q = lost
<1> DEFINE e == a + (MinorHdr + loc.size)
<1>1. /\ Typed /\ InfoInv(minors, info) /\ DeadInv(minors, info, lost)
      /\ SoundMajors(m, us) /\ SoundMinors(m, minors) /\ MinorsTyped(minors)
      /\ info \in [DOMAIN info -> Nat]
  BY DEF Found, Searching, Typed
<1>2. /\ a \in Nat /\ e \in Nat /\ a < e /\ Gap(m, minors, maj, before, after, a, e)
  BY DEF Found, Gap
<1>3. /\ loc.size \in Nat /\ loc.size >= BlockCost
  BY RequestSizes, Sizes DEF Found, Searching
<1>4. lost # NULL => /\ lost \in DOMAIN info
                     /\ MinorOf(lost) = HeaderOf(info, lost)
                     /\ HeaderOf(info, lost) \in DOMAIN minors \ LiveIn(minors)
  BY <1>1, MinorOfIs DEF DeadInv
<1>5. ASSUME lost # NULL, NEW b \in Nat, a <= b, b < e,
             HeaderOf(info, lost) <= b, b + ALIGN_INFO <= lost
      PROVE  Gone(a)
  <2>1. lost \in Nat
    BY <1>1, <1>4, <1>5, PointerFacts
  <2>2. b \in StaleBytes(lost)
    <3> DEFINE h == HeaderOf(info, lost)
    <3>1. h \in Nat /\ MinorOf(lost) = h /\ h <= b
      BY <1>1, <1>4, <1>5, PointerFacts
    <3> HIDE DEF h
    <3>2. b \in h .. (lost - ALIGN_INFO)
      BY <1>5, <2>1, <3>1, Sizes
    <3>3. QED
      BY <3>1, <3>2 DEF StaleBytes
  <2>3. b \in a .. (a + MinorHdr + loc.size - 1)
    BY <1>2, <1>3, <1>5, Sizes
  <2>4. QED
    BY <1>5, <2>2, <2>3 DEF Gone
<1>6. a \in DOMAIN minors => Gone(a) /\ a = HeaderOf(info, lost)
  <2> SUFFICES ASSUME a \in DOMAIN minors
               PROVE  Gone(a) /\ a = HeaderOf(info, lost)
    OBVIOUS
  <2>1. a \notin LiveIn(minors)
    BY <1>1, <1>2, GapIsFree
  <2>2. lost # NULL /\ a = HeaderOf(info, lost)
    BY <1>1, <2>1 DEF DeadInv
  <2>3. lost = a + (MinorHdr + info[lost]) /\ info[lost] \in Nat /\ ALIGN_INFO <= info[lost]
    BY <1>1, <1>4, <2>2, PointerFacts
  <2>4. a + ALIGN_INFO <= lost
    BY <1>2, <2>3, Sizes
  <2>5. Gone(a)
    BY <1>2, <1>5, <2>2, <2>4
  <2>6. QED
    BY <2>2, <2>5
<1>7. ASSUME NEW q \in DOMAIN info, q = ALIGN(a + MinorHdr)
      PROVE  Gone(a) /\ q = lost
  <2> DEFINE h == HeaderOf(info, q)
             d == AlignInfo(a + MinorHdr)
  <2>1. a + MinorHdr \in Nat
    BY <1>2, Sizes
  <2>2. d \in Nat /\ q = (a + MinorHdr) + d /\ ALIGN_INFO <= d /\ d < BlockCost
    BY <1>7, <2>1, Alignment
  <2> HIDE DEF d
  <2>3. /\ q \in Nat /\ h \in Nat /\ h \in DOMAIN minors /\ info[q] \in Nat
        /\ q = h + (MinorHdr + info[q]) /\ ALIGN_INFO <= info[q]
    BY <1>1, PointerFacts
  <2>4. q < e /\ a <= q - ALIGN_INFO /\ q - ALIGN_INFO < e /\ q - ALIGN_INFO \in Nat
        /\ h <= q - ALIGN_INFO /\ (q - ALIGN_INFO) + ALIGN_INFO <= q
    BY <1>2, <1>3, <2>2, <2>3, Sizes
  <2>5. h \notin LiveIn(minors)
    <3> SUFFICES ASSUME h \in LiveIn(minors)
                 PROVE  FALSE
      OBVIOUS
    <3>1. q < End(minors, h)
      BY <1>1, PointerInBlock
    <3>2. End(minors, h) <= a \/ e <= h
      BY <1>1, <1>2, GapIsFree
    <3>3. End(minors, h) \in Nat
      BY <1>1, <2>3, MinorFacts
    <3> HIDE DEF h, e
    <3>4. QED
      BY <1>2, <2>2, <2>3, <2>4, <3>1, <3>2, <3>3, Sizes
  <2>6. lost # NULL /\ h = HeaderOf(info, lost)
    BY <1>1, <2>3, <2>5 DEF DeadInv
  <2>7. q = lost
    BY <1>1, <1>4, <2>6, PointerFacts
  <2>8. Gone(a)
    BY <1>5, <2>4, <2>6, <2>7
  <2>9. QED
    BY <2>7, <2>8
<1>8. QED
  BY <1>4, <1>6, <1>7

LEMMA KeptFacts ==
  ASSUME NEW m, NEW us, NEW maj, NEW a, NEW before, NEW after,
         Found(m, us, maj, a, before, after)
  PROVE  /\ a \notin DOMAIN KeptMinors(a)
         /\ DOMAIN KeptMinors(a) \subseteq DOMAIN minors
         /\ DOMAIN minors \ DOMAIN KeptMinors(a)
              = IF Gone(a) THEN {HeaderOf(info, lost)} ELSE {}
         /\ \A x \in DOMAIN KeptMinors(a) : KeptMinors(a)[x] = minors[x]
         /\ LiveIn(minors) \subseteq DOMAIN KeptMinors(a)
         /\ ALIGN(a + MinorHdr) \notin DOMAIN KeptInfo(a)
         /\ DOMAIN KeptInfo(a) = DOMAIN info \ (IF Gone(a) THEN {lost} ELSE {})
         /\ \A q \in DOMAIN KeptInfo(a) :
              KeptInfo(a)[q] = info[q] /\ HeaderOf(info, q) \in DOMAIN KeptMinors(a)
         /\ DOMAIN held \subseteq DOMAIN KeptInfo(a)
         /\ Gone(a) => lost # NULL
<1>1. /\ Typed /\ InfoInv(minors, info) /\ HeldInv
      /\ MinorsTyped(minors) /\ info \in [DOMAIN info -> Nat]
  BY DEF Found, Searching, Typed
<1>2. Gone(a) => lost # NULL
  BY DEF Gone
<1>3. /\ lost # NULL => /\ lost \in DOMAIN info
                        /\ MinorOf(lost) = HeaderOf(info, lost)
                        /\ HeaderOf(info, lost) \in DOMAIN minors \ LiveIn(minors)
      /\ a \in DOMAIN minors => Gone(a) /\ a = HeaderOf(info, lost)
      /\ \A q \in DOMAIN info : q = ALIGN(a + MinorHdr) => Gone(a) /\ q = lost
  BY StaleHeader
<1>4. /\ DOMAIN KeptMinors(a)
           = DOMAIN minors \ (IF Gone(a) THEN {HeaderOf(info, lost)} ELSE {})
      /\ \A x \in DOMAIN KeptMinors(a) : KeptMinors(a)[x] = minors[x]
  BY <1>2, <1>3 DEF KeptMinors, Drop
<1>5. /\ DOMAIN KeptInfo(a) = DOMAIN info \ (IF Gone(a) THEN {lost} ELSE {})
      /\ \A q \in DOMAIN KeptInfo(a) : KeptInfo(a)[q] = info[q]
  BY DEF KeptInfo, Drop
<1>6. LiveIn(minors) \subseteq DOMAIN KeptMinors(a)
  BY <1>1, <1>2, <1>3, <1>4, LiveFacts
<1>7. ASSUME NEW q \in DOMAIN KeptInfo(a)
      PROVE  HeaderOf(info, q) \in DOMAIN KeptMinors(a)
  <2>1. q \in DOMAIN info /\ HeaderOf(info, q) \in DOMAIN minors
    BY <1>1, <1>5, PointerFacts
  <2>2. Gone(a) => HeaderOf(info, q) # HeaderOf(info, lost)
    BY <1>1, <1>2, <1>3, <1>5, <2>1, PointerFacts
  <2>3. QED
    BY <1>4, <2>1, <2>2
<1>8. DOMAIN held \subseteq DOMAIN KeptInfo(a)
  <2>1. DOMAIN held \subseteq DOMAIN info
    BY <1>1 DEF Typed
  <2>2. Gone(a) => lost \notin DOMAIN held
    BY <1>1, <1>2, <1>3 DEF HeldInv
  <2>3. QED
    BY <1>5, <2>1, <2>2
<1>9. QED
  BY <1>2, <1>3, <1>4, <1>5, <1>6, <1>7, <1>8

\* The blocks and the majors after Place.
BlockPlaced(m, maj, a, before, after) ==
  /\ MinorsTyped(minors') /\ MajorsTyped(majors')
  /\ Inserted(m, minors, majors', minors', maj, before, after, a)
  /\ OneMore(minors, minors', a)
  /\ a \in DOMAIN minors' /\ DOMAIN minors' = DOMAIN KeptMinors(a) \cup {a}
  /\ minors'[a].size = loc.size /\ minors'[a].req_size = loc.req
  /\ \A x \in DOMAIN KeptMinors(a) : x \notin LiveIn(minors) => minors'[x] = minors[x]
  /\ SameMajors(m, majors')
  /\ \A x \in DOMAIN m :
       majors'[x].usage = IF x = maj THEN m[x].usage + (MinorHdr + loc.size)
                                     ELSE m[x].usage

LEMMA PlaceBlock ==
  ASSUME NEW m, NEW us, NEW maj, NEW a, NEW before, NEW after,
         Found(m, us, maj, a, before, after), Place(m, maj, a, before, after)
  PROVE  BlockPlaced(m, maj, a, before, after)
<1> DEFINE e == a + (MinorHdr + loc.size)
           kept == KeptMinors(a)
           linked == [x \in DOMAIN kept |->
                   CASE x = before -> [kept[x] EXCEPT !.next = a]
                     [] x = after  -> [kept[x] EXCEPT !.prev = a]
                     [] OTHER      -> kept[x]]
           new == [prev |-> before, next |-> after, block |-> maj, magic |-> "MAGIC",
                   size |-> uint(loc.size), req_size |-> uint(loc.req)]
<1>1. /\ SoundMajors(m, us) /\ SoundMinors(m, minors) /\ Typed
      /\ MinorsTyped(minors) /\ MajorsTyped(m)
  BY DEF Found, Searching, Typed, SoundMajors
<1>2. /\ a \in Nat /\ e \in Nat /\ a < e /\ maj \in DOMAIN m
      /\ Gap(m, minors, maj, before, after, a, e)
  BY DEF Found, Gap
<1>3. /\ loc.size \in Nat /\ loc.req \in Nat
      /\ uint(loc.size) = loc.size /\ uint(loc.req) = loc.req
      /\ Need = MinorHdr + loc.size /\ Need \in Nat
  BY RequestSizes DEF Found, Searching
<1>4. /\ a \notin DOMAIN kept /\ DOMAIN kept \subseteq DOMAIN minors
      /\ \A x \in DOMAIN kept : kept[x] = minors[x]
      /\ LiveIn(minors) \subseteq DOMAIN kept
  BY KeptFacts
<1>5. minors' = Put(linked, a, new)
  BY DEF Place, Gone, KeptMinors
<1> HIDE DEF kept
<1>6. /\ DOMAIN minors' = DOMAIN kept \cup {a} /\ minors'[a] = new
      /\ \A x \in DOMAIN kept : minors'[x] = linked[x]
  BY <1>4, <1>5 DEF Put
<1>7. /\ before # NULL => before \in LiveIn(minors) /\ before < a
      /\ after # NULL => after \in LiveIn(minors) /\ a < after
      /\ before \in Nat /\ after \in Nat
  <2>1. after # NULL => after \in Own(minors, maj)
    BY <1>1, <1>2, GapPlace
  <2>2. before # NULL => before \in Own(minors, maj) /\ End(minors, before) <= a
    BY <1>2 DEF Gap
  <2>3. after # NULL => after \in LiveIn(minors) /\ after \in Nat /\ a < after
    <3> SUFFICES ASSUME after # NULL
                 PROVE  after \in LiveIn(minors) /\ after \in Nat /\ a < after
      OBVIOUS
    <3>1. after \in LiveIn(minors) /\ after \in Nat
      BY <1>1, <2>1, LiveFacts, MinorFacts
    <3>2. e <= after
      BY <1>2 DEF Gap
    <3>3. QED
      BY <1>2, <3>1, <3>2
  <2>4. before # NULL => before \in LiveIn(minors) /\ before \in Nat /\ before < a
    <3> SUFFICES ASSUME before # NULL
                 PROVE  before \in LiveIn(minors) /\ before \in Nat /\ before < a
      OBVIOUS
    <3>1. before \in LiveIn(minors) /\ before \in Nat /\ End(minors, before) \in Nat
          /\ before < End(minors, before)
      BY <1>1, <2>2, LiveFacts, MinorFacts
    <3>2. QED
      BY <1>2, <2>2, <3>1
  <2>5. QED
    BY <2>3, <2>4, Addresses
<1>8. before # after \/ before = NULL
  BY <1>2, <1>7
<1>9. ASSUME NEW x \in DOMAIN kept
      PROVE  /\ minors'[x] \in MinorRec /\ minors'[x].magic = minors[x].magic
             /\ minors'[x].block = minors[x].block /\ minors'[x].size = minors[x].size
             /\ minors'[x].req_size = minors[x].req_size
             /\ minors'[x].next = IF x = before THEN a ELSE minors[x].next
             /\ minors'[x].prev = IF x = after THEN a ELSE minors[x].prev
             /\ x \notin LiveIn(minors) => minors'[x] = minors[x]
  <2>1. minors[x] \in MinorRec /\ x # NULL
    BY <1>1, <1>4, MinorFacts
  <2>2. minors'[x] = CASE x = before -> [minors[x] EXCEPT !.next = a]
                       [] x = after  -> [minors[x] EXCEPT !.prev = a]
                       [] OTHER      -> minors[x]
    BY <1>4, <1>6
  <2>3. CASE x = before
    <3>1. minors'[x] = [minors[x] EXCEPT !.next = a] /\ x # after /\ x \in LiveIn(minors)
      BY <1>7, <1>8, <2>1, <2>2, <2>3
    <3>2. QED
      BY <1>2, <2>1, <2>3, <3>1 DEF MinorRec
  <2>4. CASE x # before /\ x = after
    <3>1. minors'[x] = [minors[x] EXCEPT !.prev = a] /\ x \in LiveIn(minors)
      BY <1>7, <2>1, <2>2, <2>4
    <3>2. QED
      BY <1>2, <2>1, <2>4, <3>1 DEF MinorRec
  <2>5. CASE x # before /\ x # after
    BY <2>1, <2>2, <2>5
  <2>6. QED
    BY <2>3, <2>4, <2>5
<1>10. /\ maj \in Nat /\ m[maj] \in MajorRec /\ Within(maj, m[maj].size)
       /\ m[maj].size < UINT /\ m[maj].usage \in Nat /\ m[maj].size \in Nat
  BY <1>1, <1>2, MajorExtent DEF SoundMajors, Within, MajorRec
<1>11. new \in MinorRec
  BY <1>3, <1>7, <1>10 DEF MinorRec
<1>12. a \in Addr
  <2>1. maj + MajorHdr <= a /\ e <= maj + m[maj].size
    BY <1>1, <1>2, GapPlace
  <2>2. maj >= PageSize /\ maj + m[maj].size <= HeapPages * PageSize + PageSize
    BY <1>10 DEF Within
  <2> DEFINE top == HeapPages * PageSize + PageSize
  <2>3. top \in Nat /\ top = (HeapPages + 1) * PageSize
    BY Sizes, Addresses, Times
  <2> HIDE DEF top
  <2>4. PageSize <= a /\ a <= top - 1
    BY <1>2, <1>10, <2>1, <2>2, <2>3, Sizes DEF top
  <2>5. QED
    BY <1>2, <2>3, <2>4, Sizes DEF Addr
<1>13. MinorsTyped(minors')
  <2>1. DOMAIN minors' \subseteq Addr
    BY <1>1, <1>4, <1>6, <1>12 DEF MinorsTyped
  <2>2. \A x \in DOMAIN minors' : minors'[x] \in MinorRec
    BY <1>6, <1>9, <1>11
  <2>3. minors' = [x \in DOMAIN minors' |-> minors'[x]]
    BY <1>5 DEF Put
  <2>4. QED
    BY <2>1, <2>2, <2>3 DEF MinorsTyped
<1>14. LiveIn(minors') = LiveIn(minors) \cup {a} /\ a \notin LiveIn(minors)
  <2>1. \A x \in DOMAIN minors' : x \in LiveIn(minors') <=> x = a \/ x \in LiveIn(minors)
    BY <1>4, <1>6, <1>9 DEF LiveIn
  <2>2. LiveIn(minors') \subseteq DOMAIN minors' /\ LiveIn(minors) \subseteq DOMAIN minors'
    BY <1>4, <1>6 DEF LiveIn
  <2>3. QED
    BY <1>4, <1>6, <2>1, <2>2
<1>15. majors' = [m EXCEPT ![maj].usage = uint(m[maj].usage + loc.size + MinorHdr),
                           ![maj].first = IF before = NULL THEN a ELSE m[maj].first]
  BY <1>2, <1>10 DEF Place, MajorRec
<1>16. uint(m[maj].usage + loc.size + MinorHdr) = m[maj].usage + (MinorHdr + loc.size)
       /\ m[maj].usage + (MinorHdr + loc.size) \in Nat
       /\ m[maj].usage + (MinorHdr + loc.size) <= m[maj].size
  <2>1. m[maj].usage + Need <= m[maj].size
    BY DEF Found
  <2> DEFINE s == m[maj].usage + loc.size + MinorHdr
  <2>2. s = m[maj].usage + (MinorHdr + loc.size) /\ s \in Nat /\ s < UINT /\ s <= m[maj].size
    BY <1>3, <1>10, <2>1, Sizes
  <2> HIDE DEF s
  <2>3. uint(s) = s
    BY <2>2, Widths
  <2>4. QED
    BY <2>2, <2>3 DEF s
<1> DEFINE rec == [m[maj] EXCEPT !.usage = m[maj].usage + (MinorHdr + loc.size),
                                 !.first = IF before = NULL THEN a ELSE m[maj].first]
<1>17. majors' = [m EXCEPT ![maj] = rec]
  BY <1>2, <1>10, <1>15, <1>16 DEF MajorRec
<1>18. /\ rec \in MajorRec /\ rec.prev = m[maj].prev /\ rec.next = m[maj].next
       /\ rec.pages = m[maj].pages /\ rec.size = m[maj].size
       /\ rec.usage = m[maj].usage + (MinorHdr + loc.size)
       /\ rec.first = IF before = NULL THEN a ELSE m[maj].first
  BY <1>2, <1>10, <1>16 DEF MajorRec
<1> HIDE DEF rec
<1>19. /\ DOMAIN majors' = DOMAIN m
       /\ \A x \in DOMAIN m : majors'[x] = IF x = maj THEN rec ELSE m[x]
  BY <1>17
<1>20. MajorsTyped(majors')
  <2>1. \A x \in DOMAIN majors' : majors'[x] \in MajorRec
    BY <1>1, <1>18, <1>19 DEF MajorsTyped
  <2>2. majors' = [x \in DOMAIN majors' |-> majors'[x]]
    BY <1>17
  <2>3. QED
    BY <1>1, <1>19, <2>1, <2>2 DEF MajorsTyped
<1>21. SameMajors(m, majors')
  <2>1. \A x \in DOMAIN m : m[x].usage <= m[x].size
    BY <1>1, MajorExtent DEF SoundMajors
  <2>2. QED
    BY <1>16, <1>18, <1>19, <2>1 DEF SameMajors
<1>22. Inserted(m, minors, majors', minors', maj, before, after, a)
  <2>1. \A y \in DOMAIN m : /\ majors'[y].size = m[y].size
                            /\ majors'[y].first = IF y = maj /\ before = NULL THEN a ELSE m[y].first
    BY <1>18, <1>19
  <2>2. minors'[a].block = maj /\ minors'[a].prev = before /\ minors'[a].next = after
    BY <1>6
  <2>3. QED
    BY <1>4, <1>9, <1>14, <1>19, <2>1, <2>2 DEF Inserted
<1>23. OneMore(minors, minors', a)
  BY <1>4, <1>9, <1>14 DEF OneMore
<1>24. minors'[a].size = loc.size /\ minors'[a].req_size = loc.req
  BY <1>3, <1>6
<1>25. QED
  BY <1>6, <1>9, <1>13, <1>18, <1>19, <1>20, <1>21, <1>22, <1>23, <1>24
  DEF kept, BlockPlaced

\* The pointers after Place.
LEMMA PlacePointers ==
  ASSUME NEW m, NEW us, NEW maj, NEW a, NEW before, NEW after,
         Found(m, us, maj, a, before, after), Place(m, maj, a, before, after)
  PROVE  /\ info' \in [DOMAIN info' -> Nat] /\ InfoInv(minors', info')
         /\ DeadInv(minors', info', lost')
         /\ DOMAIN held \subseteq DOMAIN info'
         /\ \A p \in DOMAIN held : /\ HeaderOf(info', p) \in LiveIn(minors')
                                   /\ held[p] = minors'[HeaderOf(info', p)].req_size
         /\ loc' = [loc EXCEPT !.p = ALIGN(a + MinorHdr)] /\ loc' \in LocRec
         /\ loc'.p \in DOMAIN info' \ DOMAIN held
         /\ HeaderOf(info', loc'.p) \in LiveIn(minors')
         /\ minors'[HeaderOf(info', loc'.p)].req_size = loc'.asked
<1> DEFINE p == ALIGN(a + MinorHdr)
           kinfo == KeptInfo(a)
<1>1. /\ Typed /\ InfoInv(minors, info) /\ DeadInv(minors, info, lost) /\ HeldInv
      /\ MinorsTyped(minors) /\ info \in [DOMAIN info -> Nat]
      /\ loc \in LocRec /\ a \in Nat
  BY DEF Found, Searching, Typed, Gap
<1>2. /\ a \notin DOMAIN KeptMinors(a)
      /\ DOMAIN KeptMinors(a) \subseteq DOMAIN minors
      /\ DOMAIN minors \ DOMAIN KeptMinors(a)
           = IF Gone(a) THEN {HeaderOf(info, lost)} ELSE {}
      /\ LiveIn(minors) \subseteq DOMAIN KeptMinors(a)
      /\ p \notin DOMAIN kinfo
      /\ DOMAIN kinfo = DOMAIN info \ (IF Gone(a) THEN {lost} ELSE {})
      /\ \A q \in DOMAIN kinfo : kinfo[q] = info[q] /\ HeaderOf(info, q) \in DOMAIN KeptMinors(a)
      /\ DOMAIN held \subseteq DOMAIN kinfo
      /\ Gone(a) => lost # NULL
  BY KeptFacts
<1>3. BlockPlaced(m, maj, a, before, after)
  BY PlaceBlock
<1>4. /\ Inserted(m, minors, majors', minors', maj, before, after, a)
      /\ DOMAIN minors' = DOMAIN KeptMinors(a) \cup {a}
      /\ minors'[a].req_size = loc.req
      /\ \A x \in DOMAIN KeptMinors(a) : x \notin LiveIn(minors) => minors'[x] = minors[x]
  BY <1>3 DEF BlockPlaced
<1>5. /\ AlignInfo(a + MinorHdr) \in Nat /\ p = (a + MinorHdr) + AlignInfo(a + MinorHdr)
      /\ ALIGN_INFO <= AlignInfo(a + MinorHdr) /\ AlignInfo(a + MinorHdr) < BlockCost
  <2>1. a + MinorHdr \in Nat
    BY <1>1, Sizes
  <2>2. QED
    BY <2>1, Alignment
<1>6. /\ info' = Put(kinfo, p, AlignInfo(a + MinorHdr))
      /\ lost' = IF Gone(a) THEN NULL ELSE lost
      /\ loc' = [loc EXCEPT !.p = p]
  BY DEF Place, Gone, KeptInfo
<1> HIDE DEF kinfo, p
<1>7. /\ DOMAIN info' = DOMAIN kinfo \cup {p} /\ info'[p] = AlignInfo(a + MinorHdr)
      /\ \A q \in DOMAIN kinfo : info'[q] = info[q]
  BY <1>2, <1>6 DEF Put
<1>8. HeaderOf(info', p) = a
  BY <1>1, <1>5, <1>7, Sizes DEF HeaderOf
<1>9. \A q \in DOMAIN kinfo : HeaderOf(info', q) = HeaderOf(info, q)
  BY <1>7 DEF HeaderOf
<1>10. info' \in [DOMAIN info' -> Nat]
  <2>1. \A q \in DOMAIN info' : info'[q] \in Nat
    BY <1>1, <1>2, <1>5, <1>7
  <2>2. info' = [q \in DOMAIN info' |-> info'[q]]
    BY <1>6 DEF Put
  <2>3. QED
    BY <2>1, <2>2
<1>11. InfoInv(minors', info')
  <2>1. PointerInv(minors', info', p)
    <3>1. p \in Addr
      <4> DEFINE e == a + (MinorHdr + loc.size)
                 top == HeapPages * PageSize + PageSize
      <4>1. e <= maj + m[maj].size /\ maj + MajorHdr <= a /\ maj \in DOMAIN m
        <5>1. /\ Gap(m, minors, maj, before, after, a, e)
              /\ SoundMajors(m, us) /\ SoundMinors(m, minors)
          BY DEF Found, Searching
        <5> HIDE DEF e
        <5>2. e <= maj + m[maj].size /\ maj + MajorHdr <= a
          BY <5>1, GapPlace
        <5>3. QED
          BY <5>1, <5>2 DEF Gap
      <4>2. Within(maj, m[maj].size)
        BY <4>1, MajorExtent DEF Found, Searching, SoundMajors
      <4>3. loc.size \in Nat /\ BlockCost <= loc.size
        BY <1>1, RequestSizes, Sizes DEF Found, Searching
      <4>4. p \in Nat /\ p < e /\ e \in Nat
        BY <1>1, <1>5, <4>3, Sizes
      <4>5. PageSize <= p /\ p < top /\ top \in Nat
        BY <1>1, <1>5, <4>1, <4>2, <4>4, Sizes, Addresses DEF Within
      <4>6. (HeapPages + 1) * PageSize - 1 = top - 1
        BY Sizes
      <4> HIDE DEF top
      <4>7. QED
        BY <4>4, <4>5, <4>6, Sizes DEF Addr
    <3>2. QED
      BY <1>4, <1>5, <1>7, <1>8, <3>1 DEF PointerInv, p
  <2>2. ASSUME NEW q \in DOMAIN kinfo
        PROVE  PointerInv(minors', info', q)
    <3>1. PointerInv(minors, info, q) /\ HeaderOf(info, q) \in DOMAIN minors'
      BY <1>1, <1>2, <1>4 DEF InfoInv
    <3>2. QED
      BY <1>7, <1>9, <3>1 DEF PointerInv
  <2>3. QED
    BY <1>7, <2>1, <2>2 DEF InfoInv
<1>12. /\ LiveIn(minors') = LiveIn(minors) \cup {a}
       /\ \A b \in LiveIn(minors) : minors'[b].req_size = minors[b].req_size
  BY <1>4 DEF Inserted
<1>13. DeadInv(minors', info', lost')
  <2>1. ASSUME NEW x \in DOMAIN minors' \ LiveIn(minors')
        PROVE  /\ lost' # NULL /\ x = HeaderOf(info', lost')
               /\ minors'[x].next # NULL => minors'[x].next \in LiveIn(minors')
                                            /\ x < minors'[x].next
    <3>1. x \in DOMAIN KeptMinors(a) /\ x \in DOMAIN minors \ LiveIn(minors)
      BY <1>2, <1>4, <1>12, <2>1
    <3>2. /\ lost # NULL /\ x = HeaderOf(info, lost) /\ lost \in DOMAIN info
          /\ minors[x].next # NULL => minors[x].next \in LiveIn(minors) /\ x < minors[x].next
      BY <1>1, <3>1 DEF DeadInv
    <3>3. ~Gone(a)
      BY <1>2, <3>1, <3>2
    <3>4. lost' = lost /\ lost \in DOMAIN kinfo
      BY <1>2, <1>6, <3>2, <3>3
    <3>5. minors'[x] = minors[x]
      BY <1>4, <3>1
    <3>6. QED
      BY <1>9, <1>12, <3>2, <3>4, <3>5
  <2>2. ASSUME lost' # NULL
        PROVE  lost' \in DOMAIN info' /\ HeaderOf(info', lost') \in DOMAIN minors' \ LiveIn(minors')
    <3>1. ~Gone(a) /\ lost' = lost
      BY <1>6, <2>2
    <3>2. lost \in DOMAIN info /\ HeaderOf(info, lost) \in DOMAIN minors \ LiveIn(minors)
      BY <1>1, <2>2, <3>1 DEF DeadInv
    <3>3. lost \in DOMAIN kinfo
      BY <1>2, <3>1, <3>2
    <3>4. HeaderOf(info, lost) \in DOMAIN KeptMinors(a)
      BY <1>2, <3>3
    <3>5. QED
      BY <1>2, <1>4, <1>7, <1>9, <1>12, <3>1, <3>2, <3>3, <3>4
  <2>3. QED
    BY <2>1, <2>2 DEF DeadInv
<1>14. \A q \in DOMAIN held : /\ HeaderOf(info', q) \in LiveIn(minors')
                              /\ held[q] = minors'[HeaderOf(info', q)].req_size
  BY <1>1, <1>2, <1>9, <1>12 DEF HeldInv
<1>15. p \in Nat
  BY <1>1, <1>5, Sizes
<1>16. loc' \in LocRec /\ loc'.p = p /\ loc'.asked = loc.asked
  BY <1>1, <1>6, <1>15 DEF LocRec
<1>17. loc.asked = loc.req
  BY DEF Found, Searching, RequestInv
<1>18. DOMAIN held \subseteq DOMAIN info' /\ p \in DOMAIN info' \ DOMAIN held
  BY <1>2, <1>7
<1>19. QED
  BY <1>4, <1>6, <1>8, <1>10, <1>11, <1>12, <1>13, <1>14, <1>16, <1>17, <1>18 DEF p

\* What is left is the majors and the counters.
LEMMA PlaceInv ==
  ASSUME NEW m, NEW maj, NEW a, NEW before, NEW after,
         Found(m, used', maj, a, before, after), Place(m, maj, a, before, after),
         ListInv(m, l_memRoot), Ledger(m, minors), l_inuse = TotalSize(minors, LiveIn(minors)),
         l_allocated' = TotalSize(m, DOMAIN m),
         \A x \in DOMAIN m : m[x].first = NULL => x = maj,
         l_bestBet' \in DOMAIN m \cup {NULL}, UNCHANGED <<l_memRoot, held, halted>>
  PROVE  HeapInv'
<1>1. /\ Typed /\ SoundMajors(m, used') /\ SoundMinors(m, minors) /\ MinorsTyped(minors)
      /\ RequestInv(loc) /\ a \in Nat /\ m[maj].usage + Need <= m[maj].size
      /\ Gap(m, minors, maj, before, after, a, a + (MinorHdr + loc.size))
  BY DEF Found, Searching, Typed, Gap
<1>2. BlockPlaced(m, maj, a, before, after)
  BY PlaceBlock
<1>3. /\ MinorsTyped(minors') /\ MajorsTyped(majors')
      /\ Inserted(m, minors, majors', minors', maj, before, after, a)
      /\ OneMore(minors, minors', a)
      /\ minors'[a].size = loc.size /\ minors'[a].req_size = loc.req
      /\ SameMajors(m, majors')
      /\ \A x \in DOMAIN m :
              majors'[x].usage = IF x = maj THEN m[x].usage + (MinorHdr + loc.size)
                                            ELSE m[x].usage
  BY <1>2 DEF BlockPlaced
<1>4. /\ info' \in [DOMAIN info' -> Nat] /\ InfoInv(minors', info')
      /\ DeadInv(minors', info', lost') /\ DOMAIN held \subseteq DOMAIN info'
      /\ \A p \in DOMAIN held : /\ HeaderOf(info', p) \in LiveIn(minors')
                                /\ held[p] = minors'[HeaderOf(info', p)].req_size
      /\ loc' = [loc EXCEPT !.p = ALIGN(a + MinorHdr)] /\ loc' \in LocRec
      /\ loc'.p \in DOMAIN info' \ DOMAIN held
      /\ HeaderOf(info', loc'.p) \in LiveIn(minors')
      /\ minors'[HeaderOf(info', loc'.p)].req_size = loc'.asked
  BY PlacePointers
<1>5. /\ pc' = "return" /\ l_inuse' = l_inuse + loc.size
  BY DEF Place
<1>6. Typed'
  <2>1. held' = held /\ halted' = halted /\ held \in [DOMAIN held -> Nat] /\ halted \in BOOLEAN
    BY <1>1 DEF Typed
  <2>2. QED
    BY <1>3, <1>4, <1>5, <2>1 DEF Typed
<1>7. SoundMajors(majors', used') /\ ListInv(majors', l_memRoot)
  BY <1>1, <1>3, MajorsKept
<1>8. MinorsInv(majors', minors')
  <2>1. minors'[a].req_size + BlockCost <= minors'[a].size
    BY <1>1, <1>3, RequestSizes
  <2> DEFINE e == a + (MinorHdr + loc.size)
  <2>2. e = End(minors', a) /\ Gap(m, minors, maj, before, after, a, e)
    BY <1>1, <1>3 DEF End
  <2> HIDE DEF e
  <2>3. QED
    BY <1>1, <1>3, <2>1, <2>2, InsertKeepsLists
<1>9. SearchInv'
  BY <1>3, <1>5 DEF SearchInv, SameMajors
<1>10. EmptyInv'
  <2>1. \A x \in DOMAIN m : majors'[x].first # NULL
    <3> TAKE x \in DOMAIN m
    <3>1. majors'[x].first = IF x = maj /\ before = NULL THEN a ELSE m[x].first
      BY <1>3 DEF Inserted
    <3>2. a # NULL
      BY <1>3, LiveFacts, MinorFacts DEF OneMore
    <3>3. CASE x = maj /\ before # NULL
      <4>1. m[x].first # NULL
        <5>1. before \in Own(minors, x)
          BY <1>1, <3>3 DEF Gap
        <5>2. FirstInv(m, minors, x)
          BY <1>1 DEF SoundMinors, MinorsInv
        <5>3. QED
          BY <5>1, <5>2 DEF FirstInv
      <4>2. QED
        BY <3>1, <3>3, <4>1
    <3>4. CASE x = maj /\ before = NULL
      BY <3>1, <3>2, <3>4
    <3>5. CASE x # maj
      BY <3>1, <3>5
    <3>6. QED
      BY <3>3, <3>4, <3>5
  <2>2. QED
    BY <1>3, <2>1 DEF EmptyInv, SameMajors
<1>11. HeldInv'
  BY <1>4 DEF HeldInv
<1>12. CallInv'
  <2>1. RequestInv(loc')
    <3>1. /\ loc'.asked = loc.asked /\ loc'.req = loc.req /\ loc'.size = loc.size
          /\ loc'.op = loc.op /\ loc'.old = loc.old
      BY <1>1, <1>4 DEF Typed, LocRec
    <3>2. QED
      BY <1>1, <3>1 DEF RequestInv
  <2>2. RequestInv(loc)'
    BY <2>1 DEF RequestInv
  <2>3. QED
    BY <1>4, <2>2 DEF CallInv
<1>13. Accounts(majors', minors', l_inuse', l_allocated')
  <2>1. /\ TotalSize(minors', LiveIn(minors')) = TotalSize(minors, LiveIn(minors)) + minors'[a].size
        /\ \A x : /\ Load(minors, x) \in Nat
                  /\ Load(minors', x) = IF x = minors'[a].block
                                        THEN Load(minors, x) + (MinorHdr + minors'[a].size)
                                        ELSE Load(minors, x)
    BY <1>1, <1>3, OneMoreCounted
  <2>2. l_inuse' = TotalSize(minors', LiveIn(minors'))
    BY <1>3, <1>5, <2>1
  <2>3. l_allocated' = TotalSize(majors', DOMAIN majors')
    BY <1>1, <1>3, MajorsCountedSame DEF SameMajors, SoundMajors
  <2>4. Ledger(majors', minors')
    <3>1. DOMAIN majors' = DOMAIN m /\ minors'[a].block = maj
      BY <1>3 DEF SameMajors, Inserted
    <3> SUFFICES ASSUME NEW x \in DOMAIN m
                 PROVE  majors'[x].usage = MajorHdr + Load(minors', x)
      BY <3>1 DEF Ledger
    <3>2. /\ m[x].usage = MajorHdr + Load(minors, x)
          /\ majors'[x].usage = IF x = maj THEN m[x].usage + (MinorHdr + loc.size)
                                           ELSE m[x].usage
          /\ Load(minors', x) = IF x = maj THEN Load(minors, x) + (MinorHdr + loc.size)
                                           ELSE Load(minors, x)
      BY <1>3, <2>1, <3>1 DEF Ledger
    <3> DEFINE l == Load(minors, x)
               k == Load(minors', x)
    <3>3. l \in Nat /\ loc.size \in Nat /\ MinorHdr \in Nat /\ MajorHdr \in Nat
      BY <1>1, <2>1, RequestSizes, Sizes
    <3>4. /\ m[x].usage = MajorHdr + l
          /\ k = IF x = maj THEN l + (MinorHdr + loc.size) ELSE l
      BY <3>2
    <3> HIDE DEF l, k
    <3>5. majors'[x].usage = MajorHdr + k
      BY <3>2, <3>3, <3>4
    <3>6. QED
      BY <3>5 DEF k
  <2>5. QED
    BY <2>2, <2>3, <2>4 DEF Accounts
<1>14. AccountingExact'
  BY <1>3, <1>13, AccountsPrimed
<1>15. QED
  BY <1>3, <1>4, <1>6, <1>7, <1>8, <1>9, <1>10, <1>11, <1>12, <1>14
  DEF HeapInv, SoundMajors

-----------------------------------------------------------------------------
(* A new major.                                                            *)

LEMMA Division ==
  ASSUME NEW x \in Nat
  PROVE  /\ x \div PageSize \in Nat /\ x % PageSize \in Nat /\ x % PageSize < PageSize
         /\ x = PageSize * (x \div PageSize) + (x % PageSize)
BY Sizes

\* It has room for the block that it was made for.
LEMMA NewMajorIs ==
  ASSUME NEW size \in Nat, MajorHdr + ((MinorHdr + size) + PageSize) <= UINT, NEW prev
  PROVE  \E n \in Nat :
           /\ n = NewMajorPages(size) /\ n >= 1 /\ n * PageSize \in Nat /\ n * PageSize < UINT
           /\ MajorHdr + (MinorHdr + size) <= n * PageSize
           /\ NewMajor(size, prev) = [prev |-> prev, next |-> NULL, pages |-> n,
                                      size |-> n * PageSize, usage |-> MajorHdr, first |-> NULL]
<1> DEFINE st == size + MajorHdr + MinorHdr
           q  == st \div PageSize
           r  == st % PageSize
           n  == NewMajorPages(size)
<1>1. /\ st \in Nat /\ st < UINT /\ st > 0 /\ size < UINT /\ st = MajorHdr + (MinorHdr + size)
      /\ st + PageSize <= UINT
  BY Sizes
<1>2. uint(uint(size) + MajorHdr + MinorHdr) = st
  <2>1. uint(size) = size
    BY <1>1, Widths
  <2>2. uint(st) = st
    <3> HIDE DEF st
    <3>1. QED
      BY <1>1, Widths
  <2>3. QED
    BY <2>1, <2>2
<1>3. n = IF RoundedPages(st) < PageCount THEN PageCount ELSE RoundedPages(st)
  BY <1>2 DEF NewMajorPages
<1>4. RoundedPages(st) = IF r = 0 THEN q ELSE q + 1
  BY DEF RoundedPages
<1> HIDE DEF st
<1>5. q \in Nat /\ r \in Nat /\ r < PageSize /\ st = q * PageSize + r
  <2>1. q \in Nat /\ r \in Nat /\ r < PageSize /\ st = PageSize * q + r
    BY <1>1, Division DEF q, r
  <2>2. PageSize * q = q * PageSize
    <3> HIDE DEF q
    <3>1. QED
      BY <2>1, Sizes
  <2>3. QED
    BY <2>1, <2>2
<1> HIDE DEF q, r, n
<1>6. q * PageSize \in Nat /\ (q + 1) * PageSize = q * PageSize + PageSize
  BY <1>5, Sizes, Times
<1>7. \E k \in Nat : /\ k = RoundedPages(st) /\ k * PageSize \in Nat
                     /\ st <= k * PageSize /\ k * PageSize < UINT
  <2> DEFINE a == q * PageSize
             b == (q + 1) * PageSize
  <2>1. a \in Nat /\ b = a + PageSize /\ st = a + r
    BY <1>5, <1>6
  <2>2. (r = 0 => st <= a /\ a < UINT) /\ (r # 0 => st <= b /\ b < UINT /\ b \in Nat)
    <3> HIDE DEF a, b
    <3>1. QED
      BY <1>1, <1>5, <2>1, Sizes
  <2>3. CASE r = 0
    BY <1>4, <1>5, <2>1, <2>2, <2>3
  <2>4. CASE r # 0
    <3>1. q + 1 \in Nat
      BY <1>5
    <3>2. QED
      BY <1>4, <2>2, <2>4, <3>1
  <2>5. QED
    BY <2>3, <2>4
<1>8. PICK k \in Nat : /\ k = RoundedPages(st) /\ k * PageSize \in Nat
                       /\ st <= k * PageSize /\ k * PageSize < UINT
  BY <1>7
<1>9. n \in Nat /\ k <= n /\ n * PageSize < UINT
  BY <1>3, <1>8, Sizes
<1>10. k * PageSize <= n * PageSize /\ n * PageSize \in Nat
  BY <1>8, <1>9, Sizes, Times
<1>11. n >= 1
  <2>1. n # 0
    <3> SUFFICES ASSUME n = 0
                 PROVE  FALSE
      OBVIOUS
    <3>1. n * PageSize = 0
      BY Sizes
    <3>2. QED
      BY <1>1, <1>8, <1>10, <3>1
  <2>2. QED
    BY <1>9, <2>1
<1>12. uint(n * PageSize) = n * PageSize
  BY <1>9, <1>10, Widths
<1>13. NewMajor(size, prev) = [prev |-> prev, next |-> NULL, pages |-> n,
                               size |-> n * PageSize, usage |-> MajorHdr, first |-> NULL]
  BY <1>12 DEF NewMajor, n
<1>14. MajorHdr + (MinorHdr + size) <= n * PageSize
  BY <1>1, <1>8, <1>9, <1>10
<1>15. QED
  BY <1>9, <1>10, <1>11, <1>13, <1>14 DEF n

\* mj2 has one major more, of n pages, at x, behind the major last.
MajorAdded(mj, mj2, x, n, last) ==
  /\ x \notin DOMAIN mj /\ DOMAIN mj2 = DOMAIN mj \cup {x}
  /\ mj2[x] = [prev |-> last, next |-> NULL, pages |-> n, size |-> n * PageSize,
               usage |-> MajorHdr, first |-> NULL]
  /\ \A y \in DOMAIN mj :
       mj2[y] = IF y = last THEN [mj[y] EXCEPT !.next = x] ELSE mj[y]

LEMMA AddedPages ==
  ASSUME NEW mj, NEW us, SoundMajors(mj, us), NEW mj2, NEW s \in Nat, NEW n \in Nat,
         n >= 1, PageRun(s, n) \subseteq Pages \ us,
         n * PageSize < UINT, MajorHdr <= n * PageSize, NEW last \in DOMAIN mj \cup {NULL},
         MajorAdded(mj, mj2, s * PageSize, n, last), mj2 = [y \in DOMAIN mj2 |-> mj2[y]]
  PROVE  SoundMajors(mj2, us \cup PageRun(s, n))
<1> DEFINE x == s * PageSize
           new == [prev |-> last, next |-> NULL, pages |-> n, size |-> n * PageSize,
                   usage |-> MajorHdr, first |-> NULL]
<1>1. /\ MajorsTyped(mj) /\ MajorsInv(mj, us)
      /\ MajorAdded(mj, mj2, x, n, last)
  BY DEF SoundMajors
<1>2. s >= 1 /\ x \div PageSize = s /\ x \in Addr /\ n * PageSize \in Nat
  BY RunExtent, Sizes, Times
<1> HIDE DEF x
<1>3. new \in MajorRec
  BY <1>1, <1>2, Addresses, Sizes DEF MajorRec, MajorsTyped
<1>4. /\ DOMAIN mj2 = DOMAIN mj \cup {x} /\ x \notin DOMAIN mj /\ mj2[x] = new
      /\ \A y \in DOMAIN mj :
           /\ mj2[y] \in MajorRec /\ mj2[y].pages = mj[y].pages /\ mj2[y].size = mj[y].size
           /\ mj2[y].usage = mj[y].usage
  <2>1. \A y \in DOMAIN mj : mj[y] \in MajorRec
    BY <1>1 DEF MajorsTyped
  <2>2. x \in Nat
    BY <1>2, Addresses
  <2>3. QED
    BY <1>1, <2>1, <2>2 DEF MajorAdded, MajorRec
<1> HIDE DEF new
<1>5. MajorsTyped(mj2)
  BY <1>1, <1>2, <1>3, <1>4 DEF MajorsTyped
<1>6. new.pages = n /\ new.size = n * PageSize /\ new.usage = MajorHdr
  BY DEF new
<1>7. /\ MajorPages(mj2, x) = PageRun(s, n)
      /\ \A y \in DOMAIN mj : MajorPages(mj2, y) = MajorPages(mj, y)
  BY <1>2, <1>4, <1>6 DEF MajorPages
<1>8. MajorInv(mj2, x)
  BY <1>2, <1>4, <1>6, <1>7 DEF MajorInv, x
<1>9. \A y \in DOMAIN mj : MajorInv(mj2, y)
  BY <1>1, <1>4, <1>7 DEF MajorsInv, MajorInv
<1>10. us = UNION {MajorPages(mj, y) : y \in DOMAIN mj}
  BY <1>1 DEF MajorsInv
<1>11. us \cup PageRun(s, n) = UNION {MajorPages(mj2, y) : y \in DOMAIN mj2}
  <2>1. UNION {MajorPages(mj2, y) : y \in DOMAIN mj2}
          = (UNION {MajorPages(mj2, y) : y \in DOMAIN mj}) \cup MajorPages(mj2, x)
    BY <1>4
  <2>2. {MajorPages(mj2, y) : y \in DOMAIN mj} = {MajorPages(mj, y) : y \in DOMAIN mj}
    BY <1>7
  <2>3. QED
    BY <1>7, <1>10, <2>1, <2>2
<1>12. \A y \in DOMAIN mj : MajorPages(mj, y) \cap PageRun(s, n) = {}
  BY <1>10
<1>13. ASSUME NEW y \in DOMAIN mj2, NEW z \in DOMAIN mj2, y # z
       PROVE  MajorPages(mj2, y) \cap MajorPages(mj2, z) = {}
  <2>1. CASE y = x
    BY <1>4, <1>7, <1>12, <1>13, <2>1
  <2>2. CASE z = x
    BY <1>4, <1>7, <1>12, <1>13, <2>2
  <2>3. CASE y # x /\ z # x
    BY <1>1, <1>4, <1>7, <1>13, <2>3 DEF MajorsInv
  <2>4. QED
    BY <2>1, <2>2, <2>3
<1>14. QED
  BY <1>4, <1>5, <1>8, <1>9, <1>11, <1>13 DEF SoundMajors, MajorsInv

LEMMA FreeRunIsNew ==
  ASSUME NEW mj, NEW us, SoundMajors(mj, us), NEW n \in Nat, n >= 1, NEW s \in Nat,
         PageRun(s, n) \subseteq Pages \ us
  PROVE  s * PageSize \notin DOMAIN mj
<1> DEFINE x == s * PageSize
<1> SUFFICES ASSUME x \in DOMAIN mj
             PROVE  FALSE
  OBVIOUS
<1>1. x \div PageSize = s
  BY RunExtent
<1> HIDE DEF x
<1>2. MajorInv(mj, x) /\ mj[x].pages \in Nat
  BY DEF SoundMajors, MajorsInv, MajorsTyped, MajorRec
<1>3. s \in MajorPages(mj, x) /\ s \in PageRun(s, n)
  BY <1>1, <1>2 DEF MajorInv, MajorPages, PageRun
<1>4. s \in us
  BY <1>3 DEF SoundMajors, MajorsInv
<1>5. QED
  BY <1>3, <1>4

\* The new major ends the list, or is the first of it.
LEMMA AddedList ==
  ASSUME NEW mj, NEW mj2, NEW root, NEW x \in Nat, x # NULL, NEW n, NEW last, ListInv(mj, root),
         MajorsTyped(mj), MajorAdded(mj, mj2, x, n, last),
         IF root = NULL THEN last = NULL ELSE last \in DOMAIN mj /\ mj[last].next = NULL
  PROVE  ListInv(mj2, IF root = NULL THEN x ELSE root)
<1>1. /\ DOMAIN mj2 = DOMAIN mj \cup {x} /\ x \notin DOMAIN mj
      /\ mj2[x].prev = last /\ mj2[x].next = NULL
  BY DEF MajorAdded
<1>2. \A y \in DOMAIN mj : /\ y \in Nat /\ y # NULL
                           /\ mj2[y].next = IF y = last THEN x ELSE mj[y].next
                           /\ mj2[y].prev = mj[y].prev
  <2>1. \A y \in DOMAIN mj : mj[y] \in MajorRec /\ y \in Nat /\ y # NULL
    BY Addresses DEF MajorsTyped
  <2>2. QED
    BY <2>1 DEF MajorAdded, MajorRec
<1>3. PICK ord \in [DOMAIN mj -> Nat] :
        \A y \in DOMAIN mj : mj[y].next # NULL => ord[y] < ord[mj[y].next]
  BY DEF ListInv
<1>4. \A y \in DOMAIN mj : mj[y].next # NULL => mj[y].next \in DOMAIN mj
  BY DEF ListInv, Linked
<1>5. CASE root = NULL
  <2>1. last = NULL /\ DOMAIN mj = {}
    BY <1>5 DEF ListInv
  <2>2. DOMAIN mj2 = {x}
    BY <1>1, <2>1
  <2>3. Linked(mj2, x, x)
    BY <1>1 DEF Linked
  <2>4. \E o \in [DOMAIN mj2 -> Nat] :
          \A y \in DOMAIN mj2 : mj2[y].next # NULL => o[y] < o[mj2[y].next]
    <3>1. [y \in DOMAIN mj2 |-> 0] \in [DOMAIN mj2 -> Nat]
      OBVIOUS
    <3>2. \A y \in DOMAIN mj2 : mj2[y].next = NULL
      BY <1>1, <2>2
    <3>3. QED
      BY <3>1, <3>2
  <2>5. QED
    BY <1>1, <1>5, <2>1, <2>2, <2>3, <2>4 DEF ListInv
<1>6. CASE root # NULL
  <2>1. /\ last \in DOMAIN mj /\ mj[last].next = NULL /\ last # NULL
        /\ root \in DOMAIN mj /\ mj[root].prev = NULL
    BY <1>2, <1>6 DEF ListInv
  <2>2. ASSUME NEW y \in DOMAIN mj2
        PROVE  Linked(mj2, root, y)
    <3>1. CASE y = x
      BY <1>1, <1>2, <2>1, <3>1 DEF Linked
    <3>2. CASE y # x
      <4>1. y \in DOMAIN mj /\ Linked(mj, root, y)
        BY <1>1, <2>2, <3>2 DEF ListInv
      <4>2. y # root => mj2[y].prev \in DOMAIN mj2 /\ mj2[mj2[y].prev].next = y
        <5> SUFFICES ASSUME y # root
                     PROVE  mj2[y].prev \in DOMAIN mj2 /\ mj2[mj2[y].prev].next = y
          OBVIOUS
        <5>1. mj[y].prev \in DOMAIN mj /\ mj[mj[y].prev].next = y /\ y # NULL
          BY <1>2, <4>1 DEF Linked
        <5>2. mj[y].prev # last
          BY <2>1, <5>1
        <5>3. QED
          BY <1>1, <1>2, <4>1, <5>1, <5>2
      <4>3. mj2[y].next # NULL =>
              mj2[y].next \in DOMAIN mj2 /\ mj2[mj2[y].next].prev = y
        BY <1>1, <1>2, <4>1 DEF Linked
      <4>4. QED
        BY <4>2, <4>3 DEF Linked
    <3>3. QED
      BY <3>1, <3>2
  <2>3. \E o \in [DOMAIN mj2 -> Nat] :
          \A y \in DOMAIN mj2 : mj2[y].next # NULL => o[y] < o[mj2[y].next]
    <3> DEFINE o == [y \in DOMAIN mj2 |-> IF y = x THEN ord[last] + 1 ELSE ord[y]]
    <3>1. ord[last] \in Nat /\ \A y \in DOMAIN mj : ord[y] \in Nat
      BY <1>3, <2>1
    <3>2. o \in [DOMAIN mj2 -> Nat]
      BY <1>1, <3>1
    <3>3. o[x] = ord[last] + 1 /\ \A y \in DOMAIN mj : o[y] = ord[y]
      BY <1>1
    <3> HIDE DEF o
    <3>4. ASSUME NEW y \in DOMAIN mj2, mj2[y].next # NULL
          PROVE  o[y] < o[mj2[y].next]
      <4>1. y \in DOMAIN mj
        BY <1>1, <3>4
      <4>2. CASE y = last
        BY <1>2, <3>1, <3>3, <4>1, <4>2
      <4>3. CASE y # last
        BY <1>2, <1>3, <1>4, <3>3, <3>4, <4>1, <4>3
      <4>4. QED
        BY <4>2, <4>3
    <3>5. QED
      BY <3>2, <3>4
  <2>4. QED
    BY <1>1, <1>2, <1>6, <2>1, <2>2, <2>3 DEF ListInv
<1>7. QED
  BY <1>5, <1>6

\* Nothing changes for the blocks.
LEMMA AddedBlocks ==
  ASSUME NEW mj, NEW mj2, NEW mn, NEW x, NEW n, NEW last, MajorsTyped(mj),
         MajorAdded(mj, mj2, x, n, last), SoundMinors(mj, mn), Ledger(mj, mn)
  PROVE  SoundMinors(mj2, mn) /\ Ledger(mj2, mn)
<1>1. /\ DOMAIN mj2 = DOMAIN mj \cup {x} /\ x \notin DOMAIN mj
      /\ mj2[x].first = NULL /\ mj2[x].usage = MajorHdr
  BY DEF MajorAdded
<1>2. \A y \in DOMAIN mj : /\ mj2[y].first = mj[y].first /\ mj2[y].size = mj[y].size
                           /\ mj2[y].usage = mj[y].usage
  BY DEF MajorAdded, MajorsTyped, MajorRec
<1>3. Own(mn, x) = {}
  <2>1. \A b \in LiveIn(mn) : mn[b].block \in DOMAIN mj
    BY DEF SoundMinors, MinorsInv, BlockInv
  <2>2. QED
    BY <1>1, <2>1 DEF Own
<1>4. ASSUME NEW b \in LiveIn(mn)
      PROVE  /\ BlockInv(mj2, mn, b) /\ NextInv(mn, b)
             /\ PrevInv(mj2, mn, b) /\ NearestInv(mn, b)
  <2>1. BlockInv(mj, mn, b) /\ NextInv(mn, b) /\ PrevInv(mj, mn, b) /\ NearestInv(mn, b)
    BY DEF SoundMinors, MinorsInv
  <2>2. mn[b].block \in DOMAIN mj
    BY <2>1 DEF BlockInv
  <2>3. BlockInv(mj2, mn, b)
    BY <1>1, <1>2, <2>1, <2>2 DEF BlockInv
  <2>4. PrevInv(mj2, mn, b)
    BY <1>2, <2>1, <2>2 DEF PrevInv
  <2>5. QED
    BY <2>1, <2>3, <2>4
<1>5. ASSUME NEW y \in DOMAIN mj2
      PROVE  FirstInv(mj2, mn, y)
  <2>1. CASE y = x
    BY <1>1, <1>3, <2>1 DEF FirstInv
  <2>2. CASE y # x
    <3>1. y \in DOMAIN mj /\ FirstInv(mj, mn, y)
      BY <1>1, <1>5, <2>2 DEF SoundMinors, MinorsInv
    <3>2. QED
      BY <1>2, <3>1 DEF FirstInv
  <2>3. QED
    BY <2>1, <2>2
<1>6. Ledger(mj2, mn)
  <2>1. Load(mn, x) = 0
    BY <1>3, EmptyLoad
  <2>2. mj2[x].usage = MajorHdr + Load(mn, x)
    BY <1>1, <2>1, Sizes
  <2>3. QED
    BY <1>1, <1>2, <2>2 DEF Ledger
<1>7. QED
  BY <1>4, <1>5, <1>6 DEF SoundMinors, MinorsInv

-----------------------------------------------------------------------------
(* What the search sees.                                                   *)

\* The parts of the invariant, as the lemmas above name them.
LEMMA HeapParts ==
  ASSUME HeapInv
  PROVE  /\ SoundMajors(majors, used) /\ SoundMinors(majors, minors)
         /\ Typed /\ MinorsTyped(minors) /\ MajorsTyped(majors)
         /\ info \in [DOMAIN info -> Nat] /\ InfoInv(minors, info)
         /\ DeadInv(minors, info, lost) /\ HeldInv
         /\ ListInv(majors, l_memRoot) /\ SearchInv /\ EmptyInv /\ CallInv
         /\ Ledger(majors, minors) /\ l_inuse = TotalSize(minors, LiveIn(minors))
         /\ l_allocated = TotalSize(majors, DOMAIN majors)
<1>1. MinorsTyped(minors) /\ MajorsTyped(majors) /\ info \in [DOMAIN info -> Nat]
  BY DEF HeapInv, Typed
<1>2. Accounts(majors, minors, l_inuse, l_allocated)
  BY <1>1, AccountsAre DEF HeapInv
<1>3. QED
  BY <1>1, <1>2 DEF HeapInv, SoundMajors, SoundMinors, Accounts

\* No list of minors comes back to where it was.
LEMMA ListsRise ==
  ASSUME HeapInv
  PROVE  Forward(minors, DOMAIN minors)
<1>1. MinorsTyped(minors) /\ DeadInv(minors, info, lost) /\ SoundMinors(majors, minors)
  BY HeapParts
<1> SUFFICES ASSUME NEW a \in DOMAIN minors, minors[a].next # NULL
             PROVE  minors[a].next \in DOMAIN minors /\ a < minors[a].next
  BY DEF Forward
<1>2. CASE a \in LiveIn(minors)
  <2>1. /\ minors[a].next \in Own(minors, minors[a].block)
        /\ End(minors, a) <= minors[a].next
    BY <1>1, <1>2 DEF SoundMinors, MinorsInv, NextInv
  <2>2. minors[a].next \in DOMAIN minors
    BY <1>1, <2>1, LiveFacts
  <2>3. QED
    BY <1>1, <2>1, <2>2, MinorFacts
<1>3. CASE a \notin LiveIn(minors)
  <2>1. minors[a].next \in LiveIn(minors) /\ a < minors[a].next
    BY <1>1, <1>3 DEF DeadInv
  <2>2. QED
    BY <1>1, <2>1, LiveFacts
<1>4. QED
  BY <1>2, <1>3

\* MinorList is a list of the blocks of the major, from the first one on.
LEMMA MinorListIs ==
  ASSUME HeapInv, NEW x \in DOMAIN majors
  PROVE  /\ majors[x].first = NULL => MinorList(x) = <<>>
         /\ majors[x].first # NULL => Follows(minors, MinorList(x), majors[x].first)
         /\ MinorList(x) \in Seq(DOMAIN minors)
         /\ \A k \in 1 .. Len(MinorList(x)) : MinorList(x)[k] \in Own(minors, x)
<1> DEFINE D == DOMAIN minors
           first == majors[x].first
           list == MinorList(x)
<1>1. /\ MinorsTyped(minors) /\ SoundMinors(majors, minors)
      /\ IsFiniteSet(D) /\ D \subseteq Nat \ {NULL} /\ Forward(minors, D)
  BY HeapParts, ListsRise, Addresses, FS_Subset DEF MinorsTyped
<1> DEFINE f == CHOOSE g : Chains(minors, D, g)
<1>2. Chains(minors, D, f)
  BY <1>1, ChainsExist
<1>3. list = f[first]
  BY MinorListIsChosen
<1> HIDE DEF f, list
<1>4. CASE first = NULL
  <2>1. list = <<>>
    BY <1>2, <1>3, <1>4 DEF Chains, ChainStep
  <2>2. Len(list) = 0 /\ list \in Seq(D)
    BY <2>1
  <2>3. QED
    BY <1>4, <2>1, <2>2 DEF list
<1>5. CASE first # NULL
  <2>1. first \in Own(minors, x) /\ first \in D
    <3>1. FirstInv(majors, minors, x)
      BY <1>1 DEF SoundMinors, MinorsInv
    <3>2. first \in Own(minors, x)
      BY <1>5, <3>1 DEF FirstInv
    <3>3. QED
      BY <1>1, <3>2, LiveFacts
  <2>2. list \in Seq(D) /\ Follows(minors, list, first)
    BY <1>1, <1>2, <1>3, <2>1, ChainsFollow
  <2> DEFINE Bad == {k \in 1 .. Len(list) : list[k] \notin Own(minors, x)}
  <2>3. Bad = {}
    <3> SUFFICES ASSUME Bad # {}
                 PROVE  FALSE
      OBVIOUS
    <3>1. Bad \subseteq Nat
      OBVIOUS
    <3>2. PICK k \in Bad : \A j \in Bad : k <= j
      BY <3>1, LeastNumber
    <3>3. k \in 1 .. Len(list) /\ list[k] \notin Own(minors, x)
      OBVIOUS
    <3>4. k # 1
      BY <2>1, <2>2, <3>3 DEF Follows
    <3>5. Len(list) \in Nat
      BY <2>2
    <3>6. k - 1 \in 1 .. Len(list) /\ k - 1 \notin Bad /\ k - 1 # Len(list) /\ (k - 1) + 1 = k
      BY <3>2, <3>3, <3>4, <3>5
    <3>7. list[k - 1] \in Own(minors, x) /\ minors[list[k - 1]].next = list[k]
      BY <2>2, <3>6 DEF Follows
    <3>8. list[k] # NULL
      BY <1>1, <2>2, <3>3
    <3>9. NextInv(minors, list[k - 1]) /\ minors[list[k - 1]].block = x
      BY <1>1, <3>7, LiveFacts DEF SoundMinors, MinorsInv
    <3>10. QED
      BY <3>3, <3>7, <3>8, <3>9 DEF NextInv
  <2>4. QED
    BY <1>5, <2>2, <2>3 DEF list
<1>6. QED
  BY <1>4, <1>5

LEMMA FreeIs ==
  ASSUME HeapInv, pc = "scan"
  PROVE  /\ loc.maj \in DOMAIN majors /\ RequestInv(loc) /\ Here \in MajorRec
         /\ Free = Here.size - Here.usage /\ Free \in Nat /\ Here.usage \in Nat
         /\ Searching(majors, used)
<1>1. loc.maj \in DOMAIN majors /\ RequestInv(loc)
  BY HeapParts DEF SearchInv, CallInv
<1>2. /\ Here \in MajorRec /\ Here.size < UINT /\ Here.usage <= Here.size
      /\ Here.usage \in Nat /\ Here.size \in Nat
  BY <1>1, HeapParts, MajorExtent DEF Here, SoundMajors, MajorRec
<1> DEFINE d == Here.size - Here.usage
<1>3. d \in Nat /\ d < UINT
  BY <1>2, Sizes
<1>4. uint(d) = d
  <2> HIDE DEF d
  <2>1. QED
    BY <1>3, Widths
<1>5. QED
  BY <1>1, <1>2, <1>3, <1>4, HeapParts DEF Free, Searching

\* CASES 2, 3 and 4 find a gap.
LEMMA GapsFound ==
  ASSUME HeapInv, pc = "scan", Free >= Need
  PROVE  /\ Here.first = NULL =>
              Found(majors, used, loc.maj, loc.maj + MajorHdr, NULL, NULL)
         /\ Here.first # NULL /\ FrontFits =>
              Found(majors, used, loc.maj, loc.maj + MajorHdr, NULL, Here.first)
         /\ Here.first # NULL =>
              \A k \in Fitting :
                LET min == MinorList(loc.maj)[k]
                IN  Found(majors, used, loc.maj, min + MinorHdr + minors[min].size,
                          min, minors[min].next)
<1> DEFINE x == loc.maj
<1>1. /\ x \in DOMAIN majors /\ majors[x] = Here
      /\ Free = Here.size - Here.usage /\ Free \in Nat /\ Here.usage \in Nat
      /\ Searching(majors, used) /\ MajorsTyped(majors)
      /\ SoundMajors(majors, used) /\ SoundMinors(majors, minors)
  BY FreeIs, HeapParts DEF Here
<1>2. /\ loc.size \in Nat /\ Need = MinorHdr + loc.size /\ Need \in Nat
      /\ x \in Nat /\ Here.size \in Nat
  BY <1>1, RequestSizes, Addresses, FreeIs DEF Searching, MajorsTyped, MajorRec
<1>3. Here.usage + Need <= Here.size /\ MajorHdr <= Here.usage
  <2>1. Here.usage = MajorHdr + Load(minors, x)
    BY <1>1, HeapParts DEF Ledger
  <2>2. Load(minors, x) \in Nat
    <3> DEFINE s == TotalSize(minors, Own(minors, x))
               c == Cardinality(Own(minors, x))
    <3>1. s \in Nat /\ c \in Nat
      BY HeapParts, MinorsFinite, TotalType
    <3> HIDE DEF s, c
    <3>2. s + MinorHdr * c \in Nat
      BY <3>1, Sizes
    <3>3. QED
      BY <3>2 DEF Load, s, c
  <2>3. QED
    BY <1>1, <1>2, <2>1, <2>2, Sizes
<1>4. CASE Here.first = NULL
  <2>1. Gap(majors, minors, x, NULL, NULL, x + MajorHdr, (x + MajorHdr) + (MinorHdr + loc.size))
    <3>1. (x + MajorHdr) + (MinorHdr + loc.size) <= x + Here.size
      BY <1>1, <1>2, <1>3, Sizes
    <3>2. /\ x + MajorHdr \in Nat /\ (x + MajorHdr) + (MinorHdr + loc.size) \in Nat
          /\ x + MajorHdr < (x + MajorHdr) + (MinorHdr + loc.size) /\ x + MajorHdr <= x + MajorHdr
      BY <1>2, Sizes
    <3>3. QED
      BY <1>1, <1>4, <3>1, <3>2 DEF Gap
  <2>2. QED
    BY <1>1, <1>3, <1>4, <2>1 DEF Found
<1>5. ASSUME Here.first # NULL, FrontFits
      PROVE  Found(majors, used, x, x + MajorHdr, NULL, Here.first)
  <2> DEFINE first == Here.first
             d == first - x - MajorHdr
  <2>1. first \in Own(minors, x)
    <3>1. FirstInv(majors, minors, x)
      BY <1>1 DEF SoundMinors, MinorsInv
    <3>2. QED
      BY <1>1, <1>5, <3>1 DEF FirstInv
  <2>2. first \in Nat /\ first >= x + MajorHdr
    BY <1>1, <2>1, LiveFacts, MinorFacts DEF SoundMinors, MinorsInv, BlockInv
  <2>3. size_t(d) >= Need
    BY <1>1, <1>5 DEF FrontFits, GapInFront
  <2>4. d \in Nat /\ first = (x + MajorHdr) + d
    <3> HIDE DEF first
    <3>1. QED
      BY <1>2, <2>2, Sizes
  <2>5. size_t(d) \in Nat /\ size_t(d) <= d
    <3> HIDE DEF d
    <3>1. QED
      BY <2>4, Widths
  <2>6. Gap(majors, minors, x, NULL, first, x + MajorHdr, (x + MajorHdr) + (MinorHdr + loc.size))
    <3>1. (x + MajorHdr) + (MinorHdr + loc.size) <= first
      <4> HIDE DEF d, first
      <4>1. QED
        BY <1>2, <2>2, <2>3, <2>4, <2>5, Sizes
    <3>2. /\ x + MajorHdr \in Nat /\ (x + MajorHdr) + (MinorHdr + loc.size) \in Nat
          /\ x + MajorHdr < (x + MajorHdr) + (MinorHdr + loc.size) /\ x + MajorHdr <= x + MajorHdr
      BY <1>2, Sizes
    <3>3. QED
      BY <1>1, <1>5, <3>1, <3>2 DEF Gap
  <2>7. QED
    BY <1>1, <1>3, <2>6 DEF Found
<1>6. ASSUME NEW k \in Fitting
      PROVE  LET min == MinorList(x)[k]
             IN  Found(majors, used, x, min + MinorHdr + minors[min].size,
                       min, minors[min].next)
  <2> DEFINE min == MinorList(x)[k]
             end == End(minors, min)
             top == IF minors[min].next = NULL THEN x + majors[x].size ELSE minors[min].next
             d == top - min - MinorHdr - minors[min].size
  <2>1. min \in Own(minors, x) /\ size_t(d) >= Need
    <3>1. k \in 1 .. Len(MinorList(x)) /\ GapBehind(x, min) >= Need
      BY DEF Fitting
    <3>2. min \in Own(minors, x)
      BY <1>1, <3>1, MinorListIs
    <3>3. QED
      BY <3>1, <3>2 DEF GapBehind
  <2> HIDE DEF min
  <2>2. /\ min \in Nat /\ min # NULL /\ minors[min].size \in Nat /\ end \in Nat
        /\ end = min + (MinorHdr + minors[min].size) /\ minors[min].block = x
        /\ BlockInv(majors, minors, min) /\ NextInv(minors, min) /\ minors[min].next \in Nat
    BY <1>1, <2>1, LiveFacts, MinorFacts DEF SoundMinors, MinorsInv
  <2>3. top \in Nat /\ end <= top
    BY <1>1, <1>2, <2>2 DEF BlockInv, NextInv
  <2> HIDE DEF top, end
  <2>4. d \in Nat /\ top = end + d /\ min + MinorHdr + minors[min].size = end
    BY <2>2, <2>3, Sizes
  <2>5. size_t(d) \in Nat /\ size_t(d) <= d
    <3> HIDE DEF d
    <3>1. QED
      BY <2>4, Widths
  <2>6. end + (MinorHdr + loc.size) <= top /\ end < end + (MinorHdr + loc.size)
        /\ end + (MinorHdr + loc.size) \in Nat
    <3> HIDE DEF d
    <3>1. QED
      BY <1>2, <2>1, <2>2, <2>3, <2>4, <2>5, Sizes
  <2>7. Gap(majors, minors, x, min, minors[min].next, end, end + (MinorHdr + loc.size))
    BY <1>1, <2>1, <2>2, <2>6 DEF Gap, top, end
  <2>8. Found(majors, used, x, end, min, minors[min].next)
    BY <1>1, <1>3, <2>7 DEF Found
  <2>9. QED
    BY <2>4, <2>8 DEF min
<1>7. QED
  BY <1>4, <1>5, <1>6

-----------------------------------------------------------------------------
(* The steps of the search.                                                *)

\* The majors m have one more than before, at x, which is empty and has room
\* for a block of the given size.
Grown(m, us, root, x, size) ==
  /\ SoundMajors(m, us) /\ ListInv(m, root) /\ SoundMinors(m, minors) /\ Ledger(m, minors)
  /\ TotalSize(m, DOMAIN m) = l_allocated + NewMajor(size, NULL).size
  /\ x \in DOMAIN m /\ m[x].first = NULL /\ m[x].usage = MajorHdr
  /\ MajorHdr + (MinorHdr + size) <= m[x].size
  /\ DOMAIN m = DOMAIN majors \cup {x}
  /\ \A y \in DOMAIN m : m[y].first = NULL => y = x

LEMMA MajorGrown ==
  ASSUME HeapInv, \A y \in DOMAIN majors : majors[y].first # NULL,
         NEW size \in Nat, MajorHdr + ((MinorHdr + size) + PageSize) <= UINT,
         NEW s \in FreeRuns(NewMajorPages(size)), NEW last, NEW m,
         IF l_memRoot = NULL THEN last = NULL
                             ELSE last \in DOMAIN majors /\ majors[last].next = NULL,
         m = Put(IF last = NULL THEN majors ELSE [majors EXCEPT ![last].next = s * PageSize],
                 s * PageSize, NewMajor(size, last))
  PROVE  Grown(m, used \cup PageRun(s, NewMajorPages(size)),
               IF l_memRoot = NULL THEN s * PageSize ELSE l_memRoot, s * PageSize, size)
<1> DEFINE x == s * PageSize
           root == IF l_memRoot = NULL THEN x ELSE l_memRoot
<1>1. /\ SoundMajors(majors, used) /\ SoundMinors(majors, minors) /\ MajorsTyped(majors)
      /\ ListInv(majors, l_memRoot) /\ Ledger(majors, minors)
      /\ l_allocated = TotalSize(majors, DOMAIN majors)
  BY HeapParts
<1>2. \A p : \E n \in Nat :
           /\ n = NewMajorPages(size) /\ n >= 1 /\ n * PageSize \in Nat /\ n * PageSize < UINT
           /\ MajorHdr + (MinorHdr + size) <= n * PageSize
           /\ NewMajor(size, p) = [prev |-> p, next |-> NULL, pages |-> n,
                                   size |-> n * PageSize, usage |-> MajorHdr, first |-> NULL]
  BY NewMajorIs
<1> DEFINE n == NewMajorPages(size)
<1>3. /\ n \in Nat /\ n >= 1 /\ n * PageSize \in Nat /\ n * PageSize < UINT
      /\ MajorHdr + (MinorHdr + size) <= n * PageSize
      /\ \A p : NewMajor(size, p) = [prev |-> p, next |-> NULL, pages |-> n,
                                   size |-> n * PageSize, usage |-> MajorHdr, first |-> NULL]
  BY <1>2
<1>4. s \in Nat /\ PageRun(s, n) \subseteq Pages \ used /\ PageRun(s, n) \subseteq Pages
  BY DEF FreeRuns, Pages
<1> HIDE DEF n
<1>5. x \in Addr /\ x \notin DOMAIN majors /\ x \in Nat /\ x # NULL
  <2>1. x \in Addr
    BY <1>3, <1>4, RunExtent
  <2>2. x \notin DOMAIN majors
    BY <1>1, <1>3, <1>4, FreeRunIsNew
  <2>3. QED
    BY <2>1, <2>2, Addresses
<1> DEFINE new == [prev |-> last, next |-> NULL, pages |-> n,
                   size |-> n * PageSize, usage |-> MajorHdr, first |-> NULL]
<1>6. /\ last \in DOMAIN majors \cup {NULL}
      /\ m = Put(IF last = NULL THEN majors ELSE [majors EXCEPT ![last].next = x], x, new)
  BY <1>3
<1> HIDE DEF x
<1>7. NULL \notin DOMAIN majors
  BY <1>1, Addresses DEF MajorsTyped
<1>8. /\ DOMAIN m = DOMAIN majors \cup {x} /\ m[x] = new
      /\ \A y \in DOMAIN majors :
           m[y] = IF y = last THEN [majors[y] EXCEPT !.next = x] ELSE majors[y]
  BY <1>5, <1>6, <1>7 DEF Put
<1>9. MajorAdded(majors, m, x, n, last)
  BY <1>5, <1>8 DEF MajorAdded
<1>10. m = [y \in DOMAIN m |-> m[y]]
  BY <1>6 DEF Put
<1>11. SoundMajors(m, used \cup PageRun(s, n))
  <2>1. MajorHdr <= n * PageSize
    BY <1>3, Sizes
  <2>2. MajorAdded(majors, m, s * PageSize, n, last)
    BY <1>9 DEF x
  <2>3. QED
    BY <1>1, <1>3, <1>4, <1>6, <1>10, <2>1, <2>2, AddedPages
<1>12. ListInv(m, root)
  BY <1>1, <1>5, <1>9, AddedList
<1>13. SoundMinors(m, minors) /\ Ledger(m, minors)
  BY <1>1, <1>9, AddedBlocks
<1>14. TotalSize(m, DOMAIN m) = l_allocated + NewMajor(size, NULL).size
  <2>1. MajorsTyped(m)
    BY <1>11 DEF SoundMajors
  <2>2. \A y \in DOMAIN majors : m[y].size = majors[y].size
    BY <1>1, <1>8 DEF MajorsTyped, MajorRec
  <2>3. TotalSize(m, DOMAIN m) = TotalSize(majors, DOMAIN majors) + m[x].size
    BY ONLY <1>1, <1>5, <1>8, <2>1, <2>2, MajorsCounted
  <2>4. m[x].size = NewMajor(size, NULL).size
    BY <1>3, <1>8
  <2>5. QED
    BY <1>1, <2>3, <2>4
<1>15. \A y \in DOMAIN majors : m[y].first # NULL
  BY <1>1, <1>8 DEF MajorsTyped, MajorRec
<1>16. m[x].first = NULL /\ m[x].usage = MajorHdr /\ m[x].size = n * PageSize
  BY <1>8
<1>17. \A y \in DOMAIN m : m[y].first = NULL => y = x
  BY <1>8, <1>15
<1> HIDE DEF root
<1>18. Grown(m, used \cup PageRun(s, n), root, x, size)
  BY <1>3, <1>8, <1>11, <1>12, <1>13, <1>14, <1>16, <1>17 DEF Grown
<1>19. QED
  BY <1>18 DEF x, n, root

\* The heap stays as it is, whatever becomes of what the callers hold.
LEMMA HeldChanges ==
  ASSUME HeapInv, UNCHANGED <<l_memRoot, l_inuse, l_allocated, majors, minors, info,
                              used, lost>>,
         held' \in [DOMAIN held' -> Nat], DOMAIN held' \subseteq DOMAIN info, HeldInv',
         loc' \in LocRec, pc' \in {"idle", "scan", "return"}, halted' \in BOOLEAN,
         SearchInv', EmptyInv', CallInv'
  PROVE  HeapInv'
<1>1. /\ majors' = majors /\ minors' = minors /\ info' = info /\ used' = used
      /\ lost' = lost /\ l_memRoot' = l_memRoot
      /\ l_inuse' = l_inuse /\ l_allocated' = l_allocated
  OBVIOUS
<1>2. Typed'
  BY <1>1 DEF HeapInv, Typed
<1>3. /\ MajorsInv(majors', used') /\ ListInv(majors', l_memRoot')
      /\ MinorsInv(majors', minors') /\ InfoInv(minors', info')
      /\ DeadInv(minors', info', lost')
  BY <1>1 DEF HeapInv
<1>4. AccountingExact'
  <2>1. Accounts(majors', minors', l_inuse', l_allocated')
    BY <1>1, HeapParts DEF Accounts
  <2>2. MinorsTyped(minors')
    BY <1>1, HeapParts
  <2>3. QED
    BY <2>1, <2>2, AccountsPrimed
<1>5. QED
  BY <1>2, <1>3, <1>4 DEF HeapInv

LEMMA SameHeap ==
  ASSUME HeapInv, UNCHANGED <<l_memRoot, l_inuse, l_allocated, majors, minors, info,
                              used, held, lost>>,
         loc' \in LocRec, pc' \in {"idle", "scan", "return"}, halted' \in BOOLEAN,
         SearchInv', EmptyInv', CallInv'
  PROVE  HeapInv'
<1>1. /\ held' = held /\ held \in [DOMAIN held -> Nat] /\ DOMAIN held \subseteq DOMAIN info
      /\ HeldInv'
  BY HeapParts DEF Typed, HeldInv
<1>2. QED
  BY <1>1, HeldChanges

LEMMA GrownInv ==
  ASSUME HeapInv, NEW x, NEW size, Grown(majors', used', l_memRoot', x, size),
         l_allocated' = l_allocated + NewMajor(size, NULL).size,
         UNCHANGED <<minors, info, held, lost, l_inuse, halted>>,
         pc' = "scan", loc' \in LocRec, loc'.maj = x, loc'.size = size, RequestInv(loc'),
         l_bestBet' \in DOMAIN majors \cup {NULL}
  PROVE  HeapInv'
<1>1. /\ minors' = minors /\ info' = info /\ held' = held /\ lost' = lost
      /\ l_inuse' = l_inuse /\ halted' = halted
  OBVIOUS
<1>2. /\ SoundMajors(majors', used') /\ ListInv(majors', l_memRoot')
      /\ SoundMinors(majors', minors) /\ Ledger(majors', minors)
      /\ l_allocated' = TotalSize(majors', DOMAIN majors')
      /\ x \in DOMAIN majors' /\ DOMAIN majors' = DOMAIN majors \cup {x}
      /\ MajorHdr + (MinorHdr + size) <= majors'[x].size
      /\ \A y \in DOMAIN majors' : majors'[y].first = NULL => y = x
  BY DEF Grown
<1>3. Typed'
  BY <1>1, <1>2 DEF HeapInv, Typed, SoundMajors
<1>4. SearchInv'
  BY <1>2 DEF SearchInv
<1>5. EmptyInv'
  BY <1>2 DEF EmptyInv
<1>6. HeldInv'
  BY <1>1 DEF HeapInv, HeldInv
<1>7. CallInv'
  <2>1. RequestInv(loc)'
    BY DEF RequestInv
  <2>2. pc' # "return"
    OBVIOUS
  <2>3. QED
    BY <2>1, <2>2 DEF CallInv
<1>8. AccountingExact'
  <2>1. Accounts(majors', minors', l_inuse', l_allocated')
    BY <1>1, <1>2, HeapParts DEF Accounts
  <2>2. QED
    BY <1>1, <2>1, HeapParts, AccountsPrimed
<1>9. /\ MinorsInv(majors', minors') /\ InfoInv(minors', info')
      /\ DeadInv(minors', info', lost')
  BY <1>1, <1>2 DEF HeapInv, SoundMinors
<1>10. QED
  BY <1>2, <1>3, <1>4, <1>5, <1>6, <1>7, <1>8, <1>9 DEF HeapInv, SoundMajors

LEMMA RememberedBest ==
  ASSUME HeapInv, pc = "scan", RememberBest
  PROVE  /\ l_bestBet' \in DOMAIN majors \cup {NULL} /\ BestSize \in Nat
         /\ UNCHANGED <<l_memRoot, held, halted>>
<1>1. loc.maj \in DOMAIN majors /\ Free \in Nat /\ l_bestBet \in DOMAIN majors \cup {NULL}
  BY FreeIs, HeapParts DEF SearchInv
<1>2. loc.bestSize \in Nat
  BY HeapParts DEF Typed, LocRec
<1>3. QED
  BY <1>1, <1>2 DEF RememberBest, BestSize

\* A major that has no room, or no gap, is not empty: then none is.
LEMMA NoneEmpty ==
  ASSUME HeapInv, pc = "scan", Free < Need \/ Here.first # NULL
  PROVE  \A x \in DOMAIN majors : majors[x].first # NULL
<1>1. loc.maj \in DOMAIN majors /\ Free = Here.size - Here.usage /\ Here = majors[loc.maj]
  BY FreeIs DEF Here
<1>2. Here.first # NULL
  <2> SUFFICES ASSUME Here.first = NULL
               PROVE  FALSE
    OBVIOUS
  <2>1. Own(minors, loc.maj) = {}
    <3>1. FirstInv(majors, minors, loc.maj)
      BY <1>1, HeapParts DEF SoundMinors, MinorsInv
    <3>2. QED
      BY <1>1, <3>1 DEF FirstInv
  <2>2. Load(minors, loc.maj) = 0
    BY <2>1, EmptyLoad
  <2>3. Here.usage = MajorHdr
    BY <1>1, <2>2, HeapParts, Sizes DEF Ledger
  <2>4. MajorHdr + (MinorHdr + loc.size) <= Here.size
    BY <1>1, HeapParts DEF EmptyInv
  <2>5. Need = MinorHdr + loc.size /\ loc.size \in Nat
    BY FreeIs, HeapParts, RequestSizes
  <2>6. Here.size \in Nat
    BY FreeIs DEF MajorRec
  <2>7. QED
    BY <1>1, <2>3, <2>4, <2>5, <2>6, Sizes
<1>3. QED
  BY <1>1, <1>2, HeapParts DEF EmptyInv

LEMMA GoToInv ==
  ASSUME HeapInv, pc = "scan", \A x \in DOMAIN majors : majors[x].first # NULL,
         RememberBest, NEW maj \in DOMAIN majors, NEW started \in BOOLEAN,
         GoTo(maj, started), UNCHANGED <<majors, used, l_allocated>>
  PROVE  HeapInv'
<1>1. /\ loc' = [loc EXCEPT !.maj = maj, !.startedBet = started, !.bestSize = BestSize]
      /\ UNCHANGED <<pc, minors, info, l_inuse, lost>>
      /\ UNCHANGED <<l_memRoot, held, halted>>
  BY DEF GoTo, RememberBest
<1>2. loc \in LocRec /\ maj \in Nat /\ halted \in BOOLEAN
  BY HeapParts, Addresses DEF Typed, MajorsTyped
<1>3. l_bestBet' \in DOMAIN majors \cup {NULL} /\ BestSize \in Nat
  BY RememberedBest
<1>4. /\ loc' \in LocRec /\ loc'.maj = maj /\ loc'.asked = loc.asked /\ loc'.req = loc.req
      /\ loc'.size = loc.size /\ loc'.op = loc.op /\ loc'.old = loc.old
  BY <1>1, <1>2, <1>3 DEF LocRec
<1>5. SearchInv'
  BY <1>3, <1>4 DEF SearchInv
<1>6. EmptyInv'
  BY DEF EmptyInv
<1>7. CallInv'
  <2>1. RequestInv(loc)
    BY HeapParts DEF CallInv
  <2>2. RequestInv(loc)'
    BY <1>1, <1>4, <2>1 DEF RequestInv
  <2>3. pc' # "return"
    BY <1>1
  <2>4. QED
    BY <2>2, <2>3 DEF CallInv
<1>8. QED
  BY <1>1, <1>2, <1>4, <1>5, <1>6, <1>7, SameHeap

LEMMA NextMajorInv ==
  ASSUME HeapInv, pc = "scan", \A x \in DOMAIN majors : majors[x].first # NULL,
         RememberBest, NextMajor \/ StartOver
  PROVE  HeapInv'
<1>1. loc.maj \in DOMAIN majors /\ Here = majors[loc.maj] /\ ListInv(majors, l_memRoot)
  BY FreeIs, HeapParts DEF Here
<1>2. loc.startedBet \in BOOLEAN
  BY HeapParts DEF Typed, LocRec
<1>3. CASE NextMajor
  <2>1. Here.next \in DOMAIN majors
    BY <1>1, <1>3 DEF NextMajor, ListInv, Linked
  <2>2. GoTo(Here.next, loc.startedBet) /\ UNCHANGED <<majors, used, l_allocated>>
    BY <1>3 DEF NextMajor
  <2>3. QED
    BY <1>2, <2>1, <2>2, GoToInv
<1>4. CASE StartOver
  <2>1. l_memRoot \in DOMAIN majors
    BY <1>1 DEF ListInv
  <2>2. GoTo(l_memRoot, FALSE) /\ UNCHANGED <<majors, used, l_allocated>>
    BY <1>4 DEF StartOver
  <2>3. FALSE \in BOOLEAN
    OBVIOUS
  <2>4. QED
    BY <2>1, <2>2, <2>3, GoToInv
<1>5. QED
  BY <1>3, <1>4

LEMMA AppendedIs ==
  ASSUME HeapInv, pc = "scan", \A x \in DOMAIN majors : majors[x].first # NULL,
         Here.next = NULL, NEW s \in FreeRuns(NewMajorPages(loc.size))
  PROVE  Grown(Appended(s), used \cup PageRun(s, NewMajorPages(loc.size)),
               l_memRoot, s * PageSize, loc.size)
<1>1. /\ loc.maj \in DOMAIN majors /\ Here = majors[loc.maj]
      /\ ListInv(majors, l_memRoot) /\ MajorsTyped(majors)
  BY FreeIs, HeapParts DEF Here
<1>2. l_memRoot # NULL /\ loc.maj # NULL
  BY <1>1, Addresses DEF ListInv, MajorsTyped
<1>3. /\ loc.size \in Nat /\ MajorHdr + ((MinorHdr + loc.size) + PageSize) <= UINT
  BY FreeIs, HeapParts, RequestSizes
<1>4. Appended(s) = Put([majors EXCEPT ![loc.maj].next = s * PageSize],
                        s * PageSize, NewMajor(loc.size, loc.maj))
  BY DEF Appended
<1> DEFINE m == Appended(s)
<1>5. /\ majors[loc.maj].next = NULL
      /\ m = Put(IF loc.maj = NULL THEN majors ELSE [majors EXCEPT ![loc.maj].next = s * PageSize],
                 s * PageSize, NewMajor(loc.size, loc.maj))
  BY <1>1, <1>2, <1>4
<1> HIDE DEF m
<1>6. Grown(m, used \cup PageRun(s, NewMajorPages(loc.size)),
            IF l_memRoot = NULL THEN s * PageSize ELSE l_memRoot, s * PageSize, loc.size)
  BY <1>1, <1>2, <1>3, <1>5, MajorGrown
<1>7. QED
  BY <1>2, <1>6 DEF m

LEMMA AppendAndGoInv ==
  ASSUME HeapInv, pc = "scan", \A x \in DOMAIN majors : majors[x].first # NULL,
         RememberBest, AppendAndGo
  PROVE  HeapInv'
<1>1. Here.next = NULL
  BY DEF AppendAndGo
<1>2. PICK s \in FreeRuns(NewMajorPages(loc.size)) :
        TakePages(s, loc.size) /\ majors' = Appended(s) /\ GoTo(s * PageSize, FALSE)
  BY DEF AppendAndGo
<1> DEFINE x == s * PageSize
<1>3. /\ used' = used \cup PageRun(s, NewMajorPages(loc.size))
      /\ l_allocated' = l_allocated + NewMajor(loc.size, NULL).size
      /\ loc' = [loc EXCEPT !.maj = x, !.startedBet = FALSE, !.bestSize = BestSize]
      /\ UNCHANGED <<pc, minors, info, l_inuse, lost>>
      /\ UNCHANGED <<l_memRoot, held, halted>>
      /\ majors' = Appended(s)
  BY <1>2 DEF TakePages, GoTo, RememberBest
<1>4. Grown(Appended(s), used \cup PageRun(s, NewMajorPages(loc.size)),
            l_memRoot, x, loc.size)
  BY <1>1, AppendedIs
<1>5. Grown(majors', used', l_memRoot', x, loc.size)
  BY <1>3, <1>4
<1>6. l_bestBet' \in DOMAIN majors \cup {NULL} /\ BestSize \in Nat /\ loc \in LocRec
  BY RememberedBest, HeapParts DEF Typed
<1>7. x \in Nat
  BY <1>5, Addresses DEF Grown, SoundMajors, MajorsTyped
<1> HIDE DEF x
<1>8. /\ loc' \in LocRec /\ loc'.maj = x /\ loc'.asked = loc.asked /\ loc'.req = loc.req
      /\ loc'.size = loc.size /\ loc'.op = loc.op /\ loc'.old = loc.old
  BY <1>3, <1>6, <1>7 DEF LocRec
<1>9. RequestInv(loc')
  <2>1. RequestInv(loc)
    BY HeapParts DEF CallInv
  <2>2. QED
    BY <1>3, <1>8, <2>1 DEF RequestInv
<1>10. pc' = "scan"
  BY <1>3
<1>11. QED
  BY <1>3, <1>5, <1>6, <1>8, <1>9, <1>10, GrownInv

LEMMA AppendAndPlaceInv ==
  ASSUME HeapInv, pc = "scan", \A x \in DOMAIN majors : majors[x].first # NULL,
         RememberBest, AppendAndPlace
  PROVE  HeapInv'
<1>1. Here.next = NULL
  BY DEF AppendAndPlace
<1>2. PICK s \in FreeRuns(NewMajorPages(loc.size)) :
        /\ TakePages(s, loc.size)
        /\ Place(Appended(s), s * PageSize, s * PageSize + MajorHdr, NULL, NULL)
  BY DEF AppendAndPlace
<1> DEFINE x == s * PageSize
           m == Appended(s)
<1>3. /\ used' = used \cup PageRun(s, NewMajorPages(loc.size))
      /\ l_allocated' = l_allocated + NewMajor(loc.size, NULL).size
      /\ UNCHANGED <<l_memRoot, held, halted>>
  BY <1>2 DEF TakePages, RememberBest
<1>4. Grown(m, used', l_memRoot, x, loc.size)
  BY <1>1, <1>3, AppendedIs
<1>5. Place(m, x, x + MajorHdr, NULL, NULL)
  BY <1>2
<1>6. l_bestBet' \in DOMAIN majors \cup {NULL}
  BY RememberedBest
<1> HIDE DEF x, m
<1>7. /\ SoundMajors(m, used') /\ ListInv(m, l_memRoot) /\ SoundMinors(m, minors)
      /\ Ledger(m, minors) /\ l_allocated' = TotalSize(m, DOMAIN m)
      /\ x \in DOMAIN m /\ m[x].first = NULL /\ m[x].usage = MajorHdr
      /\ MajorHdr + (MinorHdr + loc.size) <= m[x].size
      /\ DOMAIN m = DOMAIN majors \cup {x}
      /\ \A y \in DOMAIN m : m[y].first = NULL => y = x
  BY <1>3, <1>4 DEF Grown
<1>8. Searching(m, used')
  BY <1>7, FreeIs, HeapParts DEF Searching
<1>9. /\ loc.size \in Nat /\ Need = MinorHdr + loc.size /\ Need \in Nat
      /\ x \in Nat /\ m[x].size \in Nat
  BY <1>7, <1>8, RequestSizes, Addresses DEF Searching, SoundMajors, MajorsTyped, MajorRec
<1>10. Gap(m, minors, x, NULL, NULL, x + MajorHdr, (x + MajorHdr) + (MinorHdr + loc.size))
  <2>1. /\ x + MajorHdr \in Nat /\ (x + MajorHdr) + (MinorHdr + loc.size) \in Nat
        /\ x + MajorHdr < (x + MajorHdr) + (MinorHdr + loc.size) /\ x + MajorHdr <= x + MajorHdr
        /\ (x + MajorHdr) + (MinorHdr + loc.size) <= x + m[x].size
    BY <1>7, <1>9, Sizes
  <2>2. QED
    BY <1>7, <2>1 DEF Gap
<1>11. m[x].usage + Need <= m[x].size
  BY <1>7, <1>9
<1>12. Found(m, used', x, x + MajorHdr, NULL, NULL)
  BY <1>8, <1>10, <1>11 DEF Found
<1>13. l_bestBet' \in DOMAIN m \cup {NULL} /\ l_inuse = TotalSize(minors, LiveIn(minors))
  BY <1>6, <1>7, HeapParts
<1> DEFINE a == x + MajorHdr
<1>14. Found(m, used', x, a, NULL, NULL) /\ Place(m, x, a, NULL, NULL)
  BY <1>5, <1>12
<1> HIDE DEF a
<1>15. QED
  BY <1>3, <1>7, <1>13, <1>14, PlaceInv

\* CASES 2, 3 and 4.
LEMMA InsertInv ==
  ASSUME HeapInv, pc = "scan", RememberBest, NEW a, NEW before, NEW after,
         Found(majors, used, loc.maj, a, before, after), InsertAt(a, before, after)
  PROVE  HeapInv'
<1>1. /\ Place(majors, loc.maj, a, before, after) /\ used' = used /\ l_allocated' = l_allocated
      /\ UNCHANGED <<l_memRoot, held, halted>>
  BY DEF InsertAt, RememberBest
<1>2. /\ ListInv(majors, l_memRoot) /\ Ledger(majors, minors)
      /\ l_inuse = TotalSize(minors, LiveIn(minors))
      /\ l_allocated = TotalSize(majors, DOMAIN majors)
      /\ \A x \in DOMAIN majors : majors[x].first = NULL => x = loc.maj
  BY HeapParts DEF EmptyInv
<1>3. l_bestBet' \in DOMAIN majors \cup {NULL}
  BY RememberedBest
<1>4. Found(majors, used', loc.maj, a, before, after)
  BY <1>1
<1>5. QED
  BY <1>1, <1>2, <1>3, <1>4, PlaceInv

LEMMA OutOfPagesInv ==
  ASSUME HeapInv, OutOfPages
  PROVE  HeapInv'
<1>1. /\ UNCHANGED <<l_memRoot, l_inuse, l_allocated, majors, minors, info, used, held, lost>>
      /\ UNCHANGED <<l_bestBet, pc, loc>> /\ halted' \in BOOLEAN
  BY DEF OutOfPages, heapVars
<1>2. loc' \in LocRec /\ pc' \in {"idle", "scan", "return"}
  BY <1>1, HeapParts DEF Typed
<1>3. SearchInv' /\ EmptyInv'
  BY <1>1, HeapParts DEF SearchInv, EmptyInv
<1>4. CallInv'
  <2>1. CallInv
    BY HeapParts
  <2>2. (pc # "idle" => RequestInv(loc))'
    BY <1>1, <2>1 DEF CallInv, RequestInv
  <2>3. QED
    BY <1>1, <2>1, <2>2 DEF CallInv
<1>5. QED
  BY <1>1, <1>2, <1>3, <1>4, SameHeap

LEMMA ScanInv ==
  ASSUME HeapInv, Scan
  PROVE  HeapInv'
<1>1. pc = "scan"
  BY DEF Scan
<1>2. Free \in Nat /\ Need \in Nat
  BY <1>1, FreeIs, HeapParts, RequestSizes
<1>3. CASE Case1
  <2>1. \A x \in DOMAIN majors : majors[x].first # NULL
    BY <1>1, <1>3, NoneEmpty DEF Case1
  <2>2. \/ RememberBest /\ (NextMajor \/ StartOver \/ AppendAndPlace)
        \/ NoMajorLeft
    BY <1>3 DEF Case1
  <2>3. QED
    BY <1>1, <2>1, <2>2, NextMajorInv, AppendAndPlaceInv, OutOfPagesInv DEF NoMajorLeft
<1>4. CASE Case2
  <2> DEFINE a == loc.maj + MajorHdr
  <2>1. Found(majors, used, loc.maj, a, NULL, NULL)
    BY <1>1, <1>4, GapsFound DEF Case2
  <2>2. RememberBest /\ InsertAt(a, NULL, NULL)
    BY <1>4 DEF Case2
  <2> HIDE DEF a
  <2>3. QED
    BY <1>1, <2>1, <2>2, InsertInv
<1>5. CASE Case3
  <2> DEFINE a == loc.maj + MajorHdr
  <2>1. Found(majors, used, loc.maj, a, NULL, Here.first)
    BY <1>1, <1>5, GapsFound DEF Case3
  <2>2. RememberBest /\ InsertAt(a, NULL, Here.first)
    BY <1>5 DEF Case3
  <2> HIDE DEF a
  <2>3. QED
    BY <1>1, <2>1, <2>2, InsertInv
<1>6. CASE Case4
  <2>1. RememberBest /\ Free >= Need /\ Here.first # NULL
    BY <1>6 DEF Case4
  <2>2. PICK k \in Fitting :
          LET min == MinorList(loc.maj)[k]
          IN  InsertAt(min + MinorHdr + minors[min].size, min, minors[min].next)
    BY <1>6 DEF Case4
  <2> DEFINE min == MinorList(loc.maj)[k]
             a   == min + MinorHdr + minors[min].size
  <2>3. Found(majors, used, loc.maj, a, min, minors[min].next)
    BY <1>1, <2>1, GapsFound
  <2>4. InsertAt(a, min, minors[min].next)
    BY <2>2
  <2> HIDE DEF a, min
  <2>5. QED
    BY <1>1, <2>1, <2>3, <2>4, InsertInv
<1>7. CASE Case5
  <2>1. \A x \in DOMAIN majors : majors[x].first # NULL
    BY <1>1, <1>7, NoneEmpty DEF Case5
  <2>2. \/ RememberBest /\ (NextMajor \/ StartOver \/ AppendAndGo)
        \/ NoMajorLeft
    BY <1>7 DEF Case5
  <2>3. QED
    BY <1>1, <2>1, <2>2, NextMajorInv, AppendAndGoInv, OutOfPagesInv DEF NoMajorLeft
<1>8. QED
  BY <1>3, <1>4, <1>5, <1>6, <1>7 DEF Scan

-----------------------------------------------------------------------------
(* A major that is given back.                                             *)

MajorDropped(mj, mj2, x) ==
  /\ x \in DOMAIN mj /\ DOMAIN mj2 = DOMAIN mj \ {x}
  /\ \A y \in DOMAIN mj2 :
       mj2[y] = CASE y = mj[x].prev -> [mj[y] EXCEPT !.next = mj[x].next]
                  [] y = mj[x].next -> [mj[y] EXCEPT !.prev = mj[x].prev]
                  [] OTHER          -> mj[y]

\* What the list looks like around the major.
LEMMA DroppedFields ==
  ASSUME NEW mj, NEW root, NEW mj2, NEW x, MajorsTyped(mj), ListInv(mj, root),
         MajorDropped(mj, mj2, x)
  PROVE  /\ \A y \in DOMAIN mj2 :
              /\ y \in DOMAIN mj /\ y # x /\ y # NULL /\ mj2[y] \in MajorRec
              /\ mj2[y].next = IF y = mj[x].prev THEN mj[x].next ELSE mj[y].next
              /\ mj2[y].prev = IF y = mj[x].next THEN mj[x].prev ELSE mj[y].prev
              /\ mj2[y].pages = mj[y].pages /\ mj2[y].size = mj[y].size
              /\ mj2[y].usage = mj[y].usage /\ mj2[y].first = mj[y].first
         /\ mj[x].next # x /\ mj[x].prev # x
         /\ mj[x].next # NULL => mj[x].next # mj[x].prev
<1>1. x \in DOMAIN mj /\ DOMAIN mj2 = DOMAIN mj \ {x}
  BY DEF MajorDropped
<1>2. \A y \in DOMAIN mj : y # NULL /\ mj[y] \in MajorRec
  BY Addresses DEF MajorsTyped
<1>3. PICK ord \in [DOMAIN mj -> Nat] :
        \A y \in DOMAIN mj : mj[y].next # NULL => ord[y] < ord[mj[y].next]
  BY DEF ListInv
<1>4. Linked(mj, root, x)
  BY <1>1 DEF ListInv
<1>5. mj[x].next # NULL => mj[x].next \in DOMAIN mj /\ ord[x] < ord[mj[x].next]
  BY <1>1, <1>3, <1>4 DEF Linked
<1>6. mj[x].prev \in DOMAIN mj => ord[mj[x].prev] < ord[x]
  <2> SUFFICES ASSUME mj[x].prev \in DOMAIN mj
               PROVE  ord[mj[x].prev] < ord[x]
    OBVIOUS
  <2>1. x # root
    BY <1>2 DEF ListInv
  <2>2. mj[mj[x].prev].next = x
    BY <1>4, <2>1 DEF Linked
  <2>3. QED
    BY <1>1, <1>2, <1>3, <2>2
<1>7. \A y \in DOMAIN mj : ord[y] \in Nat
  OBVIOUS
<1>8. /\ mj[x].next # x /\ mj[x].prev # x
      /\ mj[x].next # NULL => mj[x].next # mj[x].prev
  <2>1. mj[x].next # x
    BY <1>1, <1>2, <1>5, <1>7
  <2>2. mj[x].prev # x
    BY <1>1, <1>6, <1>7
  <2>3. ASSUME mj[x].next # NULL, mj[x].next = mj[x].prev
        PROVE  FALSE
    BY <1>1, <1>5, <1>6, <1>7, <2>3
  <2>4. QED
    BY <2>1, <2>2, <2>3
<1>9. ASSUME NEW y \in DOMAIN mj2
      PROVE  /\ y \in DOMAIN mj /\ y # x /\ y # NULL /\ mj2[y] \in MajorRec
             /\ mj2[y].next = IF y = mj[x].prev THEN mj[x].next ELSE mj[y].next
             /\ mj2[y].prev = IF y = mj[x].next THEN mj[x].prev ELSE mj[y].prev
             /\ mj2[y].pages = mj[y].pages /\ mj2[y].size = mj[y].size
             /\ mj2[y].usage = mj[y].usage /\ mj2[y].first = mj[y].first
  <2>1. /\ y \in DOMAIN mj /\ y # x /\ y # NULL /\ mj[y] \in MajorRec /\ mj[x] \in MajorRec
        /\ mj[x].next \in Nat /\ mj[x].prev \in Nat
    BY <1>1, <1>2 DEF MajorRec
  <2>2. mj2[y] = CASE y = mj[x].prev -> [mj[y] EXCEPT !.next = mj[x].next]
                   [] y = mj[x].next -> [mj[y] EXCEPT !.prev = mj[x].prev]
                   [] OTHER          -> mj[y]
    BY DEF MajorDropped
  <2>3. CASE y = mj[x].prev
    <3>1. mj2[y] = [mj[y] EXCEPT !.next = mj[x].next] /\ y # mj[x].next
      BY <1>8, <2>1, <2>2, <2>3
    <3>2. QED
      BY <2>1, <2>3, <3>1 DEF MajorRec
  <2>4. CASE y # mj[x].prev /\ y = mj[x].next
    <3>1. mj2[y] = [mj[y] EXCEPT !.prev = mj[x].prev]
      BY <2>2, <2>4
    <3>2. QED
      BY <2>1, <2>4, <3>1 DEF MajorRec
  <2>5. CASE y # mj[x].prev /\ y # mj[x].next
    BY <2>1, <2>2, <2>5
  <2>6. QED
    BY <2>3, <2>4, <2>5
<1>10. QED
  BY <1>8, <1>9

LEMMA DroppedList ==
  ASSUME NEW mj, NEW root, NEW mj2, NEW x, MajorsTyped(mj), ListInv(mj, root),
         MajorDropped(mj, mj2, x)
  PROVE  ListInv(mj2, IF root = x THEN mj[x].next ELSE root)
<1> DEFINE root2 == IF root = x THEN mj[x].next ELSE root
<1>1. /\ x \in DOMAIN mj /\ DOMAIN mj2 = DOMAIN mj \ {x} /\ x # NULL
  BY Addresses DEF MajorDropped, MajorsTyped
<1>2. /\ \A y \in DOMAIN mj2 :
           /\ y \in DOMAIN mj /\ y # x /\ y # NULL
           /\ mj2[y].next = IF y = mj[x].prev THEN mj[x].next ELSE mj[y].next
           /\ mj2[y].prev = IF y = mj[x].next THEN mj[x].prev ELSE mj[y].prev
      /\ mj[x].next # x /\ mj[x].prev # x
      /\ mj[x].next # NULL => mj[x].next # mj[x].prev
  BY DroppedFields
<1>3. PICK ord \in [DOMAIN mj -> Nat] :
        \A y \in DOMAIN mj : mj[y].next # NULL => ord[y] < ord[mj[y].next]
  BY DEF ListInv
<1>4. /\ \A y \in DOMAIN mj : Linked(mj, root, y)
      /\ root \in DOMAIN mj /\ mj[root].prev = NULL
  BY <1>1 DEF ListInv
<1>5. NULL \notin DOMAIN mj
  BY Addresses DEF MajorsTyped
<1>6. x # root => mj[x].prev \in DOMAIN mj /\ mj[mj[x].prev].next = x
  BY <1>1, <1>4 DEF Linked
<1>7. mj[x].next # NULL => mj[x].next \in DOMAIN mj /\ mj[mj[x].next].prev = x
  BY <1>1, <1>4 DEF Linked
<1>8. ASSUME NEW y \in DOMAIN mj2, root = x
      PROVE  mj[x].next # NULL
  <2> DEFINE T == {ord[z] : z \in DOMAIN mj2}
  <2>1. T \subseteq Nat /\ T # {}
    BY <1>2, <1>3, <1>8
  <2>2. PICK n \in T : \A k \in T : n <= k
    BY <2>1, LeastNumber
  <2>3. PICK z \in DOMAIN mj2 : \A w \in DOMAIN mj2 : ord[z] <= ord[w]
    BY <2>2
  <2>4. z \in DOMAIN mj /\ z # root /\ Linked(mj, root, z)
    BY <1>2, <1>4, <1>8
  <2>5. mj[z].prev \in DOMAIN mj /\ mj[mj[z].prev].next = z /\ z # NULL
    BY <1>5, <2>4 DEF Linked
  <2>6. ord[mj[z].prev] < ord[z]
    BY <1>3, <2>5
  <2>7. mj[z].prev = x
    <3>1. ord[z] \in Nat /\ ord[mj[z].prev] \in Nat
      BY <1>3, <2>4, <2>5
    <3>2. mj[z].prev \notin DOMAIN mj2
      BY <2>3, <2>6, <3>1
    <3>3. QED
      BY <1>1, <2>5, <3>2
  <2>8. QED
    BY <2>5, <2>7
<1>9. root2 = NULL <=> DOMAIN mj2 = {}
  <2>1. CASE root = x
    BY <1>1, <1>2, <1>7, <1>8, <2>1
  <2>2. CASE root # x
    BY <1>1, <1>4, <1>5, <2>2
  <2>3. QED
    BY <2>1, <2>2
<1>10. root2 # NULL => root2 \in DOMAIN mj2 /\ mj2[root2].prev = NULL
  <2>1. CASE root = x
    <3> SUFFICES ASSUME mj[x].next # NULL
                 PROVE  mj[x].next \in DOMAIN mj2 /\ mj2[mj[x].next].prev = NULL
      BY <2>1
    <3>1. mj[x].next \in DOMAIN mj2
      BY <1>1, <1>2, <1>7
    <3>2. QED
      BY <1>2, <1>4, <2>1, <3>1
  <2>2. CASE root # x
    <3>1. root \in DOMAIN mj2
      BY <1>1, <1>4, <2>2
    <3>2. root # mj[x].next
      BY <1>1, <1>4, <1>5, <1>7
    <3>3. QED
      BY <1>2, <1>4, <2>2, <3>1, <3>2
  <2>3. QED
    BY <2>1, <2>2
<1>11. ASSUME NEW y \in DOMAIN mj2
       PROVE  Linked(mj2, root2, y)
  <2>1. y \in DOMAIN mj /\ y # x /\ y # NULL /\ Linked(mj, root, y)
    BY <1>2, <1>4
  <2>2. ASSUME y # root2
        PROVE  mj2[y].prev \in DOMAIN mj2 /\ mj2[mj2[y].prev].next = y
    <3>1. CASE y = mj[x].next
      <4>1. x # root
        BY <2>2, <3>1
      <4>2. mj2[y].prev = mj[x].prev /\ mj[x].prev \in DOMAIN mj2
        BY <1>1, <1>2, <1>6, <3>1, <4>1
      <4>3. QED
        BY <1>2, <3>1, <4>2
    <3>2. CASE y # mj[x].next
      <4>1. y # root
        BY <2>1, <2>2
      <4>2. mj2[y].prev = mj[y].prev /\ mj[y].prev \in DOMAIN mj /\ mj[mj[y].prev].next = y
        BY <1>2, <2>1, <3>2, <4>1 DEF Linked
      <4>3. mj[y].prev # x
        BY <3>2, <4>2
      <4>4. mj[y].prev # mj[x].prev
        BY <1>4, <1>5, <1>6, <2>1, <4>2
      <4>5. QED
        BY <1>1, <1>2, <4>2, <4>3, <4>4
    <3>3. QED
      BY <3>1, <3>2
  <2>3. ASSUME mj2[y].next # NULL
        PROVE  mj2[y].next \in DOMAIN mj2 /\ mj2[mj2[y].next].prev = y
    <3>1. CASE y = mj[x].prev
      <4>1. mj2[y].next = mj[x].next /\ mj[x].next \in DOMAIN mj2
        BY <1>1, <1>2, <1>7, <2>3, <3>1
      <4>2. QED
        BY <1>2, <3>1, <4>1
    <3>2. CASE y # mj[x].prev
      <4>1. /\ mj2[y].next = mj[y].next /\ mj[y].next \in DOMAIN mj
            /\ mj[mj[y].next].prev = y
        BY <1>2, <2>1, <2>3, <3>2 DEF Linked
      <4>2. mj[y].next # x
        BY <3>2, <4>1
      <4>3. mj[y].next # mj[x].next
        BY <1>5, <1>7, <2>1, <4>1
      <4>4. QED
        BY <1>1, <1>2, <4>1, <4>2, <4>3
    <3>3. QED
      BY <3>1, <3>2
  <2>4. QED
    BY <2>2, <2>3 DEF Linked
<1>12. \E o \in [DOMAIN mj2 -> Nat] :
         \A y \in DOMAIN mj2 : mj2[y].next # NULL => o[y] < o[mj2[y].next]
  <2> DEFINE o == [y \in DOMAIN mj2 |-> ord[y]]
  <2>1. \A y \in DOMAIN mj2 : o[y] = ord[y] /\ ord[y] \in Nat
    BY <1>2, <1>3
  <2>2. o \in [DOMAIN mj2 -> Nat]
    BY <2>1
  <2> HIDE DEF o
  <2>3. ASSUME NEW y \in DOMAIN mj2, mj2[y].next # NULL
        PROVE  o[y] < o[mj2[y].next]
    <3>1. mj2[y].next \in DOMAIN mj2
      BY <1>11, <2>3 DEF Linked
    <3>2. ord[y] < ord[mj2[y].next]
      <4>1. CASE y = mj[x].prev
        <5>1. x # root /\ mj[y].next = x /\ y \in DOMAIN mj
          BY <1>2, <1>4, <1>5, <1>6, <4>1
        <5>2. ord[y] < ord[x]
          BY <1>1, <1>3, <5>1
        <5>3. mj2[y].next = mj[x].next /\ ord[x] < ord[mj[x].next]
          BY <1>1, <1>2, <1>3, <2>3, <4>1
        <5>4. ord[y] \in Nat /\ ord[x] \in Nat /\ ord[mj2[y].next] \in Nat
          BY <1>1, <2>1, <3>1
        <5>5. QED
          BY <5>2, <5>3, <5>4
      <4>2. CASE y # mj[x].prev
        BY <1>2, <1>3, <2>3, <4>2
      <4>3. QED
        BY <4>1, <4>2
    <3>3. QED
      BY <2>1, <3>1, <3>2
  <2>4. QED
    BY <2>2, <2>3
<1>13. QED
  BY <1>9, <1>10, <1>11, <1>12 DEF ListInv

\* Its pages are free again, and no block was in it.
LEMMA DroppedMajor ==
  ASSUME NEW mj, NEW us, NEW root, NEW mn, NEW mj2, NEW x, SoundMajors(mj, us),
         ListInv(mj, root), SoundMinors(mj, mn), Ledger(mj, mn), Own(mn, x) = {},
         MajorDropped(mj, mj2, x), mj2 = [y \in DOMAIN mj2 |-> mj2[y]]
  PROVE  /\ SoundMajors(mj2, us \ MajorPages(mj, x)) /\ SoundMinors(mj2, mn)
         /\ Ledger(mj2, mn)
         /\ TotalSize(mj2, DOMAIN mj2) = TotalSize(mj, DOMAIN mj) - mj[x].size
<1>1. x \in DOMAIN mj /\ DOMAIN mj2 = DOMAIN mj \ {x} /\ MajorsTyped(mj) /\ MajorsInv(mj, us)
  BY DEF MajorDropped, SoundMajors
<1>2. \A y \in DOMAIN mj2 :
        /\ y \in DOMAIN mj /\ y # x /\ y # NULL /\ mj2[y] \in MajorRec
        /\ mj2[y].pages = mj[y].pages /\ mj2[y].size = mj[y].size
        /\ mj2[y].usage = mj[y].usage /\ mj2[y].first = mj[y].first
  BY <1>1, DroppedFields
<1>3. MajorsTyped(mj2)
  BY <1>1, <1>2 DEF MajorsTyped
<1>4. \A y \in DOMAIN mj2 : MajorPages(mj2, y) = MajorPages(mj, y)
  BY <1>2 DEF MajorPages
<1>5. \A y \in DOMAIN mj2 : MajorInv(mj2, y)
  BY <1>1, <1>2, <1>4 DEF MajorsInv, MajorInv
<1>6. \A y, z \in DOMAIN mj2 : y # z => MajorPages(mj2, y) \cap MajorPages(mj2, z) = {}
  BY <1>1, <1>2, <1>4 DEF MajorsInv
<1>7. us \ MajorPages(mj, x) = UNION {MajorPages(mj2, y) : y \in DOMAIN mj2}
  <2>1. us = UNION {MajorPages(mj, y) : y \in DOMAIN mj}
    BY <1>1 DEF MajorsInv
  <2>2. \A y \in DOMAIN mj2 : MajorPages(mj, y) \cap MajorPages(mj, x) = {}
    BY <1>1, <1>2 DEF MajorsInv
  <2>3. {MajorPages(mj2, y) : y \in DOMAIN mj2} = {MajorPages(mj, y) : y \in DOMAIN mj2}
    BY <1>4
  <2>4. UNION {MajorPages(mj, y) : y \in DOMAIN mj}
          = (UNION {MajorPages(mj, y) : y \in DOMAIN mj2}) \cup MajorPages(mj, x)
    BY <1>1
  <2> DEFINE rest == UNION {MajorPages(mj, y) : y \in DOMAIN mj2}
  <2>5. rest \cap MajorPages(mj, x) = {}
    BY <2>2
  <2>6. us = rest \cup MajorPages(mj, x) /\ UNION {MajorPages(mj2, y) : y \in DOMAIN mj2} = rest
    BY <2>1, <2>3, <2>4
  <2> HIDE DEF rest
  <2>7. QED
    BY <2>5, <2>6
<1>8. SoundMajors(mj2, us \ MajorPages(mj, x))
  BY <1>3, <1>5, <1>6, <1>7 DEF SoundMajors, MajorsInv
<1>9. ASSUME NEW b \in LiveIn(mn)
      PROVE  /\ BlockInv(mj2, mn, b) /\ NextInv(mn, b)
             /\ PrevInv(mj2, mn, b) /\ NearestInv(mn, b)
  <2>1. BlockInv(mj, mn, b) /\ NextInv(mn, b) /\ PrevInv(mj, mn, b) /\ NearestInv(mn, b)
    BY DEF SoundMinors, MinorsInv
  <2>2. mn[b].block \in DOMAIN mj2
    <3>1. mn[b].block # x
      BY DEF Own
    <3>2. QED
      BY <1>1, <2>1, <3>1 DEF BlockInv
  <2>3. BlockInv(mj2, mn, b)
    BY <1>2, <2>1, <2>2 DEF BlockInv
  <2>4. PrevInv(mj2, mn, b)
    BY <1>2, <2>1, <2>2 DEF PrevInv
  <2>5. QED
    BY <2>1, <2>3, <2>4
<1>10. \A y \in DOMAIN mj2 : FirstInv(mj2, mn, y)
  BY <1>2 DEF SoundMinors, MinorsInv, FirstInv
<1>11. SoundMinors(mj2, mn)
  BY <1>9, <1>10 DEF SoundMinors, MinorsInv
<1>12. Ledger(mj2, mn)
  BY <1>2 DEF Ledger
<1>13. TotalSize(mj2, DOMAIN mj2) = TotalSize(mj, DOMAIN mj) - mj[x].size
  <2>1. DOMAIN mj = DOMAIN mj2 \cup {x} /\ x \notin DOMAIN mj2
    BY <1>1
  <2>2. \A y \in DOMAIN mj2 : mj[y].size = mj2[y].size
    BY <1>2
  <2>3. /\ TotalSize(mj2, DOMAIN mj2) \in Nat
        /\ TotalSize(mj, DOMAIN mj) = TotalSize(mj2, DOMAIN mj2) + mj[x].size
        /\ mj[x].size \in Nat
    BY ONLY <1>1, <1>3, <2>1, <2>2, MajorsCounted
  <2>4. QED
    BY <2>3
<1>14. QED
  BY <1>8, <1>11, <1>12, <1>13

-----------------------------------------------------------------------------
(* kfree.                                                                  *)

LEMMA UnlinkedIs ==
  ASSUME HeapInv, NEW min \in LiveIn(minors)
  PROVE  /\ MinorsTyped(Unlinked(min))
         /\ LiveIn(Unlinked(min)) = LiveIn(minors) \ {min}
         /\ DOMAIN Unlinked(min)
              = DOMAIN minors \ (IF lost = NULL THEN {} ELSE {HeaderOf(info, lost)})
         /\ min \in DOMAIN Unlinked(min) /\ Unlinked(min)[min].next = minors[min].next
         /\ \A b \in LiveIn(minors) \ {min} :
              /\ Unlinked(min)[b].block = minors[b].block
              /\ Unlinked(min)[b].size = minors[b].size
              /\ Unlinked(min)[b].req_size = minors[b].req_size
              /\ Unlinked(min)[b].next = IF b = minors[min].prev THEN minors[min].next
                                                                 ELSE minors[b].next
              /\ Unlinked(min)[b].prev = IF b = minors[min].next THEN minors[min].prev
                                                                 ELSE minors[b].prev
<1> DEFINE U == Unlinked(min)
           m == minors[min]
           D == DOMAIN minors \ (IF lost = NULL THEN {} ELSE {HeaderOf(info, lost)})
<1>1. /\ MinorsTyped(minors) /\ SoundMinors(majors, minors) /\ Typed /\ InfoInv(minors, info)
      /\ DeadInv(minors, info, lost)
  BY HeapParts
<1>2. lost # NULL => /\ MinorOf(lost) = HeaderOf(info, lost)
                     /\ HeaderOf(info, lost) \in DOMAIN minors \ LiveIn(minors)
  BY <1>1, MinorOfIs DEF DeadInv
<1>3. /\ DOMAIN U = D /\ U = [x \in DOMAIN U |-> U[x]]
      /\ \A x \in D :
           U[x] = CASE x = min    -> [minors[x] EXCEPT !.magic = "DEAD"]
                    [] x = m.prev -> [minors[x] EXCEPT !.next = m.next]
                    [] x = m.next -> [minors[x] EXCEPT !.prev = m.prev]
                    [] OTHER      -> minors[x]
  <2> DEFINE f == Forget(minors, MinorOf(lost))
             V(x) == CASE x = min    -> [f[x] EXCEPT !.magic = "DEAD"]
                       [] x = m.prev -> [f[x] EXCEPT !.next = m.next]
                       [] x = m.next -> [f[x] EXCEPT !.prev = m.prev]
                       [] OTHER      -> f[x]
  <2>1. DOMAIN f = D /\ \A x \in D : f[x] = minors[x]
    BY <1>2 DEF Forget, Drop
  <2>2. U = [x \in DOMAIN f |-> V(x)]
    BY DEF Unlinked
  <2> HIDE DEF f, D, U
  <2>3. DOMAIN U = D /\ U = [x \in DOMAIN U |-> U[x]] /\ \A x \in D : U[x] = V(x)
    <3> HIDE DEF V
    <3>1. QED
      BY <2>1, <2>2
  <2>4. QED
    BY <2>1, <2>3
<1>4. LiveIn(minors) \subseteq D /\ min \in D /\ D \subseteq DOMAIN minors
  BY <1>1, <1>2, LiveFacts
<1>5. /\ min \in Nat /\ m \in MinorRec /\ m.prev \in Nat /\ m.next \in Nat /\ min # NULL
      /\ NextInv(minors, min) /\ PrevInv(majors, minors, min)
      /\ End(minors, min) \in Nat /\ End(minors, min) > min
  BY <1>1, LiveFacts, MinorFacts DEF SoundMinors, MinorsInv
<1>6. m.next # NULL => m.next \in LiveIn(minors) /\ min < m.next
  <2> SUFFICES ASSUME m.next # NULL
               PROVE  m.next \in LiveIn(minors) /\ min < m.next
    OBVIOUS
  <2>1. m.next \in Own(minors, m.block) /\ End(minors, min) <= m.next
    BY <1>5 DEF NextInv
  <2>2. QED
    BY <1>1, <1>5, <2>1, LiveFacts
<1>7. m.prev # NULL => m.prev \in LiveIn(minors) /\ m.prev < min
  <2> SUFFICES ASSUME m.prev # NULL
               PROVE  m.prev \in LiveIn(minors) /\ m.prev < min
    OBVIOUS
  <2>1. m.prev \in Own(minors, m.block) /\ minors[m.prev].next = min
    BY <1>5 DEF PrevInv
  <2>2. m.prev \in LiveIn(minors) /\ NextInv(minors, m.prev)
    BY <1>1, <2>1, LiveFacts DEF SoundMinors, MinorsInv
  <2>3. End(minors, m.prev) <= min
    BY <1>5, <2>1, <2>2 DEF NextInv
  <2>4. End(minors, m.prev) \in Nat /\ End(minors, m.prev) > m.prev
    BY <1>1, <2>2, LiveFacts, MinorFacts
  <2>5. QED
    BY <1>5, <2>2, <2>3, <2>4
<1>8. /\ m.next # min /\ m.prev # min
      /\ m.next # NULL => m.next # m.prev
  BY <1>5, <1>6, <1>7
<1>9. NULL \notin D
  BY <1>1, <1>4, MinorFacts
<1> HIDE DEF U, m, D
<1>10. ASSUME NEW x \in D, x # min
       PROVE  /\ U[x] \in MinorRec /\ U[x].magic = minors[x].magic
              /\ U[x].block = minors[x].block /\ U[x].size = minors[x].size
              /\ U[x].req_size = minors[x].req_size
              /\ U[x].next = IF x = m.prev THEN m.next ELSE minors[x].next
              /\ U[x].prev = IF x = m.next THEN m.prev ELSE minors[x].prev
  <2>1. minors[x] \in MinorRec /\ x # NULL
    BY <1>1, <1>4, <1>9, MinorFacts
  <2>2. U[x] = CASE x = m.prev -> [minors[x] EXCEPT !.next = m.next]
                 [] x = m.next -> [minors[x] EXCEPT !.prev = m.prev]
                 [] OTHER      -> minors[x]
    BY <1>3, <1>10
  <2>3. CASE x = m.prev
    <3>1. U[x] = [minors[x] EXCEPT !.next = m.next] /\ x # m.next
      BY <1>8, <2>1, <2>2, <2>3
    <3>2. QED
      BY <1>5, <2>1, <2>3, <3>1 DEF MinorRec
  <2>4. CASE x # m.prev /\ x = m.next
    <3>1. U[x] = [minors[x] EXCEPT !.prev = m.prev]
      BY <2>2, <2>4
    <3>2. QED
      BY <1>5, <2>1, <2>4, <3>1 DEF MinorRec
  <2>5. CASE x # m.prev /\ x # m.next
    BY <2>1, <2>2, <2>5
  <2>6. QED
    BY <2>3, <2>4, <2>5
<1>11. DOMAIN U = D /\ U[min] = [minors[min] EXCEPT !.magic = "DEAD"]
  <2>1. DOMAIN U = D
    BY <1>3
  <2>2. U[min] = [minors[min] EXCEPT !.magic = "DEAD"]
    BY <1>3, <1>4, <1>8
  <2>3. QED
    BY <2>1, <2>2
<1>12. U[min] \in MinorRec /\ U[min].magic = "DEAD" /\ U[min].next = minors[min].next
  BY <1>5, <1>11 DEF MinorRec, m
<1>13. MinorsTyped(U)
  <2>1. U = [x \in DOMAIN U |-> U[x]]
    BY <1>3
  <2>2. \A x \in DOMAIN U : U[x] \in MinorRec
    BY <1>10, <1>11, <1>12
  <2>3. QED
    BY <1>1, <1>4, <1>11, <2>1, <2>2 DEF MinorsTyped
<1>14. LiveIn(U) = LiveIn(minors) \ {min}
  <2>1. LiveIn(U) \subseteq D /\ LiveIn(minors) \subseteq D
    BY <1>4, <1>11 DEF LiveIn
  <2>2. \A x \in D : x \in LiveIn(U) <=> x \in LiveIn(minors) /\ x # min
    BY <1>4, <1>10, <1>11, <1>12 DEF LiveIn
  <2>3. QED
    BY <2>1, <2>2
<1>15. QED
  BY <1>4, <1>10, <1>11, <1>12, <1>13, <1>14 DEF U, m, D

\* mn2 is what Unlinked(min) says, of the live blocks at least.
Freed(min, mn2) ==
  /\ MinorsTyped(mn2) /\ LiveIn(mn2) = LiveIn(minors) \ {min}
  /\ \A b \in LiveIn(mn2) : mn2[b] = Unlinked(min)[b]

LEMMA ShrunkIs ==
  ASSUME HeapInv, NEW min \in LiveIn(minors), NEW mn2, Freed(min, mn2)
  PROVE  /\ SoundMajors(Shrunk(min), used) /\ ListInv(Shrunk(min), l_memRoot)
         /\ SoundMinors(Shrunk(min), mn2) /\ Ledger(Shrunk(min), mn2)
         /\ l_inuse - minors[min].size = TotalSize(mn2, LiveIn(mn2))
         /\ l_allocated = TotalSize(Shrunk(min), DOMAIN Shrunk(min))
         /\ minors[min].block \in DOMAIN majors /\ DOMAIN Shrunk(min) = DOMAIN majors
         /\ \A x \in DOMAIN majors : x # minors[min].block => Shrunk(min)[x] = majors[x]
         /\ Shrunk(min)[minors[min].block]
              = [majors[minors[min].block] EXCEPT
                   !.usage = Shrunk(min)[minors[min].block].usage,
                   !.first = Shrunk(min)[minors[min].block].first]
<1> DEFINE m == minors[min]
           x == m.block
           S == Shrunk(min)
           first == IF m.prev = NULL THEN m.next ELSE majors[x].first
<1>1. /\ MinorsTyped(minors) /\ SoundMinors(majors, minors) /\ MajorsTyped(majors)
      /\ SoundMajors(majors, used) /\ ListInv(majors, l_memRoot)
      /\ Ledger(majors, minors) /\ l_inuse = TotalSize(minors, LiveIn(minors))
      /\ l_allocated = TotalSize(majors, DOMAIN majors) /\ MinorsTyped(mn2)
  BY HeapParts DEF Freed
<1>2. /\ m.prev \in Nat /\ m.next \in Nat /\ m.size \in Nat /\ x \in DOMAIN majors
  BY <1>1, LiveFacts, MinorFacts DEF SoundMinors, MinorsInv, BlockInv
<1>3. /\ majors[x] \in MajorRec /\ majors[x].size < UINT /\ majors[x].usage <= majors[x].size
      /\ majors[x].usage \in Nat /\ majors[x].first \in Nat /\ majors[x].size \in Nat
  BY <1>1, <1>2, MajorExtent DEF SoundMajors, MajorRec
<1>4. OneMore(mn2, minors, min)
  <2>1. \A b \in LiveIn(mn2) : mn2[b].block = minors[b].block /\ mn2[b].size = minors[b].size
    BY UnlinkedIs DEF Freed
  <2>2. QED
    BY <2>1 DEF Freed, OneMore
<1>5. /\ TotalSize(mn2, LiveIn(mn2)) \in Nat
      /\ TotalSize(minors, LiveIn(minors)) = TotalSize(mn2, LiveIn(mn2)) + m.size
      /\ \A y : /\ Load(mn2, y) \in Nat
                /\ Load(minors, y) = IF y = x THEN Load(mn2, y) + (MinorHdr + m.size)
                                              ELSE Load(mn2, y)
  BY <1>1, <1>4, OneMoreCounted
<1> DEFINE usage == majors[x].usage - m.size - MinorHdr
<1>6. usage = MajorHdr + Load(mn2, x) /\ usage \in Nat /\ usage <= majors[x].size
      /\ uint(usage) = usage
  <2> DEFINE l == Load(mn2, x)
             k == Load(minors, x)
  <2>1. l \in Nat /\ k = l + (MinorHdr + m.size) /\ majors[x].usage = MajorHdr + k
    BY <1>1, <1>2, <1>5 DEF Ledger
  <2>2. usage = MajorHdr + l /\ usage \in Nat /\ usage <= majors[x].size /\ usage < UINT
    <3> HIDE DEF l, k, x, m
    <3>1. QED
      BY <1>2, <1>3, <2>1, Sizes
  <2> HIDE DEF usage
  <2>3. uint(usage) = usage
    BY <2>2, Widths
  <2>4. QED
    BY <2>2, <2>3
<1>7. S = [majors EXCEPT ![x].usage = uint(majors[x].usage - m.size - MinorHdr),
                         ![x].first = first]
  BY <1>2, <1>3 DEF Shrunk, MajorRec
<1> DEFINE rec == [majors[x] EXCEPT !.usage = usage, !.first = first]
<1>8. S = [majors EXCEPT ![x] = rec]
  BY <1>2, <1>3, <1>6, <1>7 DEF MajorRec
<1>9. first \in Nat
  BY <1>2, <1>3
<1> HIDE DEF usage, first, S
<1>10. /\ rec \in MajorRec /\ rec.prev = majors[x].prev /\ rec.next = majors[x].next
       /\ rec.pages = majors[x].pages /\ rec.size = majors[x].size
       /\ rec.usage = usage /\ rec.first = first
  BY <1>3, <1>6, <1>9 DEF MajorRec
<1>11. rec = [majors[x] EXCEPT !.usage = rec.usage, !.first = rec.first]
  BY <1>10
<1> HIDE DEF rec
<1>12. /\ DOMAIN S = DOMAIN majors
       /\ \A y \in DOMAIN majors : S[y] = IF y = x THEN rec ELSE majors[y]
  BY <1>8
<1>13. MajorsTyped(S)
  <2>1. \A y \in DOMAIN S : S[y] \in MajorRec
    BY <1>1, <1>10, <1>12 DEF MajorsTyped
  <2>2. S = [y \in DOMAIN S |-> S[y]]
    BY <1>8
  <2>3. QED
    BY <1>1, <1>12, <2>1, <2>2 DEF MajorsTyped
<1>14. SameMajors(majors, S)
  <2>1. \A y \in DOMAIN majors : majors[y].usage <= majors[y].size
    BY <1>1, MajorExtent DEF SoundMajors
  <2>2. QED
    BY <1>6, <1>10, <1>12, <2>1 DEF SameMajors
<1>15. SoundMajors(S, used) /\ ListInv(S, l_memRoot)
  BY <1>1, <1>13, <1>14, MajorsKept
<1>16. Removed(majors, minors, S, mn2, x, m.prev, m.next, min)
  <2>1. \A y \in DOMAIN majors :
          /\ S[y].size = majors[y].size
          /\ S[y].first = IF y = x /\ m.prev = NULL THEN m.next ELSE majors[y].first
    BY <1>10, <1>12 DEF first
  <2>2. LiveIn(mn2) = LiveIn(minors) \ {min}
    BY DEF Freed
  <2>3. \A b \in LiveIn(mn2) :
          /\ mn2[b].block = minors[b].block /\ mn2[b].size = minors[b].size
          /\ mn2[b].req_size = minors[b].req_size
          /\ mn2[b].next = IF b = m.prev THEN m.next ELSE minors[b].next
          /\ mn2[b].prev = IF b = m.next THEN m.prev ELSE minors[b].prev
    BY UnlinkedIs DEF Freed
  <2>4. QED
    BY <1>12, <2>1, <2>2, <2>3 DEF Removed
<1>17. SoundMinors(S, mn2)
  <2>1. MinorsInv(S, mn2)
    BY <1>1, <1>16, RemoveKeepsLists
  <2>2. QED
    BY <1>1, <2>1 DEF SoundMinors
<1>18. Ledger(S, mn2)
  BY <1>1, <1>5, <1>6, <1>10, <1>12 DEF Ledger
<1>19. l_inuse - m.size = TotalSize(mn2, LiveIn(mn2))
  BY <1>1, <1>2, <1>5
<1>20. l_allocated = TotalSize(S, DOMAIN S)
  BY <1>1, <1>14, MajorsCountedSame DEF SameMajors
<1>21. S[x] = [majors[x] EXCEPT !.usage = S[x].usage, !.first = S[x].first]
  BY <1>2, <1>11, <1>12
<1>22. QED
  BY <1>2, <1>12, <1>15, <1>17, <1>18, <1>19, <1>20, <1>21 DEF S

\* What kfree(p) leaves: the heap without the block of p.
HeapFreed(p) ==
  /\ SoundMajors(majors', used') /\ ListInv(majors', l_memRoot')
  /\ SoundMinors(majors', minors')
  /\ l_bestBet' \in DOMAIN majors' \cup {NULL}
  /\ \A x \in DOMAIN majors' : majors'[x].first # NULL
  /\ info' \in [DOMAIN info' -> Nat] /\ InfoInv(minors', info')
  /\ DeadInv(minors', info', lost')
  /\ Accounts(majors', minors', l_inuse', l_allocated')
  /\ \A q \in DOMAIN info \ {p} :
       HeaderOf(info, q) \in LiveIn(minors) =>
         /\ q \in DOMAIN info' /\ HeaderOf(info', q) = HeaderOf(info, q)
         /\ HeaderOf(info, q) \in LiveIn(minors')
         /\ minors'[HeaderOf(info, q)].req_size = minors[HeaderOf(info, q)].req_size

\* Its information goes with the last stale pointer, and the caller's pointer.
LEMMA ForgottenInfo ==
  ASSUME HeapInv, NEW p \in DOMAIN info, HeaderOf(info, p) \in LiveIn(minors)
  PROVE  /\ lost # p
         /\ DOMAIN Forget(info, lost) = DOMAIN info \ (IF lost = NULL THEN {} ELSE {lost})
         /\ \A q \in DOMAIN Forget(info, lost) :
              /\ Forget(info, lost)[q] = info[q]
              /\ HeaderOf(Forget(info, lost), q) = HeaderOf(info, q)
              /\ HeaderOf(info, q) \in DOMAIN Unlinked(HeaderOf(info, p))
              /\ q # p => HeaderOf(info, q) # HeaderOf(info, p)
<1>1. /\ MinorsTyped(minors) /\ InfoInv(minors, info) /\ info \in [DOMAIN info -> Nat]
      /\ DeadInv(minors, info, lost)
  BY HeapParts
<1>2. lost # NULL => lost \in DOMAIN info /\ HeaderOf(info, lost) \in DOMAIN minors \ LiveIn(minors)
  BY <1>1 DEF DeadInv
<1>3. p # NULL
  BY <1>1, PointerFacts
<1>4. lost # p
  BY <1>2, <1>3
<1>5. /\ DOMAIN Forget(info, lost) = DOMAIN info \ (IF lost = NULL THEN {} ELSE {lost})
      /\ \A q \in DOMAIN Forget(info, lost) : Forget(info, lost)[q] = info[q]
  BY DEF Forget, Drop
<1>6. \A q \in DOMAIN Forget(info, lost) :
        HeaderOf(Forget(info, lost), q) = HeaderOf(info, q)
  BY <1>5 DEF HeaderOf
<1>7. ASSUME NEW q \in DOMAIN Forget(info, lost)
      PROVE  /\ HeaderOf(info, q) \in DOMAIN Unlinked(HeaderOf(info, p))
             /\ q # p => HeaderOf(info, q) # HeaderOf(info, p)
  <2>1. q \in DOMAIN info /\ (lost # NULL => q # lost)
    BY <1>5
  <2>2. HeaderOf(info, q) \in DOMAIN minors
    BY <1>1, <2>1, PointerFacts
  <2>3. lost # NULL => HeaderOf(info, q) # HeaderOf(info, lost)
    BY <1>1, <1>2, <2>1, PointerFacts
  <2>4. DOMAIN Unlinked(HeaderOf(info, p))
          = DOMAIN minors \ (IF lost = NULL THEN {} ELSE {HeaderOf(info, lost)})
    BY UnlinkedIs
  <2>5. q # p => HeaderOf(info, q) # HeaderOf(info, p)
    BY <1>1, <2>1, PointerFacts
  <2>6. QED
    BY <2>2, <2>3, <2>4, <2>5
<1>8. QED
  BY <1>4, <1>5, <1>6, <1>7

\* After the information inf was kept for the minors mn2.
LEMMA KeptInfoSound ==
  ASSUME HeapInv, NEW p \in DOMAIN info, HeaderOf(info, p) \in LiveIn(minors),
         NEW mn2, NEW inf, DOMAIN inf \subseteq DOMAIN Forget(info, lost),
         inf = [q \in DOMAIN inf |-> inf[q]],
         \A q \in DOMAIN inf : inf[q] = Forget(info, lost)[q] /\ HeaderOf(info, q) \in DOMAIN mn2
  PROVE  /\ inf \in [DOMAIN inf -> Nat] /\ InfoInv(mn2, inf)
         /\ \A q \in DOMAIN inf : HeaderOf(inf, q) = HeaderOf(info, q)
<1>1. /\ InfoInv(minors, info) /\ info \in [DOMAIN info -> Nat]
  BY HeapParts
<1>2. \A q \in DOMAIN inf : q \in DOMAIN info /\ inf[q] = info[q]
  BY ForgottenInfo
<1>3. \A q \in DOMAIN inf : HeaderOf(inf, q) = HeaderOf(info, q)
  BY <1>2 DEF HeaderOf
<1>4. inf \in [DOMAIN inf -> Nat]
  <2>1. \A q \in DOMAIN inf : inf[q] \in Nat
    BY <1>1, <1>2
  <2>2. QED
    BY <2>1
<1>5. ASSUME NEW q \in DOMAIN inf
      PROVE  PointerInv(mn2, inf, q)
  <2>1. PointerInv(minors, info, q)
    BY <1>1, <1>2 DEF InfoInv
  <2>2. QED
    BY <1>2, <1>3, <2>1 DEF PointerInv
<1>6. QED
  BY <1>3, <1>4, <1>5 DEF InfoInv

LEMMA KeepMajorFrees ==
  ASSUME HeapInv, \A x \in DOMAIN majors : majors[x].first # NULL,
         NEW p \in DOMAIN info, NEW min \in LiveIn(minors), min = HeaderOf(info, p),
         min = MinorOf(p), l_inuse' = l_inuse - minors[min].size,
         Shrunk(min)[minors[min].block].first # NULL, KeepMajor(p, minors[min].block)
  PROVE  HeapFreed(p)
<1> DEFINE U == Unlinked(min)
           maj == minors[min].block
           S == Shrunk(min)
<1>1. /\ majors' = S /\ minors' = U /\ info' = Forget(info, lost) /\ lost' = p
      /\ l_bestBet' \in {maj, l_bestBet}
      /\ UNCHANGED <<l_memRoot, l_allocated, used>>
  BY DEF KeepMajor
<1>2. /\ MinorsTyped(U) /\ LiveIn(U) = LiveIn(minors) \ {min}
      /\ min \in DOMAIN U /\ U[min].next = minors[min].next
      /\ \A b \in LiveIn(minors) \ {min} : U[b].req_size = minors[b].req_size
  BY UnlinkedIs
<1>3. Freed(min, U)
  BY <1>2 DEF Freed
<1> HIDE DEF U, S, maj
<1>4. /\ SoundMajors(S, used) /\ ListInv(S, l_memRoot)
      /\ SoundMinors(S, U) /\ Ledger(S, U)
      /\ l_inuse - minors[min].size = TotalSize(U, LiveIn(U))
      /\ l_allocated = TotalSize(S, DOMAIN S)
      /\ maj \in DOMAIN majors /\ DOMAIN S = DOMAIN majors
      /\ \A x \in DOMAIN majors : x # maj => S[x] = majors[x]
  BY <1>3, ShrunkIs DEF maj, S
<1>5. /\ SoundMajors(majors', used') /\ ListInv(majors', l_memRoot')
      /\ SoundMinors(majors', minors') /\ Accounts(majors', minors', l_inuse', l_allocated')
  BY <1>1, <1>4 DEF Accounts
<1>6. l_bestBet' \in DOMAIN majors' \cup {NULL}
  BY <1>1, <1>4, HeapParts DEF SearchInv
<1>7. \A x \in DOMAIN majors' : majors'[x].first # NULL
  BY <1>1, <1>4 DEF maj, S
<1>8. /\ lost # p
      /\ DOMAIN Forget(info, lost) = DOMAIN info \ (IF lost = NULL THEN {} ELSE {lost})
      /\ \A q \in DOMAIN Forget(info, lost) :
              /\ HeaderOf(Forget(info, lost), q) = HeaderOf(info, q)
              /\ HeaderOf(info, q) \in DOMAIN U
              /\ q # p => HeaderOf(info, q) # min
  BY ForgottenInfo DEF U
<1>9. info' \in [DOMAIN info' -> Nat] /\ InfoInv(minors', info')
      /\ \A q \in DOMAIN info' : HeaderOf(info', q) = HeaderOf(info, q)
  <2> DEFINE inf == Forget(info, lost)
  <2>1. inf = [q \in DOMAIN inf |-> inf[q]]
    BY DEF Forget, Drop
  <2>2. \A q \in DOMAIN inf : HeaderOf(info, q) \in DOMAIN U
    BY <1>8
  <2>3. inf \in [DOMAIN inf -> Nat] /\ InfoInv(U, inf)
        /\ \A q \in DOMAIN inf : HeaderOf(inf, q) = HeaderOf(info, q)
    <3> HIDE DEF inf
    <3>1. DOMAIN inf \subseteq DOMAIN Forget(info, lost)
          /\ \A q \in DOMAIN inf : inf[q] = Forget(info, lost)[q]
      BY DEF inf
    <3>2. HeaderOf(info, p) \in LiveIn(minors)
      OBVIOUS
    <3>3. QED
      BY <2>1, <2>2, <3>1, <3>2, KeptInfoSound
  <2>4. QED
    BY <1>1, <2>3
<1>10. DeadInv(minors', info', lost')
  <2>1. p \in DOMAIN info' /\ HeaderOf(info', p) = min /\ p # NULL
    BY <1>1, <1>8, <1>9, HeapParts, PointerFacts
  <2>2. ASSUME NEW x \in DOMAIN U \ LiveIn(U)
        PROVE  x = min
    <3>1. x \in DOMAIN minors /\ (lost # NULL => x # HeaderOf(info, lost))
      BY UnlinkedIs DEF U
    <3>2. x \in LiveIn(minors)
      BY <3>1, HeapParts DEF DeadInv
    <3>3. QED
      BY <1>2, <2>2, <3>2
  <2>3. U[min].next # NULL => U[min].next \in LiveIn(U) /\ min < U[min].next
    <3> SUFFICES ASSUME U[min].next # NULL
                 PROVE  U[min].next \in LiveIn(U) /\ min < U[min].next
      OBVIOUS
    <3>1. NextInv(minors, min) /\ U[min].next = minors[min].next
      BY <1>2, HeapParts DEF SoundMinors, MinorsInv
    <3>2. U[min].next \in LiveIn(minors)
      BY <3>1, HeapParts, LiveFacts DEF NextInv
    <3>3. min \in DOMAIN minors /\ Forward(minors, DOMAIN minors) /\ min \in Nat
      BY HeapParts, LiveFacts, MinorFacts, ListsRise
    <3>4. min < U[min].next /\ U[min].next \in Nat
      BY <3>1, <3>2, <3>3, HeapParts, LiveFacts, MinorFacts DEF Forward
    <3>5. QED
      BY <1>2, <3>2, <3>3, <3>4
  <2>4. QED
    BY <1>1, <1>2, <2>1, <2>2, <2>3 DEF DeadInv
<1>11. ASSUME NEW q \in DOMAIN info \ {p}, HeaderOf(info, q) \in LiveIn(minors)
       PROVE  /\ q \in DOMAIN info' /\ HeaderOf(info', q) = HeaderOf(info, q)
              /\ HeaderOf(info, q) \in LiveIn(minors')
              /\ minors'[HeaderOf(info, q)].req_size = minors[HeaderOf(info, q)].req_size
  <2>1. lost # NULL => q # lost
    BY <1>11, HeapParts DEF DeadInv
  <2>2. q \in DOMAIN Forget(info, lost)
    BY <1>8, <2>1
  <2>3. HeaderOf(info, q) # min
    BY <1>8, <2>2
  <2>4. QED
    BY <1>1, <1>2, <1>9, <1>11, <2>2, <2>3
<1>12. QED
  BY <1>5, <1>6, <1>7, <1>9, <1>10, <1>11 DEF HeapFreed

LEMMA ReleaseMajorFrees ==
  ASSUME HeapInv, \A x \in DOMAIN majors : majors[x].first # NULL,
         NEW p \in DOMAIN info, NEW min \in LiveIn(minors), min = HeaderOf(info, p),
         min = MinorOf(p), l_inuse' = l_inuse - minors[min].size,
         Shrunk(min)[minors[min].block].first = NULL, ReleaseMajor(p, minors[min].block)
  PROVE  HeapFreed(p)
<1> DEFINE U == Unlinked(min)
           mn2 == Drop(U, {min})
           maj == minors[min].block
           S == Shrunk(min)
<1>1. /\ minors' = mn2 /\ lost' = NULL
      /\ info' = Drop(Forget(info, lost), {p})
      /\ l_memRoot' = IF l_memRoot = maj THEN majors[maj].next ELSE l_memRoot
      /\ l_bestBet' = IF l_bestBet = maj THEN NULL ELSE l_bestBet
      /\ l_allocated' = l_allocated - majors[maj].size
      /\ used' = used \ PageRun(maj \div PageSize, majors[maj].pages)
      /\ majors' = [x \in DOMAIN majors \ {maj} |->
           CASE x = majors[maj].prev -> [majors[x] EXCEPT !.next = majors[maj].next]
             [] x = majors[maj].next -> [majors[x] EXCEPT !.prev = majors[maj].prev]
             [] OTHER                -> majors[x]]
  BY DEF ReleaseMajor, BestBetWithout, PagesOf
<1>2. /\ MinorsTyped(U) /\ LiveIn(U) = LiveIn(minors) \ {min}
      /\ DOMAIN U = DOMAIN minors \ (IF lost = NULL THEN {} ELSE {HeaderOf(info, lost)})
      /\ \A b \in LiveIn(minors) \ {min} : U[b].req_size = minors[b].req_size
  BY UnlinkedIs
<1> HIDE DEF U
<1>3. /\ DOMAIN mn2 = DOMAIN U \ {min} /\ \A b \in DOMAIN mn2 : mn2[b] = U[b]
      /\ mn2 = [b \in DOMAIN mn2 |-> mn2[b]]
  BY DEF Drop
<1> HIDE DEF mn2
<1>4. MinorsTyped(mn2) /\ LiveIn(mn2) = LiveIn(minors) \ {min}
  <2>1. MinorsTyped(mn2)
    BY <1>2, <1>3 DEF MinorsTyped
  <2>2. LiveIn(mn2) = LiveIn(U) \ {min}
    BY <1>3 DEF LiveIn
  <2>3. QED
    BY <1>2, <2>1, <2>2
<1>5. Freed(min, mn2)
  <2>1. LiveIn(mn2) \subseteq DOMAIN mn2
    BY DEF LiveIn
  <2>2. QED
    BY <1>3, <1>4, <2>1 DEF Freed, U
<1> HIDE DEF S, maj
<1>6. /\ SoundMajors(S, used) /\ ListInv(S, l_memRoot)
      /\ SoundMinors(S, mn2) /\ Ledger(S, mn2)
      /\ l_inuse - minors[min].size = TotalSize(mn2, LiveIn(mn2))
      /\ l_allocated = TotalSize(S, DOMAIN S)
      /\ maj \in DOMAIN majors /\ DOMAIN S = DOMAIN majors
      /\ \A x \in DOMAIN majors : x # maj => S[x] = majors[x]
      /\ S[maj] = [majors[maj] EXCEPT !.usage = S[maj].usage, !.first = S[maj].first]
  BY <1>5, ShrunkIs DEF maj, S
<1>7. /\ S[maj].prev = majors[maj].prev /\ S[maj].next = majors[maj].next
      /\ S[maj].pages = majors[maj].pages /\ S[maj].size = majors[maj].size
      /\ S[maj].first = NULL
  <2>1. majors[maj] \in MajorRec /\ S[maj].first = NULL
    BY <1>6, HeapParts DEF MajorsTyped, maj, S
  <2>2. QED
    BY <1>6, <2>1 DEF MajorRec
<1>8. MajorDropped(S, majors', maj)
  <2>1. DOMAIN majors' = DOMAIN S \ {maj}
    BY <1>1, <1>6
  <2>2. ASSUME NEW y \in DOMAIN majors'
        PROVE  majors'[y] = CASE y = S[maj].prev -> [S[y] EXCEPT !.next = S[maj].next]
                              [] y = S[maj].next -> [S[y] EXCEPT !.prev = S[maj].prev]
                              [] OTHER           -> S[y]
    <3>1. y \in DOMAIN majors \ {maj} /\ S[y] = majors[y]
      BY <1>6, <2>1, <2>2
    <3> DEFINE F(x) == CASE x = majors[maj].prev -> [majors[x] EXCEPT !.next = majors[maj].next]
                         [] x = majors[maj].next -> [majors[x] EXCEPT !.prev = majors[maj].prev]
                         [] OTHER                -> majors[x]
    <3>2. majors' = [x \in DOMAIN majors \ {maj} |-> F(x)]
      BY <1>1
    <3>3. majors'[y] = F(y)
      <4> HIDE DEF F
      <4>1. QED
        BY <3>1, <3>2
    <3>4. QED
      BY <1>7, <3>1, <3>3
  <2>3. QED
    BY <1>6, <2>1, <2>2 DEF MajorDropped
<1>9. majors' = [x \in DOMAIN majors' |-> majors'[x]]
  BY <1>1
<1>10. Own(mn2, maj) = {}
  <2>1. FirstInv(S, mn2, maj)
    BY <1>6 DEF SoundMinors, MinorsInv
  <2>2. QED
    BY <1>7, <2>1 DEF FirstInv
<1>11. /\ SoundMajors(majors', used \ MajorPages(S, maj)) /\ SoundMinors(majors', mn2)
       /\ Ledger(majors', mn2)
       /\ TotalSize(majors', DOMAIN majors') = TotalSize(S, DOMAIN S) - S[maj].size
  BY <1>6, <1>8, <1>9, <1>10, DroppedMajor
<1>12. ListInv(majors', l_memRoot')
  <2>1. ListInv(majors', IF l_memRoot = maj THEN S[maj].next ELSE l_memRoot)
    BY <1>6, <1>8, DroppedList DEF SoundMajors
  <2>2. QED
    BY <1>1, <1>7, <2>1
<1>13. used' = used \ MajorPages(S, maj)
  BY <1>1, <1>7 DEF MajorPages
<1>14. Accounts(majors', minors', l_inuse', l_allocated')
  BY <1>1, <1>6, <1>7, <1>11 DEF Accounts
<1>15. l_bestBet' \in DOMAIN majors' \cup {NULL}
  <2>1. l_bestBet \in DOMAIN majors \cup {NULL}
    BY HeapParts DEF SearchInv
  <2>2. QED
    BY <1>1, <2>1
<1>16. \A x \in DOMAIN majors' : majors'[x].first # NULL
  <2> TAKE x \in DOMAIN majors'
  <2>1. x \in DOMAIN S /\ x # maj /\ majors'[x].first = S[x].first
    BY <1>6, <1>8, DroppedFields DEF SoundMajors
  <2>2. QED
    BY <1>6, <2>1
<1>17. /\ DOMAIN Forget(info, lost) = DOMAIN info \ (IF lost = NULL THEN {} ELSE {lost})
       /\ \A q \in DOMAIN Forget(info, lost) :
              /\ HeaderOf(info, q) \in DOMAIN U
              /\ q # p => HeaderOf(info, q) # min
  BY ForgottenInfo DEF U
<1>18. /\ DOMAIN info' = DOMAIN Forget(info, lost) \ {p}
       /\ info' = [q \in DOMAIN info' |-> info'[q]]
       /\ \A q \in DOMAIN info' : info'[q] = Forget(info, lost)[q]
  BY <1>1 DEF Drop
<1>19. /\ info' \in [DOMAIN info' -> Nat] /\ InfoInv(minors', info')
       /\ \A q \in DOMAIN info' : HeaderOf(info', q) = HeaderOf(info, q)
  <2>1. \A q \in DOMAIN info' : HeaderOf(info, q) \in DOMAIN mn2
    BY <1>3, <1>17, <1>18
  <2>2. HeaderOf(info, p) \in LiveIn(minors) /\ DOMAIN info' \subseteq DOMAIN Forget(info, lost)
    BY <1>18
  <2> DEFINE inf == info'
  <2>3. /\ inf = [q \in DOMAIN inf |-> inf[q]] /\ DOMAIN inf \subseteq DOMAIN Forget(info, lost)
        /\ \A q \in DOMAIN inf : inf[q] = Forget(info, lost)[q] /\ HeaderOf(info, q) \in DOMAIN mn2
    BY <1>18, <2>1, <2>2
  <2>4. inf \in [DOMAIN inf -> Nat] /\ InfoInv(mn2, inf)
        /\ \A q \in DOMAIN inf : HeaderOf(inf, q) = HeaderOf(info, q)
    BY <2>2, <2>3, KeptInfoSound
  <2>5. QED
    BY <1>1, <2>4
<1>20. DeadInv(minors', info', lost')
  <2>1. LiveIn(mn2) = DOMAIN mn2
    <3>1. LiveIn(mn2) \subseteq DOMAIN mn2
      BY DEF LiveIn
    <3>2. ASSUME NEW x \in DOMAIN mn2
          PROVE  x \in LiveIn(mn2)
      <4>1. x \in DOMAIN minors /\ x # min /\ (lost # NULL => x # HeaderOf(info, lost))
        BY <1>2, <1>3
      <4>2. x \in LiveIn(minors)
        BY <4>1, HeapParts DEF DeadInv
      <4>3. QED
        BY <1>4, <4>1, <4>2
    <3>3. QED
      BY <3>1, <3>2
  <2>2. QED
    BY <1>1, <2>1 DEF DeadInv
<1>21. ASSUME NEW q \in DOMAIN info \ {p}, HeaderOf(info, q) \in LiveIn(minors)
       PROVE  /\ q \in DOMAIN info' /\ HeaderOf(info', q) = HeaderOf(info, q)
              /\ HeaderOf(info, q) \in LiveIn(minors')
              /\ minors'[HeaderOf(info, q)].req_size = minors[HeaderOf(info, q)].req_size
  <2>1. lost # NULL => q # lost
    BY <1>21, HeapParts DEF DeadInv
  <2>2. q \in DOMAIN Forget(info, lost) /\ q \in DOMAIN info'
    BY <1>17, <1>18, <2>1
  <2>3. HeaderOf(info, q) \in LiveIn(mn2) /\ HeaderOf(info, q) # min
    BY <1>4, <1>17, <1>21, <2>2
  <2>4. mn2[HeaderOf(info, q)] = U[HeaderOf(info, q)]
    BY <1>3, <2>3 DEF LiveIn
  <2>5. QED
    BY <1>1, <1>2, <1>19, <1>21, <2>2, <2>3, <2>4
<1>22. QED
  BY <1>1, <1>11, <1>12, <1>13, <1>14, <1>15, <1>16, <1>19, <1>20, <1>21 DEF HeapFreed

LEMMA CallableIs ==
  ASSUME HeapInv, NEW p \in Callable
  PROVE  /\ p \in DOMAIN info /\ MinorOf(p) = HeaderOf(info, p)
         /\ HeaderOf(info, p) \in DOMAIN minors
         /\ p \in DOMAIN held => HeaderOf(info, p) \in LiveIn(minors)
<1>1. p \in DOMAIN info
  BY HeapParts DEF Callable, Typed, DeadInv
<1>2. p \in DOMAIN held => HeaderOf(info, p) \in LiveIn(minors)
  BY HeapParts DEF HeldInv
<1>3. QED
  BY <1>1, <1>2, HeapParts, MinorOfIs, PointerFacts

LEMMA kfreeFrees ==
  ASSUME HeapInv, \A x \in DOMAIN majors : majors[x].first # NULL,
         NEW p \in Callable, kfree(p)
  PROVE  HeapFreed(p)
<1>1. p \in DOMAIN info /\ MinorOf(p) = HeaderOf(info, p) /\ HeaderOf(info, p) \in DOMAIN minors
  BY CallableIs
<1> DEFINE min == MinorOf(p)
           maj == minors[min].block
<1>2. CASE minors[min].magic # "MAGIC" /\ UNCHANGED <<heapVars, lost>>
  <2>1. /\ majors' = majors /\ minors' = minors /\ info' = info /\ used' = used
        /\ lost' = lost /\ l_memRoot' = l_memRoot /\ l_bestBet' = l_bestBet
        /\ l_inuse' = l_inuse /\ l_allocated' = l_allocated
    BY <1>2 DEF heapVars
  <2>2. Accounts(majors', minors', l_inuse', l_allocated')
    BY <2>1, HeapParts DEF Accounts
  <2>3. QED
    BY <2>1, <2>2, HeapParts DEF HeapFreed, SearchInv
<1>3. CASE /\ minors[min].magic = "MAGIC"
           /\ l_inuse' = l_inuse - minors[min].size
           /\ \/ Shrunk(min)[maj].first = NULL /\ ReleaseMajor(p, maj)
              \/ Shrunk(min)[maj].first # NULL /\ KeepMajor(p, maj)
  <2>1. min \in LiveIn(minors) /\ min = HeaderOf(info, p)
    BY <1>1, <1>3 DEF LiveIn
  <2>2. QED
    BY <1>1, <1>3, <2>1, ReleaseMajorFrees, KeepMajorFrees
<1>4. QED
  BY <1>2, <1>3 DEF kfree

-----------------------------------------------------------------------------
(* The calls.                                                              *)

LEMMA IdleFacts ==
  ASSUME HeapInv, pc # "scan"
  PROVE  \A x \in DOMAIN majors : majors[x].first # NULL
BY HeapParts DEF EmptyInv

\* A call that ends with kfree(p).
LEMMA FreedInv ==
  ASSUME HeapInv, NEW p \in DOMAIN info, HeapFreed(p), loc' \in LocRec, pc' = "idle",
         halted' = halted, held' = [q \in DOMAIN held' |-> held'[q]],
         \A q \in DOMAIN held' : /\ q \in DOMAIN info \ {p}
                                 /\ HeaderOf(info, q) \in LiveIn(minors)
                                 /\ held'[q] = minors[HeaderOf(info, q)].req_size
  PROVE  HeapInv'
<1>1. /\ SoundMajors(majors', used') /\ ListInv(majors', l_memRoot')
      /\ SoundMinors(majors', minors')
      /\ l_bestBet' \in DOMAIN majors' \cup {NULL}
      /\ \A x \in DOMAIN majors' : majors'[x].first # NULL
      /\ info' \in [DOMAIN info' -> Nat] /\ InfoInv(minors', info')
      /\ DeadInv(minors', info', lost')
      /\ Accounts(majors', minors', l_inuse', l_allocated')
  BY DEF HeapFreed
<1>2. \A q \in DOMAIN held' :
        /\ q \in DOMAIN info' /\ HeaderOf(info', q) = HeaderOf(info, q)
        /\ HeaderOf(info, q) \in LiveIn(minors) /\ HeaderOf(info, q) \in LiveIn(minors')
        /\ held'[q] = minors'[HeaderOf(info', q)].req_size
  BY DEF HeapFreed
<1>3. held' \in [DOMAIN held' -> Nat]
  <2>1. \A q \in DOMAIN held' : held'[q] \in Nat
    BY <1>2, HeapParts, LiveFacts, MinorFacts
  <2>2. QED
    BY <2>1
<1>4. Typed'
  <2>1. halted' \in BOOLEAN
    BY HeapParts DEF Typed
  <2>2. QED
    BY <1>1, <1>2, <1>3, <2>1 DEF Typed, SoundMajors, SoundMinors
<1>5. SearchInv' /\ EmptyInv'
  BY <1>1 DEF SearchInv, EmptyInv
<1>6. HeldInv'
  BY <1>2 DEF HeldInv
<1>7. CallInv'
  BY DEF CallInv
<1>8. AccountingExact'
  BY <1>1, AccountsPrimed DEF SoundMinors
<1>9. QED
  BY <1>1, <1>4, <1>5, <1>6, <1>7, <1>8 DEF HeapInv, SoundMajors, SoundMinors

LEMMA CallFreeInv ==
  ASSUME HeapInv, CallFree
  PROVE  HeapInv'
<1>1. PICK p \in Callable : kfree(p) /\ held' = Drop(held, {p})
  BY DEF CallFree
<1>2. pc = "idle" /\ pc' = "idle" /\ loc' = loc /\ halted' = halted
  BY DEF CallFree, Idle
<1>3. HeapFreed(p)
  BY <1>1, <1>2, IdleFacts, kfreeFrees
<1>4. p \in DOMAIN info
  BY CallableIs
<1>5. loc' \in LocRec
  BY <1>2, HeapParts DEF Typed
<1>6. /\ DOMAIN held' = DOMAIN held \ {p} /\ \A q \in DOMAIN held' : held'[q] = held[q]
      /\ held' = [q \in DOMAIN held' |-> held'[q]]
  BY <1>1 DEF Drop
<1>7. \A q \in DOMAIN held' : /\ q \in DOMAIN info \ {p}
                              /\ HeaderOf(info, q) \in LiveIn(minors)
                              /\ held'[q] = minors[HeaderOf(info, q)].req_size
  BY <1>6, HeapParts DEF Typed, HeldInv
<1>8. QED
  BY <1>2, <1>3, <1>4, <1>5, <1>6, <1>7, FreedInv

LEMMA NoCallTyped == NoCall \in LocRec
BY Addresses DEF NoCall, LocRec

LEMMA ReturnMovedInv ==
  ASSUME HeapInv, ReturnMoved, pc' = "idle", loc' = NoCall, halted' = halted
  PROVE  HeapInv'
<1> DEFINE p == loc.old
           new == loc.p
<1>1. /\ pc = "return" /\ loc.op = "krealloc" /\ kfree(p)
      /\ held' = Put(Drop(held, {p}), new, loc.asked)
  BY DEF ReturnMoved
<1>2. /\ p \in DOMAIN held
      /\ new \in DOMAIN info \ DOMAIN held
      /\ HeaderOf(info, new) \in LiveIn(minors)
      /\ minors[HeaderOf(info, new)].req_size = loc.asked
  BY <1>1, HeapParts DEF CallInv, RequestInv
<1>3. p \in Callable /\ p \in DOMAIN info
  BY <1>2, CallableIs DEF Callable
<1>4. HeapFreed(p)
  BY <1>1, <1>3, IdleFacts, kfreeFrees
<1> HIDE DEF p, new
<1>5. /\ DOMAIN held' = (DOMAIN held \ {p}) \cup {new}
      /\ \A q \in DOMAIN held \ {p} : held'[q] = held[q]
      /\ held'[new] = loc.asked
      /\ held' = [q \in DOMAIN held' |-> held'[q]]
  BY <1>1, <1>2 DEF Drop, Put
<1>6. \A q \in DOMAIN held' : /\ q \in DOMAIN info \ {p}
                              /\ HeaderOf(info, q) \in LiveIn(minors)
                              /\ held'[q] = minors[HeaderOf(info, q)].req_size
  BY <1>2, <1>5, HeapParts DEF Typed, HeldInv
<1>7. loc' \in LocRec
  BY NoCallTyped
<1>8. QED
  BY <1>3, <1>4, <1>5, <1>6, <1>7, FreedInv

LEMMA ReturnNewInv ==
  ASSUME HeapInv, ReturnNew, pc' = "idle", loc' = NoCall, halted' = halted
  PROVE  HeapInv'
<1> DEFINE new == loc.p
<1>1. /\ pc = "return" /\ held' = Put(held, new, loc.asked)
      /\ UNCHANGED <<l_memRoot, l_inuse, l_allocated, majors, minors, info, used, lost>>
      /\ l_bestBet' = l_bestBet
  BY DEF ReturnNew, heapVars
<1>2. /\ new \in DOMAIN info \ DOMAIN held
      /\ HeaderOf(info, new) \in LiveIn(minors)
      /\ minors[HeaderOf(info, new)].req_size = loc.asked
      /\ loc.asked \in Nat
  BY <1>1, HeapParts DEF CallInv, Typed, LocRec
<1> HIDE DEF new
<1>3. /\ DOMAIN held' = DOMAIN held \cup {new}
      /\ \A q \in DOMAIN held : held'[q] = held[q]
      /\ held'[new] = loc.asked
      /\ held' = [q \in DOMAIN held' |-> held'[q]]
  BY <1>1, <1>2 DEF Put
<1>4. held' \in [DOMAIN held' -> Nat] /\ DOMAIN held' \subseteq DOMAIN info
  <2>1. held \in [DOMAIN held -> Nat] /\ DOMAIN held \subseteq DOMAIN info
    BY HeapParts DEF Typed
  <2>2. \A q \in DOMAIN held' : held'[q] \in Nat
    BY <1>2, <1>3, <2>1
  <2>3. QED
    BY <1>2, <1>3, <2>1, <2>2
<1>5. HeldInv'
  <2>1. \A q \in DOMAIN held' : /\ HeaderOf(info, q) \in LiveIn(minors)
                                /\ held'[q] = minors[HeaderOf(info, q)].req_size
    BY <1>2, <1>3, HeapParts DEF HeldInv
  <2>2. QED
    BY <1>1, <2>1 DEF HeldInv
<1>6. SearchInv' /\ EmptyInv' /\ CallInv'
  <2>1. \A x \in DOMAIN majors : majors[x].first # NULL
    BY <1>1, IdleFacts
  <2>2. l_bestBet \in DOMAIN majors \cup {NULL}
    BY HeapParts DEF SearchInv
  <2>3. QED
    BY <1>1, <2>1, <2>2 DEF SearchInv, EmptyInv, CallInv
<1>7. halted' \in BOOLEAN /\ loc' \in LocRec
  BY NoCallTyped, HeapParts DEF Typed
<1>8. QED
  BY <1>1, <1>4, <1>5, <1>6, <1>7, HeldChanges

LEMMA ReturnInv ==
  ASSUME HeapInv, Return
  PROVE  HeapInv'
BY ReturnNewInv, ReturnMovedInv DEF Return

\* One block that asks for less than it did.
Smaller(mj, mn, mn2, min, n) ==
  /\ SoundMinors(mj, mn2) /\ DOMAIN mn2 = DOMAIN mn /\ LiveIn(mn2) = LiveIn(mn)
  /\ mn2[min].req_size = n
  /\ \A b \in DOMAIN mn : /\ mn2[b].block = mn[b].block /\ mn2[b].size = mn[b].size
                          /\ mn2[b].next = mn[b].next
                          /\ b # min => mn2[b] = mn[b]

LEMMA SmallerRequest ==
  ASSUME NEW mj, NEW mn, NEW min \in LiveIn(mn), NEW n \in Nat,
         SoundMinors(mj, mn), n <= mn[min].req_size
  PROVE  Smaller(mj, mn, [mn EXCEPT ![min].req_size = n], min, n)
<1> DEFINE mn2 == [mn EXCEPT ![min].req_size = n]
<1>1. min \in DOMAIN mn /\ MinorsTyped(mn)
  BY LiveFacts DEF SoundMinors
<1>2. /\ DOMAIN mn2 = DOMAIN mn /\ mn2 = [b \in DOMAIN mn2 |-> mn2[b]]
      /\ mn2[min] = [mn[min] EXCEPT !.req_size = n]
      /\ \A b \in DOMAIN mn : b # min => mn2[b] = mn[b]
  BY <1>1
<1> HIDE DEF mn2
<1>3. \A b \in DOMAIN mn : mn[b] \in MinorRec
  BY <1>1, MinorFacts
<1>4. \A b \in DOMAIN mn :
        /\ mn2[b] \in MinorRec /\ mn2[b].block = mn[b].block /\ mn2[b].size = mn[b].size
        /\ mn2[b].next = mn[b].next /\ mn2[b].prev = mn[b].prev /\ mn2[b].magic = mn[b].magic
        /\ mn2[b].req_size = IF b = min THEN n ELSE mn[b].req_size
  BY <1>1, <1>2, <1>3 DEF MinorRec
<1>5. MinorsTyped(mn2)
  BY <1>1, <1>2, <1>4 DEF MinorsTyped
<1>6. LiveIn(mn2) = LiveIn(mn)
  BY <1>2, <1>4 DEF LiveIn
<1>7. \A x : Own(mn2, x) = Own(mn, x)
  BY <1>4, <1>6 DEF Own, LiveIn
<1>8. ASSUME NEW b \in LiveIn(mn)
      PROVE  /\ BlockInv(mj, mn2, b) /\ NextInv(mn2, b)
             /\ PrevInv(mj, mn2, b) /\ NearestInv(mn2, b)
  <2>1. /\ BlockInv(mj, mn, b) /\ NextInv(mn, b) /\ PrevInv(mj, mn, b) /\ NearestInv(mn, b)
        /\ b \in DOMAIN mn
    BY <1>1, LiveFacts DEF SoundMinors, MinorsInv
  <2>2. End(mn2, b) = End(mn, b)
    BY <1>4, <2>1 DEF End
  <2>3. BlockInv(mj, mn2, b)
    <3>1. mn2[b].req_size <= mn[b].req_size
      BY <1>1, <1>4, <2>1, MinorFacts
    <3>2. mn2[b].req_size \in Nat /\ mn[b].req_size \in Nat /\ mn[b].size \in Nat
      BY <1>1, <1>4, <2>1, MinorFacts
    <3>3. mn2[b].req_size + BlockCost <= mn2[b].size
      BY <1>4, <2>1, <3>1, <3>2, Sizes DEF BlockInv
    <3>4. QED
      BY <1>4, <2>1, <2>2, <3>3 DEF BlockInv
  <2>4. \A c : \A d \in Own(mn, c) : d \in DOMAIN mn
    BY <1>1, LiveFacts
  <2>5. NextInv(mn2, b)
    <3>1. SUFFICES ASSUME mn2[b].next # NULL
                   PROVE  /\ mn2[b].next \in Own(mn2, mn2[b].block)
                          /\ mn2[mn2[b].next].prev = b
                          /\ End(mn2, b) <= mn2[b].next
      BY DEF NextInv
    <3>2. mn2[b].next = mn[b].next /\ mn2[b].block = mn[b].block
      BY <1>4, <2>1
    <3>3. /\ mn[b].next \in Own(mn, mn[b].block) /\ mn[mn[b].next].prev = b
          /\ End(mn, b) <= mn[b].next
      BY <2>1, <3>1, <3>2 DEF NextInv
    <3>4. mn[b].next \in DOMAIN mn
      BY <2>4, <3>3
    <3>5. mn2[mn[b].next].prev = b
      BY <1>4, <3>3, <3>4
    <3>6. QED
      BY <1>7, <2>2, <3>2, <3>3, <3>5
  <2>6. PrevInv(mj, mn2, b)
    <3>1. mn2[b].prev = mn[b].prev /\ mn2[b].block = mn[b].block
      BY <1>4, <2>1
    <3>2. CASE mn[b].prev = NULL
      BY <2>1, <3>1, <3>2 DEF PrevInv
    <3>3. CASE mn[b].prev # NULL
      <4>1. mn[b].prev \in Own(mn, mn[b].block) /\ mn[mn[b].prev].next = b
        BY <2>1, <3>3 DEF PrevInv
      <4>2. mn[b].prev \in DOMAIN mn
        BY <2>4, <4>1
      <4>3. mn2[mn[b].prev].next = b
        BY <1>4, <4>1, <4>2
      <4>4. QED
        BY <1>7, <3>1, <3>3, <4>1, <4>3 DEF PrevInv
    <3>4. QED
      BY <3>2, <3>3
  <2>7. NearestInv(mn2, b)
    BY <1>4, <1>7, <2>1 DEF NearestInv
  <2>8. QED
    BY <2>3, <2>5, <2>6, <2>7
<1>9. ASSUME NEW x \in DOMAIN mj
      PROVE  FirstInv(mj, mn2, x)
  <2>1. FirstInv(mj, mn, x)
    BY DEF SoundMinors, MinorsInv
  <2>2. \A d \in Own(mn, x) : d \in DOMAIN mn
    BY <1>1, LiveFacts
  <2>3. QED
    BY <1>4, <1>7, <2>1, <2>2 DEF FirstInv
<1>10. QED
  <2>1. SoundMinors(mj, mn2)
    BY <1>5, <1>6, <1>8, <1>9 DEF SoundMinors, MinorsInv
  <2>2. Smaller(mj, mn, mn2, min, n)
    BY <1>1, <1>2, <1>4, <1>6, <2>1 DEF Smaller
  <2>3. QED
    BY <2>2 DEF mn2

\* The requests that callers make.
LEMMA RequestsAre ==
  ASSUME RequestsFit
  PROVE  /\ \A n \in ReqSizes : n \in Nat /\ n + MajorCost <= UINT /\ uint(n) = n
         /\ \A k \in Counts, n \in ReqSizes :
              /\ k * n \in Nat /\ k * n + MajorCost <= UINT
              /\ RealSize(k, n) = k * n
<1>1. ASSUME NEW n \in ReqSizes
      PROVE  n \in Nat /\ n + MajorCost <= UINT /\ uint(n) = n
  <2>1. n \in Nat /\ n + MajorCost <= UINT
    BY Sizes DEF RequestsFit
  <2>2. n < UINT
    BY <2>1, Sizes
  <2>3. QED
    BY <2>1, <2>2, Widths
<1>2. ASSUME NEW k \in Counts, NEW n \in ReqSizes
      PROVE  /\ k * n \in Nat /\ k * n + MajorCost <= UINT
             /\ RealSize(k, n) = k * n
  <2> DEFINE x == k * n
  <2>1. x \in Nat /\ x + MajorCost <= UINT /\ 2 * x < UINT
    BY Sizes DEF RequestsFit
  <2>2. x < UINT
    <3> HIDE DEF x
    <3>1. QED
      BY <2>1, Sizes
  <2>3. uint(x) = x /\ size_t(x) = x
    <3> HIDE DEF x
    <3>1. QED
      BY <2>1, <2>2, Widths
  <2>4. int(x) = x
    <3> HIDE DEF x
    <3>1. QED
      BY <2>1, <2>3 DEF int
  <2>5. QED
    BY <2>1, <2>3, <2>4 DEF RealSize
<1>3. QED
  BY <1>1, <1>2

LEMMA ReallocInPlaceInv ==
  ASSUME RequestsFit, HeapInv, ReallocInPlace
  PROVE  HeapInv'
<1>1. PICK p \in Callable, n \in ReqSizes \ {0} :
        \/ /\ minors[MinorOf(p)].magic # "MAGIC"
           /\ UNCHANGED <<minors, held>>
        \/ /\ minors[MinorOf(p)].magic = "MAGIC" /\ minors[MinorOf(p)].req_size >= n
           /\ minors' = [minors EXCEPT ![MinorOf(p)].req_size = uint(n)]
           /\ held' = [held EXCEPT ![p] = n]
  BY DEF ReallocInPlace
<1>2. /\ l_memRoot' = l_memRoot /\ l_bestBet' = l_bestBet /\ l_inuse' = l_inuse
      /\ l_allocated' = l_allocated /\ majors' = majors /\ info' = info /\ used' = used
      /\ lost' = lost /\ pc' = pc /\ loc' = loc /\ halted' = halted /\ pc = "idle"
  BY DEF ReallocInPlace, Idle
<1>3. /\ p \in DOMAIN info /\ MinorOf(p) = HeaderOf(info, p)
      /\ HeaderOf(info, p) \in DOMAIN minors
  BY CallableIs
<1>4. n \in Nat /\ uint(n) = n
  BY RequestsAre
<1> DEFINE min == HeaderOf(info, p)
<1>5. loc' \in LocRec /\ pc' \in {"idle", "scan", "return"} /\ halted' \in BOOLEAN
  BY <1>2, HeapParts DEF Typed
<1>6. SearchInv' /\ EmptyInv' /\ CallInv'
  <2>1. \A x \in DOMAIN majors : majors[x].first # NULL
    BY <1>2, IdleFacts
  <2>2. l_bestBet \in DOMAIN majors \cup {NULL}
    BY HeapParts DEF SearchInv
  <2>3. QED
    BY <1>2, <2>1, <2>2 DEF SearchInv, EmptyInv, CallInv
<1>7. CASE minors' = minors /\ held' = held
  BY <1>2, <1>5, <1>6, <1>7, SameHeap
<1>8. CASE /\ minors[min].magic = "MAGIC" /\ minors[min].req_size >= n
           /\ minors' = [minors EXCEPT ![min].req_size = n]
           /\ held' = [held EXCEPT ![p] = n]
  <2>1. min \in LiveIn(minors)
    BY <1>3, <1>8 DEF LiveIn
  <2>2. p \in DOMAIN held
    <3>1. lost # NULL => HeaderOf(info, lost) \notin LiveIn(minors)
      BY HeapParts DEF DeadInv
    <3>2. QED
      BY <2>1, <3>1 DEF Callable
  <2>3. minors[min].req_size \in Nat
    BY <1>3, HeapParts, MinorFacts
  <2> HIDE DEF min
  <2>4. /\ SoundMinors(majors, minors') /\ DOMAIN minors' = DOMAIN minors
        /\ LiveIn(minors') = LiveIn(minors) /\ minors'[min].req_size = n
        /\ \A b \in DOMAIN minors :
             /\ minors'[b].block = minors[b].block /\ minors'[b].size = minors[b].size
             /\ minors'[b].next = minors[b].next
             /\ b # min => minors'[b] = minors[b]
    <3>1. Smaller(majors, minors, [minors EXCEPT ![min].req_size = n], min, n)
      BY <1>4, <1>8, <2>1, <2>3, HeapParts, SmallerRequest
    <3>2. Smaller(majors, minors, minors', min, n)
      BY <1>8, <3>1
    <3>3. QED
      BY <3>2 DEF Smaller
  <2>5. /\ DOMAIN held' = DOMAIN held /\ held'[p] = n
        /\ \A q \in DOMAIN held : q # p => held'[q] = held[q]
        /\ held' = [q \in DOMAIN held' |-> held'[q]]
    BY <1>8, <2>2
  <2>6. held' \in [DOMAIN held' -> Nat] /\ DOMAIN held' \subseteq DOMAIN info'
    <3>1. held \in [DOMAIN held -> Nat] /\ DOMAIN held \subseteq DOMAIN info
      BY HeapParts DEF Typed
    <3>2. \A q \in DOMAIN held' : held'[q] \in Nat
      BY <1>4, <2>5, <3>1
    <3>3. QED
      BY <1>2, <2>5, <3>1, <3>2
  <2>7. Typed'
    BY <1>2, <1>5, <2>4, <2>6, HeapParts DEF Typed, SoundMinors
  <2>8. InfoInv(minors', info')
    <3>1. \A q \in DOMAIN info : PointerInv(minors', info, q)
      BY <2>4, HeapParts DEF InfoInv, PointerInv
    <3>2. QED
      BY <1>2, <3>1 DEF InfoInv
  <2>9. DeadInv(minors', info', lost')
    <3>1. DeadInv(minors, info, lost)
      BY HeapParts
    <3>2. DOMAIN minors' \ LiveIn(minors') = DOMAIN minors \ LiveIn(minors)
      BY <2>4
    <3>3. \A a \in DOMAIN minors \ LiveIn(minors) :
            /\ lost # NULL /\ a = HeaderOf(info, lost)
            /\ minors'[a].next # NULL =>
                 minors'[a].next \in LiveIn(minors') /\ a < minors'[a].next
      BY <2>4, <3>1 DEF DeadInv
    <3>4. lost # NULL =>
            /\ lost \in DOMAIN info
            /\ HeaderOf(info, lost) \in DOMAIN minors \ LiveIn(minors)
      BY <3>1 DEF DeadInv
    <3>5. QED
      BY <1>2, <3>2, <3>3, <3>4 DEF DeadInv
  <2>10. HeldInv'
    <3>1. ASSUME NEW q \in DOMAIN held
          PROVE  /\ HeaderOf(info, q) \in LiveIn(minors')
                 /\ held'[q] = minors'[HeaderOf(info, q)].req_size
      <4>1. /\ HeaderOf(info, q) \in LiveIn(minors) /\ HeaderOf(info, q) \in DOMAIN minors
            /\ held[q] = minors[HeaderOf(info, q)].req_size /\ q \in DOMAIN info
        BY HeapParts, LiveFacts DEF HeldInv, Typed
      <4>2. q # p => HeaderOf(info, q) # min
        BY <1>3, <4>1, HeapParts, PointerFacts DEF min
      <4>3. QED
        BY <2>4, <2>5, <4>1, <4>2 DEF min
    <3>2. QED
      BY <1>2, <2>5, <3>1 DEF HeldInv
  <2>11. AccountingExact'
    <3>1. \A b \in LiveIn(minors) : minors'[b].block = minors[b].block /\ minors'[b].size = minors[b].size
      BY <2>4, HeapParts, LiveFacts
    <3>2. /\ TotalSize(minors', LiveIn(minors')) = TotalSize(minors, LiveIn(minors))
          /\ \A x : Load(minors', x) = Load(minors, x)
      BY <2>4, <3>1, HeapParts, SameLoad
    <3>3. Accounts(majors', minors', l_inuse', l_allocated')
      BY <1>2, <3>2, HeapParts DEF Accounts, Ledger
    <3>4. QED
      BY <2>4, <3>3, AccountsPrimed DEF SoundMinors
  <2>12. MajorsInv(majors', used') /\ ListInv(majors', l_memRoot') /\ MinorsInv(majors', minors')
    BY <1>2, <2>4, HeapParts DEF SoundMajors, SoundMinors
  <2>13. QED
    BY <1>6, <2>7, <2>8, <2>9, <2>10, <2>11, <2>12 DEF HeapInv
<1>9. QED
  BY <1>1, <1>3, <1>4, <1>7, <1>8

-----------------------------------------------------------------------------
(* The calls that look for a block.                                        *)

\* The call as StartMalloc writes it down.
Started(op, req, size, old, maj, bet, best) ==
  [op |-> op, asked |-> req, req |-> req, size |-> size, old |-> old,
   maj |-> maj, startedBet |-> bet, bestSize |-> best, p |-> NULL]

StartsAs(l, op, req, size, old, maj) ==
  /\ l \in LocRec /\ l.maj = maj /\ l.size = size /\ l.asked = req /\ l.req = req
  /\ l.old = old /\ l.op = op

LEMMA StartedCall ==
  ASSUME NEW op \in {"kmalloc", "kcalloc", "krealloc"}, NEW req \in Nat, NEW old \in Nat,
         NEW size \in Nat, NEW maj \in Nat, NEW bet \in BOOLEAN, NEW best \in Nat
  PROVE  StartsAs(Started(op, req, size, old, maj, bet, best), op, req, size, old, maj)
BY Addresses DEF NoCall, LocRec, Started, StartsAs

LEMMA StartMallocInv ==
  ASSUME HeapInv, pc = "idle", NEW op \in {"kmalloc", "kcalloc", "krealloc"},
         NEW req \in Nat, req + MajorCost <= UINT, NEW old \in Nat,
         op = "krealloc" => old \in DOMAIN held,
         StartMalloc(op, req, req, old)
  PROVE  HeapInv'
<1> DEFINE size == AdjustedSize(req)
           call == [NoCall EXCEPT !.op = op, !.asked = req, !.req = req,
                                  !.size = size, !.old = old]
           free == uint(majors[l_bestBet].size - majors[l_bestBet].usage)
<1>1. size = req + BlockCost /\ size \in Nat /\ size # 0
  <2>1. /\ req + ALIGNMENT + ALIGN_INFO = req + BlockCost
        /\ req + BlockCost \in Nat /\ req + BlockCost # 0 /\ req + BlockCost < UINT
    BY Sizes
  <2>2. size_t(req + BlockCost) = req + BlockCost
    BY <2>1, Widths
  <2>3. QED
    BY <2>1, <2>2 DEF AdjustedSize
<1>2. MajorHdr + ((MinorHdr + size) + PageSize) <= UINT
  BY <1>1, Sizes
<1>3. \A y \in DOMAIN majors : majors[y].first # NULL
  BY IdleFacts
<1>4. l_bestBet \in DOMAIN majors \cup {NULL}
  BY HeapParts DEF SearchInv
<1>5. \/ /\ l_memRoot = NULL
         /\ \/ \E s \in FreeRuns(NewMajorPages(size)) :
                 /\ TakePages(s, size)
                 /\ majors' = Put(majors, s * PageSize, NewMajor(size, NULL))
                 /\ l_memRoot' = s * PageSize
                 /\ loc' = [call EXCEPT !.maj = s * PageSize]
                 /\ pc' = "scan"
                 /\ UNCHANGED <<l_bestBet, l_inuse, minors, info, held, lost, halted>>
            \/ OutOfPages
      \/ /\ l_memRoot # NULL
         /\ loc' = CASE l_bestBet = NULL -> [call EXCEPT !.maj = l_memRoot]
                      [] l_bestBet # NULL /\ free <= size_t(size + MinorHdr) ->
                           [call EXCEPT !.maj = l_memRoot, !.bestSize = free]
                      [] OTHER ->
                           [call EXCEPT !.maj = l_bestBet, !.bestSize = free,
                                        !.startedBet = TRUE]
         /\ pc' = "scan"
         /\ UNCHANGED <<heapVars, held, lost, halted>>
  BY <1>1 DEF StartMalloc
<1>6. CASE /\ l_memRoot = NULL
           /\ \E s \in FreeRuns(NewMajorPages(size)) :
                /\ TakePages(s, size)
                /\ majors' = Put(majors, s * PageSize, NewMajor(size, NULL))
                /\ l_memRoot' = s * PageSize
                /\ loc' = [call EXCEPT !.maj = s * PageSize]
                /\ pc' = "scan"
                /\ UNCHANGED <<l_bestBet, l_inuse, minors, info, held, lost, halted>>
  <2>1. PICK s \in FreeRuns(NewMajorPages(size)) :
           /\ TakePages(s, size)
           /\ majors' = Put(majors, s * PageSize, NewMajor(size, NULL))
           /\ l_memRoot' = s * PageSize
           /\ loc' = [call EXCEPT !.maj = s * PageSize]
           /\ pc' = "scan"
           /\ UNCHANGED <<l_bestBet, l_inuse, minors, info, held, lost, halted>>
    BY <1>6
  <2> DEFINE x == s * PageSize
  <2>2. s \in Nat /\ x \in Nat
    BY Sizes DEF FreeRuns, Pages
  <2>3. /\ used' = used \cup PageRun(s, NewMajorPages(size))
        /\ l_allocated' = l_allocated + NewMajor(size, NULL).size
    BY <2>1 DEF TakePages
  <2>4. loc' = Started(op, req, size, old, x, FALSE, 0)
    BY <2>1 DEF NoCall, Started
  <2>5. /\ loc' \in LocRec /\ loc'.maj = x /\ loc'.size = size /\ loc'.asked = req
        /\ loc'.req = req /\ loc'.old = old /\ loc'.op = op
    <3> HIDE DEF x, size, call, free
    <3>1. 0 \in Nat /\ FALSE \in BOOLEAN
      OBVIOUS
    <3>2. StartsAs(Started(op, req, size, old, x, FALSE, 0), op, req, size, old, x)
      BY <1>1, <2>2, <3>1, StartedCall, Zenon
    <3>3. StartsAs(loc', op, req, size, old, x)
      BY <2>4, <3>2, Zenon
    <3>4. QED
      BY <3>3 DEF StartsAs
  <2>6. RequestInv(loc')
    BY <1>1, <2>5 DEF RequestInv
  <2>7. Grown(majors', used', l_memRoot', x, size)
    <3> HIDE DEF size, call, free
    <3>1. Grown(majors', used \cup PageRun(s, NewMajorPages(size)),
                IF l_memRoot = NULL THEN s * PageSize ELSE l_memRoot, s * PageSize, size)
      BY <1>1, <1>2, <1>3, <1>6, <2>1, MajorGrown
    <3>2. QED
      BY <1>6, <2>1, <2>3, <3>1
  <2>8. /\ UNCHANGED <<minors, info, held, lost, l_inuse, halted>> /\ pc' = "scan"
        /\ l_bestBet' \in DOMAIN majors \cup {NULL}
    BY <1>4, <2>1
  <2> HIDE DEF x, size, call, free
  <2>9. QED
    BY <2>3, <2>5, <2>6, <2>7, <2>8, GrownInv
<1>7. CASE /\ l_memRoot # NULL
           /\ loc' = CASE l_bestBet = NULL -> [call EXCEPT !.maj = l_memRoot]
                        [] l_bestBet # NULL /\ free <= size_t(size + MinorHdr) ->
                             [call EXCEPT !.maj = l_memRoot, !.bestSize = free]
                        [] OTHER ->
                             [call EXCEPT !.maj = l_bestBet, !.bestSize = free,
                                          !.startedBet = TRUE]
           /\ pc' = "scan"
           /\ UNCHANGED <<heapVars, held, lost, halted>>
  <2>1. l_memRoot \in DOMAIN majors
    BY <1>7, HeapParts DEF ListInv
  <2>2. \A y \in DOMAIN majors : y \in Nat
    BY HeapParts, Addresses DEF MajorsTyped
  <2>3. l_bestBet # NULL => free \in Nat
    <3>1. SUFFICES ASSUME l_bestBet # NULL
                   PROVE  free \in Nat
      OBVIOUS
    <3>2. /\ majors[l_bestBet].usage <= majors[l_bestBet].size
          /\ majors[l_bestBet] \in MajorRec
      BY <1>4, <3>1, HeapParts, MajorExtent DEF SoundMajors
    <3>3. majors[l_bestBet].usage \in Nat /\ majors[l_bestBet].size \in Nat
      BY <3>2 DEF MajorRec
    <3>4. majors[l_bestBet].size - majors[l_bestBet].usage \in Nat
      BY <3>2, <3>3
    <3>5. QED
      BY <3>4, Widths
  <2> HIDE DEF free
  <2>4. \E maj \in DOMAIN majors, bet \in BOOLEAN, best \in Nat :
          loc' = Started(op, req, size, old, maj, bet, best)
    <3>1. CASE l_bestBet = NULL
      <4>1. loc' = [call EXCEPT !.maj = l_memRoot]
        BY <1>7, <3>1
      <4>2. loc' = Started(op, req, size, old, l_memRoot, FALSE, 0)
        BY <4>1 DEF NoCall, Started
      <4>3. QED
        BY <2>1, <4>2
    <3>2. CASE l_bestBet # NULL /\ free <= size_t(size + MinorHdr)
      <4>1. loc' = [call EXCEPT !.maj = l_memRoot, !.bestSize = free]
        BY <1>7, <3>2
      <4>2. loc' = Started(op, req, size, old, l_memRoot, FALSE, free)
        BY <4>1 DEF NoCall, Started
      <4>3. QED
        BY <2>1, <2>3, <3>2, <4>2
    <3>3. CASE l_bestBet # NULL /\ ~(free <= size_t(size + MinorHdr))
      <4>1. loc' = [call EXCEPT !.maj = l_bestBet, !.bestSize = free, !.startedBet = TRUE]
        BY <1>7, <3>3
      <4>2. loc' = Started(op, req, size, old, l_bestBet, TRUE, free)
        BY <4>1 DEF NoCall, Started
      <4>3. QED
        BY <1>4, <2>3, <3>3, <4>2
    <3>4. QED
      BY <3>1, <3>2, <3>3
  <2>5. PICK maj \in DOMAIN majors, bet \in BOOLEAN, best \in Nat :
          loc' = Started(op, req, size, old, maj, bet, best)
    BY <2>4
  <2>6. /\ loc' \in LocRec /\ loc'.maj = maj /\ loc'.size = size /\ loc'.asked = req
        /\ loc'.req = req /\ loc'.old = old /\ loc'.op = op
    <3> HIDE DEF size, call
    <3>1. maj \in Nat
      BY <2>2
    <3>2. StartsAs(Started(op, req, size, old, maj, bet, best), op, req, size, old, maj)
      BY <1>1, <3>1, StartedCall, Zenon
    <3>3. StartsAs(loc', op, req, size, old, maj)
      BY <2>5, <3>2, Zenon
    <3>4. QED
      BY <3>3 DEF StartsAs
  <2>7. /\ UNCHANGED <<l_memRoot, l_bestBet, l_inuse, l_allocated, majors, minors, info,
                       used, held, lost>>
        /\ pc' = "scan" /\ halted' = halted
    BY <1>7 DEF heapVars
  <2>8. RequestInv(loc)'
    BY <1>1, <2>6, <2>7 DEF RequestInv
  <2>9. SearchInv' /\ EmptyInv' /\ CallInv'
    BY <1>3, <1>4, <2>6, <2>7, <2>8 DEF SearchInv, EmptyInv, CallInv
  <2>10. halted' \in BOOLEAN
    BY <2>7, HeapParts DEF Typed
  <2>11. QED
    BY <2>6, <2>7, <2>9, <2>10, SameHeap
<1>8. QED
  BY <1>5, <1>6, <1>7, OutOfPagesInv

LEMMA CallInvStep ==
  ASSUME RequestsFit, HeapInv, Call
  PROVE  HeapInv'
<1>1. NULL \in Nat
  BY Addresses
<1>2. CASE CallMalloc
  <2>1. PICK n \in ReqSizes : StartMalloc("kmalloc", n, n, NULL)
    BY <1>2 DEF CallMalloc
  <2>2. pc = "idle" /\ n \in Nat /\ n + MajorCost <= UINT
    BY <1>2, RequestsAre DEF CallMalloc, Idle
  <2>3. QED
    BY <1>1, <2>1, <2>2, StartMallocInv
<1>3. CASE CallCalloc
  <2>1. PICK k \in Counts, n \in ReqSizes :
          StartMalloc("kcalloc", RealSize(k, n), k * n, NULL)
    BY <1>3 DEF CallCalloc
  <2>2. /\ pc = "idle" /\ k * n \in Nat /\ k * n + MajorCost <= UINT
        /\ RealSize(k, n) = k * n
    BY <1>3, RequestsAre DEF CallCalloc, Idle
  <2>3. StartMalloc("kcalloc", k * n, k * n, NULL)
    BY <2>1, <2>2
  <2> DEFINE r == k * n
  <2>4. r \in Nat /\ r + MajorCost <= UINT /\ StartMalloc("kcalloc", r, r, NULL)
    BY <2>2, <2>3
  <2> HIDE DEF r
  <2>5. QED
    BY <1>1, <2>2, <2>4, StartMallocInv
<1>4. CASE ReallocByMoving
  <2>1. PICK p \in Callable, n \in ReqSizes \ {0} :
          /\ minors[MinorOf(p)].magic = "MAGIC"
          /\ StartMalloc("krealloc", n, n, p)
    BY <1>4 DEF ReallocByMoving
  <2>2. pc = "idle" /\ n \in Nat /\ n + MajorCost <= UINT
    BY <1>4, RequestsAre DEF ReallocByMoving, Idle
  <2>3. p \in DOMAIN held
    <3>1. MinorOf(p) = HeaderOf(info, p) /\ HeaderOf(info, p) \in DOMAIN minors
      BY CallableIs
    <3>2. HeaderOf(info, p) \in LiveIn(minors)
      BY <2>1, <3>1 DEF LiveIn
    <3>3. lost # NULL => HeaderOf(info, lost) \notin LiveIn(minors)
      BY HeapParts DEF DeadInv
    <3>4. QED
      BY <3>2, <3>3 DEF Callable
  <2>4. p \in Nat
    <3>1. p \in DOMAIN info
      BY CallableIs
    <3>2. QED
      BY <3>1, HeapParts, PointerFacts
  <2>5. QED
    BY <2>1, <2>2, <2>3, <2>4, StartMallocInv
<1>5. QED
  BY <1>2, <1>3, <1>4, CallFreeInv, ReallocInPlaceInv DEF Call

LEMMA StutterInv ==
  ASSUME HeapInv, UNCHANGED vars
  PROVE  HeapInv'
<1>1. UNCHANGED <<l_memRoot, l_bestBet, l_inuse, l_allocated, majors, minors, info, used,
                  held, lost, pc, loc, halted>>
  BY DEF vars, heapVars
<1>2. /\ loc' \in LocRec /\ pc' \in {"idle", "scan", "return"} /\ halted' \in BOOLEAN
  BY <1>1, HeapParts DEF Typed
<1>3. SearchInv' /\ EmptyInv'
  BY <1>1, HeapParts DEF SearchInv, EmptyInv
<1>4. CallInv'
  <2>1. CallInv
    BY HeapParts
  <2>2. (pc # "idle" => RequestInv(loc))'
    BY <1>1, <2>1 DEF CallInv, RequestInv
  <2>3. QED
    BY <1>1, <2>1, <2>2 DEF CallInv
<1>5. QED
  BY <1>1, <1>2, <1>3, <1>4, SameHeap

LEMMA InitInv == Init => HeapInv
<1> SUFFICES ASSUME Init
             PROVE  HeapInv
  OBVIOUS
<1>1. /\ majors = <<>> /\ minors = <<>> /\ info = <<>> /\ held = <<>>
      /\ DOMAIN majors = {} /\ DOMAIN minors = {} /\ DOMAIN info = {} /\ DOMAIN held = {}
  BY DEF Init
<1>2. \A f : f = <<>> => f = [x \in {} |-> f[x]]
  OBVIOUS
<1>3. Typed
  <2>1. MajorsTyped(majors) /\ MinorsTyped(minors)
    BY <1>1, <1>2 DEF MajorsTyped, MinorsTyped
  <2>2. info \in [DOMAIN info -> Nat] /\ held \in [DOMAIN held -> Nat]
    BY <1>1, <1>2
  <2>3. QED
    BY <1>1, <2>1, <2>2, NoCallTyped DEF Init, Typed
<1>4. LiveIn(minors) = {}
  BY <1>1 DEF LiveIn
<1>5. MajorsInv(majors, used)
  BY <1>1 DEF Init, MajorsInv
<1>6. ListInv(majors, l_memRoot)
  <2>1. majors \in [DOMAIN majors -> Nat]
    BY <1>1, <1>2
  <2>2. QED
    BY <1>1, <2>1 DEF Init, ListInv
<1>7. SearchInv /\ EmptyInv /\ MinorsInv(majors, minors)
  BY <1>1, <1>4 DEF Init, SearchInv, EmptyInv, MinorsInv
<1>8. InfoInv(minors, info) /\ DeadInv(minors, info, lost) /\ HeldInv /\ CallInv
  BY <1>1, <1>4 DEF Init, InfoInv, DeadInv, HeldInv, CallInv
<1>9. Accounts(majors, minors, l_inuse, l_allocated)
  <2>1. TotalSize(minors, {}) = 0 /\ TotalSize(majors, {}) = 0
    BY TotalStep, FS_EmptySet
  <2>2. QED
    BY <1>1, <1>4, <2>1 DEF Init, Accounts, Ledger
<1>10. AccountingExact
  BY <1>3, <1>9, AccountsAre DEF Typed
<1>11. QED
  BY <1>3, <1>5, <1>6, <1>7, <1>8, <1>10 DEF HeapInv

LEMMA StepInv ==
  ASSUME RequestsFit, HeapInv, [Next]_vars
  PROVE  HeapInv'
BY CallInvStep, ScanInv, ReturnInv, StutterInv DEF Next, Work, Halted

-----------------------------------------------------------------------------
(* The theorems.  Their hypothesis is that no request leaves the widths     *)
(* that kheap.c computes it in.                                            *)

\* The invariant of the heap: what kmalloc, kcalloc, krealloc and kfree keep,
\* and rely on, at every step of the search over the majors.
THEOREM HeapInvariant ==
  ASSUME RequestsFit
  PROVE  Spec => []HeapInv
<1>1. HeapInv /\ [Next]_vars => HeapInv'
  BY StepInv
<1>2. QED
  BY <1>1, InitInv, PTL DEF Spec

\* No counter becomes negative, and no global, list, header or pointer leaves
\* the pages of the heap.
THEOREM TypeCorrect ==
  ASSUME RequestsFit
  PROVE  Spec => []TypeOK
<1>1. HeapInv => TypeOK
  <2> SUFFICES ASSUME HeapInv PROVE TypeOK
    OBVIOUS
  <2>1. /\ Typed /\ MajorsTyped(majors) /\ MinorsTyped(minors)
        /\ SoundMajors(majors, used) /\ ListInv(majors, l_memRoot) /\ SearchInv
        /\ InfoInv(minors, info) /\ DeadInv(minors, info, lost)
    BY HeapParts
  <2>2. DOMAIN info \subseteq Addr
    BY <2>1 DEF InfoInv, PointerInv
  <2>3. {l_memRoot, l_bestBet, lost} \subseteq Addr \cup {NULL}
    BY <2>1, <2>2 DEF ListInv, SearchInv, DeadInv, MajorsTyped
  <2>4. /\ DOMAIN majors \subseteq Addr /\ \A a \in DOMAIN majors : majors[a] \in MajorRec
        /\ DOMAIN minors \subseteq Addr /\ \A a \in DOMAIN minors : minors[a] \in MinorRec
    BY <2>1 DEF MajorsTyped, MinorsTyped
  <2>5. l_inuse \in Nat
    <3>1. TotalSize(minors, LiveIn(minors)) \in Nat
      BY <2>1, MinorsFinite, TotalType
    <3>2. QED
      BY <3>1, HeapParts
  <2>6. l_allocated \in Nat
    <3>1. IsFiniteSet(DOMAIN majors)
      BY <2>4, Addresses, FS_Subset
    <3>2. Sized(majors, DOMAIN majors)
      BY <2>4 DEF Sized, MajorRec
    <3>3. TotalSize(majors, DOMAIN majors) \in Nat
      BY <3>1, <3>2, TotalType
    <3>4. QED
      BY <3>3, HeapParts
  <2>7. used \subseteq Pages
    BY <2>1 DEF SoundMajors, MajorsInv, MajorInv
  <2>8. \A p \in DOMAIN info : info[p] \in Nat
    BY <2>1 DEF Typed
  <2>9. DOMAIN held \subseteq DOMAIN info /\ pc \in {"idle", "scan", "return"} /\ halted \in BOOLEAN
    BY <2>1 DEF Typed
  <2>10. QED
    BY <2>2, <2>3, <2>4, <2>5, <2>6, <2>7, <2>8, <2>9 DEF TypeOK
<1>2. QED
  BY <1>1, HeapInvariant, PTL

\* The majors form one doubly linked list from l_memRoot, also while kmalloc
\* walks it and after kfree has cut one out, and neither l_bestBet nor the walk
\* points to a major that was given back.
THEOREM MajorListIsSound ==
  ASSUME RequestsFit
  PROVE  Spec => []MajorListSound
<1>1. HeapInv => MajorListSound
  BY HeapParts DEF ListInv, Linked, SearchInv, MajorListSound
<1>2. QED
  BY <1>1, HeapInvariant, PTL

\* vmm.c has handed out the pages of the majors and no others, and a major in
\* which nothing lives is given back by the kfree that empties it.
THEOREM PagesAreTheMajors ==
  ASSUME RequestsFit
  PROVE  Spec => []PagesBelongToMajors
<1>1. HeapInv => PagesBelongToMajors
  <2> SUFFICES ASSUME HeapInv PROVE PagesBelongToMajors
    OBVIOUS
  <2>1. used = UNION {PageRun(x \div PageSize, majors[x].pages) : x \in DOMAIN majors}
    BY HeapParts DEF SoundMajors, MajorsInv, MajorPages
  <2>2. pc = "idle" => \A x \in DOMAIN majors : majors[x].first # NULL
    BY IdleFacts
  <2>3. QED
    BY <2>1, <2>2 DEF PagesBelongToMajors
<1>2. QED
  BY <1>1, HeapInvariant, PTL

\* l_inuse, l_allocated and the usage of every major are what the lists add up
\* to, so kmalloc skips no major that has room.
THEOREM CountersAreExact ==
  ASSUME RequestsFit
  PROVE  Spec => []AccountingExact
<1>1. HeapInv => AccountingExact
  BY DEF HeapInv
<1>2. QED
  BY <1>1, HeapInvariant, PTL

\* A pointer that a caller holds is aligned, and the block behind it has room
\* for the alignment information and for all the bytes asked for.
THEOREM BlocksAreLargeEnough ==
  ASSUME RequestsFit
  PROVE  Spec => []BlocksHoldTheirBytes
<1>1. HeapInv => BlocksHoldTheirBytes
  <2> SUFFICES ASSUME HeapInv, NEW p \in DOMAIN held
               PROVE  /\ p % ALIGNMENT = 0
                      /\ MinorOf(p) \in Live
                      /\ p - ALIGN_INFO >= MinorOf(p) + MinorHdr
                      /\ p + held[p] <= MinorOf(p) + MinorHdr + minors[MinorOf(p)].size
    BY DEF BlocksHoldTheirBytes
  <2> DEFINE h == HeaderOf(info, p)
  <2>1. /\ p \in DOMAIN info /\ h \in LiveIn(minors)
        /\ held[p] = minors[h].req_size
    BY HeapParts DEF Typed, HeldInv
  <2>2. MinorOf(p) = h
    BY <2>1, HeapParts, MinorOfIs
  <2>3. p % ALIGNMENT = 0 /\ p \in Nat /\ h \in Nat
    BY <2>1, HeapParts, PointerFacts
  <2>4. h + MinorHdr <= p - ALIGN_INFO /\ p + minors[h].req_size <= End(minors, h)
    BY <2>1, HeapParts, PointerInBlock
  <2>5. End(minors, h) = h + (MinorHdr + minors[h].size) /\ minors[h].size \in Nat
    BY <2>1, HeapParts, LiveFacts, MinorFacts
  <2>6. LiveIn(minors) = Live
    BY DEF LiveIn, Live
  <2> HIDE DEF h
  <2>7. QED
    BY <2>1, <2>2, <2>3, <2>4, <2>5, <2>6, Sizes
<1>2. QED
  BY <1>1, HeapInvariant, PTL

\* A live block of a major is in the major's list: the list leads upwards to
\* the nearest block each time, and so past none.
LEMMA ListedOnce ==
  ASSUME HeapInv, NEW x \in DOMAIN majors, NEW c \in Own(minors, x)
  PROVE  \E k \in 1 .. Len(MinorList(x)) : MinorList(x)[k] = c
<1> DEFINE list == MinorList(x)
           n == Len(list)
<1> SUFFICES ASSUME \A k \in 1 .. n : list[k] # c
             PROVE  FALSE
  OBVIOUS
<1>1. SoundMinors(majors, minors) /\ FirstInv(majors, minors, x)
  BY HeapParts DEF SoundMinors, MinorsInv
<1>2. majors[x].first # NULL
  BY <1>1 DEF FirstInv
<1>3. /\ Follows(minors, list, majors[x].first) /\ list \in Seq(DOMAIN minors)
      /\ \A k \in 1 .. n : list[k] \in Own(minors, x)
  BY <1>2, MinorListIs
<1> HIDE DEF list
<1>4. n \in Nat /\ n >= 1 /\ list[1] = majors[x].first
  BY <1>3 DEF Follows
<1>5. \A k \in 1 .. n : /\ list[k] \in Nat /\ list[k] \in LiveIn(minors)
                        /\ minors[list[k]].block = x
                        /\ NearestInv(minors, list[k])
  <2> TAKE k \in 1 .. n
  <2>1. list[k] \in LiveIn(minors) /\ minors[list[k]].block = x
    BY <1>1, <1>3, LiveFacts DEF SoundMinors
  <2>2. list[k] \in Nat
    BY <1>1, <2>1, LiveFacts, MinorFacts DEF SoundMinors
  <2>3. NearestInv(minors, list[k])
    BY <1>1, <2>1 DEF SoundMinors, MinorsInv
  <2>4. QED
    BY <2>1, <2>2, <2>3
<1>6. c \in Nat
  BY <1>1, LiveFacts, MinorFacts DEF SoundMinors
<1> DEFINE Bad == {k \in 1 .. n : ~(list[k] < c)}
<1>7. Bad = {}
  <2> SUFFICES ASSUME Bad # {}
               PROVE  FALSE
    OBVIOUS
  <2>1. Bad \subseteq Nat
    BY <1>4
  <2>2. PICK k \in Bad : \A j \in Bad : k <= j
    BY <2>1, LeastNumber
  <2>3. k \in 1 .. n /\ ~(list[k] < c)
    OBVIOUS
  <2>4. c < list[k]
    BY <1>5, <1>6, <2>3
  <2>5. CASE k = 1
    <3>1. minors[list[1]].prev = NULL
      BY <1>1, <1>2, <1>4 DEF FirstInv
    <3>2. QED
      BY <1>5, <2>3, <2>4, <2>5, <3>1 DEF NearestInv
  <2>6. CASE k # 1
    <3>1. k - 1 \in 1 .. n /\ k - 1 \notin Bad /\ k - 1 # n /\ (k - 1) + 1 = k
      BY <1>4, <2>2, <2>3, <2>6
    <3>2. list[k - 1] < c
      BY <3>1
    <3>3. minors[list[k - 1]].next = list[k]
      BY <1>3, <3>1 DEF Follows
    <3>4. list[k] <= c
      BY <1>5, <3>1, <3>2, <3>3 DEF NearestInv
    <3>5. QED
      BY <1>5, <1>6, <2>3, <2>4, <3>4
  <2>7. QED
    BY <2>5, <2>6
<1>8. n \in 1 .. n
  BY <1>4
<1>9. list[n] < c
  BY <1>7, <1>8
<1>10. minors[list[n]].next = NULL
  BY <1>3, <1>8 DEF Follows
<1>11. QED
  BY <1>5, <1>8, <1>9, <1>10 DEF NearestInv

\* Each major's list holds its live blocks, all of them, in the order of their
\* addresses, and no block reaches into the next one or out of the major.
THEOREM MinorListsAreSound ==
  ASSUME RequestsFit
  PROVE  Spec => []MinorListsSound
<1>1. HeapInv => MinorListsSound
  <2> SUFFICES ASSUME HeapInv PROVE MinorListsSound
    OBVIOUS
  <2>1. ASSUME NEW maj \in DOMAIN majors, NEW list, list = MinorList(maj),
               NEW n, n = Len(list)
        PROVE  /\ {list[k] : k \in 1 .. n} = {a \in Live : minors[a].block = maj}
               /\ \A k \in 1 .. n :
                    /\ minors[list[k]].prev = IF k = 1 THEN NULL ELSE list[k - 1]
                    /\ list[k] >= maj + MajorHdr
                    /\ list[k] + MinorHdr + minors[list[k]].size
                         <= IF k = n THEN maj + majors[maj].size ELSE list[k + 1]
    <3>1. /\ list \in Seq(DOMAIN minors) /\ n \in Nat
          /\ \A k \in 1 .. n : list[k] \in Own(minors, maj)
      BY <2>1, MinorListIs
    <3>2. {a \in Live : minors[a].block = maj} = Own(minors, maj)
      BY DEF Live, LiveIn, Own
    <3>3. \A c \in Own(minors, maj) : \E k \in 1 .. n : list[k] = c
      BY <2>1, ListedOnce
    <3>4. {list[k] : k \in 1 .. n} = Own(minors, maj)
      BY <3>1, <3>3
    <3>5. ASSUME NEW k \in 1 .. n
          PROVE  /\ minors[list[k]].prev = IF k = 1 THEN NULL ELSE list[k - 1]
                 /\ list[k] >= maj + MajorHdr
                 /\ list[k] + MinorHdr + minors[list[k]].size
                      <= IF k = n THEN maj + majors[maj].size ELSE list[k + 1]
      <4>1. SoundMinors(majors, minors) /\ FirstInv(majors, minors, maj)
        BY HeapParts DEF SoundMinors, MinorsInv
      <4>2. majors[maj].first # NULL
        BY <3>1, <4>1 DEF FirstInv
      <4>3. Follows(minors, list, majors[maj].first)
        BY <2>1, <4>2, MinorListIs
      <4>4. \A j \in 1 .. n : /\ list[j] \in LiveIn(minors) /\ list[j] \in DOMAIN minors
                              /\ minors[list[j]].block = maj
                              /\ BlockInv(majors, minors, list[j])
                              /\ NextInv(minors, list[j])
                              /\ list[j] \in Nat /\ list[j] # NULL
                              /\ minors[list[j]].size \in Nat
                              /\ End(minors, list[j])
                                   = list[j] + (MinorHdr + minors[list[j]].size)
        <5> TAKE j \in 1 .. n
        <5>1. list[j] \in LiveIn(minors) /\ minors[list[j]].block = maj /\ list[j] \in DOMAIN minors
          BY <3>1, <4>1, LiveFacts DEF SoundMinors
        <5>2. BlockInv(majors, minors, list[j]) /\ NextInv(minors, list[j])
          BY <4>1, <5>1 DEF SoundMinors, MinorsInv
        <5>3. QED
          BY <4>1, <5>1, <5>2, MinorFacts DEF SoundMinors
      <4>5. minors[list[k]].prev = IF k = 1 THEN NULL ELSE list[k - 1]
        <5>1. CASE k = 1
          BY <4>1, <4>2, <4>3, <5>1 DEF FirstInv, Follows
        <5>2. CASE k # 1
          <6>1. k - 1 \in 1 .. n /\ k - 1 # n /\ (k - 1) + 1 = k
            BY <3>1, <5>2
          <6>2. minors[list[k - 1]].next = list[k] /\ list[k] # NULL
            BY <2>1, <4>3, <4>4, <6>1 DEF Follows
          <6>3. minors[list[k]].prev = list[k - 1]
            BY <4>4, <6>1, <6>2 DEF NextInv
          <6>4. QED
            BY <5>2, <6>3
        <5>3. QED
          BY <5>1, <5>2
      <4>6. list[k] >= maj + MajorHdr
        BY <4>4 DEF BlockInv
      <4>7. End(minors, list[k]) <= IF k = n THEN maj + majors[maj].size ELSE list[k + 1]
        <5>1. CASE k = n
          BY <4>4, <5>1 DEF BlockInv
        <5>2. CASE k # n
          <6>1. k + 1 \in 1 .. n
            BY <3>1, <5>2
          <6>2. minors[list[k]].next = list[k + 1] /\ list[k + 1] # NULL
            BY <2>1, <4>3, <4>4, <5>2, <6>1 DEF Follows
          <6>3. QED
            BY <4>4, <5>2, <6>2 DEF NextInv
        <5>3. QED
          BY <5>1, <5>2
      <4>8. list[k] + MinorHdr + minors[list[k]].size = End(minors, list[k])
        BY <4>4, Sizes
      <4>9. QED
        BY <4>5, <4>6, <4>7, <4>8
    <3>6. QED
      BY <3>2, <3>4, <3>5
  <2>2. QED
    BY <2>1 DEF MinorListsSound
<1>2. QED
  BY <1>1, HeapInvariant, PTL

\* The comment "next one will be okay" (kheap.c) is right for requests that
\* fit: a major appended for a request has room for it.
THEOREM AppendedMajorFits ==
  ASSUME RequestsFit
  PROVE  Spec => NextOneIsOkay
<1> DEFINE Okay == \A maj \in DOMAIN majors' \ DOMAIN majors :
                     l_memRoot # NULL =>
                       majors'[maj].size >= MajorHdr + MinorHdr + loc.size
<1>1. HeapInv /\ [Next]_vars => Okay
  <2> SUFFICES ASSUME HeapInv, [Next]_vars, NEW maj \in DOMAIN majors' \ DOMAIN majors,
                      l_memRoot # NULL
               PROVE  majors'[maj].size >= MajorHdr + MinorHdr + loc.size
    OBVIOUS
  <2>1. ~ UNCHANGED vars /\ ~Halted /\ ~OutOfPages
    BY DEF vars, heapVars, Halted, OutOfPages
  <2>2. ~Call
    <3>1. ASSUME NEW op, NEW req, NEW asked, NEW old
          PROVE  ~StartMalloc(op, req, asked, old)
      BY <2>1 DEF StartMalloc, heapVars
    <3>2. ~CallFree
      <4> SUFFICES ASSUME CallFree PROVE FALSE
        OBVIOUS
      <4>1. PICK p : kfree(p)
        BY DEF CallFree
      <4>2. QED
        BY <4>1 DEF kfree, heapVars, ReleaseMajor, KeepMajor, Shrunk
    <3>3. ~ReallocInPlace
      BY DEF ReallocInPlace
    <3>4. QED
      BY <3>1, <3>2, <3>3 DEF Call, CallMalloc, CallCalloc, ReallocByMoving
  <2>3. ~Return
    <3> SUFFICES ASSUME Return PROVE FALSE
      OBVIOUS
    <3>1. UNCHANGED heapVars \/ \E p : kfree(p)
      BY DEF Return, ReturnNew, ReturnMoved
    <3>2. QED
      BY <3>1 DEF kfree, heapVars, ReleaseMajor, KeepMajor, Shrunk
  <2>4. Scan
    BY <2>1, <2>2, <2>3 DEF Next, Work
  <2>5. ~Case2 /\ ~Case3 /\ ~Case4
    BY DEF Case2, Case3, Case4, InsertAt, Place
  <2>6. /\ AppendAndPlace \/ AppendAndGo
        /\ Free < Need \/ Here.first # NULL
    BY <2>1, <2>4, <2>5 DEF Scan, Case1, Case5, NextMajor, StartOver, NoMajorLeft
  <2>7. pc = "scan"
    BY <2>4 DEF Scan
  <2>8. \A x \in DOMAIN majors : majors[x].first # NULL
    BY <2>6, <2>7, NoneEmpty
  <2>9. Here.next = NULL
    BY <2>6 DEF AppendAndPlace, AppendAndGo
  <2>10. PICK s \in FreeRuns(NewMajorPages(loc.size)) :
           \/ Place(Appended(s), s * PageSize, s * PageSize + MajorHdr, NULL, NULL)
           \/ majors' = Appended(s)
    BY <2>6 DEF AppendAndPlace, AppendAndGo
  <2> DEFINE m == Appended(s)
             x == s * PageSize
  <2>11. Grown(m, used \cup PageRun(s, NewMajorPages(loc.size)), l_memRoot, x, loc.size)
    BY <2>7, <2>8, <2>9, AppendedIs
  <2>12. DOMAIN m = DOMAIN majors \cup {x} /\ MajorHdr + (MinorHdr + loc.size) <= m[x].size
    BY <2>11 DEF Grown
  <2>13. \A y \in DOMAIN m : m[y] \in MajorRec
    BY <2>11 DEF Grown, SoundMajors, MajorsTyped
  <2> HIDE DEF m, x
  <2>14. DOMAIN majors' = DOMAIN m /\ \A y \in DOMAIN m : majors'[y].size = m[y].size
    <3>1. CASE majors' = m
      BY <3>1
    <3>2. CASE Place(m, x, x + MajorHdr, NULL, NULL)
      <4>1. \E u, v : majors' = [m EXCEPT ![x].usage = u, ![x].first = v]
        BY <3>2 DEF Place
      <4>2. QED
        BY <2>13, <4>1 DEF MajorRec
    <3>3. QED
      BY <2>10, <3>1, <3>2 DEF m, x
  <2>15. maj = x /\ x \in DOMAIN m
    BY <2>12, <2>14
  <2>16. loc.size \in Nat
    BY HeapParts DEF Typed, LocRec
  <2>17. QED
    BY <2>12, <2>14, <2>15, <2>16, Sizes
<1>2. QED
  BY <1>1, HeapInvariant, PTL DEF Spec, NextOneIsOkay

-----------------------------------------------------------------------------
(* The refinement of HeapBlocks.                                           *)

\* The bytes behind a pointer are in the heap, and no other pointer's.
LEMMA BytesApart ==
  ASSUME HeapInv,
         NEW p \in DOMAIN info, HeaderOf(info, p) \in LiveIn(minors),
         NEW n, n = minors[HeaderOf(info, p)].req_size
  PROVE  /\ p \in Addr /\ HB!Extent(p, n) \subseteq Addr
         /\ \A q \in DOMAIN held :
              q # p => HB!Extent(p, n) \cap HB!Extent(q, held[q]) = {}
<1> DEFINE h == HeaderOf(info, p)
<1>1. /\ SoundMajors(majors, used) /\ SoundMinors(majors, minors) /\ MinorsTyped(minors)
      /\ InfoInv(minors, info) /\ info \in [DOMAIN info -> Nat]
      /\ Typed /\ HeldInv
  BY HeapParts
<1>2. p \in Addr /\ p \in Nat
  BY <1>1, Addresses DEF InfoInv, PointerInv
<1>3. /\ p + n <= End(minors, h) /\ h + MinorHdr <= p - ALIGN_INFO
      /\ h \in Nat /\ n \in Nat /\ End(minors, h) \in Nat
  BY <1>1, PointerInBlock, LiveFacts, MinorFacts
<1>4. HB!Extent(p, n) \subseteq Addr
  <2> DEFINE x == minors[h].block
             e == End(minors, h)
             top == HeapPages * PageSize + PageSize
  <2>1. x \in DOMAIN majors /\ e <= x + majors[x].size
    BY <1>1 DEF SoundMinors, MinorsInv, BlockInv
  <2>2. Within(x, majors[x].size)
    BY <1>1, <2>1, MajorExtent DEF SoundMajors
  <2>3. (HeapPages + 1) * PageSize - 1 = top - 1 /\ top \in Nat
    BY Sizes, Addresses
  <2>4. PageSize <= p
    BY <1>2, Addresses
  <2>5. p + n <= top
    <3> HIDE DEF top, h, e
    <3>1. x + majors[x].size <= top /\ x \in Nat /\ majors[x].size \in Nat
      BY <2>2 DEF Within, top
    <3> HIDE DEF x
    <3>2. e \in Nat /\ p + n <= e
      BY <1>3 DEF e
    <3>3. QED
      BY <1>2, <1>3, <2>1, <2>3, <3>1, <3>2
  <2> HIDE DEF top, h, e, x
  <2>6. QED
    BY <1>2, <1>3, <2>3, <2>4, <2>5, Sizes DEF Addr, HB!Extent
<1>5. ASSUME NEW q \in DOMAIN held, q # p
      PROVE  HB!Extent(p, n) \cap HB!Extent(q, held[q]) = {}
  <2> DEFINE g == HeaderOf(info, q)
             k == held[q]
  <2>1. q \in DOMAIN info /\ g \in LiveIn(minors) /\ k = minors[g].req_size
    BY <1>1 DEF Typed, HeldInv
  <2>2. g # h
    BY <1>1, <1>5, <2>1, PointerFacts
  <2>3. q \in Nat /\ g \in Nat
    BY <1>1, <2>1, PointerFacts
  <2>4. /\ q + k <= End(minors, g) /\ g + MinorHdr <= q - ALIGN_INFO
        /\ k \in Nat /\ End(minors, g) \in Nat
    BY <1>1, <2>1, PointerInBlock, LiveFacts, MinorFacts
  <2>5. End(minors, g) <= h \/ End(minors, h) <= g
    BY <1>1, <2>1, <2>2, BlocksApart
  <2> HIDE DEF g, h, k
  <2>6. \A i \in HB!Extent(p, n) : i \notin HB!Extent(q, k)
    BY <1>2, <1>3, <2>3, <2>4, <2>5, Sizes DEF HB!Extent
  <2>7. QED
    BY <2>6 DEF k
<1>6. QED
  BY <1>2, <1>4, <1>5

\* The pointer that a call returns may join those that are held.
LEMMA NewFits ==
  ASSUME HeapInv, pc = "return", NEW n, n = loc.asked
  PROVE  HB!FitsBeside(loc.p, n, held) /\ loc.p \notin DOMAIN held
<1>1. /\ loc.p \in DOMAIN info \ DOMAIN held
      /\ HeaderOf(info, loc.p) \in LiveIn(minors)
      /\ minors[HeaderOf(info, loc.p)].req_size = n
  BY HeapParts DEF CallInv
<1>2. QED
  BY <1>1, BytesApart DEF HB!FitsBeside

\* Callers see blocks that appear when a call returns, shrink, move and
\* disappear, each at one instant, that lie in the heap and never overlap:
\* not with a block that krealloc still copies from, nor with one that
\* reuses the memory of a freed one whose stale pointer is freed again.
THEOREM HeapBlocksImplemented ==
  ASSUME RequestsFit
  PROVE  Spec => ImplementsHeapBlocks
<1>1. Init => HB!Init
  BY DEF Init, HB!Init
<1>2. HeapInv /\ [Next]_vars => [HB!Next]_held
  <2> SUFFICES ASSUME HeapInv, [Next]_vars, held' # held
               PROVE  HB!Next
    OBVIOUS
  <2>1. held = [q \in DOMAIN held |-> held[q]] /\ \A q \in DOMAIN held : held[q] \in Nat
    BY HeapParts DEF Typed
  <2>2. ~ UNCHANGED vars /\ ~Halted /\ ~Scan
    BY DEF vars, Halted, Scan, Case1, Case2, Case3, Case4, Case5, RememberBest,
           NoMajorLeft, OutOfPages
  <2>3. ASSUME NEW op, NEW req, NEW asked, NEW old
        PROVE  ~StartMalloc(op, req, asked, old)
    BY DEF StartMalloc, OutOfPages
  <2>4. CASE CallFree
    <3>1. PICK p \in Callable : held' = Drop(held, {p})
      BY <2>4 DEF CallFree
    <3>2. p \in DOMAIN held
      <4> SUFFICES ASSUME p \notin DOMAIN held PROVE FALSE
        OBVIOUS
      <4>1. DOMAIN held \ {p} = DOMAIN held
        OBVIOUS
      <4>2. QED
        BY <2>1, <3>1, <4>1 DEF Drop
    <3>3. HB!FreeBlock(p)
      BY <3>1 DEF HB!FreeBlock, HB!Without, Drop
    <3>4. QED
      BY <3>2, <3>3 DEF HB!Next
  <2>5. CASE ReallocInPlace
    <3>1. PICK p \in Callable, n \in ReqSizes \ {0} :
            /\ minors[MinorOf(p)].magic = "MAGIC" /\ minors[MinorOf(p)].req_size >= n
            /\ held' = [held EXCEPT ![p] = n]
      BY <2>5 DEF ReallocInPlace
    <3>2. p \in DOMAIN held
      BY <2>1, <3>1
    <3>3. held[p] = minors[MinorOf(p)].req_size
      BY <3>1, <3>2, CallableIs, HeapParts DEF HeldInv
    <3>4. n \in Nat /\ held[p] \in Nat
      BY <2>1, <3>2, RequestsAre
    <3>5. held'[p] = n /\ DOMAIN held' = DOMAIN held
      BY <3>1, <3>2
    <3>6. HB!Shrink(p)
      BY <3>1, <3>2, <3>3, <3>4, <3>5 DEF HB!Shrink
    <3>7. QED
      BY <3>2, <3>6 DEF HB!Next
  <2>6. CASE ReturnNew
    <3> DEFINE q == loc.p
               n == loc.asked
    <3>1. pc = "return" /\ held' = Put(held, q, n)
      BY <2>6 DEF ReturnNew
    <3>2. HB!FitsBeside(q, n, held) /\ q \notin DOMAIN held
      BY <3>1, NewFits
    <3> HIDE DEF q, n
    <3>3. held'[q] = n /\ q \in DOMAIN held'
      BY <3>1 DEF Put
    <3>4. held' = HB!Added(held, q, n)
      BY <3>1 DEF Put, HB!Added
    <3>5. HB!Alloc(q)
      BY <3>2, <3>3, <3>4 DEF HB!Alloc
    <3>6. QED
      BY <3>2, <3>3, <3>5 DEF HB!Next
  <2>7. CASE ReturnMoved
    <3> DEFINE p == loc.old
               q == loc.p
               n == loc.asked
    <3>1. pc = "return" /\ held' = Put(Drop(held, {p}), q, n) /\ loc.op = "krealloc"
      BY <2>7 DEF ReturnMoved
    <3>2. HB!FitsBeside(q, n, held) /\ q \notin DOMAIN held
      BY <3>1, NewFits
    <3>3. p \in DOMAIN held
      BY <3>1, HeapParts DEF CallInv, RequestInv
    <3> HIDE DEF p, q, n
    <3>4. p # q
      BY <3>2, <3>3
    <3>5. held'[q] = n /\ q \in DOMAIN held'
      BY <3>1 DEF Put
    <3>6. held' = [y \in (DOMAIN held \ {p}) \cup {q} |-> IF y = q THEN n ELSE held[y]]
      BY <3>1 DEF Put, Drop
    <3>7. (DOMAIN held \ {p}) \cup {q} = (DOMAIN held \cup {q}) \ {p}
      BY <3>4
    <3>8. HB!Without(HB!Added(held, q, n), p)
            = [y \in (DOMAIN held \cup {q}) \ {p} |-> IF y = q THEN n ELSE held[y]]
      BY DEF HB!Without, HB!Added
    <3>9. held' = HB!Without(HB!Added(held, q, n), p)
      BY <3>6, <3>7, <3>8
    <3>10. HB!Move(p, q)
      BY <3>2, <3>5, <3>9 DEF HB!Move
    <3>11. QED
      BY <3>2, <3>3, <3>5, <3>10 DEF HB!Next
  <2>8. QED
    BY <2>2, <2>3, <2>4, <2>5, <2>6, <2>7
    DEF Next, Call, CallMalloc, CallCalloc, ReallocByMoving, Work, Return
<1>3. QED
  BY <1>1, <1>2, HeapInvariant, PTL DEF Spec, ImplementsHeapBlocks, HB!Spec
=============================================================================
