------------------------------ MODULE Numbers ------------------------------
(***************************************************************************)
(* Numbers: induction over them, functions defined by recursion over them, *)
(* and division.  A set of numbers has a least one, which stands in for    *)
(* induction.                                                              *)
(***************************************************************************)
EXTENDS Integers, FiniteSetTheorems, WellFoundedInduction, TLAPS

-----------------------------------------------------------------------------
(* Induction over a set of numbers.                                        *)

LEMMA LeastSet ==
  ASSUME NEW S, IsFiniteSet(S), NEW T, T \subseteq SUBSET S, T # {}
  PROVE  \E x \in T : \A y \in T : y \subseteq x => y = x
<1> DEFINE R == StrictSubsetOrdering(S)
<1>1. IsWellFoundedOn(R, SUBSET S)
  BY FS_StrictSubsetOrderingWellFounded, FS_FiniteSubsetsOfFinite
<1> HIDE DEF R
<1>2. PICK x \in T : \A y \in T : <<y, x>> \notin R
  BY <1>1, WFMin
<1>3. QED
  BY <1>2 DEF R, StrictSubsetOrdering

LEMMA LeastNumber ==
  ASSUME NEW S, S \subseteq Nat, S # {}
  PROVE  \E x \in S : \A y \in S : x <= y
<1>1. PICK n \in S : TRUE
  OBVIOUS
<1>2. n \in Nat
  OBVIOUS
<1> DEFINE Below(x) == 0 .. (x - 1)
           T == {Below(x) : x \in {y \in S : y <= n}}
           I == 0 .. n
<1>3. IsFiniteSet(I)
  BY <1>2, FS_Interval
<1>4. T \subseteq SUBSET I /\ T # {}
  <2>1. \A x \in Nat : x <= n => Below(x) \subseteq 0 .. n
    BY <1>2
  <2>2. Below(n) \in T
    BY <1>1, <1>2
  <2> HIDE DEF Below
  <2>3. QED
    BY <1>2, <2>1, <2>2
<1> HIDE DEF T, I
<1>5. PICK b \in T : \A y \in T : y \subseteq b => y = b
  BY <1>3, <1>4, LeastSet
<1>6. PICK x \in S : x <= n /\ b = Below(x)
  BY <1>5 DEF T
<1>7. \A y \in S : x <= y
  <2> SUFFICES ASSUME NEW y \in S, y < x
               PROVE  FALSE
    BY <1>6
  <2>1. x \in Nat /\ y \in Nat /\ y <= n
    BY <1>2, <1>6
  <2>2. Below(y) \in T
    BY <2>1 DEF T
  <2>3. Below(y) \subseteq Below(x) /\ y \notin Below(y) /\ y \in Below(x)
    BY <2>1
  <2>4. QED
    BY <1>5, <1>6, <2>2, <2>3
<1>8. QED
  BY <1>7

\* What a number has when all smaller ones have it, all numbers have.
LEMMA Induction ==
  ASSUME NEW N, N \subseteq Nat, NEW S,
         \A n \in N : (\A m \in N : m < n => m \in S) => n \in S
  PROVE  N \subseteq S
<1> SUFFICES ASSUME N \ S # {}
             PROVE  FALSE
  OBVIOUS
<1>1. PICK n \in N \ S : \A m \in N \ S : n <= m
  <2>1. N \ S \subseteq Nat
    OBVIOUS
  <2>2. QED
    BY <2>1, LeastNumber
<1>2. ASSUME NEW m \in N, m < n
      PROVE  m \in S
  BY <1>1, <1>2
<1>3. QED
  BY <1>1, <1>2

-----------------------------------------------------------------------------
(* Division.                                                               *)

\* Division with remainder, and that it is unique.
LEMMA DivMod ==
  ASSUME NEW a \in Nat, NEW n \in Nat \ {0}
  PROVE  a \div n \in Nat /\ a % n \in 0 .. n - 1 /\ a = n * (a \div n) + (a % n)
OBVIOUS

LEMMA DivUnique ==
  ASSUME NEW n \in Nat \ {0}, NEW q \in Nat, NEW r \in 0 .. n - 1
  PROVE  (n * q + r) \div n = q /\ (n * q + r) % n = r
<1> DEFINE a == n * q + r
           p == a \div n
           s == a % n
<1>1. a \in Nat /\ a = n * q + r
  OBVIOUS
<1> HIDE DEF a
<1>2. p \in Nat /\ s \in 0 .. n - 1 /\ a = n * p + s
  BY <1>1, DivMod
<1> HIDE DEF p, s
<1>3. \A x, y, w \in Nat : x <= y => w * x <= w * y
  OBVIOUS
<1>4. /\ n * (q + 1) = n * q + n /\ n * (p + 1) = n * p + n
      /\ n * q \in Nat /\ n * p \in Nat
  BY <1>2
<1>5. ~(p < q)
  <2>1. p < q => n * (p + 1) <= n * q
    BY <1>2, <1>3
  <2>2. QED
    BY <1>1, <1>2, <1>4, <2>1
<1>6. ~(q < p)
  <2>1. q < p => n * (q + 1) <= n * p
    BY <1>2, <1>3
  <2>2. QED
    BY <1>1, <1>2, <1>4, <2>1
<1>7. p = q
  BY <1>2, <1>5, <1>6
<1>8. s = r
  BY <1>1, <1>2, <1>4, <1>7
<1>9. QED
  BY <1>7, <1>8 DEF a, p, s

LEMMA SmallMod ==
  ASSUME NEW n \in Nat \ {0}, NEW a \in 0 .. n - 1
  PROVE  a % n = a
OBVIOUS

\* Two divisions are one by the product.
LEMMA DivDiv ==
  ASSUME NEW a \in Nat, NEW n \in Nat \ {0}, NEW k \in Nat \ {0}
  PROVE  a \div (n * k) = (a \div n) \div k
<1> DEFINE b == a \div n
           r == a % n
           q == b \div k
           s == b % k
<1>1. b \in Nat /\ r \in 0 .. n - 1 /\ a = n * b + r
  BY DivMod
<1> HIDE DEF b, r
<1>2. q \in Nat /\ s \in 0 .. k - 1 /\ b = k * q + s
  BY <1>1, DivMod
<1> HIDE DEF q, s
<1>3. n * (k * q + s) = (n * k) * q + n * s
  BY <1>2
<1>4. n * s <= n * (k - 1)
  <2>1. \A x, y, w \in Nat : x <= y => w * x <= w * y
    OBVIOUS
  <2>2. QED
    BY <1>2, <2>1
<1>5. n * (k - 1) = n * k - n /\ n * k \in Nat \ {0} /\ n * s \in Nat
  BY <1>2
<1> DEFINE nk == n * k
           ns == n * s
<1>6. nk \in Nat \ {0} /\ ns \in Nat /\ ns <= nk - n /\ a = nk * q + (ns + r)
  BY <1>1, <1>2, <1>3, <1>4, <1>5
<1> HIDE DEF nk, ns
<1>7. ns + r \in 0 .. nk - 1
  BY <1>1, <1>6
<1>8. (nk * q + (ns + r)) \div nk = q
  BY <1>2, <1>6, <1>7, DivUnique
<1>9. a \div nk = q
  BY <1>6, <1>8
<1>10. QED
  BY <1>9 DEF nk, q, b

-----------------------------------------------------------------------------
(* Recursion: the function f with f[0] = a, and f[n] computed by step from *)
(* f[pred[n]], exists.                                                     *)

IsRecursion(V, a, step, pred) ==
  /\ a \in V
  /\ step \in [Nat \X V -> V]
  /\ pred \in [Nat -> Nat]
  /\ \A n \in Nat \ {0} : pred[n] < n

Recursive(f, n, a, step, pred) ==
  f[n] = IF n = 0 THEN a ELSE step[<<n, f[pred[n]]>>]

Approximations(n, V, a, step, pred) ==
  {f \in [0 .. n -> V] : \A k \in 0 .. n : Recursive(f, k, a, step, pred)}

LEMMA Approximated ==
  ASSUME NEW V, NEW a, NEW step, NEW pred, IsRecursion(V, a, step, pred)
  PROVE  \A n \in Nat : Approximations(n, V, a, step, pred) # {}
<1> DEFINE A(n) == Approximations(n, V, a, step, pred)
           S == {n \in Nat : A(n) # {}}
<1>1. ASSUME NEW n \in Nat, \A m \in Nat : m < n => m \in S
      PROVE  n \in S
  <2>1. CASE n = 0
    <3> DEFINE f == [k \in 0 .. 0 |-> a]
    <3>1. f \in A(0)
      BY DEF Approximations, Recursive, IsRecursion
    <3>2. QED
      BY <2>1, <3>1
  <2>2. CASE n # 0
    <3>1. n - 1 \in Nat /\ n - 1 < n
      BY <2>2
    <3>2. n - 1 \in S
      BY <1>1, <3>1
    <3>3. PICK f \in A(n - 1) : TRUE
      BY <3>2
    <3>4. /\ f \in [0 .. n - 1 -> V]
          /\ \A k \in 0 .. n - 1 : Recursive(f, k, a, step, pred)
      BY <3>3 DEF Approximations
    <3> DEFINE v == step[<<n, f[pred[n]]>>]
               g == [k \in 0 .. n |-> IF k = n THEN v ELSE f[k]]
    <3>5. pred[n] \in 0 .. n - 1
      BY <2>2 DEF IsRecursion
    <3>6. v \in V
      BY <3>4, <3>5 DEF IsRecursion
    <3>7. g \in [0 .. n -> V]
      BY <3>4, <3>6
    <3>8. \A k \in 0 .. n - 1 : g[k] = f[k]
      BY <3>4
    <3>9. ASSUME NEW k \in 0 .. n
          PROVE  Recursive(g, k, a, step, pred)
      <4>1. CASE k = n
        <5>1. g[n] = v
          OBVIOUS
        <5>2. g[pred[n]] = f[pred[n]]
          BY <3>5, <3>8
        <5> HIDE DEF g
        <5>3. QED
          BY <2>2, <4>1, <5>1, <5>2 DEF Recursive
      <4>2. CASE k = 0
        <5>1. 0 \in 0 .. n - 1
          BY <3>1
        <5>2. g[0] = f[0] /\ Recursive(f, 0, a, step, pred)
          BY <3>4, <3>8, <5>1
        <5> HIDE DEF g
        <5>3. g[0] = a
          BY <5>2 DEF Recursive
        <5>4. QED
          BY <4>2, <5>3 DEF Recursive
      <4>3. CASE k # n /\ k # 0
        <5>1. k \in 0 .. n - 1 /\ pred[k] \in 0 .. n - 1
          BY <4>3 DEF IsRecursion
        <5>2. g[k] = f[k] /\ g[pred[k]] = f[pred[k]]
          BY <3>8, <5>1
        <5> HIDE DEF g
        <5>3. QED
          BY <3>4, <4>3, <5>1, <5>2 DEF Recursive
      <4>4. QED
        BY <4>1, <4>2, <4>3
    <3> HIDE DEF g
    <3>10. g \in A(n)
      BY <3>7, <3>9 DEF Approximations
    <3>11. QED
      BY <3>10
  <2>3. QED
    BY <2>1, <2>2
<1> HIDE DEF S
<1>2. Nat \subseteq S
  BY <1>1, Induction
<1>3. QED
  BY <1>2 DEF S

\* Two approximations agree where both are defined.
LEMMA ApproximationsAgree ==
  ASSUME NEW V, NEW a, NEW step, NEW pred, IsRecursion(V, a, step, pred),
         NEW m \in Nat, NEW n \in Nat, m <= n,
         NEW f \in Approximations(m, V, a, step, pred),
         NEW g \in Approximations(n, V, a, step, pred)
  PROVE  \A k \in 0 .. m : f[k] = g[k]
<1> DEFINE N == 0 .. m
           S == {k \in N : f[k] = g[k]}
<1>1. ASSUME NEW k \in N, \A j \in N : j < k => j \in S
      PROVE  k \in S
  <2>1. Recursive(f, k, a, step, pred) /\ Recursive(g, k, a, step, pred)
    BY DEF Approximations
  <2>2. k # 0 => pred[k] \in N /\ pred[k] < k
    BY DEF IsRecursion
  <2>3. k # 0 => f[pred[k]] = g[pred[k]]
    BY <1>1, <2>2
  <2>4. QED
    BY <2>1, <2>3 DEF Recursive
<1>2. N \subseteq Nat
  OBVIOUS
<1> HIDE DEF S, N
<1>3. N \subseteq S
  BY <1>1, <1>2, Induction
<1>4. QED
  BY <1>3 DEF S, N

LEMMA Recursion ==
  ASSUME NEW V, NEW a \in V, NEW step \in [Nat \X V -> V],
         NEW pred \in [Nat -> Nat], \A n \in Nat \ {0} : pred[n] < n
  PROVE  \E f \in [Nat -> V] : \A n \in Nat : Recursive(f, n, a, step, pred)
<1> DEFINE A(n) == Approximations(n, V, a, step, pred)
           h(n) == CHOOSE f \in A(n) : TRUE
           F == [n \in Nat |-> h(n)[n]]
<1>0. IsRecursion(V, a, step, pred)
  BY DEF IsRecursion
<1>1. \A n \in Nat : h(n) \in A(n)
  BY <1>0, Approximated
<1> HIDE DEF h
<1>2. \A n \in Nat : F[n] \in V
  <2>1. ASSUME NEW n \in Nat
        PROVE  h(n)[n] \in V
    <3>1. h(n) \in [0 .. n -> V]
      BY <1>1 DEF Approximations
    <3>2. QED
      BY <3>1
  <2>2. QED
    BY <2>1
<1>3. ASSUME NEW n \in Nat, NEW k \in 0 .. n
      PROVE  F[k] = h(n)[k]
  <2>1. k \in Nat /\ k <= n /\ k \in 0 .. k
    OBVIOUS
  <2>2. h(k) \in A(k) /\ h(n) \in A(n)
    BY <1>1, <2>1
  <2>3. \A j \in 0 .. k : h(k)[j] = h(n)[j]
    BY <1>0, <2>1, <2>2, ApproximationsAgree
  <2>4. QED
    BY <2>1, <2>3
<1>4. ASSUME NEW n \in Nat
      PROVE  Recursive(F, n, a, step, pred)
  <2>1. Recursive(h(n), n, a, step, pred)
    BY <1>1 DEF Approximations
  <2>2. n # 0 => pred[n] \in 0 .. n
    OBVIOUS
  <2>3. n # 0 => F[pred[n]] = h(n)[pred[n]]
    BY <1>3, <2>2
  <2>4. F[n] = h(n)[n]
    OBVIOUS
  <2> HIDE DEF F
  <2>5. QED
    BY <2>1, <2>3, <2>4 DEF Recursive
<1>5. F \in [Nat -> V]
  BY <1>2
<1> HIDE DEF F
<1>6. QED
  BY <1>4, <1>5

=============================================================================
