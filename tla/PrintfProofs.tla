---------------------------- MODULE PrintfProofs ----------------------------
(***************************************************************************)
(* The theorem about the numerals that kvprintf prints.                    *)
(***************************************************************************)
EXTENDS Printf, Numbers, SequenceTheorems

-----------------------------------------------------------------------------
(* Powers.                                                                 *)

Ten[k \in Nat] == IF k = 0 THEN 1 ELSE 10 * Ten[k - 1]

\* A function defined like Nibble and Ten holds the powers of its base.
LEMMA Powers ==
  ASSUME NEW b \in Nat \ {0}, NEW f,
         f = CHOOSE g : g = [k \in Nat |-> IF k = 0 THEN 1 ELSE b * g[k - 1]]
  PROVE  f[0] = 1 /\ \A k \in Nat : f[k] \in Nat \ {0} /\ f[k + 1] = b * f[k]
<1> DEFINE step == [p \in Nat \X Nat |-> b * p[2]]
           pred == [n \in Nat |-> IF n = 0 THEN 0 ELSE n - 1]
           Body(g) == [k \in Nat |-> IF k = 0 THEN 1 ELSE b * g[k - 1]]
<1>1. PICK g \in [Nat -> Nat] : \A n \in Nat : Recursive(g, n, 1, step, pred)
  <2>1. step \in [Nat \X Nat -> Nat] /\ pred \in [Nat -> Nat]
    OBVIOUS
  <2>2. \A n \in Nat \ {0} : pred[n] < n
    OBVIOUS
  <2> HIDE DEF step, pred
  <2>3. QED
    BY <2>1, <2>2, Recursion
<1>2. \A n \in Nat : g[n] = IF n = 0 THEN 1 ELSE b * g[n - 1]
  <2>1. ASSUME NEW n \in Nat, n # 0
        PROVE  step[<<n, g[pred[n]]>>] = b * g[n - 1]
    <3>1. pred[n] = n - 1 /\ g[n - 1] \in Nat
      BY <2>1
    <3>2. QED
      BY <3>1
  <2> HIDE DEF step, pred
  <2>2. QED
    BY <1>1, <2>1 DEF Recursive
<1>3. g = Body(g)
  BY <1>2
<1>4. f = Body(f)
  <2>1. f = CHOOSE x : x = Body(x)
    OBVIOUS
  <2> HIDE DEF Body
  <2>2. QED
    BY <1>3, <2>1
<1>5. f[0] = 1 /\ \A k \in Nat : f[k + 1] = b * f[k]
  <2>1. \A k \in Nat : f[k] = IF k = 0 THEN 1 ELSE b * f[k - 1]
    BY <1>4
  <2>2. \A k \in Nat : k + 1 \in Nat /\ k + 1 # 0 /\ (k + 1) - 1 = k
    OBVIOUS
  <2>3. QED
    BY <2>1, <2>2
<1> DEFINE S == {k \in Nat : f[k] \in Nat \ {0}}
<1>6. ASSUME NEW k \in Nat, \A m \in Nat : m < k => m \in S
      PROVE  k \in S
  <2>1. CASE k = 0
    BY <1>5, <2>1
  <2>2. CASE k # 0
    <3>1. k - 1 \in Nat /\ k - 1 < k /\ (k - 1) + 1 = k
      BY <2>2
    <3>2. f[k - 1] \in Nat \ {0}
      BY <1>6, <3>1
    <3>3. f[k] = b * f[k - 1]
      BY <1>5, <3>1
    <3>4. \A x \in Nat \ {0} : b * x \in Nat \ {0}
      OBVIOUS
    <3>5. QED
      BY <3>2, <3>3, <3>4
  <2>3. QED
    BY <2>1, <2>2
<1> HIDE DEF S
<1>7. Nat \subseteq S
  BY <1>6, Induction
<1>8. QED
  BY <1>5, <1>7 DEF S

LEMMA Nibbles ==
  Nibble[0] = 1 /\ \A k \in Nat : Nibble[k] \in Nat \ {0} /\ Nibble[k + 1] = 16 * Nibble[k]
<1>1. Nibble = CHOOSE f : f = [k \in Nat |-> IF k = 0 THEN 1 ELSE 16 * f[k - 1]]
  BY DEF Nibble
<1>2. 16 \in Nat \ {0}
  OBVIOUS
<1>3. QED
  BY <1>1, <1>2, Powers

LEMMA Tens ==
  Ten[0] = 1 /\ \A k \in Nat : Ten[k] \in Nat \ {0} /\ Ten[k + 1] = 10 * Ten[k]
<1>1. Ten = CHOOSE f : f = [k \in Nat |-> IF k = 0 THEN 1 ELSE 10 * f[k - 1]]
  BY DEF Ten
<1>2. 10 \in Nat \ {0}
  OBVIOUS
<1>3. QED
  BY <1>1, <1>2, Powers

-----------------------------------------------------------------------------
(* Reading.                                                                *)

Digits == {Digit(d) : d \in 0 .. 15}

LEMMA DigitsRead ==
  /\ \A d \in 0 .. 15 : Digit(d) \in Digits /\ ValueOf(Digit(d)) = d
  /\ \A c \in Digits : ValueOf(c) \in 0 .. 15
  /\ \A d \in 0 .. 15 : Digit(d) = "0" <=> d = 0
<1>1. \A d \in 0 .. 15, e \in 0 .. 15 : Digit(d) = Digit(e) => d = e
  BY DEF Digit, DigitChar
<1>2. \A d \in 0 .. 15 : ValueOf(Digit(d)) = d
  BY <1>1 DEF ValueOf
<1>3. Digit(0) = "0"
  BY DEF Digit, DigitChar
<1>4. QED
  BY <1>1, <1>2, <1>3 DEF Digits

\* f gives for each k what the first k of the digits s mean in base b.
Reads(s, b, f) ==
  /\ f \in [0 .. Len(s) -> Nat]
  /\ f[0] = 0
  /\ \A k \in 1 .. Len(s) : f[k] = b * f[k - 1] + ValueOf(s[k])

LEMMA ValueIs ==
  ASSUME NEW s \in Seq(Digits), NEW b \in Nat, NEW f, Reads(s, b, f)
  PROVE  Value(s, b) = f[Len(s)]
<1> DEFINE n == Len(s)
           Body(g) == [k \in 0 .. n |-> IF k = 0 THEN 0 ELSE b * g[k - 1] + ValueOf(s[k])]
           g == CHOOSE x : x = Body(x)
<1>1. n \in Nat
  OBVIOUS
<1>2. Value(s, b) = g[n]
  BY DEF Value
<1>3. f = Body(f)
  <2>1. \A k \in 0 .. n : f[k] = IF k = 0 THEN 0 ELSE b * f[k - 1] + ValueOf(s[k])
    BY <1>1 DEF Reads
  <2>2. f \in [0 .. n -> Nat]
    BY DEF Reads
  <2>3. QED
    BY <2>1, <2>2
<1>4. g = Body(g)
  <2> HIDE DEF Body
  <2>1. QED
    BY <1>3
<1> HIDE DEF g
<1> DEFINE N == 0 .. n
           S == {k \in N : g[k] = f[k]}
<1>5. ASSUME NEW k \in N, \A m \in N : m < k => m \in S
      PROVE  k \in S
  <2>1. g[k] = IF k = 0 THEN 0 ELSE b * g[k - 1] + ValueOf(s[k])
    BY <1>4
  <2>2. f[k] = IF k = 0 THEN 0 ELSE b * f[k - 1] + ValueOf(s[k])
    BY <1>3
  <2>3. k # 0 => k - 1 \in N /\ k - 1 < k
    BY <1>1
  <2>4. k # 0 => g[k - 1] = f[k - 1]
    BY <1>5, <2>3
  <2>5. QED
    BY <2>1, <2>2, <2>4
<1>6. N \subseteq Nat /\ n \in N
  BY <1>1
<1> HIDE DEF S, N
<1>7. N \subseteq S
  BY <1>5, <1>6, Induction
<1>8. QED
  BY <1>2, <1>6, <1>7 DEF S

-----------------------------------------------------------------------------
(* Hexadecimal numerals.                                                   *)

LEMMA HexReads ==
  ASSUME NEW w \in Nat, NEW v \in Nat, v < Nibble[w]
  PROVE  /\ print_hex(v, w) \in Seq(Digits) /\ Len(print_hex(v, w)) = w
         /\ Value(print_hex(v, w), 16) = v
<1> DEFINE s == print_hex(v, w)
           f == [k \in 0 .. w |-> v \div Nibble[w - k]]
           d(k) == (v \div Nibble[w - k]) % 16
<1>1. \A k \in 0 .. w : w - k \in Nat /\ Nibble[w - k] \in Nat \ {0}
  BY Nibbles
<1>2. \A k \in 0 .. w : v \div Nibble[w - k] \in Nat
  BY <1>1, DivMod
<1>3. \A k \in 1 .. w : d(k) \in 0 .. 15
  <2>1. \A x \in Nat : x % 16 \in 0 .. 15
    OBVIOUS
  <2>2. QED
    BY <1>2, <2>1
<1>4. s = [k \in 1 .. w |-> Digit(d(k))]
  BY DEF print_hex
<1>5. \A k \in 1 .. w : Digit(d(k)) \in Digits /\ ValueOf(Digit(d(k))) = d(k)
  <2> HIDE DEF d
  <2>1. QED
    BY <1>3, DigitsRead
<1>6. s \in Seq(Digits) /\ Len(s) = w /\ \A k \in 1 .. w : ValueOf(s[k]) = d(k)
  <2> HIDE DEF d
  <2>1. s \in [1 .. w -> Digits]
    BY <1>4, <1>5
  <2>2. s \in Seq(Digits) /\ Len(s) = w
    BY <2>1
  <2>3. QED
    BY <1>4, <1>5, <2>2
<1>7. f[0] = 0
  <2>1. \A n \in Nat \ {0} : v < n => v \div n = 0
    <3> SUFFICES ASSUME NEW n \in Nat \ {0}, v < n
                 PROVE  v \div n = 0
      OBVIOUS
    <3>1. v \in 0 .. n - 1 /\ n * 0 + v = v
      OBVIOUS
    <3>2. QED
      BY <3>1, DivUnique
  <2>2. f[0] = v \div Nibble[w]
    OBVIOUS
  <2>3. QED
    BY <2>1, <2>2, Nibbles
<1>8. ASSUME NEW k \in 1 .. w
      PROVE  f[k] = 16 * f[k - 1] + ValueOf(s[k])
  <2> DEFINE n == Nibble[w - k]
             q == v \div n
  <2>1. Nibble[w - (k - 1)] = 16 * n
    <3>1. w - k \in Nat /\ (w - k) + 1 = w - (k - 1)
      OBVIOUS
    <3>2. QED
      BY <3>1, Nibbles
  <2>2. n \in Nat \ {0} /\ q \in Nat
    BY <1>1, <1>2
  <2>3. f[k] = q /\ f[k - 1] = v \div (16 * n) /\ ValueOf(s[k]) = q % 16
    <3>1. k \in 0 .. w /\ k - 1 \in 0 .. w
      OBVIOUS
    <3>2. f[k] = q /\ f[k - 1] = v \div Nibble[w - (k - 1)]
      BY <3>1
    <3>3. QED
      BY <1>6, <2>1, <3>2
  <2> HIDE DEF n, f
  <2>4. v \div (16 * n) = q \div 16
    <3>1. 16 * n = n * 16 /\ 16 \in Nat \ {0}
      BY <2>2
    <3>2. v \div (n * 16) = (v \div n) \div 16
      BY <2>2, <3>1, DivDiv
    <3>3. QED
      BY <3>1, <3>2
  <2> HIDE DEF q
  <2>5. q = 16 * (q \div 16) + (q % 16)
    BY <2>2
  <2>6. QED
    BY <2>3, <2>4, <2>5
<1>9. f[w] = v
  <2>1. f[w] = v \div Nibble[0]
    OBVIOUS
  <2>2. v \div 1 = v
    OBVIOUS
  <2>3. QED
    BY <2>1, <2>2, Nibbles
<1>10. f \in [0 .. w -> Nat]
  BY <1>2
<1> HIDE DEF s, f
<1>11. Reads(s, 16, f)
  BY <1>6, <1>7, <1>8, <1>10 DEF Reads
<1>12. Value(s, 16) = f[w]
  BY <1>6, <1>11, ValueIs
<1>13. QED
  BY <1>6, <1>9, <1>12 DEF s

-----------------------------------------------------------------------------
(* Decimal numerals.                                                       *)

LEMMA BufIs ==
  \A v \in Nat : buf[v] = IF v = 0 THEN <<>> ELSE Append(buf[v \div 10], Digit(v % 10))
<1> DEFINE V == Seq(Digits)
           step == [p \in Nat \X V |-> Append(p[2], Digit(p[1] % 10))]
           pred == [n \in Nat |-> n \div 10]
           Body(g) == [v \in Nat |-> IF v = 0 THEN <<>> ELSE Append(g[v \div 10], Digit(v % 10))]
<1>1. PICK g \in [Nat -> V] : \A n \in Nat : Recursive(g, n, <<>>, step, pred)
  <2>1. step \in [Nat \X V -> V]
    <3>1. ASSUME NEW n \in Nat, NEW s \in V
          PROVE  Append(s, Digit(n % 10)) \in V
      <4>1. Digit(n % 10) \in Digits
        BY DigitsRead
      <4>2. QED
        BY <4>1
    <3> HIDE DEF V
    <3>2. QED
      BY <3>1
  <2>2. pred \in [Nat -> Nat] /\ \A n \in Nat \ {0} : pred[n] < n
    OBVIOUS
  <2>3. <<>> \in V
    OBVIOUS
  <2> HIDE DEF step, pred, V
  <2>4. QED
    BY <2>1, <2>2, <2>3, Recursion
<1>2. ASSUME NEW n \in Nat
      PROVE  g[n] = IF n = 0 THEN <<>> ELSE Append(g[n \div 10], Digit(n % 10))
  <2>1. Recursive(g, n, <<>>, step, pred)
    BY <1>1
  <2>2. pred[n] = n \div 10 /\ n \div 10 \in Nat
    OBVIOUS
  <2>3. g[n \div 10] \in V
    BY <1>1, <2>2
  <2>4. step[<<n, g[n \div 10]>>] = Append(g[n \div 10], Digit(n % 10))
    <3> HIDE DEF V
    <3>1. QED
      BY <2>3
  <2> HIDE DEF step, pred
  <2>5. QED
    BY <2>1, <2>2, <2>4 DEF Recursive
<1>3. g = Body(g)
  BY <1>2
<1>4. buf = Body(buf)
  <2>1. buf = CHOOSE x : x = Body(x)
    BY DEF buf
  <2> HIDE DEF Body
  <2>2. QED
    BY <1>3, <2>1
<1>5. QED
  BY <1>4

\* The characters that the loop of print_uint makes of v.
DigitsOf(s, v) ==
  /\ s \in Seq(Digits)
  /\ \A k \in 1 .. Len(s) : ValueOf(s[k]) < 10
  /\ v # 0 => s # <<>> /\ s[1] # "0"
  /\ \E f : Reads(s, 10, f) /\ f[Len(s)] = v
  /\ \A m \in Nat : v < Ten[m] => Len(s) <= m

LEMMA NoDigits == DigitsOf(<<>>, 0)
<1> DEFINE f == [k \in 0 .. 0 |-> 0]
<1>1. <<>> \in Seq(Digits) /\ Len(<<>>) = 0
  OBVIOUS
<1>2. Reads(<<>>, 10, f) /\ f[Len(<<>>)] = 0
  BY <1>1 DEF Reads
<1>3. QED
  BY <1>1, <1>2 DEF DigitsOf

LEMMA OneDigitMore ==
  ASSUME NEW v \in Nat \ {0}, NEW t, DigitsOf(t, v \div 10), v \div 10 = 0 => t = <<>>
  PROVE  DigitsOf(Append(t, Digit(v % 10)), v)
<1> DEFINE u == v \div 10
           d == v % 10
           c == Digit(d)
           s == Append(t, c)
           n == Len(t)
<1>1. u \in Nat /\ d \in 0 .. 9 /\ d \in 0 .. 15 /\ v = 10 * u + d /\ (u = 0 => d # 0)
  OBVIOUS
<1>2. /\ t \in Seq(Digits) /\ n \in Nat
      /\ \A k \in 1 .. n : ValueOf(t[k]) < 10
      /\ u # 0 => t # <<>> /\ t[1] # "0"
      /\ u = 0 => t = <<>>
      /\ \A m \in Nat : u < Ten[m] => n <= m
  BY DEF DigitsOf
<1>3. PICK e : Reads(t, 10, e) /\ e[n] = u
  BY DEF DigitsOf
<1> HIDE DEF u, d
<1>4. c \in Digits /\ ValueOf(c) = d /\ (c = "0" <=> d = 0)
  BY <1>1, DigitsRead
<1> HIDE DEF c
<1>5. /\ s \in Seq(Digits) /\ s # <<>> /\ Len(s) = n + 1
      /\ \A k \in 1 .. n : s[k] = t[k]
      /\ s[n + 1] = c
  BY <1>2, <1>4, AppendProperties
<1> HIDE DEF s
<1>6. \A k \in 1 .. Len(s) : ValueOf(s[k]) < 10
  <2>1. \A k \in 1 .. n + 1 : k \in 1 .. n \/ k = n + 1
    BY <1>2
  <2>2. QED
    BY <1>1, <1>2, <1>4, <1>5, <2>1
<1>7. s[1] # "0"
  <2>1. CASE u = 0
    BY <1>1, <1>2, <1>4, <1>5, <2>1
  <2>2. CASE u # 0
    <3>1. n # 0
      BY <1>2, <2>2, EmptySeq
    <3>2. 1 \in 1 .. n
      BY <1>2, <3>1
    <3>3. QED
      BY <1>2, <1>5, <2>2, <3>2
  <2>3. QED
    BY <2>1, <2>2
<1>8. \E f : Reads(s, 10, f) /\ f[Len(s)] = v
  <2> DEFINE f == [k \in 0 .. n + 1 |-> IF k = n + 1 THEN v ELSE e[k]]
  <2>1. /\ e \in [0 .. n -> Nat] /\ e[0] = 0
        /\ \A k \in 1 .. n : e[k] = 10 * e[k - 1] + ValueOf(t[k])
    BY <1>3 DEF Reads
  <2>2. f \in [0 .. n + 1 -> Nat] /\ f[0] = 0 /\ f[n + 1] = v /\ f[n] = u
    BY <1>2, <1>3, <2>1
  <2>3. \A k \in 0 .. n : f[k] = e[k]
    BY <1>2
  <2> HIDE DEF f
  <2>4. ASSUME NEW k \in 1 .. n + 1
        PROVE  f[k] = 10 * f[k - 1] + ValueOf(s[k])
    <3>1. CASE k \in 1 .. n
      <4>1. k \in 0 .. n /\ k - 1 \in 0 .. n
        BY <1>2, <3>1
      <4>2. QED
        BY <1>5, <2>1, <2>3, <3>1, <4>1
    <3>2. CASE k = n + 1
      <4>1. k - 1 = n
        BY <1>2, <3>2
      <4>2. QED
        BY <1>1, <1>4, <1>5, <2>2, <3>2, <4>1
    <3>3. QED
      BY <1>2, <3>1, <3>2
  <2>5. Reads(s, 10, f) /\ f[Len(s)] = v
    BY <1>5, <2>2, <2>4 DEF Reads
  <2>6. QED
    BY <2>5
<1>9. ASSUME NEW m \in Nat, v < Ten[m]
      PROVE  Len(s) <= m
  <2>1. m # 0
    BY <1>9, Tens
  <2>2. m - 1 \in Nat /\ (m - 1) + 1 = m
    BY <2>1
  <2>3. Ten[m] = 10 * Ten[m - 1] /\ Ten[m - 1] \in Nat
    BY <2>2, Tens
  <2>4. u < Ten[m - 1]
    BY <1>1, <1>9, <2>3
  <2>5. n <= m - 1
    BY <1>2, <2>2, <2>4
  <2>6. QED
    BY <1>2, <1>5, <2>5
<1>10. DigitsOf(s, v)
  BY <1>5, <1>6, <1>7, <1>8, <1>9 DEF DigitsOf
<1>11. QED
  BY <1>10 DEF s, c, d

LEMMA BufReads == \A v \in Nat : DigitsOf(buf[v], v)
<1> DEFINE S == {v \in Nat : DigitsOf(buf[v], v)}
<1>1. buf[0] = <<>>
  BY BufIs
<1>2. ASSUME NEW v \in Nat, \A u \in Nat : u < v => u \in S
      PROVE  v \in S
  <2>1. CASE v = 0
    BY <1>1, <2>1, NoDigits
  <2>2. CASE v # 0
    <3>1. v \div 10 \in Nat /\ v \div 10 < v
      BY <2>2
    <3>2. DigitsOf(buf[v \div 10], v \div 10)
      BY <1>2, <3>1
    <3>3. DigitsOf(Append(buf[v \div 10], Digit(v % 10)), v)
      BY <1>1, <2>2, <3>2, OneDigitMore
    <3>4. buf[v] = Append(buf[v \div 10], Digit(v % 10))
      BY <2>2, BufIs
    <3>5. QED
      BY <3>3, <3>4
  <2>3. QED
    BY <2>1, <2>2
<1> HIDE DEF S
<1>3. Nat \subseteq S
  BY <1>2, Induction
<1>4. QED
  BY <1>3 DEF S

\* print_uint prints a decimal numeral with the value of its argument and no
\* more digits than a number below a power of ten has.
LEMMA UIntReads ==
  ASSUME NEW v \in Nat, NEW m \in Nat \ {0}, v < Ten[m]
  PROVE  /\ print_uint(v) \in Seq(Digits) /\ IsDecimal(print_uint(v))
         /\ Value(print_uint(v), 10) = v /\ Len(print_uint(v)) <= m
<1>1. CASE v = 0
  <2> DEFINE s == <<"0">>
             f == [k \in 0 .. 1 |-> 0]
  <2>1. "0" \in Digits /\ ValueOf("0") = 0
    BY DigitsRead
  <2>2. s \in Seq(Digits) /\ Len(s) = 1 /\ s[1] = "0" /\ s # <<>>
    BY <2>1
  <2>3. IsDecimal(s)
    <3> HIDE DEF s
    <3>1. QED
      BY <2>1, <2>2 DEF IsDecimal
  <2>4. Reads(s, 10, f) /\ f[1] = 0
    <3>1. f \in [0 .. 1 -> Nat] /\ f[0] = 0 /\ f[1] = 0
      OBVIOUS
    <3> HIDE DEF s, f
    <3>2. \A k \in 1 .. 1 : k = 1 /\ k - 1 = 0
      OBVIOUS
    <3>3. QED
      BY <2>1, <2>2, <3>1, <3>2 DEF Reads
  <2> HIDE DEF s, f
  <2>5. Value(s, 10) = 0
    BY <2>2, <2>4, ValueIs
  <2>6. print_uint(v) = s
    BY <1>1 DEF print_uint, s
  <2>7. Len(s) <= m
    BY <2>2
  <2>8. QED
    BY <1>1, <2>2, <2>3, <2>5, <2>6, <2>7, Zenon
<1>2. CASE v # 0
  <2> DEFINE s == buf[v]
  <2>1. DigitsOf(s, v)
    BY BufReads
  <2> HIDE DEF s
  <2>2. PICK f : Reads(s, 10, f) /\ f[Len(s)] = v
    BY <2>1 DEF DigitsOf
  <2>3. s \in Seq(Digits) /\ IsDecimal(s) /\ Len(s) <= m
    BY <1>2, <2>1 DEF DigitsOf, IsDecimal
  <2>4. Value(s, 10) = v
    BY <2>2, <2>3, ValueIs
  <2>5. print_uint(v) = s
    BY <1>2 DEF print_uint, s
  <2>6. QED
    BY <2>3, <2>4, <2>5
<1>3. QED
  BY <1>1, <1>2

-----------------------------------------------------------------------------
(* Directives.                                                             *)

LEMMA Widths ==
  LET n == Width(INT, LONG)
      w == Width(IntNibbles, LongNibbles)
  IN  /\ LONG \in Nat /\ n \in Nat /\ 2 <= n /\ n <= LONG
      /\ w \in Nat /\ Nibble[w] = n
<1>1. INT \in Nat \ {0} /\ LONG \in Nat \ {0}
  BY PrintfAssumption, Nibbles
<1>2. 2 <= INT
  BY <1>1, PrintfAssumption
<1>3. INT <= LONG
  <2>1. LONG < INT => LONG % INT = LONG
    BY <1>1, SmallMod
  <2>2. QED
    BY <1>1, <2>1, PrintfAssumption
<1>4. QED
  BY <1>1, <1>2, <1>3, PrintfAssumption DEF Width

\* print_int prints any number of the type that has n values, the least one too.
LEMMA IntReads ==
  ASSUME LONG <= Ten[BUF],
         NEW n \in Nat, 2 <= n, n <= LONG, NEW a \in Nat
  PROVE  LET v == Signed(a, n)
             t == print_int(v)
             s == IF v < 0 THEN Tail(t) ELSE t
         IN  /\ t \in Seq(Digits \cup {"-"})
             /\ v < 0 => Head(t) = "-"
             /\ s \in Seq(Digits) /\ IsDecimal(s) /\ Len(s) <= BUF
             /\ Value(s, 10) = IF v < 0 THEN -v ELSE v
<1> DEFINE v == Signed(a, n)
           t == print_int(v)
           D == Digits \cup {"-"}
<1>1. BUF \in Nat \ {0} /\ LONG \in Nat
  <2>1. BUF \in Nat /\ LONG \in Nat
    BY PrintfAssumption, Widths
  <2>2. BUF # 0
    BY <2>1, Tens
  <2>3. QED
    BY <2>1, <2>2
<1>2. v \in Int /\ v < n /\ -v < n
  <2>1. a % n \in 0 .. n - 1
    OBVIOUS
  <2> DEFINE r == a % n
             h == n \div 2
  <2>2. h \in Nat /\ 1 <= h
    OBVIOUS
  <2>3. v = IF r < h THEN r ELSE r - n
    BY DEF Signed
  <2> HIDE DEF v, r, h
  <2>4. QED
    BY <2>1, <2>2, <2>3 DEF r
<1> HIDE DEF v
<1>3. CASE v < 0
  <2> DEFINE s == print_uint(-v)
  <2>1. -v \in Nat /\ -(v + 1) \in 0 .. LONG - 1 /\ -v \in 0 .. LONG - 1
    BY <1>1, <1>2, <1>3
  <2>2. (((-(v + 1)) % LONG) + 1) % LONG = -v
    <3>1. (-(v + 1)) % LONG = -(v + 1)
      BY <1>1, <2>1, SmallMod
    <3>2. -(v + 1) + 1 = -v
      BY <1>2
    <3>3. (-v) % LONG = -v
      BY <1>1, <2>1, SmallMod
    <3>4. QED
      BY <3>1, <3>2, <3>3
  <2>3. t = <<"-">> \o s
    BY <1>3, <2>2 DEF print_int
  <2>4. -v < Ten[BUF]
    BY <1>1, <1>2, <2>1, Tens
  <2>5. s \in Seq(Digits) /\ IsDecimal(s) /\ Len(s) <= BUF /\ Value(s, 10) = -v
    BY <1>1, <2>1, <2>4, UIntReads
  <2> HIDE DEF s
  <2>6. t \in Seq(D) /\ Head(t) = "-" /\ Tail(t) = s
    <3> HIDE DEF t
    <3>1. s \in Seq(D)
      BY <2>5, SeqMonotonic
    <3>2. <<"-">> \in Seq(D) /\ Len(<<"-">>) = 1 /\ <<"-">>[1] = "-"
      OBVIOUS
    <3>3. /\ t \in Seq(D) /\ Len(t) = 1 + Len(s)
          /\ \A k \in 1 .. Len(t) : t[k] = IF k <= 1 THEN "-" ELSE s[k - 1]
      <4> HIDE DEF D
      <4>1. QED
        BY <2>3, <3>1, <3>2, ConcatProperties
    <3> HIDE DEF D
    <3>4. t # <<>> /\ Len(s) \in Nat
      BY <3>1, <3>3
    <3>5. /\ Tail(t) \in Seq(D) /\ Len(Tail(t)) = Len(s)
          /\ \A k \in 1 .. Len(s) : Tail(t)[k] = t[k + 1]
      BY <3>3, <3>4, HeadTailProperties
    <3>6. \A k \in 1 .. Len(s) : Tail(t)[k] = s[k]
      BY <3>3, <3>4, <3>5
    <3>7. Tail(t) = s
      BY <3>1, <3>5, <3>6, SeqEqual
    <3>8. Head(t) = t[1] /\ t[1] = "-"
      BY <3>3, <3>4
    <3>9. QED
      BY <3>3, <3>7, <3>8
  <2> HIDE DEF t, D
  <2>7. QED
    BY <1>3, <2>5, <2>6 DEF v, t, D
<1>4. CASE ~(v < 0)
  <2>1. v \in Nat /\ v < Ten[BUF]
    BY <1>1, <1>2, <1>4, Tens
  <2>2. t = print_uint(v)
    BY <1>4 DEF print_int
  <2>3. t \in Seq(Digits) /\ IsDecimal(t) /\ Len(t) <= BUF /\ Value(t, 10) = v
    BY <1>1, <2>1, <2>2, UIntReads
  <2> HIDE DEF t
  <2>4. t \in Seq(D)
    BY <2>3, SeqMonotonic
  <2> HIDE DEF D
  <2>5. QED
    BY <1>4, <2>3, <2>4 DEF v, t, D
<1>5. QED
  BY <1>3, <1>4

\* What a step appends is what it prints.
LEMMA Appended ==
  ASSUME NEW S, NEW o \in Seq(S), NEW s \in Seq(S)
  PROVE  SubSeq(o \o s, Len(o) + 1, Len(o \o s)) = s
<1> DEFINE p == o \o s
           m == Len(o) + 1
           t == SubSeq(p, m, Len(p))
<1>1. /\ p \in Seq(S) /\ Len(o) \in Nat /\ Len(s) \in Nat
      /\ Len(p) = Len(o) + Len(s)
      /\ \A k \in 1 .. Len(s) : p[Len(o) + k] = s[k]
  <2>1. /\ p \in Seq(S) /\ Len(p) = Len(o) + Len(s)
        /\ \A k \in 1 .. Len(o) + Len(s) :
              p[k] = IF k <= Len(o) THEN o[k] ELSE s[k - Len(o)]
    BY ConcatProperties
  <2>2. Len(o) \in Nat /\ Len(s) \in Nat
    OBVIOUS
  <2> HIDE DEF p
  <2>3. ASSUME NEW k \in 1 .. Len(s)
        PROVE  p[Len(o) + k] = s[k]
    <3>1. Len(o) + k \in 1 .. Len(o) + Len(s) /\ ~(Len(o) + k <= Len(o))
      BY <2>2
    <3>2. (Len(o) + k) - Len(o) = k
      BY <2>2
    <3>3. QED
      BY <2>1, <3>1, <3>2
  <2>4. QED
    BY <2>1, <2>2, <2>3
<1> HIDE DEF p
<1>2. CASE s = <<>>
  <2>1. t = <<>>
    BY <1>1, <1>2, SubSeqEmpty
  <2>2. QED
    BY <1>2, <2>1 DEF p
<1>3. CASE s # <<>>
  <2>1. Len(s) # 0
    BY <1>3, EmptySeq
  <2>2. m \in 1 .. Len(p) /\ Len(p) \in m .. Len(p)
    BY <1>1, <2>1
  <2>3. \A k \in m .. Len(p) : p[k] \in S
    BY <1>1
  <2>4. /\ t \in Seq(S)
        /\ Len(t) = Len(s)
        /\ \A k \in 1 .. Len(s) : t[k] = p[m + k - 1]
    BY <1>1, <2>2, <2>3, SubSeqProperties
  <2>5. \A k \in 1 .. Len(s) : t[k] = s[k]
    BY <1>1, <2>4
  <2> HIDE DEF t
  <2>6. t = s
    BY <2>4, <2>5, SeqEqual
  <2>7. QED
    BY <2>6 DEF t, p
<1>4. QED
  BY <1>2, <1>3

-----------------------------------------------------------------------------
(* The loop.                                                               *)

\* The arguments are words, and the output is a sequence.
PrintfInv ==
  /\ args \in Seq(0 .. LONG - 1)
  /\ \E S : out \in Seq(S)

LEMMA Emitted ==
  ASSUME PrintfInv, NEW T, NEW s \in Seq(T), out' = out \o s,
         args' \in Seq(0 .. LONG - 1)
  PROVE  Printed = s /\ PrintfInv'
<1>1. PICK S : out \in Seq(S)
  BY DEF PrintfInv
<1> DEFINE U == S \cup T
<1>2. out \in Seq(U) /\ s \in Seq(U)
  BY <1>1, SeqMonotonic
<1> HIDE DEF U
<1>3. SubSeq(out \o s, Len(out) + 1, Len(out \o s)) = s
  BY <1>2, Appended
<1>4. out \o s \in Seq(U)
  BY <1>2, ConcatProperties
<1>5. Printed = s
  BY <1>3 DEF Printed
<1>6. \E Q : out' \in Seq(Q)
  BY <1>4
<1>7. QED
  BY <1>5, <1>6 DEF PrintfInv

\* A directive takes its argument from args and prints it.
LEMMA Taken ==
  ASSUME PrintfInv, NEW chars, NEW s, Takes(chars, s)
  PROVE  /\ arg \in 0 .. LONG - 1
         /\ \A T : s \in Seq(T) => Printed = s /\ PrintfInv'
<1>1. args # <<>> /\ args' = Tail(args) /\ out' = out \o s
  BY DEF Takes, Emits
<1>2. args \in Seq(0 .. LONG - 1)
  BY DEF PrintfInv
<1>3. arg \in 0 .. LONG - 1 /\ args' \in Seq(0 .. LONG - 1)
  BY <1>1, <1>2, HeadTailProperties DEF arg
<1>4. QED
  BY <1>1, <1>3, Emitted

\* Which action prints what follows the percent sign.
LEMMA Dispatch ==
  ASSUME Next
  PROVE  /\ Prints({"d"}) => PrintInt
         /\ Prints({"u"}) => PrintUInt
         /\ Prints({"x", "X"}) => PrintHex
         /\ Prints({"p"}) => PrintPointer
<1> DEFINE c == CharAt(Specifier(i))
<1>1. ASSUME i # i', CharAt(i) = "%"
      PROVE  \/ c = "%" \/ c \notin Specifiers
             \/ PrintChar \/ PrintString \/ PrintInt \/ PrintUInt \/ PrintHex \/ PrintPointer
  BY <1>1 DEF Next, kvprintf, PlainChar, Percent, Unrecognized, printfVars
<1>2. /\ PrintChar => c = "c"
      /\ PrintString => c = "s"
      /\ PrintInt => c = "d"
      /\ PrintUInt => c = "u"
      /\ PrintHex => c \in {"x", "X"}
      /\ PrintPointer => c = "p"
  BY DEF PrintChar, PrintString, PrintInt, PrintUInt, PrintHex, PrintPointer, Takes
<1> HIDE DEF c
<1>3. ASSUME NEW chars, Prints(chars)
      PROVE  i # i' /\ CharAt(i) = "%" /\ c \in chars
  BY <1>3 DEF Prints, c
<1>4. Prints({"d"}) => PrintInt
  BY <1>1, <1>2, <1>3 DEF Specifiers
<1>5. Prints({"u"}) => PrintUInt
  BY <1>1, <1>2, <1>3 DEF Specifiers
<1>6. Prints({"x", "X"}) => PrintHex
  BY <1>1, <1>2, <1>3 DEF Specifiers
<1>7. Prints({"p"}) => PrintPointer
  BY <1>1, <1>2, <1>3 DEF Specifiers
<1>8. QED
  BY <1>4, <1>5, <1>6, <1>7

LEMMA PrintIntReads ==
  ASSUME LONG <= Ten[BUF], PrintfInv, PrintInt
  PROVE  PrintfInv' /\ SignedReadsBack
<1> DEFINE n == Width(INT, LONG)
           v == Signed(arg, n)
           t == print_int(v)
<1>1. n \in Nat /\ 2 <= n /\ n <= LONG /\ LONG \in Nat
  BY Widths
<1>2. Takes({"d"}, t)
  BY DEF PrintInt
<1>3. arg \in Nat
  <2> HIDE DEF t
  <2>1. arg \in 0 .. LONG - 1
    BY <1>2, Taken
  <2>2. QED
    BY <1>1, <2>1
<1> DEFINE s == IF v < 0 THEN Tail(t) ELSE t
<1>4. /\ t \in Seq(Digits \cup {"-"})
      /\ v < 0 => Head(t) = "-"
      /\ IsDecimal(s) /\ Len(s) <= BUF
      /\ Value(s, 10) = IF v < 0 THEN -v ELSE v
  <2> HIDE DEF n
  <2>1. QED
    BY <1>1, <1>3, IntReads
<1>5. Printed = t /\ PrintfInv'
  <2> HIDE DEF t
  <2>1. QED
    BY <1>2, <1>4, Taken
<1>6. SignedReadsBack
  <2> HIDE DEF t, v
  <2>1. /\ v < 0 => Head(Printed) = "-"
        /\ LET r == IF v < 0 THEN Tail(Printed) ELSE Printed
           IN  /\ IsDecimal(r) /\ Len(r) <= BUF
               /\ Value(r, 10) = IF v < 0 THEN -v ELSE v
    BY <1>4, <1>5
  <2>2. QED
    BY <2>1 DEF SignedReadsBack, v
<1>7. QED
  BY <1>5, <1>6

LEMMA PrintUIntReads ==
  ASSUME LONG <= Ten[BUF], PrintfInv, PrintUInt
  PROVE  PrintfInv' /\ UnsignedReadsBack
<1> DEFINE n == Width(INT, LONG)
           v == arg % n
           t == print_uint(v)
<1>1. n \in Nat /\ 2 <= n /\ n <= LONG /\ LONG \in Nat
  BY Widths
<1>2. Takes({"u"}, t)
  BY DEF PrintUInt
<1>3. arg \in 0 .. LONG - 1
  <2> HIDE DEF t
  <2>1. QED
    BY <1>2, Taken
<1>4. v \in Nat /\ v < LONG
  <2> HIDE DEF n
  <2>1. QED
    BY <1>1, <1>3
<1>5. BUF \in Nat \ {0} /\ Ten[BUF] \in Nat
  <2>1. BUF \in Nat
    BY PrintfAssumption
  <2>2. BUF # 0 /\ Ten[BUF] \in Nat
    BY <1>1, <2>1, Tens
  <2>3. QED
    BY <2>1, <2>2
<1>6. t \in Seq(Digits) /\ IsDecimal(t) /\ Value(t, 10) = v /\ Len(t) <= BUF
  <2> HIDE DEF v
  <2>1. v < Ten[BUF]
    BY <1>1, <1>4, <1>5
  <2>2. QED
    BY <1>4, <1>5, <2>1, UIntReads
<1> HIDE DEF t
<1>7. Printed = t /\ PrintfInv'
  BY <1>2, <1>6, Taken
<1>8. QED
  BY <1>6, <1>7 DEF UnsignedReadsBack

LEMMA PrintHexReads ==
  ASSUME PrintfInv, PrintHex
  PROVE  PrintfInv' /\ HexReadsBack
<1> DEFINE n == Width(INT, LONG)
           w == Width(IntNibbles, LongNibbles)
           v == arg % n
           t == print_hex(v, w)
<1>1. n \in Nat /\ 2 <= n /\ LONG \in Nat /\ w \in Nat /\ Nibble[w] = n
  BY Widths
<1>2. Takes({"x", "X"}, t)
  BY DEF PrintHex
<1>3. arg \in 0 .. LONG - 1
  <2> HIDE DEF t
  <2>1. QED
    BY <1>2, Taken
<1>4. v \in Nat /\ v < Nibble[w]
  <2> HIDE DEF n, w
  <2>1. QED
    BY <1>1, <1>3
<1>5. t \in Seq(Digits) /\ Len(t) = w /\ Value(t, 16) = v
  <2> HIDE DEF v, w
  <2>1. QED
    BY <1>1, <1>4, HexReads
<1> HIDE DEF t
<1>6. Printed = t /\ PrintfInv'
  BY <1>2, <1>5, Taken
<1>7. QED
  BY <1>1, <1>5, <1>6 DEF HexReadsBack

LEMMA PrintPointerReads ==
  ASSUME PrintfInv, PrintPointer
  PROVE  PrintfInv' /\ PointerReadsBack
<1> DEFINE t == print_hex(arg, LongNibbles)
           x == <<"0", "x">>
           s == x \o t
           D == Digits \cup {"x"}
<1>1. LONG \in Nat /\ LongNibbles \in Nat /\ Nibble[LongNibbles] = LONG
  BY PrintfAssumption, Widths
<1>2. Takes({"p"}, s)
  BY DEF PrintPointer
<1>3. arg \in 0 .. LONG - 1
  <2> HIDE DEF s
  <2>1. QED
    BY <1>2, Taken
<1>4. t \in Seq(Digits) /\ Value(t, 16) = arg
  <2>1. arg \in Nat /\ arg < Nibble[LongNibbles]
    BY <1>1, <1>3
  <2>2. QED
    BY <1>1, <2>1, HexReads
<1> HIDE DEF t
<1>5. x \in Seq(D) /\ t \in Seq(D) /\ Len(x) = 2
  <2>1. "0" \in D /\ "x" \in D
    BY DigitsRead
  <2>2. t \in Seq(D)
    BY <1>4, SeqMonotonic
  <2> HIDE DEF D
  <2>3. QED
    BY <2>1, <2>2
<1> HIDE DEF x, D
<1>6. s \in Seq(D) /\ SubSeq(s, 3, Len(s)) = t
  <2>1. SubSeq(x \o t, Len(x) + 1, Len(x \o t)) = t
    BY <1>5, Appended
  <2>2. Len(x) + 1 = 3
    BY <1>5
  <2>3. s \in Seq(D)
    BY <1>5, ConcatProperties
  <2>4. QED
    BY <2>1, <2>2, <2>3
<1> HIDE DEF s
<1>7. Printed = s /\ PrintfInv'
  BY <1>2, <1>6, Taken
<1>8. QED
  BY <1>4, <1>6, <1>7 DEF PointerReadsBack

LEMMA PrintfInvInit == Init => PrintfInv
<1> SUFFICES ASSUME Init
             PROVE  PrintfInv
  OBVIOUS
<1>1. args \in Seq(0 .. LONG - 1)
  BY PrintfAssumption DEF Init
<1>2. out \in Seq({})
  BY DEF Init
<1>3. QED
  BY <1>1, <1>2 DEF PrintfInv

LEMMA PrintfInvNext ==
  ASSUME LONG <= Ten[BUF], PrintfInv, [Next]_printfVars
  PROVE  PrintfInv'
<1>0. args \in Seq(0 .. LONG - 1)
  BY DEF PrintfInv
<1>1. CASE PlainChar
  <2>1. out' = out \o <<CharAt(i)>> /\ args' = args
    BY <1>1 DEF PlainChar, Emits
  <2>2. <<CharAt(i)>> \in Seq({CharAt(i)})
    OBVIOUS
  <2>3. QED
    BY <1>0, <2>1, <2>2, Emitted
<1>2. CASE Percent
  <2>1. out' = out \o <<"%">> /\ args' = args
    BY <1>2 DEF Percent, Emits
  <2>2. <<"%">> \in Seq({"%"})
    OBVIOUS
  <2>3. QED
    BY <1>0, <2>1, <2>2, Emitted
<1>3. CASE Unrecognized
  <2> DEFINE c == CharAt(Specifier(i))
  <2>1. out' = out \o <<"%", c>> /\ args' = args
    BY <1>3 DEF Unrecognized, Emits
  <2> HIDE DEF c
  <2>2. <<"%", c>> \in Seq({"%", c})
    OBVIOUS
  <2>3. QED
    BY <1>0, <2>1, <2>2, Emitted
<1>4. CASE PrintChar
  <2> DEFINE c == Chars[arg]
  <2>1. Takes({"c"}, <<c>>)
    BY <1>4 DEF PrintChar
  <2> HIDE DEF c
  <2>2. <<c>> \in Seq({c})
    OBVIOUS
  <2>3. QED
    BY <2>1, <2>2, Taken
<1>5. CASE PrintString
  <2> DEFINE s == IF arg = 0 THEN <<"(null)">> ELSE Strings[arg]
  <2>1. Takes({"s"}, s)
    BY <1>5 DEF PrintString
  <2>2. arg \in 0 .. LONG - 1
    <3> HIDE DEF s
    <3>1. QED
      BY <2>1, Taken
  <2>3. \E T : s \in Seq(T)
    <3>1. CASE arg = 0
      <4>1. s \in Seq({"(null)"})
        BY <3>1
      <4>2. QED
        BY <4>1
    <3>2. CASE arg # 0
      <4>1. arg \in 1 .. LONG - 1
        BY <2>2, <3>2, Widths
      <4>2. Strings[arg] \in Seq(STRING)
        BY <4>1, PrintfAssumption
      <4>3. s \in Seq(STRING)
        BY <3>2, <4>2
      <4>4. QED
        BY <4>3
    <3>3. QED
      BY <3>1, <3>2
  <2> HIDE DEF s
  <2>4. QED
    BY <2>1, <2>3, Taken
<1>6. CASE UNCHANGED printfVars
  BY <1>6 DEF PrintfInv, printfVars
<1>7. QED
  BY <1>1, <1>2, <1>3, <1>4, <1>5, <1>6, PrintIntReads, PrintUIntReads,
     PrintHexReads, PrintPointerReads DEF Next, kvprintf

\* Whatever kvprintf is called with: what %d, %u, %x, %X and %p print reads back
\* as the argument, cut to the type of the directive (console.c:84-120 and 160-
\* 199).  The hypothesis is that the decimal digits of the largest long fit
\* print_uint's buffer, that is 2^64 <= 10^32; then those of every argument do.
THEOREM NumeralsCorrect ==
  ASSUME LONG <= Ten[BUF]
  PROVE  Spec => NumeralsReadBack
<1>1. Init => PrintfInv
  BY PrintfInvInit
<1>2. PrintfInv /\ [Next]_printfVars => PrintfInv'
  BY PrintfInvNext
<1>3. ASSUME PrintfInv, [Next]_printfVars
      PROVE  [SignedReadsBack /\ UnsignedReadsBack /\ HexReadsBack /\ PointerReadsBack]_printfVars
  <2>1. CASE Next
    <3>1. SignedReadsBack
      <4>1. CASE Prints({"d"})
        BY <1>3, <2>1, <4>1, Dispatch, PrintIntReads
      <4>2. CASE ~Prints({"d"})
        BY <4>2 DEF SignedReadsBack
      <4>3. QED
        BY <4>1, <4>2
    <3>2. UnsignedReadsBack
      <4>1. CASE Prints({"u"})
        BY <1>3, <2>1, <4>1, Dispatch, PrintUIntReads
      <4>2. CASE ~Prints({"u"})
        BY <4>2 DEF UnsignedReadsBack
      <4>3. QED
        BY <4>1, <4>2
    <3>3. HexReadsBack
      <4>1. CASE Prints({"x", "X"})
        BY <1>3, <2>1, <4>1, Dispatch, PrintHexReads
      <4>2. CASE ~Prints({"x", "X"})
        BY <4>2 DEF HexReadsBack
      <4>3. QED
        BY <4>1, <4>2
    <3>4. PointerReadsBack
      <4>1. CASE Prints({"p"})
        BY <1>3, <2>1, <4>1, Dispatch, PrintPointerReads
      <4>2. CASE ~Prints({"p"})
        BY <4>2 DEF PointerReadsBack
      <4>3. QED
        BY <4>1, <4>2
    <3>5. QED
      BY <3>1, <3>2, <3>3, <3>4
  <2>2. CASE UNCHANGED printfVars
    BY <2>2
  <2>3. QED
    BY <1>3, <2>1, <2>2
<1>4. QED
  BY <1>1, <1>2, <1>3, PTL DEF Spec, NumeralsReadBack

\* Two decimal digits for each nibble are enough.
LEMMA TwoDigitsPerNibble ==
  ASSUME NEW k \in Nat, NEW m \in Nat, 2 * k <= m
  PROVE  Nibble[k] <= Ten[m]
<1> DEFINE S == {n \in Nat : Nibble[n] <= Ten[2 * n]}
           T == {d \in Nat : Ten[2 * k] <= Ten[2 * k + d]}
<1>1. ASSUME NEW n \in Nat, \A j \in Nat : j < n => j \in S
      PROVE  n \in S
  <2>1. CASE n = 0
    BY <2>1, Nibbles, Tens
  <2>2. CASE n # 0
    <3> DEFINE j == n - 1
    <3>1. j \in Nat /\ j < n /\ j + 1 = n /\ 2 * j \in Nat
          /\ (2 * j + 1) \in Nat /\ (2 * j + 1) + 1 = 2 * n
      BY <2>2
    <3> HIDE DEF j
    <3>2. Nibble[n] = 16 * Nibble[j] /\ Nibble[j] \in Nat
      BY <3>1, Nibbles
    <3>3. Ten[2 * n] = 10 * Ten[2 * j + 1] /\ Ten[2 * j + 1] = 10 * Ten[2 * j] /\ Ten[2 * j] \in Nat
      BY <3>1, Tens
    <3>4. Nibble[j] <= Ten[2 * j]
      BY <1>1, <3>1
    <3>5. QED
      BY <3>2, <3>3, <3>4
  <2>3. QED
    BY <2>1, <2>2
<1>2. ASSUME NEW n \in Nat, \A j \in Nat : j < n => j \in T
      PROVE  n \in T
  <2>1. CASE n = 0
    BY <2>1, Tens
  <2>2. CASE n # 0
    <3> DEFINE j == n - 1
               x == 2 * k + j
    <3>1. j \in Nat /\ j < n /\ x \in Nat /\ x + 1 = 2 * k + n
      BY <2>2
    <3>2. Ten[2 * k] <= Ten[x]
      BY <1>2, <3>1
    <3> HIDE DEF j, x
    <3>3. Ten[x + 1] = 10 * Ten[x] /\ Ten[x] \in Nat /\ Ten[2 * k] \in Nat
      BY <3>1, Tens
    <3>4. Ten[2 * k] <= Ten[x + 1]
      BY <3>2, <3>3
    <3>5. QED
      BY <3>1, <3>4
  <2>3. QED
    BY <2>1, <2>2
<1> HIDE DEF S, T
<1>3. Nat \subseteq S /\ Nat \subseteq T
  BY <1>1, <1>2, Induction
<1>4. m - 2 * k \in Nat /\ 2 * k + (m - 2 * k) = m /\ 2 * k \in Nat
  OBVIOUS
<1>5. Nibble[k] <= Ten[2 * k] /\ Ten[2 * k] <= Ten[m]
  BY <1>3, <1>4 DEF S, T
<1>6. Nibble[k] \in Nat /\ Ten[2 * k] \in Nat /\ Ten[m] \in Nat
  BY <1>4, Nibbles, Tens
<1>7. QED
  BY <1>5, <1>6

\* print_uint's buffer has 32 characters for a long of 16 nibbles.
COROLLARY NumeralsCorrectInBuffer ==
  ASSUME 2 * LongNibbles <= BUF
  PROVE  Spec => NumeralsReadBack
<1>1. LONG <= Ten[BUF]
  BY PrintfAssumption, TwoDigitsPerNibble
<1>2. QED
  BY <1>1, NumeralsCorrect

=============================================================================
