------------------------- MODULE StreamCodersProofs -------------------------
(***************************************************************************)
(* What the entropy coders promise for every stream: what was encoded is   *)
(* decoded, by all of them; no symbol is without a code; a code is only    *)
(* longer than its word in a stream of Fibonacci length.                   *)
(***************************************************************************)
EXTENDS StreamCoders, Foundations, SequenceTheorems

Bit == {0, 1}

-----------------------------------------------------------------------------
(* Numbers and their bits *)

LEMMA Powers == Pow2[0] = 1 /\ \A k \in Nat : Pow2[k] \in Nat \ {0} /\ Pow2[k + 1] = 2 * Pow2[k]
<1> DEFINE Rule(f) == [k \in Nat |-> IF k = 0 THEN 1 ELSE 2 * f[k - 1]]
           c == [k \in Nat |-> 1]
           D == [k \in Nat |-> [v \in Nat |-> 2 * v]]
           below == [k \in Nat |-> k - 1]
<1>1. PICK f \in [Nat -> Nat] : Solves(f, Nat, {0}, c, below, D)
  <2>1. \A k \in Nat \cap {0} : c[k] \in Nat OBVIOUS
  <2>2. \A k \in Nat \ {0} : below[k] \in Nat /\ below[k] < k OBVIOUS
  <2>3. \A k \in Nat \ {0} : \A v \in Nat : D[k][v] \in Nat OBVIOUS
  <2> HIDE DEF c, below, D
  <2> QED BY <2>1, <2>2, <2>3, Recursion
<1>2. f = Rule(f)
  <2>1. ASSUME NEW k \in Nat PROVE f[k] = IF k = 0 THEN 1 ELSE 2 * f[k - 1]
    <3>1. CASE k = 0 BY <1>1, <3>1 DEF Solves
    <3>2. CASE k # 0
      <4>1. f[k] = D[k][f[below[k]]] BY <1>1, <3>2 DEF Solves
      <4>2. k - 1 \in Nat /\ f[k - 1] \in Nat BY <3>2
      <4> QED BY <3>2, <4>1, <4>2
    <3> QED BY <3>1, <3>2
  <2>2. f = [k \in Nat |-> f[k]] OBVIOUS
  <2> QED BY <2>1, <2>2
<1>3. Pow2 = Rule(Pow2)
  <2>1. Pow2 = CHOOSE g : g = Rule(g) BY Zenon DEF Pow2
  <2> HIDE DEF Rule
  <2> QED BY <1>2, <2>1
<1>4. \A k \in Nat : Pow2[k] = IF k = 0 THEN 1 ELSE 2 * Pow2[k - 1] BY <1>3
<1>5. Pow2[0] = 1 BY <1>4
<1>6. \A k \in Nat : Pow2[k + 1] = 2 * Pow2[k]
  <2> SUFFICES ASSUME NEW k \in Nat PROVE Pow2[k + 1] = 2 * Pow2[k] OBVIOUS
  <2>1. k + 1 \in Nat /\ k + 1 # 0 /\ (k + 1) - 1 = k OBVIOUS
  <2> QED BY <1>4, <2>1
<1> DEFINE P == {k \in Nat : Pow2[k] \in Nat \ {0}}
<1>7. 0 \in P BY <1>5
<1>8. \A k \in Nat : k \in P => k + 1 \in P BY <1>6
<1> HIDE DEF P
<1>9. \A k \in Nat : k \in P BY <1>7, <1>8, SimpleInduction
<1> QED BY <1>5, <1>6, <1>9 DEF P

LEMMA PowersGrow == \A j, k \in Nat : j <= k => Pow2[j] <= Pow2[k]
<1> SUFFICES ASSUME NEW j \in Nat PROVE \A k \in Nat : j <= k => Pow2[j] <= Pow2[k] OBVIOUS
<1> DEFINE P == {k \in Nat : j <= k => Pow2[j] <= Pow2[k]}
<1>1. 0 \in P
  <2>1. j <= 0 => j = 0 OBVIOUS
  <2>2. Pow2[0] \in Nat BY Powers
  <2> QED BY <2>1, <2>2
<1>2. ASSUME NEW k \in Nat, k \in P PROVE k + 1 \in P
  <2>1. /\ Pow2[k + 1] = 2 * Pow2[k] /\ Pow2[k] \in Nat /\ Pow2[j] \in Nat
        /\ Pow2[k + 1] \in Nat
    BY Powers
  <2>2. j <= k + 1 => j <= k \/ j = k + 1 OBVIOUS
  <2> QED BY <1>2, <2>1, <2>2
<1> HIDE DEF P
<1>3. \A k \in Nat : k \in P BY <1>1, <1>2, SimpleInduction
<1> QED BY <1>3 DEF P

\* A number has as many bits as it takes.
LEMMA BitLengths ==
  ASSUME NEW n \in Nat
  PROVE  /\ BitLength[n] \in Nat /\ n < Pow2[BitLength[n]]
         /\ n # 0 => BitLength[n] >= 1 /\ Pow2[BitLength[n] - 1] <= n
<1> DEFINE Rule(f) == [k \in Nat |-> IF k = 0 THEN 0 ELSE 1 + f[k \div 2]]
           c == [k \in Nat |-> 0]
           D == [k \in Nat |-> [v \in Nat |-> 1 + v]]
           below == [k \in Nat |-> k \div 2]
<1>1. \A k \in Nat \ {0} : k \div 2 \in Nat /\ k \div 2 < k OBVIOUS
<1>2. PICK f \in [Nat -> Nat] : Solves(f, Nat, {0}, c, below, D)
  <2>1. \A k \in Nat \cap {0} : c[k] \in Nat OBVIOUS
  <2>2. \A k \in Nat \ {0} : below[k] \in Nat /\ below[k] < k BY <1>1
  <2>3. \A k \in Nat \ {0} : \A v \in Nat : D[k][v] \in Nat OBVIOUS
  <2> HIDE DEF c, below, D
  <2> QED BY <2>1, <2>2, <2>3, Recursion
<1>3. f = Rule(f)
  <2>1. ASSUME NEW k \in Nat PROVE f[k] = IF k = 0 THEN 0 ELSE 1 + f[k \div 2]
    <3>1. CASE k = 0 BY <1>2, <3>1 DEF Solves
    <3>2. CASE k # 0
      <4>1. f[k] = D[k][f[below[k]]] BY <1>2, <3>2 DEF Solves
      <4>2. k \div 2 \in Nat /\ f[k \div 2] \in Nat BY <1>1, <3>2
      <4> QED BY <3>2, <4>1, <4>2
    <3> QED BY <3>1, <3>2
  <2>2. f = [k \in Nat |-> f[k]] OBVIOUS
  <2> QED BY <2>1, <2>2
<1>4. BitLength = Rule(BitLength)
  <2>1. BitLength = CHOOSE g : g = Rule(g) BY Zenon DEF BitLength
  <2> HIDE DEF Rule
  <2> QED BY <1>3, <2>1
<1>5. \A k \in Nat : BitLength[k] = IF k = 0 THEN 0 ELSE 1 + BitLength[k \div 2] BY <1>4
<1> DEFINE Right(k, w) == /\ w \in Nat /\ k < Pow2[w]
                          /\ k # 0 => w >= 1 /\ Pow2[w - 1] <= k
           P == {k \in Nat : Right(k, BitLength[k])}
<1>6. ASSUME NEW k \in Nat, \A j \in 0..(k - 1) : j \in P PROVE k \in P
  <2>1. CASE k = 0
    <3>1. BitLength[k] = 0 /\ Pow2[0] = 1 BY <1>5, <2>1, Powers
    <3> QED BY <2>1, <3>1
  <2>2. CASE k # 0
    <3> DEFINE h == k \div 2
               w == BitLength[h]
    <3>1. h \in 0..(k - 1) /\ 2 * h <= k /\ k < 2 * h + 2 /\ h \in Nat BY <1>1, <2>2
    <3>2. BitLength[k] = 1 + w BY <1>5, <2>2
    <3>3. Right(h, w) BY <1>6, <3>1
    <3> HIDE DEF h, w
    <3>4. /\ w \in Nat /\ h < Pow2[w] /\ Pow2[w] \in Nat /\ Pow2[w + 1] = 2 * Pow2[w]
          /\ Pow2[0] = 1
      BY <3>3, Powers
    <3>5. k < Pow2[1 + w] /\ 1 + w = w + 1 BY <3>1, <3>4
    <3>6. Pow2[w] <= k
      <4>1. CASE h = 0
        <5>1. w = 0
          <6>1. BitLength[0] = 0 BY <1>5
          <6> QED BY <4>1, <6>1 DEF w
        <5> QED BY <2>2, <3>4, <5>1
      <4>2. CASE h # 0
        <5>1. w >= 1 /\ Pow2[w - 1] <= h BY <3>3, <4>2
        <5>2. w - 1 \in Nat /\ (w - 1) + 1 = w BY <3>4, <5>1
        <5>3. Pow2[w] = 2 * Pow2[w - 1] /\ Pow2[w - 1] \in Nat BY <5>2, Powers
        <5> QED BY <3>1, <5>1, <5>3
      <4> QED BY <4>1, <4>2
    <3>7. (1 + w) - 1 = w /\ 1 + w >= 1 /\ 1 + w \in Nat BY <3>4
    <3> QED BY <3>2, <3>5, <3>6, <3>7
  <2> QED BY <2>1, <2>2
<1> HIDE DEF P
<1>7. \A k \in Nat : k \in P BY <1>6, BelowInduction
<1> QED BY <1>7 DEF P

\* The sum of one term more, at the end of a list.
LEMMA SumAppend ==
  ASSUME NEW n \in Nat, NEW f \in [1..(n + 1) -> Nat], NEW g \in [1..n -> Nat],
         \A i \in 1..n : g[i] = f[i]
  PROVE  SumFunction(f) = SumFunction(g) + f[n + 1] /\ SumFunction(g) \in Nat
<1>1. /\ DOMAIN f = 1..(n + 1) /\ DOMAIN g = 1..n
      /\ 1..n = (1..(n + 1)) \ {n + 1} /\ n + 1 \in 1..(n + 1)
  OBVIOUS
<1>2. \A a, b \in Int : IsFiniteSet(a..b) BY FS_Interval
<1>3. IsFiniteSet(1..(n + 1)) /\ IsFiniteSet(1..n)
  <2>1. 1 \in Int /\ n \in Int /\ n + 1 \in Int OBVIOUS
  <2> QED BY <1>2, <2>1, Zenon
<1>4. \A x \in DOMAIN f : f[x] \in Nat OBVIOUS
<1>5. \A x \in DOMAIN g : g[x] \in Nat OBVIOUS
<1>6. SumFunction(f) = f[n + 1] + SumFunction(g)
  <2>1. /\ IsFiniteSet(DOMAIN f) /\ n + 1 \in DOMAIN f /\ DOMAIN g = DOMAIN f \ {n + 1}
        /\ \A x \in DOMAIN g : g[x] = f[x]
    BY <1>1, <1>3
  <2> QED BY <1>4, <2>1, SumAdd
<1>7. SumFunction(g) \in Nat BY <1>1, <1>3, <1>5, SumType
<1> QED BY <1>1, <1>4, <1>6, <1>7

\* The sum of the powers at the ones among the k lowest bits is what they stand for.
LEMMA LowBits ==
  ASSUME NEW n \in Nat, NEW k \in Nat
  PROVE  /\ LowFirst(n, k) \in [1..k -> Bit]
         /\ n < Pow2[k] => FromLowFirst(LowFirst(n, k)) = n
<1> DEFINE Term(j) == [b \in 1..j |-> LowFirst(n, j)[b] * Pow2[b - 1]]
           P == {j \in Nat : /\ SumFunction(Term(j)) \in Nat
                             /\ SumFunction(Term(j)) + Pow2[j] * (n \div Pow2[j]) = n}
<1>0. \A j \in Nat : Pow2[j] \in Nat \ {0} /\ Pow2[j + 1] = 2 * Pow2[j] BY Powers
<1>1. ASSUME NEW j \in Nat, NEW b \in 1..j
      PROVE  LowFirst(n, j)[b] = (n \div Pow2[b - 1]) % 2 /\ LowFirst(n, j)[b] \in Bit
  <2>1. b - 1 \in Nat /\ Pow2[b - 1] \in Nat \ {0} BY <1>0
  <2>2. n \div Pow2[b - 1] \in Int BY <2>1, DivBounds
  <2>3. \A x \in Int : x % 2 \in {0, 1} OBVIOUS
  <2> QED BY <2>2, <2>3 DEF LowFirst, Bit
<1>2. \A j \in Nat : LowFirst(n, j) \in [1..j -> Bit] BY <1>1 DEF LowFirst
<1>3. \A j \in Nat : Term(j) \in [1..j -> Nat]
  <2> SUFFICES ASSUME NEW j \in Nat, NEW b \in 1..j PROVE LowFirst(n, j)[b] * Pow2[b - 1] \in Nat
    OBVIOUS
  <2>1. b - 1 \in Nat /\ Pow2[b - 1] \in Nat BY <1>0
  <2>2. LowFirst(n, j)[b] = 0 \/ LowFirst(n, j)[b] = 1 BY <1>1 DEF Bit
  <2> QED BY <2>1, <2>2
<1>4. 0 \in P
  <2>1. DOMAIN Term(0) = {} OBVIOUS
  <2> HIDE DEF Term
  <2>2. SumFunction(Term(0)) = 0 BY <2>1, SumEmpty
  <2>3. Pow2[0] = 1 /\ n \div 1 = n /\ 1 * n = n BY Powers
  <2> QED BY <2>2, <2>3
<1>5. ASSUME NEW j \in Nat, j \in P PROVE j + 1 \in P
  <2> DEFINE p == Pow2[j]
             q == n \div p
             S == SumFunction(Term(j))
             b == q % 2
             h == q \div 2
  <2>1. p \in Nat \ {0} /\ Pow2[j + 1] = 2 * p BY <1>0
  <2>2. q \in Int /\ S \in Nat /\ S + p * q = n
    <3>1. S \in Nat /\ S + p * q = n
      <4> HIDE DEF Term
      <4> QED BY <1>5
    <3>2. q \in Int
      <4> HIDE DEF p
      <4>1. n \in Int OBVIOUS
      <4> QED BY <2>1, <4>1, DivBounds
    <3> QED BY <3>1, <3>2
  <2>3. b \in {0, 1} /\ h \in Int /\ q = 2 * h + b BY <2>2
  <2>4. SumFunction(Term(j + 1)) = S + Term(j + 1)[j + 1]
    <3>1. \A i \in 1..j : Term(j + 1)[i] = Term(j)[i]
      <4> SUFFICES ASSUME NEW i \in 1..j PROVE Term(j + 1)[i] = Term(j)[i] OBVIOUS
      <4>1. i \in 1..(j + 1) /\ j + 1 \in Nat OBVIOUS
      <4>2. LowFirst(n, j + 1)[i] = LowFirst(n, j)[i] BY <1>1, <4>1
      <4> QED BY <4>1, <4>2
    <3>2. Term(j + 1) \in [1..(j + 1) -> Nat] /\ Term(j) \in [1..j -> Nat]
      <4>1. j + 1 \in Nat OBVIOUS
      <4> HIDE DEF Term
      <4> QED BY <1>3, <4>1
    <3> HIDE DEF Term
    <3> QED BY <3>1, <3>2, SumAppend
  <2>5. Term(j + 1)[j + 1] = b * p
    <3>1. j + 1 \in 1..(j + 1) /\ (j + 1) - 1 = j /\ j + 1 \in Nat OBVIOUS
    <3>2. LowFirst(n, j + 1)[j + 1] = b BY <1>1, <3>1
    <3> QED BY <3>1, <3>2
  <2> HIDE DEF S, Term
  <2>6. n \div (2 * p) = h
    <3>1. \E x \in 0..(2 * p - 1) : n = 2 * p * h + x
      <4> DEFINE x == n - p * q
      <4>1. x \in 0..(p - 1)
        <5> HIDE DEF p
        <5>1. q \in Int /\ p * q <= n /\ n < p * q + p
          <6>1. n \in Int OBVIOUS
          <6> QED BY <2>1, <6>1, DivBounds
        <5>2. p * q \in Int BY <2>1, <5>1, Products
        <5> QED BY <2>1, <5>1, <5>2
      <4>2. p * q = 2 * p * h + b * p
        <5> HIDE DEF p, q, b, h
        <5>1. p * (2 * h + b) = 2 * p * h + b * p BY <2>1, <2>3
        <5> QED BY <2>3, <5>1
      <4>3. x + b * p \in 0..(2 * p - 1)
        <5> HIDE DEF x, b
        <5> QED BY <2>1, <2>3, <4>1
      <4>4. n = 2 * p * h + (x + b * p)
        <5>1. 2 * p * h \in Int /\ b * p \in Int
          <6> HIDE DEF p, b, h
          <6>1. 2 * p \in Int /\ p \in Int /\ b \in Int BY <2>1, <2>3
          <6> QED BY <2>3, <6>1, Products
        <5>2. p * q \in Int BY <2>1, <2>2, Products
        <5> QED BY <4>2, <5>1, <5>2
      <4> QED BY <4>3, <4>4
    <3>2. PICK x \in 0..(2 * p - 1) : n = 2 * p * h + x BY <3>1
    <3> HIDE DEF p, h
    <3>3. 2 * p \in Nat \ {0} /\ n \in Int BY <2>1
    <3> QED BY <2>3, <3>2, <3>3, DivisionUnique
  <2> HIDE DEF p, q, b, h
  <2>7. S + b * p + 2 * p * h = n
    <3>1. p * (2 * h + b) = 2 * p * h + b * p BY <2>1, <2>3
    <3>2. S + p * (2 * h + b) = n BY <2>2, <2>3
    <3>3. 2 * p * h \in Int /\ b * p \in Int
      <4>1. 2 * p \in Int /\ p \in Int /\ b \in Int BY <2>1, <2>3
      <4> QED BY <2>3, <4>1, Products
    <3> QED BY <2>2, <3>1, <3>2, <3>3
  <2>8. SumFunction(Term(j + 1)) = S + b * p BY <2>4, <2>5
  <2>9. S + b * p \in Nat BY <2>1, <2>2, <2>3
  <2> QED BY <2>1, <2>6, <2>7, <2>8, <2>9 DEF p
<1> HIDE DEF P
<1>6. \A j \in Nat : j \in P BY <1>4, <1>5, SimpleInduction
<1>7. ASSUME n < Pow2[k] PROVE FromLowFirst(LowFirst(n, k)) = n
  <2>1. SumFunction(Term(k)) \in Nat /\ SumFunction(Term(k)) + Pow2[k] * (n \div Pow2[k]) = n
    BY <1>6 DEF P
  <2>2. Pow2[k] \in Nat \ {0} BY <1>0
  <2>3. n \div Pow2[k] = 0
    <3>1. n = Pow2[k] * 0 + n /\ n \in 0..(Pow2[k] - 1) BY <1>7, <2>2
    <3> QED BY <2>2, <3>1, DivisionUnique
  <2>4. FromLowFirst(LowFirst(n, k)) = SumFunction(Term(k))
    <3>1. DOMAIN LowFirst(n, k) = 1..k BY DEF LowFirst
    <3> QED BY <3>1 DEF FromLowFirst
  <2> HIDE DEF Term
  <2> QED BY <2>1, <2>2, <2>3, <2>4
<1> QED BY <1>2, <1>7

-----------------------------------------------------------------------------
(* Fibonacci numbers *)

LEMMA Fibonacci ==
  /\ \A n \in Nat : Fib[n] \in Nat /\ Fib[n] <= Fib[n + 1]
  /\ Fib[1] = 1 /\ Fib[2] = 1
  /\ \A n \in Nat : Fib[n + 3] = Fib[n + 2] + Fib[n + 1]
<1> DEFINE V == Nat \X Nat
           Rule(f) == [n \in Nat |-> IF n <= 2 THEN 1 ELSE f[n - 1] + f[n - 2]]
           c == [n \in Nat |-> <<1, 1>>]
           D == [n \in Nat |-> [v \in V |-> <<v[2], IF n + 1 <= 2 THEN 1 ELSE v[2] + v[1]>>]]
           below == [n \in Nat |-> n - 1]
<1>1. PICK p \in [Nat -> V] : Solves(p, Nat, {0}, c, below, D)
  <2>1. \A n \in Nat \cap {0} : c[n] \in V OBVIOUS
  <2>2. \A n \in Nat \ {0} : below[n] \in Nat /\ below[n] < n OBVIOUS
  <2>3. \A n \in Nat \ {0} : \A v \in V : D[n][v] \in V OBVIOUS
  <2> HIDE DEF c, below, D, V
  <2> QED BY <2>1, <2>2, <2>3, Recursion
<1>2. p[0] = <<1, 1>> BY <1>1 DEF Solves
<1>3. ASSUME NEW n \in Nat \ {0}
      PROVE  p[n] = <<p[n - 1][2], IF n + 1 <= 2 THEN 1 ELSE p[n - 1][2] + p[n - 1][1]>>
  <2>1. p[n] = D[n][p[below[n]]] BY <1>1 DEF Solves
  <2>2. n - 1 \in Nat /\ p[n - 1] \in V /\ below[n] = n - 1 BY <1>1
  <2> QED BY <2>1, <2>2
<1> DEFINE f == [n \in Nat |-> p[n][1]]
<1>4. f = Rule(f)
  <2>1. ASSUME NEW n \in Nat PROVE f[n] = IF n <= 2 THEN 1 ELSE f[n - 1] + f[n - 2]
    <3>1. CASE n = 0 BY <1>2, <3>1
    <3>2. CASE n # 0
      <4>1. f[n] = p[n - 1][2] /\ n - 1 \in Nat BY <1>3, <3>2
      <4>2. CASE n = 1
        <5>1. n - 1 = 0 BY <4>2
        <5> QED BY <1>2, <4>1, <4>2, <5>1
      <4>3. CASE n # 1
        <5>1. n - 1 \in Nat \ {0} /\ (n - 1) - 1 = n - 2 /\ n - 2 \in Nat BY <3>2, <4>3
        <5>2. p[n - 1][2] = IF n <= 2 THEN 1 ELSE p[n - 2][2] + p[n - 2][1]
          BY <1>3, <5>1
        <5>3. p[n - 1][1] = p[n - 2][2] BY <1>3, <5>1
        <5>4. f[n - 1] = p[n - 2][2] /\ f[n - 2] = p[n - 2][1] BY <5>1, <5>3
        <5> QED BY <4>1, <5>2, <5>4
      <4> QED BY <4>2, <4>3
    <3> QED BY <3>1, <3>2
  <2>2. f = [n \in Nat |-> f[n]] OBVIOUS
  <2> HIDE DEF f
  <2> QED BY <2>1, <2>2
<1> HIDE DEF f
<1>5. Fib = Rule(Fib)
  <2>1. Fib = CHOOSE g : g = Rule(g) BY Zenon DEF Fib
  <2> HIDE DEF Rule
  <2> QED BY <1>4, <2>1
<1>6. \A n \in Nat : Fib[n] = IF n <= 2 THEN 1 ELSE Fib[n - 1] + Fib[n - 2] BY <1>5
<1>7. Fib[0] = 1 /\ Fib[1] = 1 /\ Fib[2] = 1 BY <1>6
<1>8. \A n \in Nat : Fib[n + 3] = Fib[n + 2] + Fib[n + 1]
  <2> SUFFICES ASSUME NEW n \in Nat PROVE Fib[n + 3] = Fib[n + 2] + Fib[n + 1] OBVIOUS
  <2>1. n + 3 \in Nat /\ ~(n + 3 <= 2) /\ (n + 3) - 1 = n + 2 /\ (n + 3) - 2 = n + 1 OBVIOUS
  <2> QED BY <1>6, <2>1
<1> DEFINE P == {n \in Nat : /\ Fib[n] \in Nat /\ Fib[n + 1] \in Nat /\ Fib[n + 2] \in Nat
                             /\ Fib[n] <= Fib[n + 1] /\ Fib[n + 1] <= Fib[n + 2]}
<1>9. 0 \in P
  <2>1. 0 + 1 = 1 /\ 0 + 2 = 2 OBVIOUS
  <2> QED BY <1>7, <2>1
<1>10. ASSUME NEW n \in Nat, n \in P PROVE n + 1 \in P
  <2>1. (n + 1) + 1 = n + 2 /\ (n + 1) + 2 = n + 3 OBVIOUS
  <2>2. Fib[n + 3] = Fib[n + 2] + Fib[n + 1] BY <1>8
  <2>3. /\ Fib[n] \in Nat /\ Fib[n + 1] \in Nat /\ Fib[n + 2] \in Nat
        /\ Fib[n] <= Fib[n + 1] /\ Fib[n + 1] <= Fib[n + 2]
    BY <1>10
  <2>4. Fib[n + 3] \in Nat /\ Fib[n + 2] <= Fib[n + 3] BY <2>2, <2>3
  <2> QED BY <2>1, <2>3, <2>4
<1> HIDE DEF P
<1>11. \A n \in Nat : n \in P BY <1>9, <1>10, SimpleInduction
<1> QED BY <1>7, <1>8, <1>11 DEF P

\* They do not fall.
LEMMA FibGrows == \A j, k \in Nat : j <= k => Fib[j] <= Fib[k]
<1> SUFFICES ASSUME NEW j \in Nat PROVE \A k \in Nat : j <= k => Fib[j] <= Fib[k] OBVIOUS
<1> DEFINE P == {k \in Nat : j <= k => Fib[j] <= Fib[k]}
<1>1. 0 \in P
  <2>1. j <= 0 => j = 0 OBVIOUS
  <2>2. Fib[0] \in Nat BY Fibonacci
  <2> QED BY <2>1, <2>2
<1>2. ASSUME NEW k \in Nat, k \in P PROVE k + 1 \in P
  <2>1. k + 1 \in Nat OBVIOUS
  <2>2. Fib[k] <= Fib[k + 1] /\ Fib[k] \in Nat /\ Fib[j] \in Nat /\ Fib[k + 1] \in Nat
    BY <2>1, Fibonacci
  <2>3. j <= k + 1 => j <= k \/ j = k + 1 OBVIOUS
  <2> QED BY <1>2, <2>2, <2>3
<1> HIDE DEF P
<1>3. \A k \in Nat : k \in P BY <1>1, <1>2, SimpleInduction
<1> QED BY <1>3 DEF P

-----------------------------------------------------------------------------
(* The trees of a Huffman code *)

\* Two codes are told apart by a bit that both have.
Differ(p, q) == \E j \in Nat \ {0} : j <= Len(p) /\ j <= Len(q) /\ p[j] # q[j]

WeightIn(F, S) == SumFunction([v \in S |-> F[v]])

\* A tree of some symbols of F.  However deep a symbol is, the tree weighs as much as the
\* Fibonacci number of that depth.
Tree(t, F) ==
  /\ DOMAIN t.way # {} /\ DOMAIN t.way \subseteq DOMAIN F
  /\ t.freq \in Nat /\ t.freq = WeightIn(F, DOMAIN t.way)
  /\ \A v \in DOMAIN t.way : t.way[v] \in Seq(Bit) /\ Fib[Len(t.way[v]) + 2] <= t.freq
  /\ \A v, w \in DOMAIN t.way : v # w => Differ(t.way[v], t.way[w])

\* The trees share out the symbols of F.  None is lighter than what any other was made of.
Trees(f, F) ==
  /\ \A t \in f : Tree(t, F)
  /\ \A t, u \in f : t # u => DOMAIN t.way \cap DOMAIN u.way = {}
  /\ UNION {DOMAIN t.way : t \in f} = DOMAIN F
  /\ \A t, u \in f : \A v \in DOMAIN t.way : Fib[Len(t.way[v]) + 1] <= u.freq

Frequencies(F) == IsFiniteSet(DOMAIN F) /\ F = [v \in DOMAIN F |-> F[v]]
                  /\ \A v \in DOMAIN F : F[v] \in Nat \ {0}

\* Weights of disjoint sets of symbols add up.
LEMMA WeightLemma ==
  ASSUME NEW F, Frequencies(F), NEW A \in SUBSET (DOMAIN F)
  PROVE  /\ WeightIn(F, A) \in Nat /\ WeightIn(F, A) = Cardinality(Units(F, A))
         /\ IsFiniteSet(Units(F, A))
<1> DEFINE f == [v \in A |-> F[v]]
<1>1. DOMAIN f = A /\ \A x \in DOMAIN f : f[x] \in Nat BY DEF Frequencies
<1>2. IsFiniteSet(DOMAIN f) BY <1>1, FS_Subset DEF Frequencies
<1>3. Units(f, DOMAIN f) = Units(F, A) BY <1>1 DEF Units
<1>4. IsFiniteSet(Units(f, DOMAIN f))
  <2> HIDE DEF f
  <2> QED BY <1>1, <1>2, UnitsFinite
<1>5. SumFunction(f) = Cardinality(Units(f, DOMAIN f)) /\ SumFunction(f) \in Nat
  <2> HIDE DEF f
  <2> QED BY <1>1, <1>2, SumType
<1> QED BY <1>3, <1>4, <1>5 DEF WeightIn

LEMMA WeightsAdd ==
  ASSUME NEW F, Frequencies(F), NEW A \in SUBSET (DOMAIN F), NEW B \in SUBSET (DOMAIN F),
         A \cap B = {}
  PROVE  WeightIn(F, A \cup B) = WeightIn(F, A) + WeightIn(F, B)
<1> DEFINE X == Units(F, A)
           Y == Units(F, B)
<1>1. Units(F, A \cup B) = X \cup Y /\ X \cap Y = {} BY DEF Units
<1>2. A \cup B \in SUBSET (DOMAIN F) OBVIOUS
<1>3. /\ IsFiniteSet(X) /\ IsFiniteSet(Y)
      /\ WeightIn(F, A) = Cardinality(X) /\ WeightIn(F, B) = Cardinality(Y)
      /\ WeightIn(F, A \cup B) = Cardinality(Units(F, A \cup B))
  BY <1>2, WeightLemma
<1> HIDE DEF X, Y
<1>4. Cardinality(X \cup Y) = Cardinality(X) + Cardinality(Y) - Cardinality(X \cap Y)
  BY <1>3, FS_Union
<1>5. Cardinality(X \cap Y) = 0 BY <1>1, FS_EmptySet
<1>6. Cardinality(X) \in Nat /\ Cardinality(Y) \in Nat BY <1>3, FS_CardinalityType
<1>7. Cardinality(X \cup Y) = Cardinality(X) + Cardinality(Y) BY <1>4, <1>5, <1>6
<1> QED BY <1>1, <1>3, <1>7

\* The leaves are such trees.
LEMMA LeavesLemma ==
  ASSUME NEW F, Frequencies(F)
  PROVE  Trees(Leaves(F), F)
<1> DEFINE leaf(v) == [freq |-> F[v], way |-> [x \in {v} |-> <<>>]]
<1>1. Leaves(F) = {leaf(v) : v \in DOMAIN F} BY DEF Leaves
<1>2. ASSUME NEW v \in DOMAIN F
      PROVE  /\ leaf(v).freq = F[v] /\ DOMAIN leaf(v).way = {v} /\ leaf(v).way[v] = <<>>
             /\ F[v] \in Nat /\ F[v] >= 1
  BY DEF Frequencies
<1> HIDE DEF leaf
<1>3. ASSUME NEW v \in DOMAIN F PROVE WeightIn(F, {v}) = F[v]
  <2> DEFINE f == [x \in {v} |-> F[x]]
             g == [x \in {} |-> F[x]]
  <2>1. DOMAIN f = {v} /\ f[v] = F[v] /\ DOMAIN g = {} /\ DOMAIN g = DOMAIN f \ {v} OBVIOUS
  <2>2. IsFiniteSet(DOMAIN f) BY <2>1, FS_Singleton
  <2>3. \A x \in DOMAIN f : f[x] \in Nat BY <1>2
  <2>4. \A x \in DOMAIN g : g[x] = f[x] OBVIOUS
  <2> HIDE DEF f, g
  <2>5. v \in DOMAIN f /\ IsFiniteSet(DOMAIN f) /\ DOMAIN g = DOMAIN f \ {v} BY <2>1, <2>2
  <2>6. SumFunction(f) = f[v] + SumFunction(g) BY <2>3, <2>4, <2>5, SumAdd
  <2>7. SumFunction(g) = 0 BY <2>1, SumEmpty
  <2>8. F[v] + 0 = F[v] BY <1>2
  <2> QED BY <2>1, <2>6, <2>7, <2>8 DEF WeightIn, f
<1>4. <<>> \in Seq(Bit) /\ Len(<<>>) = 0 /\ Fib[0 + 1] = 1 /\ Fib[0 + 2] = 1
  <2>1. 0 + 1 = 1 /\ 0 + 2 = 2 OBVIOUS
  <2> QED BY <2>1, Fibonacci
<1>5. ASSUME NEW v \in DOMAIN F PROVE Tree(leaf(v), F)
  <2>1. {v} # {} /\ {v} \subseteq DOMAIN F /\ F[v] = WeightIn(F, {v}) BY <1>3
  <2>2. Fib[Len(<<>>) + 2] <= F[v] BY <1>2, <1>4
  <2> DEFINE t == leaf(v)
  <2>3. DOMAIN t.way = {v} /\ t.way[v] = <<>> /\ t.freq = F[v] /\ F[v] \in Nat BY <1>2
  <2> HIDE DEF t
  <2>4. \A x \in DOMAIN t.way : t.way[x] \in Seq(Bit) /\ Fib[Len(t.way[x]) + 2] <= t.freq
    BY <1>4, <2>2, <2>3
  <2>5. \A x, w \in DOMAIN t.way : x = w BY <2>3
  <2>6. /\ DOMAIN t.way # {} /\ DOMAIN t.way \subseteq DOMAIN F
        /\ t.freq \in Nat /\ t.freq = WeightIn(F, DOMAIN t.way)
    BY <2>1, <2>3
  <2>7. Tree(t, F) BY <2>4, <2>5, <2>6 DEF Tree
  <2> QED BY <2>7 DEF t
<1>6. ASSUME NEW v \in DOMAIN F, NEW u \in DOMAIN F, leaf(v) # leaf(u)
      PROVE  DOMAIN leaf(v).way \cap DOMAIN leaf(u).way = {}
  <2>1. v # u BY <1>6
  <2> QED BY <1>2, <2>1
<1>7. UNION {DOMAIN t.way : t \in Leaves(F)} = DOMAIN F
  <2>1. ASSUME NEW v \in DOMAIN F PROVE \E t \in Leaves(F) : v \in DOMAIN t.way
    <3>1. leaf(v) \in Leaves(F) /\ v \in DOMAIN leaf(v).way BY <1>1, <1>2
    <3> QED BY <3>1
  <2>2. ASSUME NEW t \in Leaves(F) PROVE DOMAIN t.way \subseteq DOMAIN F
    <3>1. PICK v \in DOMAIN F : t = leaf(v) BY <1>1
    <3> QED BY <1>2, <3>1
  <2> QED BY <2>1, <2>2
<1>8. ASSUME NEW v \in DOMAIN F, NEW u \in DOMAIN F, NEW x \in DOMAIN leaf(v).way
      PROVE  Fib[Len(leaf(v).way[x]) + 1] <= leaf(u).freq
  BY <1>2, <1>4
<1> QED BY <1>1, <1>5, <1>6, <1>7, <1>8 DEF Trees

LEMMA Prepend ==
  ASSUME NEW p \in Seq(Bit), NEW x \in Bit
  PROVE  /\ <<x>> \o p \in Seq(Bit) /\ Len(<<x>> \o p) = Len(p) + 1
         /\ (<<x>> \o p)[1] = x /\ \A j \in 1..Len(p) : (<<x>> \o p)[j + 1] = p[j]
<1>1. <<x>> \in Seq(Bit) /\ Len(<<x>>) = 1 /\ <<x>>[1] = x OBVIOUS
<1>2. /\ <<x>> \o p \in Seq(Bit) /\ Len(<<x>> \o p) = 1 + Len(p)
      /\ \A i \in 1..(1 + Len(p)) : (<<x>> \o p)[i] = IF i <= 1 THEN <<x>>[i] ELSE p[i - 1]
  OBVIOUS
<1>3. Len(p) \in Nat OBVIOUS
<1> DEFINE q == <<x>> \o p
<1> HIDE DEF q
<1>4. q[1] = x
  <2>1. 1 \in 1..(1 + Len(p)) BY <1>3
  <2> QED BY <1>1, <1>2, <2>1 DEF q
<1>5. \A j \in 1..Len(p) : q[j + 1] = p[j]
  <2> SUFFICES ASSUME NEW j \in 1..Len(p) PROVE q[j + 1] = p[j] OBVIOUS
  <2>1. j + 1 \in 1..(1 + Len(p)) /\ ~(j + 1 <= 1) /\ (j + 1) - 1 = j BY <1>3
  <2> QED BY <1>2, <2>1 DEF q
<1> QED BY <1>2, <1>3, <1>4, <1>5 DEF q

\* Two codes that differ still do with the same bit before them.
LEMMA DifferLater ==
  ASSUME NEW p \in Seq(Bit), NEW q \in Seq(Bit), Differ(p, q), NEW x \in Bit
  PROVE  Differ(<<x>> \o p, <<x>> \o q)
<1>1. PICK j \in Nat \ {0} : j <= Len(p) /\ j <= Len(q) /\ p[j] # q[j] BY DEF Differ
<1>2. Len(p) \in Nat /\ Len(q) \in Nat OBVIOUS
<1>3. j \in 1..Len(p) /\ j \in 1..Len(q) BY <1>1, <1>2
<1> DEFINE P == <<x>> \o p
           Q == <<x>> \o q
<1>4. P[j + 1] = p[j] /\ Q[j + 1] = q[j] /\ Len(P) = Len(p) + 1 /\ Len(Q) = Len(q) + 1
  BY <1>3, Prepend
<1> HIDE DEF P, Q
<1>5. j + 1 \in Nat \ {0} /\ j + 1 <= Len(P) /\ j + 1 <= Len(Q) BY <1>1, <1>2, <1>4
<1>6. Differ(P, Q) BY <1>1, <1>4, <1>5 DEF Differ
<1> QED BY <1>6 DEF P, Q

\* A new node over two trees neither of which is lighter than what the other was made of.
LEMMA JoinLemma ==
  ASSUME NEW F, Frequencies(F), NEW a, NEW b, Tree(a, F), Tree(b, F),
         DOMAIN a.way \cap DOMAIN b.way = {},
         \A v \in DOMAIN a.way : Fib[Len(a.way[v]) + 1] <= b.freq,
         \A v \in DOMAIN b.way : Fib[Len(b.way[v]) + 1] <= a.freq
  PROVE  /\ Tree(Join(a, b), F)
         /\ DOMAIN Join(a, b).way = DOMAIN a.way \cup DOMAIN b.way
         /\ Join(a, b).freq = a.freq + b.freq
         /\ \A v \in DOMAIN a.way : Len(Join(a, b).way[v]) = Len(a.way[v]) + 1
         /\ \A v \in DOMAIN b.way : Len(Join(a, b).way[v]) = Len(b.way[v]) + 1
<1> DEFINE A == DOMAIN a.way
           B == DOMAIN b.way
           t == Join(a, b)
<1>1. /\ DOMAIN t.way = A \cup B /\ t.freq = a.freq + b.freq
      /\ \A v \in A : t.way[v] = <<0>> \o a.way[v]
      /\ \A v \in B : t.way[v] = <<1>> \o b.way[v]
  BY DEF Join, Ways
<1>2. /\ A # {} /\ A \subseteq DOMAIN F /\ a.freq \in Nat /\ a.freq = WeightIn(F, A)
      /\ B # {} /\ B \subseteq DOMAIN F /\ b.freq \in Nat /\ b.freq = WeightIn(F, B)
      /\ \A v \in A : a.way[v] \in Seq(Bit) /\ Fib[Len(a.way[v]) + 2] <= a.freq
      /\ \A v \in B : b.way[v] \in Seq(Bit) /\ Fib[Len(b.way[v]) + 2] <= b.freq
      /\ \A v, w \in A : v # w => Differ(a.way[v], a.way[w])
      /\ \A v, w \in B : v # w => Differ(b.way[v], b.way[w])
  BY DEF Tree
<1>3. /\ \A v \in A : Fib[Len(a.way[v]) + 1] <= b.freq
      /\ \A v \in B : Fib[Len(b.way[v]) + 1] <= a.freq
      /\ A \cap B = {}
  OBVIOUS
<1>4. 0 \in Bit /\ 1 \in Bit BY DEF Bit
<1> HIDE DEF A, B, t
<1>5. t.freq \in Nat /\ t.freq = WeightIn(F, A \cup B)
  <2>1. A \in SUBSET (DOMAIN F) /\ B \in SUBSET (DOMAIN F) /\ A \cap B = {} BY <1>2, <1>3
  <2>2. WeightIn(F, A \cup B) = WeightIn(F, A) + WeightIn(F, B) BY <2>1, WeightsAdd
  <2> QED BY <1>1, <1>2, <2>2
<1>6. ASSUME NEW c, NEW x \in Bit, NEW n \in Nat, NEW m \in Nat, c \in Seq(Bit),
             Fib[Len(c) + 2] <= n, Fib[Len(c) + 1] <= m
      PROVE  /\ <<x>> \o c \in Seq(Bit) /\ Len(<<x>> \o c) = Len(c) + 1
             /\ Fib[Len(<<x>> \o c) + 2] <= n + m
  <2>1. <<x>> \o c \in Seq(Bit) /\ Len(<<x>> \o c) = Len(c) + 1 BY <1>6, Prepend
  <2>2. Len(c) \in Nat BY <1>6
  <2> DEFINE d == Len(c)
  <2> HIDE DEF d
  <2>3. d + 3 \in Nat /\ d + 2 \in Nat /\ d + 1 \in Nat /\ d + 1 + 2 = d + 3 /\ d \in Nat
    BY <2>2 DEF d
  <2>4. Fib[d + 3] = Fib[d + 2] + Fib[d + 1] /\ Fib[d + 2] \in Nat /\ Fib[d + 1] \in Nat
    BY <2>3, Fibonacci
  <2>5. Fib[d + 3] <= n + m BY <1>6, <2>4 DEF d
  <2> QED BY <2>1, <2>3, <2>5 DEF d
<1>7. ASSUME NEW v \in A
      PROVE  t.way[v] \in Seq(Bit) /\ Len(t.way[v]) = Len(a.way[v]) + 1 /\ Fib[Len(t.way[v]) + 2] <= t.freq
  <2> DEFINE c == a.way[v]
             n == a.freq
             m == b.freq
  <2>1. c \in Seq(Bit) /\ Fib[Len(c) + 2] <= n /\ Fib[Len(c) + 1] <= m /\ n \in Nat /\ m \in Nat
    BY <1>2, <1>3
  <2>2. t.way[v] = <<0>> \o c /\ t.freq = n + m BY <1>1
  <2> HIDE DEF c, n, m
  <2>3. /\ <<0>> \o c \in Seq(Bit) /\ Len(<<0>> \o c) = Len(c) + 1
        /\ Fib[Len(<<0>> \o c) + 2] <= n + m
    BY <1>4, <1>6, <2>1
  <2> QED BY <2>2, <2>3 DEF c
<1>8. ASSUME NEW v \in B
      PROVE  t.way[v] \in Seq(Bit) /\ Len(t.way[v]) = Len(b.way[v]) + 1 /\ Fib[Len(t.way[v]) + 2] <= t.freq
  <2> DEFINE c == b.way[v]
             n == b.freq
             m == a.freq
  <2>1. c \in Seq(Bit) /\ Fib[Len(c) + 2] <= n /\ Fib[Len(c) + 1] <= m /\ n \in Nat /\ m \in Nat
    BY <1>2, <1>3
  <2>2. t.way[v] = <<1>> \o c /\ t.freq = n + m BY <1>1, <2>1
  <2> HIDE DEF c, n, m
  <2>3. /\ <<1>> \o c \in Seq(Bit) /\ Len(<<1>> \o c) = Len(c) + 1
        /\ Fib[Len(<<1>> \o c) + 2] <= n + m
    BY <1>4, <1>6, <2>1
  <2> QED BY <2>2, <2>3 DEF c
<1>9. ASSUME NEW v \in A, NEW w \in B
      PROVE  Differ(t.way[v], t.way[w]) /\ Differ(t.way[w], t.way[v])
  <2>1. t.way[v][1] = 0 /\ t.way[w][1] = 1
    <3>1. a.way[v] \in Seq(Bit) /\ b.way[w] \in Seq(Bit) BY <1>2
    <3> QED BY <1>1, <1>4, <3>1, Prepend
  <2>2. Len(t.way[v]) >= 1 /\ Len(t.way[w]) >= 1
    <3>1. a.way[v] \in Seq(Bit) /\ b.way[w] \in Seq(Bit) BY <1>2
    <3>2. Len(a.way[v]) \in Nat /\ Len(b.way[w]) \in Nat BY <3>1
    <3> QED BY <1>7, <1>8, <3>2
  <2>3. 1 \in Nat \ {0} /\ 0 # 1 OBVIOUS
  <2> QED BY <2>1, <2>2, <2>3 DEF Differ
<1>10. ASSUME NEW v \in A \cup B, NEW w \in A \cup B, v # w PROVE Differ(t.way[v], t.way[w])
  <2>1. CASE v \in A /\ w \in A
    <3>1. a.way[v] \in Seq(Bit) /\ a.way[w] \in Seq(Bit) /\ Differ(a.way[v], a.way[w])
      BY <1>2, <1>10, <2>1
    <3>2. Differ(<<0>> \o a.way[v], <<0>> \o a.way[w]) BY <1>4, <3>1, DifferLater
    <3> QED BY <1>1, <2>1, <3>2
  <2>2. CASE v \in B /\ w \in B
    <3>1. b.way[v] \in Seq(Bit) /\ b.way[w] \in Seq(Bit) /\ Differ(b.way[v], b.way[w])
      BY <1>2, <1>10, <2>2
    <3>2. Differ(<<1>> \o b.way[v], <<1>> \o b.way[w]) BY <1>4, <3>1, DifferLater
    <3> QED BY <1>1, <2>2, <3>2
  <2> QED BY <1>9, <2>1, <2>2
<1>11. A \cup B # {} /\ A \cup B \subseteq DOMAIN F BY <1>2
<1>12. Tree(t, F) BY <1>1, <1>5, <1>7, <1>8, <1>10, <1>11 DEF Tree
<1> QED BY <1>1, <1>7, <1>8, <1>12 DEF A, B, t

\* A turn of the loop of build_from_freq.
LEMMA MergeLemma ==
  ASSUME NEW F, Frequencies(F), NEW f, Trees(f, F), NEW p \in Lightest(f)
  PROVE  Trees((f \ {p[1], p[2]}) \cup {Join(p[1], p[2])}, F)
<1> DEFINE a == p[1]
           b == p[2]
           t == Join(a, b)
           rest == f \ {a, b}
<1>1. /\ a \in f /\ b \in f /\ a # b
      /\ \A u \in f : a.freq <= u.freq
      /\ \A u \in f \ {a} : b.freq <= u.freq
  BY DEF Lightest
<1>2. /\ \A u \in f : Tree(u, F)
      /\ \A u, w \in f : u # w => DOMAIN u.way \cap DOMAIN w.way = {}
      /\ UNION {DOMAIN u.way : u \in f} = DOMAIN F
      /\ \A u, w \in f : \A v \in DOMAIN u.way : Fib[Len(u.way[v]) + 1] <= w.freq
  BY DEF Trees
<1> HIDE DEF a, b
<1>3. Tree(a, F) /\ Tree(b, F) /\ DOMAIN a.way \cap DOMAIN b.way = {} BY <1>1, <1>2
<1>4. /\ \A v \in DOMAIN a.way : Fib[Len(a.way[v]) + 1] <= b.freq
      /\ \A v \in DOMAIN b.way : Fib[Len(b.way[v]) + 1] <= a.freq
  BY <1>1, <1>2
<1>5. /\ Tree(t, F) /\ DOMAIN t.way = DOMAIN a.way \cup DOMAIN b.way /\ t.freq = a.freq + b.freq
      /\ \A v \in DOMAIN a.way : Len(t.way[v]) = Len(a.way[v]) + 1
      /\ \A v \in DOMAIN b.way : Len(t.way[v]) = Len(b.way[v]) + 1
  BY <1>3, <1>4, JoinLemma
<1> HIDE DEF t
<1>6. a.freq \in Nat /\ b.freq \in Nat /\ \A u \in f : u.freq \in Nat BY <1>2, <1>3 DEF Tree
<1>7. ASSUME NEW u \in rest
      PROVE  DOMAIN u.way \cap DOMAIN t.way = {}
  BY <1>1, <1>2, <1>5
<1>8. UNION {DOMAIN u.way : u \in rest \cup {t}} = DOMAIN F
  <2>1. ASSUME NEW v \in DOMAIN F PROVE \E u \in rest \cup {t} : v \in DOMAIN u.way
    <3>1. PICK u \in f : v \in DOMAIN u.way BY <1>2
    <3>2. CASE u \in rest BY <3>1, <3>2
    <3>3. CASE u \notin rest
      <4>1. v \in DOMAIN t.way BY <1>5, <3>1, <3>3
      <4> QED BY <4>1
    <3> QED BY <3>2, <3>3
  <2>2. ASSUME NEW u \in rest \cup {t} PROVE DOMAIN u.way \subseteq DOMAIN F
    <3>1. Tree(u, F) BY <1>2, <1>5
    <3> QED BY <3>1 DEF Tree
  <2> HIDE DEF rest
  <2> QED BY <2>1, <2>2
<1>9. \A u \in rest \cup {t} : a.freq <= u.freq /\ b.freq <= u.freq
  <2>1. a.freq <= t.freq /\ b.freq <= t.freq BY <1>5, <1>6
  <2> QED BY <1>1, <2>1
<1>10. ASSUME NEW v \in DOMAIN t.way
       PROVE  Fib[Len(t.way[v]) + 1] <= a.freq \/ Fib[Len(t.way[v]) + 1] <= b.freq
  <2>1. CASE v \in DOMAIN a.way
    <3>1. Len(a.way[v]) \in Nat /\ Fib[Len(a.way[v]) + 2] <= a.freq BY <1>3, <2>1 DEF Tree
    <3>2. Len(t.way[v]) + 1 = Len(a.way[v]) + 2 BY <1>5, <2>1, <3>1
    <3> QED BY <3>1, <3>2
  <2>2. CASE v \in DOMAIN b.way
    <3>1. Len(b.way[v]) \in Nat /\ Fib[Len(b.way[v]) + 2] <= b.freq BY <1>3, <2>2 DEF Tree
    <3>2. Len(t.way[v]) + 1 = Len(b.way[v]) + 2 BY <1>5, <2>2, <3>1
    <3> QED BY <3>1, <3>2
  <2> QED BY <1>5, <2>1, <2>2
<1>11. ASSUME NEW u \in rest \cup {t}, NEW w \in rest \cup {t}, NEW v \in DOMAIN u.way
       PROVE  Fib[Len(u.way[v]) + 1] <= w.freq
  <2>1. \A x \in rest \cup {t} : x.freq \in Nat BY <1>5, <1>6
  <2>2. Fib[Len(u.way[v]) + 1] \in Nat
    <3>1. Tree(u, F) BY <1>2, <1>5
    <3>2. u.way[v] \in Seq(Bit) BY <3>1 DEF Tree
    <3>3. Len(u.way[v]) + 1 \in Nat BY <3>2
    <3> QED BY <3>3, Fibonacci
  <2>3. CASE u = t
    <3>1. Fib[Len(u.way[v]) + 1] <= a.freq \/ Fib[Len(u.way[v]) + 1] <= b.freq BY <1>10, <2>3
    <3>2. a.freq <= w.freq /\ b.freq <= w.freq BY <1>9
    <3> QED BY <1>6, <2>1, <2>2, <3>1, <3>2
  <2>4. CASE u # t
    <3>1. u \in f /\ a \in f BY <1>1, <2>4
    <3>2. Fib[Len(u.way[v]) + 1] <= a.freq BY <1>2, <3>1
    <3>3. a.freq <= w.freq BY <1>9
    <3> QED BY <1>6, <2>1, <2>2, <3>2, <3>3
  <2> QED BY <2>3, <2>4
<1>12. \A u \in rest \cup {t} : Tree(u, F) BY <1>2, <1>5
<1>13. \A u, w \in rest \cup {t} : u # w => DOMAIN u.way \cap DOMAIN w.way = {}
  <2>1. \A u, w \in rest : u # w => DOMAIN u.way \cap DOMAIN w.way = {} BY <1>2
  <2> HIDE DEF rest
  <2> QED BY <1>7, <2>1
<1> HIDE DEF rest
<1>14. Trees(rest \cup {t}, F) BY <1>8, <1>11, <1>12, <1>13 DEF Trees
<1> QED BY <1>14 DEF rest, t, a, b

-----------------------------------------------------------------------------
(* Bits one after another *)

\* Where each piece of a packed stream is.
Placed(bits, n, seqs, at) ==
  /\ at \in [0..n -> Nat] /\ at[0] = 0
  /\ \A i \in 1..n : at[i] = at[i - 1] + Len(seqs[i]) /\ at[i] <= Len(bits)
  /\ \A i \in 1..n : \A j \in 1..Len(seqs[i]) : bits[at[i - 1] + j] = seqs[i][j]

LEMMA CopiesLemma ==
  ASSUME NEW x \in Bit, NEW n \in Nat
  PROVE  Copies(x, n) \in Seq(Bit) /\ Len(Copies(x, n)) = n /\ \A j \in 1..n : Copies(x, n)[j] = x
BY DEF Copies

LEMMA Concatenation ==
  ASSUME NEW V, NEW s \in Seq(V), NEW t \in Seq(V)
  PROVE  /\ s \o t \in Seq(V) /\ Len(s \o t) = Len(s) + Len(t)
         /\ Len(s) \in Nat /\ Len(t) \in Nat
         /\ \A j \in 1..Len(s) : (s \o t)[j] = s[j]
         /\ \A j \in 1..Len(t) : (s \o t)[Len(s) + j] = t[j]
<1>1. Len(s) \in Nat /\ Len(t) \in Nat OBVIOUS
<1>2. /\ s \o t \in Seq(V) /\ Len(s \o t) = Len(s) + Len(t)
      /\ \A i \in 1..(Len(s) + Len(t)) : (s \o t)[i] = IF i <= Len(s) THEN s[i] ELSE t[i - Len(s)]
  OBVIOUS
<1> DEFINE n == Len(s)
           m == Len(t)
           u == s \o t
<1> HIDE DEF n, m, u
<1>3. \A j \in 1..n : u[j] = s[j]
  <2> SUFFICES ASSUME NEW j \in 1..n PROVE u[j] = s[j] OBVIOUS
  <2>1. j \in 1..(n + m) /\ j <= n BY <1>1 DEF n, m
  <2> QED BY <1>2, <2>1 DEF n, m, u
<1>4. \A j \in 1..m : u[n + j] = t[j]
  <2> SUFFICES ASSUME NEW j \in 1..m PROVE u[n + j] = t[j] OBVIOUS
  <2>1. n + j \in 1..(n + m) /\ ~(n + j <= n) /\ (n + j) - n = j BY <1>1 DEF n, m
  <2> QED BY <1>2, <2>1 DEF n, m, u
<1> QED BY <1>1, <1>2, <1>3, <1>4 DEF n, m, u

LEMMA ThreePieces ==
  ASSUME NEW V, NEW u \in Seq(V), NEW v \in Seq(V), NEW w \in Seq(V), NEW c, c = u \o v \o w
  PROVE  /\ c \in Seq(V) /\ Len(c) = Len(u) + Len(v) + Len(w)
         /\ \A j \in 1..Len(u) : c[j] = u[j]
         /\ \A j \in 1..Len(v) : c[Len(u) + j] = v[j]
         /\ \A j \in 1..Len(w) : c[Len(u) + Len(v) + j] = w[j]
<1> DEFINE t == u \o v
           d == t \o w
<1>1. c = d OBVIOUS
<1>2. /\ t \in Seq(V) /\ Len(t) = Len(u) + Len(v) /\ Len(u) \in Nat /\ Len(v) \in Nat
      /\ \A j \in 1..Len(u) : t[j] = u[j]
      /\ \A j \in 1..Len(v) : t[Len(u) + j] = v[j]
  BY Concatenation
<1> HIDE DEF t
<1>3. /\ d \in Seq(V) /\ Len(d) = Len(t) + Len(w) /\ Len(t) \in Nat /\ Len(w) \in Nat
      /\ \A j \in 1..Len(t) : d[j] = t[j]
      /\ \A j \in 1..Len(w) : d[Len(t) + j] = w[j]
  <2>1. t \in Seq(V) /\ w \in Seq(V) BY <1>2
  <2>2. /\ t \o w \in Seq(V) /\ Len(t \o w) = Len(t) + Len(w) /\ Len(t) \in Nat /\ Len(w) \in Nat
        /\ \A j \in 1..Len(t) : (t \o w)[j] = t[j]
        /\ \A j \in 1..Len(w) : (t \o w)[Len(t) + j] = w[j]
    BY <2>1, Concatenation
  <2> HIDE DEF d
  <2>3. d = t \o w BY DEF d
  <2> QED BY <2>2, <2>3
<1> HIDE DEF d
<1>4. \A j \in 1..Len(u) : d[j] = u[j]
  <2> SUFFICES ASSUME NEW j \in 1..Len(u) PROVE d[j] = u[j] OBVIOUS
  <2>1. j \in 1..Len(t) BY <1>2
  <2> QED BY <1>2, <1>3, <2>1
<1>5. \A j \in 1..Len(v) : d[Len(u) + j] = v[j]
  <2> SUFFICES ASSUME NEW j \in 1..Len(v) PROVE d[Len(u) + j] = v[j] OBVIOUS
  <2>1. Len(u) + j \in 1..Len(t) BY <1>2
  <2> QED BY <1>2, <1>3, <2>1
<1>6. \A j \in 1..Len(w) : d[Len(u) + Len(v) + j] = w[j] BY <1>2, <1>3
<1>7. d \in Seq(V) /\ Len(d) = Len(u) + Len(v) + Len(w) BY <1>2, <1>3
<1> QED BY <1>1, <1>4, <1>5, <1>6, <1>7

\* Bits that are filled up to whole bytes are still where they were.
LEMMA PaddedPieces ==
  ASSUME NEW n \in Nat, NEW seqs \in [1..n -> Seq(Bit)]
  PROVE  /\ Padded(FlattenSeq(seqs)) \in Seq(Bit)
         /\ \E at : /\ Placed(Padded(FlattenSeq(seqs)), n, seqs, at)
                    /\ Len(Padded(FlattenSeq(seqs))) < at[n] + ByteBits
<1>1. PICK f \in [0..n -> Seq(Bit)] :
        /\ f[0] = <<>>
        /\ \A i \in 1..n : f[i] = f[i - 1] \o seqs[i]
        /\ FlattenSeq(seqs) = f[n]
  BY Flattening
<1> DEFINE flat == f[n]
           pad == (-Len(flat)) % ByteBits
           fill == Copies(0, pad)
           bits == flat \o fill
           at == [i \in 0..n |-> Len(f[i])]
<1>2. flat \in Seq(Bit) /\ Len(flat) \in Nat
  <2>1. n \in 0..n OBVIOUS
  <2> QED BY <1>1, <2>1
<1>3. pad \in Nat /\ pad < ByteBits
  <2>1. -Len(flat) \in Int /\ ByteBits \in Nat \ {0} BY <1>2, BitsAssumption
  <2> HIDE DEF flat
  <2>2. (-Len(flat)) % ByteBits \in 0..(ByteBits - 1) BY <2>1, ModuloLemma
  <2> QED BY <2>1, <2>2
<1>4. fill \in Seq(Bit) /\ Len(fill) = pad
  <2>1. 0 \in Bit BY DEF Bit
  <2> HIDE DEF pad
  <2> QED BY <1>3, <2>1, CopiesLemma
<1>5. bits = Padded(FlattenSeq(seqs)) BY <1>1 DEF Padded
<1> HIDE DEF fill, pad, flat
<1>6. bits \in Seq(Bit) /\ Len(bits) = Len(flat) + pad /\ \A j \in 1..Len(flat) : bits[j] = flat[j]
  BY <1>2, <1>4, Concatenation
<1> HIDE DEF bits
<1>7. ASSUME NEW i \in 1..n
      PROVE  /\ f[i - 1] \in Seq(Bit) /\ seqs[i] \in Seq(Bit) /\ f[i] = f[i - 1] \o seqs[i]
             /\ f[i] \in Seq(Bit)
  <2>1. i - 1 \in 0..n /\ i \in 0..n OBVIOUS
  <2> QED BY <1>1, <2>1
<1>8. ASSUME NEW i \in 1..n
      PROVE  /\ Len(f[i]) = Len(f[i - 1]) + Len(seqs[i])
             /\ Len(f[i - 1]) \in Nat /\ Len(seqs[i]) \in Nat
             /\ \A j \in 1..Len(f[i - 1]) : f[i][j] = f[i - 1][j]
             /\ \A j \in 1..Len(seqs[i]) : f[i][Len(f[i - 1]) + j] = seqs[i][j]
  <2> DEFINE u == f[i - 1]
             w == seqs[i]
  <2>1. u \in Seq(Bit) /\ w \in Seq(Bit) /\ f[i] = u \o w BY <1>7
  <2> HIDE DEF u, w
  <2>2. /\ Len(u \o w) = Len(u) + Len(w) /\ Len(u) \in Nat /\ Len(w) \in Nat
        /\ \A j \in 1..Len(u) : (u \o w)[j] = u[j]
        /\ \A j \in 1..Len(w) : (u \o w)[Len(u) + j] = w[j]
    BY <2>1, Concatenation
  <2> QED BY <2>1, <2>2 DEF u, w
\* Each beginning is a beginning of the whole.
<1> DEFINE P == {k \in Nat : \A i \in 0..n : i + k = n =>
                   Len(f[i]) <= Len(flat) /\ \A j \in 1..Len(f[i]) : f[i][j] = flat[j]}
<1>9. 0 \in P
  <2> SUFFICES ASSUME NEW i \in 0..n, i + 0 = n
               PROVE  Len(f[i]) <= Len(flat) /\ \A j \in 1..Len(f[i]) : f[i][j] = flat[j]
    OBVIOUS
  <2>1. f[i] = flat BY DEF flat
  <2> QED BY <1>2, <2>1
<1>10. ASSUME NEW k \in Nat, k \in P PROVE k + 1 \in P
  <2> SUFFICES ASSUME NEW i \in 0..n, i + (k + 1) = n
               PROVE  Len(f[i]) <= Len(flat) /\ \A j \in 1..Len(f[i]) : f[i][j] = flat[j]
    OBVIOUS
  <2>1. i + 1 \in 1..n /\ i + 1 \in 0..n /\ (i + 1) + k = n /\ (i + 1) - 1 = i OBVIOUS
  <2>2. Len(f[i + 1]) <= Len(flat) /\ \A j \in 1..Len(f[i + 1]) : f[i + 1][j] = flat[j]
    BY <1>10, <2>1
  <2>3. /\ Len(f[i + 1]) = Len(f[i]) + Len(seqs[i + 1])
        /\ Len(f[i]) \in Nat /\ Len(seqs[i + 1]) \in Nat
        /\ \A j \in 1..Len(f[i]) : f[i + 1][j] = f[i][j]
    BY <1>8, <2>1
  <2>4. Len(f[i]) <= Len(f[i + 1]) /\ \A j \in 1..Len(f[i]) : j \in 1..Len(f[i + 1]) BY <2>3
  <2>5. Len(f[i]) <= Len(flat)
    <3>1. Len(f[i + 1]) \in Nat BY <2>3
    <3> QED BY <1>2, <2>2, <2>3, <2>4, <3>1
  <2>6. ASSUME NEW j \in 1..Len(f[i]) PROVE f[i][j] = flat[j]
    <3>1. f[i + 1][j] = f[i][j] BY <2>3
    <3>2. f[i + 1][j] = flat[j] BY <2>2, <2>4
    <3> QED BY <3>1, <3>2
  <2> QED BY <2>5, <2>6
<1> HIDE DEF P
<1>11. \A k \in Nat : k \in P BY <1>9, <1>10, SimpleInduction
<1>12. ASSUME NEW i \in 0..n
       PROVE  Len(f[i]) <= Len(flat) /\ \A j \in 1..Len(f[i]) : f[i][j] = flat[j]
  <2>1. n - i \in Nat /\ i + (n - i) = n OBVIOUS
  <2>2. n - i \in P BY <1>11, <2>1
  <2> QED BY <2>1, <2>2 DEF P
<1>13. at \in [0..n -> Nat] /\ at[0] = 0
  <2>1. \A i \in 0..n : Len(f[i]) \in Nat
    <3>1. \A i \in 0..n : f[i] \in Seq(Bit) BY <1>1
    <3> QED BY <3>1
  <2>2. Len(<<>>) = 0 /\ 0 \in 0..n OBVIOUS
  <2> QED BY <1>1, <2>1, <2>2
<1>14. ASSUME NEW i \in 1..n PROVE at[i] = at[i - 1] + Len(seqs[i]) /\ at[i] <= Len(bits)
  <2>1. i - 1 \in 0..n /\ i \in 0..n OBVIOUS
  <2>2. Len(f[i]) <= Len(flat) BY <1>12, <2>1
  <2>3. Len(f[i]) \in Nat BY <1>13, <2>1
  <2> QED BY <1>2, <1>3, <1>6, <1>8, <2>1, <2>2, <2>3
<1>15. ASSUME NEW i \in 1..n, NEW j \in 1..Len(seqs[i]) PROVE bits[at[i - 1] + j] = seqs[i][j]
  <2> DEFINE x == Len(f[i - 1]) + j
  <2>1. /\ Len(f[i]) = Len(f[i - 1]) + Len(seqs[i])
        /\ Len(f[i - 1]) \in Nat /\ Len(seqs[i]) \in Nat /\ f[i][x] = seqs[i][j]
    BY <1>8
  <2>2. i - 1 \in 0..n /\ i \in 0..n OBVIOUS
  <2>3. x \in 1..Len(f[i]) BY <2>1
  <2>4. f[i][x] = flat[x] /\ Len(f[i]) <= Len(flat) BY <1>12, <2>2, <2>3
  <2>5. x \in 1..Len(flat)
    <3> HIDE DEF x
    <3>1. Len(f[i]) \in Nat BY <2>1
    <3> QED BY <1>2, <2>3, <2>4, <3>1
  <2>6. bits[x] = flat[x] BY <1>6, <2>5
  <2>7. at[i - 1] = Len(f[i - 1]) BY <2>2
  <2> QED BY <2>1, <2>4, <2>6, <2>7
<1>16. Len(bits) < at[n] + ByteBits
  <2>1. at[n] = Len(flat)
    <3>1. n \in 0..n OBVIOUS
    <3> QED BY <3>1 DEF flat
  <2>2. ByteBits \in Nat BY BitsAssumption
  <2> QED BY <1>2, <1>3, <1>6, <2>1, <2>2
<1> HIDE DEF at
<1>17. Placed(bits, n, seqs, at) BY <1>13, <1>14, <1>15 DEF Placed
<1> QED BY <1>5, <1>6, <1>16, <1>17

LEMMA Piece ==
  ASSUME NEW b \in Seq(Bit), NEW a \in Nat, NEW k \in Nat, a + k <= Len(b),
         NEW c \in [1..k -> Bit], \A j \in 1..k : b[a + j] = c[j]
  PROVE  SubSeq(b, a + 1, a + k) = c
<1> DEFINE t == SubSeq(b, a + 1, a + k)
<1>1. Len(b) \in Nat OBVIOUS
<1>2. \A i \in (a + 1)..(a + k) : b[i] \in Bit
  <2> SUFFICES ASSUME NEW i \in (a + 1)..(a + k) PROVE b[i] \in Bit OBVIOUS
  <2>1. i \in 1..Len(b) BY <1>1
  <2> QED BY <2>1
<1>3. (a + 1) \in Int /\ (a + k) \in Int OBVIOUS
<1>4. /\ t \in Seq(Bit)
      /\ Len(t) = IF a + 1 <= a + k THEN (a + k) - (a + 1) + 1 ELSE 0
      /\ \A i \in 1..((a + k) - (a + 1) + 1) : t[i] = b[(a + 1) + i - 1]
  BY <1>2, <1>3, SubSeqProperties
<1> HIDE DEF t
<1>5. Len(t) = k /\ (a + k) - (a + 1) + 1 = k BY <1>4
<1>6. \A j \in 1..k : t[j] = c[j]
  <2> SUFFICES ASSUME NEW j \in 1..k PROVE t[j] = c[j] OBVIOUS
  <2>1. t[j] = b[(a + 1) + j - 1] /\ (a + 1) + j - 1 = a + j BY <1>4, <1>5
  <2> QED BY <2>1
<1>7. t = [j \in 1..k |-> t[j]] BY <1>4, <1>5
<1>8. c = [j \in 1..k |-> c[j]] OBVIOUS
<1> QED BY <1>6, <1>7, <1>8 DEF t

LEMMA BitsOf ==
  ASSUME NEW n \in Nat, NEW k \in Nat
  PROVE  LowFirst(n, k) \in Seq(Bit) /\ Len(LowFirst(n, k)) = k
<1>1. LowFirst(n, k) \in [1..k -> Bit] BY LowBits
<1> QED BY <1>1

-----------------------------------------------------------------------------
(* BitPacker *)

LEMMA WidthLemma ==
  ASSUME NEW s \in Seq(Nat)
  PROVE  Width(s) \in Nat /\ \A i \in DOMAIN s : s[i] < Pow2[Width(s)]
<1> DEFINE f == [i \in DOMAIN s |-> BitLength[s[i]]]
           S == {f[i] : i \in DOMAIN s}
           T == {1} \cup S
<1>1. \A i \in DOMAIN s : s[i] \in Nat OBVIOUS
<1>2. \A i \in DOMAIN s : f[i] \in Nat /\ s[i] < Pow2[f[i]] BY <1>1, BitLengths
<1>3. IsFiniteSet(DOMAIN s) /\ DOMAIN f = DOMAIN s /\ f = [x \in DOMAIN s |-> f[x]]
  <2>1. DOMAIN s = 1..Len(s) /\ 1 \in Int /\ Len(s) \in Int OBVIOUS
  <2>2. \A a, b \in Int : IsFiniteSet(a..b) BY FS_Interval
  <2> QED BY <2>1, <2>2
<1>4. {BitLength[s[i]] : i \in DOMAIN s} = S OBVIOUS
<1> HIDE DEF f
<1>5. IsFiniteSet(S) BY <1>3, ImageLemma
<1>6. T \in SUBSET Int /\ T # {} /\ \A x \in T : x \in Nat BY <1>2
<1>7. IsFiniteSet(T) BY <1>5, FS_Singleton, FS_Union
<1>8. Width(s) = Max(T) BY <1>4 DEF Width
<1> HIDE DEF T
<1>9. Max(T) \in T /\ \A y \in T : y <= Max(T) BY <1>6, <1>7, MaxLemma
<1>10. Max(T) \in Nat BY <1>6, <1>9
<1>11. ASSUME NEW i \in DOMAIN s PROVE s[i] < Pow2[Max(T)]
  <2>1. f[i] \in T BY DEF T
  <2>2. f[i] <= Max(T) /\ f[i] \in Nat BY <1>2, <1>9, <2>1
  <2>3. Pow2[f[i]] <= Pow2[Max(T)] BY <1>10, <2>2, PowersGrow
  <2>4. Pow2[f[i]] \in Nat /\ Pow2[Max(T)] \in Nat BY <1>10, <2>2, Powers
  <2> QED BY <1>1, <1>2, <2>3, <2>4
<1> QED BY <1>8, <1>10, <1>11

LEMMA BlocksReturn ==
  ASSUME NEW s \in Seq(Nat)
  PROVE  BitPack(s).bits \in Seq(Bit) /\ BitUnpack(BitPack(s)) = s
<1> DEFINE n == Len(s)
           w == Width(s)
           seqs == [i \in 1..n |-> LowFirst(s[i], w)]
           bits == Padded(FlattenSeq(seqs))
<1>1. n \in Nat /\ DOMAIN s = 1..n /\ \A i \in 1..n : s[i] \in Nat OBVIOUS
<1>2. w \in Nat /\ \A i \in 1..n : s[i] < Pow2[w] BY <1>1, WidthLemma
<1>3. /\ BitPack(s).meta.n = n /\ BitPack(s).meta.width = w /\ BitPack(s).bits = bits
  BY <1>1 DEF BitPack
<1> HIDE DEF w
<1>4. \A i \in 1..n : seqs[i] = LowFirst(s[i], w) OBVIOUS
<1>5. \A i \in 1..n : /\ seqs[i] \in Seq(Bit) /\ Len(seqs[i]) = w
                      /\ seqs[i] \in [1..w -> Bit] /\ FromLowFirst(seqs[i]) = s[i]
  BY <1>1, <1>2, BitsOf, LowBits
<1>6. seqs \in [1..n -> Seq(Bit)] BY <1>5
<1> HIDE DEF n, seqs
<1>7. bits \in Seq(Bit) /\ \E at : Placed(bits, n, seqs, at) BY <1>1, <1>6, PaddedPieces
<1>8. PICK at : Placed(bits, n, seqs, at) BY <1>7
<1> HIDE DEF bits
<1>9. /\ at \in [0..n -> Nat] /\ at[0] = 0
      /\ \A i \in 1..n : at[i] = at[i - 1] + Len(seqs[i]) /\ at[i] <= Len(bits)
      /\ \A i \in 1..n : \A j \in 1..Len(seqs[i]) : bits[at[i - 1] + j] = seqs[i][j]
  BY <1>8 DEF Placed
<1> DEFINE P == {i \in Nat : i <= n => at[i] = i * w}
<1>10. 0 \in P BY <1>2, <1>9
<1>11. ASSUME NEW i \in Nat, i \in P PROVE i + 1 \in P
  <2> SUFFICES ASSUME i + 1 <= n PROVE at[i + 1] = (i + 1) * w OBVIOUS
  <2>1. i + 1 \in 1..n /\ (i + 1) - 1 = i /\ i <= n BY <1>1
  <2>2. at[i + 1] = at[i] + w BY <1>5, <1>9, <2>1
  <2>3. at[i] = i * w BY <1>11, <2>1
  <2>4. (i + 1) * w = i * w + w BY <1>2
  <2> QED BY <2>2, <2>3, <2>4
<1> HIDE DEF P
<1>12. \A i \in Nat : i \in P BY <1>10, <1>11, SimpleInduction
<1>13. ASSUME NEW i \in 1..n
       PROVE  FromLowFirst(SubSeq(bits, (i - 1) * w + 1, i * w)) = s[i]
  <2>1. i - 1 \in Nat /\ i \in Nat /\ i - 1 <= n /\ i <= n /\ i - 1 \in 0..n BY <1>1
  <2>2. at[i - 1] = (i - 1) * w /\ at[i] = i * w BY <1>12, <2>1 DEF P
  <2> DEFINE a == at[i - 1]
             c == seqs[i]
  <2>3. a \in Nat /\ at[i] = a + w /\ a + w <= Len(bits) BY <1>5, <1>9, <2>1
  <2>4. c \in [1..w -> Bit] /\ Len(c) = w /\ FromLowFirst(c) = s[i] BY <1>5
  <2>5. \A j \in 1..w : bits[a + j] = c[j] BY <1>9, <2>4
  <2> HIDE DEF a, c
  <2>6. SubSeq(bits, a + 1, a + w) = c BY <1>2, <1>7, <2>3, <2>4, <2>5, Piece
  <2> QED BY <2>2, <2>3, <2>4, <2>6 DEF a
<1>14. BitUnpack(BitPack(s)) = [i \in 1..n |-> s[i]]
  <2>1. BitUnpack(BitPack(s)) =
          [i \in 1..n |-> FromLowFirst(SubSeq(bits, (i - 1) * w + 1, i * w))]
    BY <1>3 DEF BitUnpack
  <2> QED BY <1>13, <2>1
<1>15. s = [i \in 1..n |-> s[i]] BY <1>1
<1> QED BY <1>3, <1>7, <1>14, <1>15

-----------------------------------------------------------------------------
(* GolombRiceCoder *)

LEMMA FiniteRange == \A a, b \in Int : IsFiniteSet(a..b)
BY FS_Interval

RiceCode(c, q, r, k) == c = Copies(1, q) \o <<0>> \o LowFirst(r, k)

LEMMA RicePiece ==
  ASSUME NEW q \in Nat, NEW r \in Nat, NEW k \in Nat, NEW c, RiceCode(c, q, r, k)
  PROVE  /\ c \in Seq(Bit) /\ Len(c) = q + 1 + k
         /\ \A j \in 1..q : c[j] = 1
         /\ c[q + 1] = 0
         /\ \A j \in 1..k : c[q + 1 + j] = LowFirst(r, k)[j]
<1> DEFINE u == Copies(1, q)
           z == <<0>>
           v == LowFirst(r, k)
<1>1. 0 \in Bit /\ 1 \in Bit BY DEF Bit
<1>2. u \in Seq(Bit) /\ Len(u) = q /\ \A j \in 1..q : u[j] = 1 BY <1>1, CopiesLemma
<1>3. z \in Seq(Bit) /\ Len(z) = 1 /\ z[1] = 0 BY <1>1
<1>4. v \in Seq(Bit) /\ Len(v) = k BY BitsOf
<1>5. c = u \o z \o v BY DEF RiceCode
<1> HIDE DEF u, z, v
<1>6. /\ c \in Seq(Bit) /\ Len(c) = Len(u) + Len(z) + Len(v)
      /\ \A j \in 1..Len(u) : c[j] = u[j]
      /\ \A j \in 1..Len(z) : c[Len(u) + j] = z[j]
      /\ \A j \in 1..Len(v) : c[Len(u) + Len(z) + j] = v[j]
  <2>1. u \in Seq(Bit) /\ z \in Seq(Bit) /\ v \in Seq(Bit) BY <1>2, <1>3, <1>4
  <2> QED BY <1>5, <2>1, ThreePieces
<1>7. Len(c) = q + 1 + k BY <1>2, <1>3, <1>4, <1>6
<1>8. \A j \in 1..q : c[j] = 1 BY <1>2, <1>6
<1>9. c[q + 1] = 0
  <2>1. 1 \in 1..Len(z) BY <1>3
  <2> QED BY <1>2, <1>3, <1>6, <2>1
<1>10. \A j \in 1..k : c[q + 1 + j] = v[j] BY <1>2, <1>3, <1>4, <1>6
<1> QED BY <1>6, <1>7, <1>8, <1>9, <1>10 DEF v

LEMMA TotalLemma ==
  ASSUME NEW s \in Seq(Nat)
  PROVE  Total(s) \in Nat /\ \A i \in DOMAIN s : s[i] <= Total(s)
<1>1. DOMAIN s = 1..Len(s) /\ 1 \in Int /\ Len(s) \in Int OBVIOUS
<1>2. IsFiniteSet(DOMAIN s) BY <1>1, FiniteRange
<1>3. \A x \in DOMAIN s : s[x] \in Nat OBVIOUS
<1> QED BY <1>2, <1>3, SumType DEF Total

\* The parameter is a number, and twice its power is above the average.
LEMMA RiceParameterLemma ==
  ASSUME NEW s \in Seq(Nat), s # <<>>
  PROVE  /\ RiceParameter(s) \in Nat
         /\ Total(s) < Len(s) * Pow2[MaxRiceK + 1] => Total(s) < Len(s) * Pow2[RiceParameter(s) + 1]
<1> DEFINE n == Len(s)
           T == Total(s)
           average == T \div n
           L == BitLength[average]
           S == {MaxRiceK, L - 1}
           k == RiceParameter(s)
<1>1. n \in Nat \ {0} /\ T \in Nat BY TotalLemma
<1>2. k = IF average = 0 THEN 0 ELSE Min(S) BY DEF RiceParameter
<1> HIDE DEF n, T, k
<1>3. average \in Nat /\ T < n * average + n
  <2>1. average \in Nat BY <1>1, DivMonotone
  <2>2. T \in Int BY <1>1
  <2> QED BY <1>1, <2>1, <2>2, DivBounds
<1> HIDE DEF average
<1>4. MaxRiceK \in Nat BY BitsAssumption
<1>5. L \in Nat /\ average < Pow2[L] /\ (average # 0 => L >= 1) BY <1>3, BitLengths
<1> HIDE DEF L
<1>6. ASSUME average # 0 PROVE Min(S) \in S /\ Min(S) \in Nat
  <2>1. S \in SUBSET Int /\ S # {} /\ \A x \in S : x \in Nat BY <1>4, <1>5, <1>6
  <2>2. IsFiniteSet(S)
    <3>1. IsFiniteSet({MaxRiceK}) /\ IsFiniteSet({L - 1}) BY FS_Singleton
    <3>2. S = {MaxRiceK} \cup {L - 1} OBVIOUS
    <3>3. IsFiniteSet({MaxRiceK} \cup {L - 1}) BY <3>1, FS_Union
    <3> QED BY <3>2, <3>3
  <2> HIDE DEF S
  <2>3. Min(S) \in S BY <2>1, <2>2, MinLemma
  <2> QED BY <2>1, <2>3
<1>7. k \in Nat BY <1>2, <1>6
<1>8. ASSUME T < n * Pow2[MaxRiceK + 1] PROVE T < n * Pow2[k + 1]
  <2>1. Pow2[0] = 1 /\ \A j \in Nat : Pow2[j] \in Nat \ {0} /\ Pow2[j + 1] = 2 * Pow2[j] BY Powers
  <2>2. average < Pow2[k + 1] \/ k = MaxRiceK
    <3>1. CASE average = 0
      <4>1. k = 0 BY <1>2, <3>1
      <4>2. 0 \in Nat /\ Pow2[0 + 1] = 2 * Pow2[0] BY <2>1
      <4>3. Pow2[0 + 1] = 2 BY <2>1, <4>2
      <4> QED BY <3>1, <4>1, <4>3
    <3>2. CASE average # 0
      <4>1. k = MaxRiceK \/ k = L - 1 BY <1>2, <1>6, <3>2
      <4>2. (L - 1) + 1 = L BY <1>5
      <4> QED BY <1>5, <4>1, <4>2
    <3> QED BY <3>1, <3>2
  <2>3. CASE k = MaxRiceK BY <1>8, <2>3
  <2>4. CASE average < Pow2[k + 1]
    <3> DEFINE p == Pow2[k + 1]
    <3>1. k + 1 \in Nat /\ p \in Nat
      <4>1. k + 1 \in Nat BY <1>7
      <4> QED BY <2>1, <4>1
    <3> HIDE DEF p
    <3>2. average + 1 <= p BY <1>3, <2>4, <3>1 DEF p
    <3>3. n * (p - (average + 1)) >= 0 BY <1>1, <1>3, <3>1, <3>2, Products
    <3>4. n * (p - (average + 1)) = n * p - n * average - n BY <1>1, <1>3, <3>1
    <3>5. n * p \in Int /\ n * average \in Int BY <1>1, <1>3, <3>1, Products
    <3> QED BY <1>1, <1>3, <3>3, <3>4, <3>5 DEF p
  <2> QED BY <2>2, <2>3, <2>4
<1> QED BY <1>7, <1>8 DEF n, T, k

\* What has been read of a list.
Firsts(s, i) == [j \in 1..i |-> s[j]]

LEMMA FirstsLemma ==
  ASSUME NEW V, NEW s \in Seq(V)
  PROVE  /\ Firsts(s, 0) = <<>> /\ Firsts(s, Len(s)) = s
         /\ \A i \in 0..Len(s) : Firsts(s, i) \in Seq(V) /\ Len(Firsts(s, i)) = i
         /\ \A i \in 1..Len(s) : Append(Firsts(s, i - 1), s[i]) = Firsts(s, i)
<1>1. Len(s) \in Nat /\ DOMAIN s = 1..Len(s) /\ \A j \in 1..Len(s) : s[j] \in V OBVIOUS
<1>2. Firsts(s, 0) = <<>> BY DEF Firsts
<1>3. Firsts(s, Len(s)) = s
  <2>1. s = [j \in 1..Len(s) |-> s[j]] BY <1>1
  <2> QED BY <2>1 DEF Firsts
<1>4. ASSUME NEW i \in 0..Len(s) PROVE Firsts(s, i) \in Seq(V) /\ Len(Firsts(s, i)) = i
  <2>1. i \in Nat /\ \A j \in 1..i : s[j] \in V BY <1>1
  <2>2. Firsts(s, i) \in [1..i -> V] BY <2>1 DEF Firsts
  <2> QED BY <2>1, <2>2
<1>5. ASSUME NEW i \in 1..Len(s) PROVE Append(Firsts(s, i - 1), s[i]) = Firsts(s, i)
  <2> DEFINE u == Firsts(s, i - 1)
             w == Append(u, s[i])
  <2>1. i - 1 \in 0..Len(s) /\ s[i] \in V /\ i \in Nat BY <1>1
  <2>2. u \in Seq(V) /\ Len(u) = i - 1 BY <1>4, <2>1
  <2>3. \A j \in 1..(i - 1) : u[j] = s[j] BY DEF Firsts
  <2> HIDE DEF u
  <2>4. w \in Seq(V) /\ Len(w) = i /\ \A j \in 1..i : w[j] = IF j <= i - 1 THEN u[j] ELSE s[i]
    BY <2>1, <2>2
  <2> HIDE DEF w
  <2>5. \A j \in 1..i : w[j] = s[j]
    <3> SUFFICES ASSUME NEW j \in 1..i PROVE w[j] = s[j] OBVIOUS
    <3>1. CASE j <= i - 1
      <4>1. j \in 1..(i - 1) BY <3>1
      <4> QED BY <2>3, <2>4, <3>1, <4>1
    <3>2. CASE ~(j <= i - 1)
      <4>1. j = i BY <3>2
      <4> QED BY <2>4, <3>2, <4>1
    <3> QED BY <3>1, <3>2
  <2>6. w = [j \in 1..i |-> w[j]] BY <2>4
  <2>7. w = [j \in 1..i |-> s[j]] BY <2>5, <2>6
  <2> QED BY <2>7 DEF Firsts, w
<1> QED BY <1>2, <1>3, <1>4, <1>5

\* A number and its remainder fit together again.
LEMMA QuotientLemma ==
  ASSUME NEW x \in Nat, NEW k \in Nat
  PROVE  /\ x \div Pow2[k] \in Nat /\ x % Pow2[k] \in Nat /\ x % Pow2[k] < Pow2[k]
         /\ (x \div Pow2[k]) * Pow2[k] + (x % Pow2[k]) = x /\ Pow2[k] \in Nat \ {0}
<1> DEFINE p == Pow2[k]
<1>1. p \in Nat \ {0} BY Powers
<1> HIDE DEF p
<1>2. x \in Int OBVIOUS
<1>3. x \div p \in Int /\ x % p \in 0..(p - 1) /\ x = p * (x \div p) + (x % p)
  BY <1>1, <1>2, ModuloLemma
<1>4. x \div p \in Nat BY <1>1, DivMonotone
<1>5. p * (x \div p) = (x \div p) * p BY <1>1, <1>3
<1>6. /\ x \div p \in Nat /\ x % p \in Nat /\ x % p < p
      /\ (x \div p) * p + (x % p) = x
  <2>1. x % p \in Nat /\ x % p < p BY <1>1, <1>3
  <2> QED BY <1>3, <1>4, <1>5, <2>1
<1> QED BY <1>1, <1>6 DEF p

\* A piece of a stream behind position a.
Holds(b, a, c) == a + Len(c) <= Len(b) /\ \A j \in 1..Len(c) : b[a + j] = c[j]

LEMMA RiceReadLemma ==
  ASSUME NEW b \in Seq(Bit), NEW a \in Nat, NEW q \in Nat, NEW k \in Nat, NEW r \in Nat,
         r < Pow2[k], NEW c, RiceCode(c, q, r, k), Holds(b, a, c)
  PROVE  RiceRead(b, a, k) = [value |-> q * Pow2[k] + r, at |-> a + Len(c)]
<1> DEFINE v == LowFirst(r, k)
           S == {i \in (a + 1)..Len(b) : b[i] = 0}
           m == a + q + 1
<1>1. /\ c \in Seq(Bit) /\ Len(c) = q + 1 + k
      /\ \A j \in 1..q : c[j] = 1
      /\ c[q + 1] = 0
      /\ \A j \in 1..k : c[q + 1 + j] = v[j]
  BY RicePiece
<1>2. v \in [1..k -> Bit] /\ FromLowFirst(v) = r BY LowBits
<1> HIDE DEF v
<1>3. Len(b) \in Nat OBVIOUS
<1>4. a + (q + 1 + k) <= Len(b) /\ \A j \in 1..(q + 1 + k) : b[a + j] = c[j] BY <1>1 DEF Holds
<1>5. Min(S) = m
  <2>1. m \in S
    <3>1. q + 1 \in 1..(q + 1 + k) /\ a + (q + 1) = m OBVIOUS
    <3>2. b[m] = 0 BY <1>1, <1>4, <3>1
    <3>3. m \in (a + 1)..Len(b) BY <1>3, <1>4
    <3> QED BY <3>2, <3>3
  <2>2. ASSUME NEW y \in S PROVE m <= y
    <3>1. y \in (a + 1)..Len(b) /\ b[y] = 0 OBVIOUS
    <3>2. CASE y < m
      <4> DEFINE j == y - a
      <4>1. j \in 1..q /\ j \in 1..(q + 1 + k) /\ a + j = y BY <1>3, <3>1, <3>2
      <4> HIDE DEF j
      <4>2. b[y] = 1 BY <1>1, <1>4, <4>1
      <4> QED BY <3>1, <4>2
    <3> QED BY <1>3, <3>1, <3>2
  <2>3. S \in SUBSET Int /\ IsFiniteSet(S)
    <3>1. a + 1 \in Int /\ Len(b) \in Int BY <1>3
    <3>2. IsFiniteSet((a + 1)..Len(b)) BY <3>1, FiniteRange
    <3>3. S \subseteq (a + 1)..Len(b) OBVIOUS
    <3> QED BY <3>2, <3>3, FS_Subset
  <2> HIDE DEF S
  <2> QED BY <2>1, <2>2, <2>3, LeastLemma
<1>6. SubSeq(b, m + 1, m + k) = v
  <2>1. m \in Nat /\ m + k <= Len(b) BY <1>3, <1>4
  <2>2. \A j \in 1..k : b[m + j] = v[j]
    <3> SUFFICES ASSUME NEW j \in 1..k PROVE b[m + j] = v[j] OBVIOUS
    <3>1. q + 1 + j \in 1..(q + 1 + k) /\ a + (q + 1 + j) = m + j OBVIOUS
    <3> QED BY <1>1, <1>4, <3>1
  <2> HIDE DEF m
  <2> QED BY <1>2, <2>1, <2>2, Piece
<1> DEFINE R == [value |-> (m - a - 1) * Pow2[k] + FromLowFirst(SubSeq(b, m + 1, m + k)),
                 at |-> m + k]
<1>7. RiceRead(b, a, k) = R
  <2> HIDE DEF m
  <2> QED BY <1>5 DEF RiceRead
<1>8. m - a - 1 = q /\ m + k = a + Len(c) BY <1>1
<1> QED BY <1>2, <1>6, <1>7, <1>8

\* Where the numbers of a Rice code are.
RicePlaces(s, k, bits, at) ==
  /\ bits \in Seq(Bit) /\ at \in [0..Len(s) -> Nat] /\ at[0] = 0
  /\ \A i \in 1..Len(s) :
       \E c : /\ RiceCode(c, s[i] \div Pow2[k], s[i] % Pow2[k], k)
              /\ at[i] = at[i - 1] + Len(c) /\ Holds(bits, at[i - 1], c)
  /\ Len(bits) < at[Len(s)] + ByteBits

LEMMA RicePlacesLemma ==
  ASSUME NEW s \in Seq(Nat), s # <<>>
  PROVE  /\ RicePack(s).meta = [n |-> Len(s), k |-> RiceParameter(s)]
         /\ RiceParameter(s) \in Nat
         /\ \E at : RicePlaces(s, RiceParameter(s), RicePack(s).bits, at)
<1> DEFINE n == Len(s)
           k == RiceParameter(s)
           q(i) == s[i] \div Pow2[k]
           r(i) == s[i] % Pow2[k]
           seqs == [i \in 1..n |-> Copies(1, q(i)) \o <<0>> \o LowFirst(r(i), k)]
           bits == Padded(FlattenSeq(seqs))
<1>1. n \in Nat /\ DOMAIN s = 1..n /\ \A i \in 1..n : s[i] \in Nat OBVIOUS
<1>2. k \in Nat BY RiceParameterLemma
<1>3. RicePack(s) = [meta |-> [n |-> n, k |-> k], bits |-> bits] BY <1>1 DEF RicePack
<1> HIDE DEF k
<1>4. ASSUME NEW i \in 1..n PROVE RiceCode(seqs[i], q(i), r(i), k) /\ seqs[i] \in Seq(Bit)
  <2>1. s[i] \in Nat BY <1>1
  <2>2. q(i) \in Nat /\ r(i) \in Nat BY <1>2, <2>1, QuotientLemma
  <2>3. RiceCode(seqs[i], q(i), r(i), k) BY DEF RiceCode
  <2> HIDE DEF seqs, q, r
  <2>4. seqs[i] \in Seq(Bit) BY <1>2, <2>2, <2>3, RicePiece
  <2> QED BY <2>3, <2>4
<1>5. seqs \in [1..n -> Seq(Bit)] BY <1>4
<1> HIDE DEF n, seqs
<1>6. bits \in Seq(Bit) /\ \E at : Placed(bits, n, seqs, at) /\ Len(bits) < at[n] + ByteBits
  BY <1>1, <1>5, PaddedPieces
<1>7. PICK at : Placed(bits, n, seqs, at) /\ Len(bits) < at[n] + ByteBits BY <1>6
<1> HIDE DEF bits
<1>8. /\ at \in [0..n -> Nat] /\ at[0] = 0
      /\ \A i \in 1..n : at[i] = at[i - 1] + Len(seqs[i]) /\ at[i] <= Len(bits)
      /\ \A i \in 1..n : \A j \in 1..Len(seqs[i]) : bits[at[i - 1] + j] = seqs[i][j]
  BY <1>7 DEF Placed
<1>9. ASSUME NEW i \in 1..n
      PROVE  \E c : /\ RiceCode(c, q(i), r(i), k)
                    /\ at[i] = at[i - 1] + Len(c) /\ Holds(bits, at[i - 1], c)
  <2>1. at[i] = at[i - 1] + Len(seqs[i]) BY <1>8
  <2>2. Holds(bits, at[i - 1], seqs[i]) BY <1>8 DEF Holds
  <2> HIDE DEF q, r
  <2> QED BY <1>4, <2>1, <2>2
<1>10. RicePlaces(s, k, bits, at) BY <1>6, <1>7, <1>8, <1>9 DEF RicePlaces, n
<1> QED BY <1>2, <1>3, <1>10 DEF n, k

LEMMA PatchesReturn ==
  ASSUME NEW s \in Seq(Nat)
  PROVE  RicePack(s).bits \in Seq(Bit) /\ RiceUnpack(RicePack(s)) = s
<1>1. CASE s = <<>>
  <2>1. RicePack(s) = [meta |-> <<>>, bits |-> <<>>] BY <1>1 DEF RicePack
  <2>2. <<>> \in Seq(Bit) OBVIOUS
  <2>3. RiceUnpack(RicePack(s)) = <<>> BY <2>1 DEF RiceUnpack
  <2>4. RicePack(s).bits = <<>> BY <2>1
  <2> QED BY <1>1, <2>2, <2>3, <2>4
<1>2. CASE s # <<>>
  <2> DEFINE n == Len(s)
             k == RiceParameter(s)
             bits == RicePack(s).bits
             q(i) == s[i] \div Pow2[k]
             r(i) == s[i] % Pow2[k]
  <2>1. n \in Nat /\ \A i \in 1..n : s[i] \in Nat OBVIOUS
  <2>2. k \in Nat /\ RicePack(s).meta = [n |-> n, k |-> k] BY <1>2, RicePlacesLemma
  <2>3. PICK at : RicePlaces(s, k, bits, at) BY <1>2, RicePlacesLemma
  <2> DEFINE Code(i, c) == /\ RiceCode(c, q(i), r(i), k)
                           /\ at[i] = at[i - 1] + Len(c) /\ Holds(bits, at[i - 1], c)
  <2> HIDE DEF k, bits
  <2>4. /\ bits \in Seq(Bit) /\ at \in [0..n -> Nat] /\ at[0] = 0
        /\ \A i \in 1..n : \E c : Code(i, c)
    BY <2>3 DEF RicePlaces
  <2>5. ASSUME NEW i \in 1..n
        PROVE  RiceRead(bits, at[i - 1], k) = [value |-> s[i], at |-> at[i]]
    <3> DEFINE a == at[i - 1]
    <3>1. i - 1 \in 0..n /\ s[i] \in Nat BY <2>1
    <3>2. q(i) \in Nat /\ r(i) \in Nat /\ r(i) < Pow2[k] /\ q(i) * Pow2[k] + r(i) = s[i]
      BY <2>2, <3>1, QuotientLemma
    <3> HIDE DEF q, r, n, Code
    <3>3. PICK c : Code(i, c) BY <2>4
    <3>4. RiceCode(c, q(i), r(i), k) /\ at[i] = a + Len(c) /\ Holds(bits, a, c) BY <3>3 DEF Code
    <3>5. a \in Nat BY <2>4, <3>1
    <3> HIDE DEF a
    <3>6. /\ bits \in Seq(Bit) /\ a \in Nat /\ q(i) \in Nat /\ k \in Nat /\ r(i) \in Nat
          /\ r(i) < Pow2[k] /\ RiceCode(c, q(i), r(i), k) /\ Holds(bits, a, c)
      BY <2>2, <2>4, <3>2, <3>4, <3>5
    <3>7. RiceRead(bits, a, k) = [value |-> q(i) * Pow2[k] + r(i), at |-> a + Len(c)]
      BY <3>6, RiceReadLemma
    <3> QED BY <3>2, <3>4, <3>7 DEF a
  <2> HIDE DEF n, Code
  <2> DEFINE p == RicePack(s)
             Rec(g) == [i \in 0..p.meta.n |->
                 IF i = 0 THEN [at |-> 0, values |-> <<>>]
                 ELSE [at |-> RiceRead(p.bits, g[i - 1].at, p.meta.k).at,
                       values |-> Append(g[i - 1].values,
                                         RiceRead(p.bits, g[i - 1].at, p.meta.k).value)]]
             sol == [i \in 0..n |-> [at |-> at[i], values |-> Firsts(s, i)]]
             read == CHOOSE g : g = Rec(g)
  <2>6. /\ p.meta.n = n /\ p.meta.k = k /\ p.bits = bits /\ p.meta # <<>>
         /\ RiceUnpack(p) = read[p.meta.n].values
    <3>1. [n |-> n, k |-> k] # <<>>
      <4>1. "n" \in DOMAIN [n |-> n, k |-> k] /\ DOMAIN <<>> = {} OBVIOUS
      <4> QED BY <4>1
    <3>2. p.meta = [n |-> n, k |-> k] /\ p.bits = bits BY <2>2 DEF bits
    <3>3. p.meta # <<>> BY <3>1, <3>2
    <3> HIDE DEF p
    <3>4. RiceUnpack(p) = read[p.meta.n].values BY <3>3, Zenon DEF RiceUnpack
    <3> QED BY <3>2, <3>3, <3>4
  <2>7. /\ Firsts(s, 0) = <<>> /\ Firsts(s, n) = s
         /\ \A i \in 1..n : Append(Firsts(s, i - 1), s[i]) = Firsts(s, i)
    BY FirstsLemma DEF n
  <2>8. \A i \in 1..n : i \in 0..n /\ i - 1 \in 0..n /\ i # 0 BY <2>1
  <2> HIDE DEF p
\* A turn of the loop.
  <2>9. ASSUME NEW i \in 1..n, NEW g, g[i - 1] = [at |-> at[i - 1], values |-> Firsts(s, i - 1)]
         PROVE  Rec(g)[i] = [at |-> at[i], values |-> Firsts(s, i)]
    <3>1. Rec(g)[i] = [at |-> RiceRead(bits, g[i - 1].at, k).at,
                       values |-> Append(g[i - 1].values, RiceRead(bits, g[i - 1].at, k).value)]
      BY <2>6, <2>8
    <3>2. g[i - 1].at = at[i - 1] /\ g[i - 1].values = Firsts(s, i - 1) BY <2>9
    <3>3. RiceRead(bits, at[i - 1], k) = [value |-> s[i], at |-> at[i]] BY <2>5
    <3>4. Append(Firsts(s, i - 1), s[i]) = Firsts(s, i) BY <2>7
    <3> HIDE DEF Rec
    <3>5. RiceRead(bits, g[i - 1].at, k) = [value |-> s[i], at |-> at[i]] BY <3>2, <3>3
    <3>6. /\ RiceRead(bits, g[i - 1].at, k).at = at[i]
          /\ RiceRead(bits, g[i - 1].at, k).value = s[i]
      BY <3>5
    <3>7. Append(g[i - 1].values, s[i]) = Firsts(s, i) BY <3>2, <3>4
    <3> QED BY <3>1, <3>6, <3>7
  <2>10. \A g : /\ Rec(g) = [i \in 0..n |-> Rec(g)[i]]
                /\ Rec(g)[0] = [at |-> at[0], values |-> Firsts(s, 0)]
    <3>1. 0 \in 0..n BY <2>1
    <3> QED BY <2>4, <2>6, <2>7, <3>1
  <2> HIDE DEF Rec
  <2>11. sol = Rec(sol)
    <3>1. ASSUME NEW i \in 0..n PROVE sol[i] = Rec(sol)[i]
      <4>1. CASE i = 0 BY <2>10, <4>1
      <4>2. CASE i # 0
        <5>1. i \in 1..n BY <2>1, <4>2
        <5>2. sol[i - 1] = [at |-> at[i - 1], values |-> Firsts(s, i - 1)] BY <2>8, <5>1
        <5>3. sol[i] = [at |-> at[i], values |-> Firsts(s, i)] OBVIOUS
        <5> HIDE DEF sol
        <5> QED BY <2>9, <5>1, <5>2, <5>3
      <4> QED BY <4>1, <4>2
    <3>2. sol = [i \in 0..n |-> sol[i]] OBVIOUS
    <3> HIDE DEF sol
    <3> QED BY <2>10, <3>1, <3>2
  <2>12. read = Rec(read)
    <3> HIDE DEF sol
    <3> QED BY <2>11
  <2> HIDE DEF read
  <2> DEFINE P == {i \in Nat : i <= n => read[i] = [at |-> at[i], values |-> Firsts(s, i)]}
  <2>13. 0 \in P BY <2>10, <2>12
  <2>14. ASSUME NEW i \in Nat, i \in P PROVE i + 1 \in P
    <3> SUFFICES ASSUME i + 1 <= n
                 PROVE  read[i + 1] = [at |-> at[i + 1], values |-> Firsts(s, i + 1)]
      OBVIOUS
    <3>1. i + 1 \in 1..n /\ (i + 1) - 1 = i /\ i <= n BY <2>1
    <3>2. read[i] = [at |-> at[i], values |-> Firsts(s, i)] BY <2>14, <3>1
    <3> DEFINE j == i + 1
    <3>3. j \in 1..n /\ read[j - 1] = [at |-> at[j - 1], values |-> Firsts(s, j - 1)]
      BY <3>1, <3>2
    <3> HIDE DEF P, j
    <3>4. Rec(read)[j] = [at |-> at[j], values |-> Firsts(s, j)] BY <2>9, <3>3
    <3> QED BY <2>12, <3>4 DEF j
  <2> HIDE DEF P
  <2>15. \A i \in Nat : i \in P BY <2>13, <2>14, SimpleInduction
  <2>16. read[n] = [at |-> at[n], values |-> Firsts(s, n)]
    <3>1. n \in P BY <2>1, <2>15
    <3> QED BY <2>1, <3>1 DEF P
  <2> QED BY <2>4, <2>6, <2>7, <2>16 DEF p, bits
<1> QED BY <1>1, <1>2

LEMMA TotalStep ==
  ASSUME NEW s \in Seq(Nat), NEW i \in 1..Len(s)
  PROVE  Total(Firsts(s, i)) = Total(Firsts(s, i - 1)) + s[i] /\ Total(Firsts(s, i - 1)) \in Nat
<1> DEFINE f == Firsts(s, i)
           g == Firsts(s, i - 1)
           m == i - 1
<1>1. m \in Nat /\ m + 1 = i /\ \A j \in 1..i : s[j] \in Nat OBVIOUS
<1>2. f \in [1..i -> Nat] /\ g \in [1..m -> Nat] BY <1>1 DEF Firsts
<1>3. f[i] = s[i] /\ \A j \in 1..m : g[j] = f[j]
  <2>1. i \in 1..i /\ \A j \in 1..m : j \in 1..i BY <1>1
  <2> QED BY <2>1 DEF Firsts
<1> HIDE DEF f, g, m
<1>4. f \in [1..(m + 1) -> Nat] BY <1>1, <1>2
<1>5. SumFunction(f) = SumFunction(g) + f[m + 1] /\ SumFunction(g) \in Nat
  BY <1>1, <1>2, <1>3, <1>4, SumAppend
<1> QED BY <1>1, <1>3, <1>5 DEF Total, f, g, m

\* Numbers below a bound have an average below it.
LEMMA AverageLemma ==
  ASSUME NEW s \in Seq(Nat), s # <<>>, NEW B \in Nat \ {0}, \A i \in 1..Len(s) : s[i] < B
  PROVE  Total(s) < Len(s) * B
<1> DEFINE n == Len(s)
           T(i) == Total(Firsts(s, i))
           P == {i \in Nat : i <= n => T(i) \in Nat /\ T(i) <= i * (B - 1)}
<1>1. n \in Nat \ {0} /\ \A i \in 1..n : s[i] \in Nat OBVIOUS
<1>2. T(0) = 0 /\ T(n) = Total(s)
  <2>1. Firsts(s, 0) = <<>> /\ Firsts(s, n) = s BY FirstsLemma
  <2>2. DOMAIN <<>> = {} OBVIOUS
  <2>3. SumFunction(<<>>) = 0 BY <2>2, SumEmpty
  <2> QED BY <2>1, <2>3 DEF Total
<1>3. \A i \in 1..n : T(i) = T(i - 1) + s[i] BY TotalStep
<1>4. \A i \in 1..n : s[i] <= B - 1 BY <1>1
<1> HIDE DEF n, T
<1>5. 0 \in P
  <2>1. 0 * (B - 1) = 0 OBVIOUS
  <2> QED BY <1>2, <2>1
<1>6. ASSUME NEW i \in Nat, i \in P PROVE i + 1 \in P
  <2> SUFFICES ASSUME i + 1 <= n PROVE T(i + 1) \in Nat /\ T(i + 1) <= (i + 1) * (B - 1) OBVIOUS
  <2>1. i + 1 \in 1..n /\ (i + 1) - 1 = i /\ i <= n BY <1>1
  <2>2. T(i + 1) = T(i) + s[i + 1] /\ s[i + 1] \in Nat /\ s[i + 1] <= B - 1 BY <1>1, <1>3, <1>4, <2>1
  <2>3. T(i) \in Nat /\ T(i) <= i * (B - 1) BY <1>6, <2>1
  <2>4. (i + 1) * (B - 1) = i * (B - 1) + (B - 1) /\ i * (B - 1) \in Int OBVIOUS
  <2> QED BY <2>2, <2>3, <2>4
<1> HIDE DEF P
<1>7. \A i \in Nat : i \in P BY <1>5, <1>6, SimpleInduction
<1>8. T(n) \in Nat /\ T(n) <= n * (B - 1)
  <2>1. n \in P BY <1>1, <1>7
  <2> QED BY <1>1, <2>1 DEF P
<1>9. n * (B - 1) = n * B - n /\ n * B \in Int BY <1>1
<1> QED BY <1>1, <1>2, <1>8, <1>9 DEF n

LEMMA RiceLength ==
  ASSUME NEW s \in Seq(Nat), s # <<>>, \A i \in 1..Len(s) : s[i] < Pow2[MaxRiceK + 1]
  PROVE  Len(RicePack(s).bits) < Len(s) * (RicePack(s).meta.k + 3) + ByteBits
<1> DEFINE n == Len(s)
           k == RiceParameter(s)
           p == Pow2[k]
           bits == RicePack(s).bits
           q(i) == s[i] \div p
           T(i) == Total(Firsts(s, i))
<1>0. MaxRiceK + 1 \in Nat /\ ByteBits \in Nat BY BitsAssumption
<1>1. n \in Nat \ {0} /\ \A i \in 1..n : s[i] \in Nat OBVIOUS
<1>2. k \in Nat /\ RicePack(s).meta = [n |-> n, k |-> k] BY RicePlacesLemma
<1>3. PICK at : RicePlaces(s, k, bits, at) BY RicePlacesLemma
<1>4. p \in Nat \ {0} /\ Pow2[k + 1] = 2 * p
  <2> HIDE DEF k
  <2> QED BY <1>2, Powers
<1>5. Total(s) < n * (2 * p)
  <2> DEFINE B == Pow2[MaxRiceK + 1]
  <2>1. B \in Nat \ {0} BY <1>0, Powers
  <2>2. \A i \in 1..Len(s) : s[i] < B OBVIOUS
  <2> HIDE DEF B
  <2>3. Total(s) < Len(s) * B BY <2>1, <2>2, AverageLemma
  <2>4. Total(s) < n * Pow2[k + 1] BY <2>3, RiceParameterLemma DEF B
  <2> HIDE DEF n, k
  <2> QED BY <1>4, <2>4
<1>6. T(0) = 0 /\ T(n) = Total(s) /\ T(n) \in Nat
  <2>1. Firsts(s, 0) = <<>> /\ Firsts(s, n) = s BY FirstsLemma
  <2>2. DOMAIN <<>> = {} OBVIOUS
  <2>3. SumFunction(<<>>) = 0 BY <2>2, SumEmpty
  <2>4. Total(s) \in Nat BY TotalLemma
  <2> QED BY <2>1, <2>3, <2>4 DEF Total
<1>7. \A i \in 1..n : T(i) = T(i - 1) + s[i] /\ T(i - 1) \in Nat BY TotalStep
<1> HIDE DEF bits, k, T
<1>8. /\ bits \in Seq(Bit) /\ at \in [0..n -> Nat] /\ at[0] = 0
      /\ \A i \in 1..n : \E c : RiceCode(c, q(i), s[i] % p, k) /\ at[i] = at[i - 1] + Len(c)
      /\ Len(bits) < at[n] + ByteBits
  BY <1>3 DEF RicePlaces
<1>9. ASSUME NEW i \in 1..n
      PROVE  q(i) \in Nat /\ q(i) * p <= s[i] /\ at[i] = at[i - 1] + q(i) + (k + 1)
  <2>1. s[i] \in Nat BY <1>1
  <2>2. /\ q(i) \in Nat /\ s[i] % p \in Nat /\ q(i) * p + (s[i] % p) = s[i]
    BY <1>2, <2>1, QuotientLemma
  <2>3. PICK c : RiceCode(c, q(i), s[i] % p, k) /\ at[i] = at[i - 1] + Len(c) BY <1>8
  <2> HIDE DEF q, p
  <2>4. Len(c) = q(i) + 1 + k
    <3> DEFINE r == s[i] % p
    <3>1. q(i) \in Nat /\ r \in Nat /\ k \in Nat /\ RiceCode(c, q(i), r, k) BY <1>2, <2>2, <2>3
    <3> HIDE DEF r
    <3> QED BY <3>1, RicePiece
  <2>5. q(i) * p \in Int BY <1>4, <2>2
  <2>6. i - 1 \in 0..n BY <1>1
  <2>7. at[i - 1] \in Nat BY <1>8, <2>6
  <2>8. q(i) * p <= s[i] BY <2>1, <2>2, <2>5
  <2>9. at[i] = at[i - 1] + q(i) + (k + 1)
    <3> DEFINE a == at[i - 1]
               b == q(i)
    <3>1. at[i] = a + (b + 1 + k) /\ a \in Nat /\ b \in Nat /\ k \in Nat BY <1>2, <2>2, <2>3, <2>4, <2>7
    <3> HIDE DEF a, b
    <3>2. at[i] = a + b + (k + 1) BY <3>1
    <3> QED BY <3>2 DEF a, b
  <2> QED BY <2>2, <2>8, <2>9
<1> HIDE DEF n, p, q
<1> DEFINE u(i) == at[i] - i * (k + 1)
           P == {i \in Nat : i <= n => u(i) * p <= T(i)}
<1>10. 0 \in P
  <2>1. 0 * (k + 1) = 0 /\ 0 * p = 0 BY <1>2, <1>4
  <2> QED BY <1>6, <1>8, <2>1
<1>11. ASSUME NEW i \in Nat, i \in P PROVE i + 1 \in P
  <2> SUFFICES ASSUME i + 1 <= n PROVE u(i + 1) * p <= T(i + 1) OBVIOUS
  <2>1. i + 1 \in 1..n /\ (i + 1) - 1 = i /\ i <= n /\ i \in 0..n BY <1>1
  <2> DEFINE x == q(i + 1)
  <2>2. x \in Nat /\ x * p <= s[i + 1] /\ at[i + 1] = at[i] + x + (k + 1) BY <1>9, <2>1
  <2>3. T(i + 1) = T(i) + s[i + 1] /\ T(i) \in Nat /\ s[i + 1] \in Nat BY <1>1, <1>7, <2>1
  <2>4. u(i) * p <= T(i) BY <1>11, <2>1
  <2>5. at[i] \in Nat BY <1>8, <2>1
  <2> HIDE DEF x
  <2>6. u(i + 1) = u(i) + x
    <3> DEFINE m == k + 1
    <3>1. m \in Int BY <1>2
    <3>2. at[i + 1] = at[i] + x + m BY <2>2
    <3>3. u(i + 1) = at[i + 1] - (i + 1) * m /\ u(i) = at[i] - i * m OBVIOUS
    <3> HIDE DEF m, u
    <3>4. (i + 1) * m = i * m + m /\ i * m \in Int BY <3>1
    <3> QED BY <2>2, <2>5, <3>1, <3>2, <3>3, <3>4
  <2>7. u(i) \in Int
    <3>1. i * (k + 1) \in Int BY <1>2
    <3> QED BY <2>5, <3>1
  <2> HIDE DEF u, P
  <2>8. (u(i) + x) * p = u(i) * p + x * p /\ u(i) * p \in Int /\ x * p \in Int
    BY <1>4, <2>2, <2>7, Products
  <2> QED BY <2>2, <2>3, <2>4, <2>6, <2>8
<1> HIDE DEF P
<1>12. \A i \in Nat : i \in P BY <1>10, <1>11, SimpleInduction
<1>13. u(n) * p <= T(n)
  <2>1. n \in P BY <1>1, <1>12
  <2> QED BY <1>1, <2>1 DEF P
<1>14. at[n] \in Nat /\ u(n) \in Int
  <2>1. n \in 0..n BY <1>1
  <2>2. n * (k + 1) \in Int BY <1>1, <1>2
  <2> QED BY <1>8, <2>1, <2>2
<1> HIDE DEF u
<1>15. u(n) < 2 * n
  <2> SUFFICES ASSUME u(n) >= 2 * n PROVE FALSE BY <1>1, <1>14
  <2>1. (u(n) - 2 * n) * p >= 0
    <3>1. u(n) - 2 * n \in Int /\ u(n) - 2 * n >= 0 /\ p \in Int /\ p >= 0 BY <1>1, <1>4, <1>14
    <3> QED BY <3>1, Products
  <2>2. /\ (u(n) - 2 * n) * p = u(n) * p - (2 * n) * p /\ (2 * n) * p = n * (2 * p)
        /\ u(n) * p \in Int /\ n * (2 * p) \in Int
    BY <1>1, <1>4, <1>14, Products
  <2> QED BY <1>5, <1>6, <1>13, <2>1, <2>2
<1>16. at[n] < n * (k + 3)
  <2>1. at[n] = u(n) + n * (k + 1) BY <1>1, <1>2, <1>14 DEF u
  <2>2. n * (k + 3) = n * (k + 1) + 2 * n /\ n * (k + 1) \in Int BY <1>1, <1>2
  <2> QED BY <1>1, <1>14, <1>15, <2>1, <2>2
<1>17. Len(bits) < n * (k + 3) + ByteBits
  <2>1. Len(bits) \in Nat /\ n * (k + 3) \in Int BY <1>1, <1>2, <1>8
  <2> QED BY <1>0, <1>8, <1>14, <1>16, <2>1
<1>18. RicePack(s).meta.k = k BY <1>2
<1> QED BY <1>17, <1>18 DEF n, bits

-----------------------------------------------------------------------------
(* Exponential Golomb codes *)

LEMMA HighBits ==
  ASSUME NEW n \in Nat, NEW k \in Nat
  PROVE  /\ HighFirst(n, k) \in [1..k -> Bit]
         /\ Reverse(HighFirst(n, k)) = LowFirst(n, k)
         /\ k >= 1 => HighFirst(n, k)[1] = LowFirst(n, k)[k]
<1> DEFINE l == LowFirst(n, k)
           h == HighFirst(n, k)
<1>1. l \in [1..k -> Bit] /\ Len(l) = k BY LowBits, BitsOf
<1>2. h = [i \in 1..k |-> l[(k - i) + 1]] BY <1>1 DEF HighFirst, Reverse
<1> HIDE DEF l, h
<1>3. \A i \in 1..k : (k - i) + 1 \in 1..k OBVIOUS
<1>4. h \in [1..k -> Bit] BY <1>1, <1>2, <1>3
<1>5. Len(h) = k BY <1>4
<1>6. Reverse(h) = [i \in 1..k |-> h[(k - i) + 1]] BY <1>5 DEF Reverse
<1>7. \A i \in 1..k : h[(k - i) + 1] = l[i]
  <2> SUFFICES ASSUME NEW i \in 1..k PROVE h[(k - i) + 1] = l[i] OBVIOUS
  <2>1. (k - i) + 1 \in 1..k /\ (k - ((k - i) + 1)) + 1 = i OBVIOUS
  <2> QED BY <1>2, <2>1
<1>8. l = [i \in 1..k |-> l[i]] BY <1>1
<1>9. Reverse(h) = l BY <1>6, <1>7, <1>8
<1>10. ASSUME k >= 1 PROVE h[1] = l[k]
  <2>1. 1 \in 1..k /\ (k - 1) + 1 = k BY <1>10
  <2> QED BY <1>2, <2>1
<1> QED BY <1>4, <1>9, <1>10 DEF l, h

\* The top bit of a number is set.
LEMMA TopBit ==
  ASSUME NEW n \in Nat \ {0}
  PROVE  LowFirst(n, BitLength[n])[BitLength[n]] = 1
<1> DEFINE w == BitLength[n]
           p == Pow2[w - 1]
<1>1. w \in Nat /\ w >= 1 /\ n < Pow2[w] /\ p <= n BY BitLengths
<1> HIDE DEF w
<1>2. w - 1 \in Nat /\ (w - 1) + 1 = w BY <1>1
<1>3. p \in Nat \ {0} /\ Pow2[w] = 2 * p BY <1>2, Powers
<1> HIDE DEF p
<1>4. n \div p = 1
  <2>1. n = p * 1 + (n - p) /\ n - p \in 0..(p - 1) /\ n \in Int BY <1>1, <1>3
  <2> QED BY <1>3, <2>1, DivisionUnique
<1>5. w \in 1..w /\ 1 % 2 = 1 BY <1>1
<1>6. LowFirst(n, w)[w] = (n \div p) % 2 BY <1>5 DEF LowFirst, p
<1> QED BY <1>4, <1>5, <1>6 DEF w

\* The code of a number whose quotient, plus 1, has w bits.
ExpShape(c, high, w, low, k) ==
  c = Copies(0, w - 1) \o HighFirst(high, w) \o LowFirst(low, k)

ExpLayout(c, high, w, low, k) ==
  /\ w \in Nat \ {0} /\ c \in Seq(Bit) /\ Len(c) = (w - 1) + w + k
  /\ \A j \in 1..(w - 1) : c[j] = 0
  /\ c[w] = 1
  /\ \A j \in 1..w : c[(w - 1) + j] = HighFirst(high, w)[j]
  /\ \A j \in 1..k : c[(w - 1) + w + j] = LowFirst(low, k)[j]

LEMMA ExpPiece ==
  ASSUME NEW high \in Nat \ {0}, NEW low \in Nat, NEW k \in Nat, NEW w, w = BitLength[high],
         NEW c, ExpShape(c, high, w, low, k)
  PROVE  ExpLayout(c, high, w, low, k)
<1> DEFINE u == Copies(0, w - 1)
           v == HighFirst(high, w)
           t == LowFirst(low, k)
<1>0. 0 \in Bit BY DEF Bit
<1>1. w \in Nat \ {0} BY BitLengths
<1>2. u \in Seq(Bit) /\ Len(u) = w - 1 /\ \A j \in 1..(w - 1) : u[j] = 0
  <2>1. w - 1 \in Nat BY <1>1
  <2> QED BY <1>0, <2>1, CopiesLemma
<1>3. v \in Seq(Bit) /\ Len(v) = w /\ v[1] = 1
  <2>1. v \in [1..w -> Bit] /\ v[1] = LowFirst(high, w)[w]
    <3>1. high \in Nat /\ w \in Nat /\ w >= 1 BY <1>1
    <3> QED BY <3>1, HighBits
  <2>2. LowFirst(high, w)[w] = 1 BY TopBit
  <2> HIDE DEF v
  <2> QED BY <1>1, <2>1, <2>2
<1>4. t \in Seq(Bit) /\ Len(t) = k BY BitsOf
<1>5. c = u \o v \o t BY DEF ExpShape
<1> HIDE DEF u, v, t
<1>6. /\ c \in Seq(Bit) /\ Len(c) = Len(u) + Len(v) + Len(t)
      /\ \A j \in 1..Len(u) : c[j] = u[j]
      /\ \A j \in 1..Len(v) : c[Len(u) + j] = v[j]
      /\ \A j \in 1..Len(t) : c[Len(u) + Len(v) + j] = t[j]
  <2>1. u \in Seq(Bit) /\ v \in Seq(Bit) /\ t \in Seq(Bit) BY <1>2, <1>3, <1>4
  <2> QED BY <1>5, <2>1, ThreePieces
<1>7. Len(c) = (w - 1) + w + k BY <1>2, <1>3, <1>4, <1>6
<1>8. \A j \in 1..(w - 1) : c[j] = 0 BY <1>2, <1>6
<1>9. \A j \in 1..w : c[(w - 1) + j] = v[j] BY <1>2, <1>3, <1>6
<1>10. c[w] = 1
  <2>1. 1 \in 1..w /\ (w - 1) + 1 = w BY <1>1
  <2> QED BY <1>3, <1>9, <2>1
<1>11. \A j \in 1..k : c[(w - 1) + w + j] = t[j] BY <1>2, <1>3, <1>4, <1>6
<1> QED BY <1>1, <1>6, <1>7, <1>8, <1>9, <1>10, <1>11 DEF v, t, ExpLayout

\* A turn of the loop that decodes.
ExpOnes(b, a) == {j \in (a + 1)..Len(b) : b[j] = 1}
ExpStop(b, a, k) == Min(ExpOnes(b, a)) + (Min(ExpOnes(b, a)) - a - 1) + k
ExpNumber(b, a, k) ==
  FromUnsigned((FromLowFirst(Reverse(SubSeq(b, Min(ExpOnes(b, a)),
                                            Min(ExpOnes(b, a)) + (Min(ExpOnes(b, a)) - a - 1)))) - 1)
               * Pow2[k] + FromLowFirst(SubSeq(b, ExpStop(b, a, k) - k + 1, ExpStop(b, a, k))))
ExpTurn(b, k, before) ==
  IF ExpOnes(b, before.at) = {} \/ ExpStop(b, before.at, k) > Len(b) THEN before
  ELSE [at |-> ExpStop(b, before.at, k),
        values |-> Append(before.values, ExpNumber(b, before.at, k))]

LEMMA ExpReadLemma ==
  ASSUME NEW b \in Seq(Bit), NEW a \in Nat, NEW high \in Nat \ {0}, NEW low \in Nat, NEW k \in Nat,
         low < Pow2[k], NEW c, ExpShape(c, high, BitLength[high], low, k), Holds(b, a, c)
  PROVE  /\ ExpOnes(b, a) # {} /\ ExpStop(b, a, k) = a + Len(c)
         /\ ExpNumber(b, a, k) = FromUnsigned((high - 1) * Pow2[k] + low)
<1> DEFINE w == BitLength[high]
           S == ExpOnes(b, a)
           m == a + w
           h == HighFirst(high, w)
           l == LowFirst(low, k)
<1>1. /\ w \in Nat \ {0} /\ c \in Seq(Bit) /\ Len(c) = (w - 1) + w + k
      /\ \A j \in 1..(w - 1) : c[j] = 0
      /\ c[w] = 1
      /\ \A j \in 1..w : c[(w - 1) + j] = h[j]
      /\ \A j \in 1..k : c[(w - 1) + w + j] = l[j]
  <2> HIDE DEF w
  <2>1. ExpShape(c, high, w, low, k) BY DEF w
  <2>2. w = BitLength[high] BY DEF w
  <2>3. ExpLayout(c, high, w, low, k) BY <2>1, <2>2, ExpPiece
  <2> QED BY <2>3 DEF ExpLayout
<1>2. h \in [1..w -> Bit] /\ FromLowFirst(Reverse(h)) = high
  <2>1. high \in Nat /\ w \in Nat /\ high < Pow2[w] BY BitLengths
  <2> HIDE DEF w
  <2>2. h \in [1..w -> Bit] /\ Reverse(h) = LowFirst(high, w) BY <2>1, HighBits
  <2>3. FromLowFirst(LowFirst(high, w)) = high BY <2>1, LowBits
  <2> QED BY <2>2, <2>3
<1>3. l \in [1..k -> Bit] /\ FromLowFirst(l) = low BY LowBits
<1> HIDE DEF w, h, l
<1>4. Len(b) \in Nat OBVIOUS
<1>5. a + Len(c) <= Len(b) /\ \A j \in 1..Len(c) : b[a + j] = c[j] BY DEF Holds
<1>6. S # {} /\ Min(S) = m
  <2>1. S = {j \in (a + 1)..Len(b) : b[j] = 1} BY DEF ExpOnes
  <2>2. m \in S
    <3>1. w \in 1..Len(c) BY <1>1
    <3>2. b[m] = 1 BY <1>1, <1>5, <3>1
    <3>3. m \in (a + 1)..Len(b) BY <1>1, <1>4, <1>5
    <3> QED BY <2>1, <3>2, <3>3
  <2>3. ASSUME NEW y \in S PROVE m <= y
    <3>1. y \in (a + 1)..Len(b) /\ b[y] = 1 BY <2>1
    <3>2. CASE y < m
      <4> DEFINE j == y - a
      <4>1. j \in 1..(w - 1) /\ j \in 1..Len(c) /\ a + j = y BY <1>1, <1>4, <3>1, <3>2
      <4> HIDE DEF j
      <4>2. b[y] = 0 BY <1>1, <1>5, <4>1
      <4> QED BY <3>1, <4>2
    <3> QED BY <1>1, <1>4, <3>1, <3>2
  <2>4. S \in SUBSET Int /\ IsFiniteSet(S)
    <3>1. a + 1 \in Int /\ Len(b) \in Int BY <1>4
    <3>2. IsFiniteSet((a + 1)..Len(b)) BY <3>1, FiniteRange
    <3>3. S \subseteq (a + 1)..Len(b) BY <2>1
    <3> QED BY <3>2, <3>3, FS_Subset
  <2> HIDE DEF S, m
  <2>5. Min(S) = m BY <2>2, <2>3, <2>4, LeastLemma
  <2> QED BY <2>2, <2>5
<1>7. ExpStop(b, a, k) = m + (m - a - 1) + k
  <2> HIDE DEF S, m
  <2> QED BY <1>6 DEF ExpStop, S
<1>8. m + (m - a - 1) + k = a + Len(c) BY <1>1
<1>9. SubSeq(b, m, m + (m - a - 1)) = h
  <2> DEFINE x == a + (w - 1)
  <2>1. x \in Nat /\ x + w <= Len(b) /\ x + 1 = m /\ x + w = m + (m - a - 1) BY <1>1, <1>4, <1>5
  <2>2. \A j \in 1..w : b[x + j] = h[j]
    <3> SUFFICES ASSUME NEW j \in 1..w PROVE b[x + j] = h[j] OBVIOUS
    <3> DEFINE y == (w - 1) + j
    <3>1. y \in 1..Len(c) /\ a + y = x + j BY <1>1
    <3>2. c[y] = h[j] BY <1>1
    <3> HIDE DEF x, y
    <3> QED BY <1>5, <3>1, <3>2
  <2> HIDE DEF x, m
  <2>3. SubSeq(b, x + 1, x + w) = h
    <3>1. w \in Nat /\ h \in [1..w -> Bit] BY <1>1, <1>2
    <3>2. x \in Nat /\ x + w <= Len(b) /\ b \in Seq(Bit) BY <2>1
    <3> QED BY <2>2, <3>1, <3>2, Piece
  <2> QED BY <2>1, <2>3
<1>10. \A stop : stop = a + Len(c) => SubSeq(b, stop - k + 1, stop) = l
  <2> DEFINE x == a + (w - 1) + w
  <2>1. x \in Nat /\ x + k <= Len(b) /\ x + k = a + Len(c) BY <1>1, <1>4, <1>5
  <2>2. \A j \in 1..k : b[x + j] = l[j]
    <3> SUFFICES ASSUME NEW j \in 1..k PROVE b[x + j] = l[j] OBVIOUS
    <3> DEFINE y == (w - 1) + w + j
    <3>1. y \in 1..Len(c) /\ a + y = x + j BY <1>1
    <3>2. c[y] = l[j] BY <1>1
    <3> HIDE DEF x, y
    <3> QED BY <1>5, <3>1, <3>2
  <2> HIDE DEF x
  <2>3. SubSeq(b, x + 1, x + k) = l BY <1>3, <2>1, <2>2, Piece
  <2>4. ASSUME NEW stop, stop = a + Len(c) PROVE SubSeq(b, stop - k + 1, stop) = l
    <3>1. stop = x + k /\ stop - k + 1 = x + 1 BY <2>1, <2>4
    <3> QED BY <2>3, <3>1
  <2> QED BY <2>4
<1> HIDE DEF m
<1>11. ExpStop(b, a, k) = a + Len(c) BY <1>7, <1>8
<1>12. SubSeq(b, ExpStop(b, a, k) - k + 1, ExpStop(b, a, k)) = l BY <1>10, <1>11
<1>13. ExpNumber(b, a, k) = FromUnsigned((FromLowFirst(Reverse(h)) - 1) * Pow2[k] + FromLowFirst(l))
  <2>1. SubSeq(b, Min(S), Min(S) + (Min(S) - a - 1)) = h BY <1>6, <1>9
  <2> QED BY <1>12, <2>1 DEF ExpNumber
<1> QED BY <1>2, <1>3, <1>6, <1>11, <1>13

LEMMA ExpCodeLemma ==
  ASSUME NEW v \in Nat, NEW k \in Nat
  PROVE  /\ ExpCode(v, k) \in Seq(Bit)
         /\ \E high \in Nat \ {0}, low \in Nat :
              /\ low < Pow2[k] /\ ExpShape(ExpCode(v, k), high, BitLength[high], low, k)
              /\ FromUnsigned((high - 1) * Pow2[k] + low) = v
<1> DEFINE U == ToUnsigned(v)
           high == U \div Pow2[k] + 1
           low == U % Pow2[k]
           c == ExpCode(v, k)
<1>1. U = 2 * v /\ U \in Nat BY DEF ToUnsigned
<1>2. ExpShape(c, high, BitLength[high], low, k) BY DEF ExpCode, ExpShape
<1> HIDE DEF U, c
<1>3. /\ U \div Pow2[k] \in Nat /\ low \in Nat /\ low < Pow2[k]
      /\ (U \div Pow2[k]) * Pow2[k] + low = U
  BY <1>1, QuotientLemma
<1>4. high \in Nat \ {0} /\ high - 1 = U \div Pow2[k] BY <1>3
<1> HIDE DEF high, low
<1>5. FromUnsigned((high - 1) * Pow2[k] + low) = v
  <2>1. (high - 1) * Pow2[k] + low = U BY <1>3, <1>4
  <2>2. U % 2 = 0 /\ U \div 2 = v BY <1>1
  <2> QED BY <2>1, <2>2 DEF FromUnsigned
<1>6. c \in Seq(Bit)
  <2> DEFINE w == BitLength[high]
  <2>1. ExpShape(c, high, w, low, k) BY <1>2
  <2>2. w = BitLength[high] OBVIOUS
  <2> HIDE DEF w
  <2>3. ExpLayout(c, high, w, low, k) BY <1>3, <1>4, <2>1, <2>2, ExpPiece
  <2> QED BY <2>3 DEF ExpLayout
<1> QED BY <1>2, <1>3, <1>4, <1>5, <1>6 DEF c

LEMMA ExpReturns ==
  ASSUME NEW s \in Seq(Nat), NEW k \in Nat
  PROVE  ExpEncode(s, k) \in Seq(Bit) /\ ExpDecode(ExpEncode(s, k), k, Len(s)) = s
<1> DEFINE n == Len(s)
           seqs == [i \in 1..n |-> ExpCode(s[i], k)]
           bits == Padded(FlattenSeq(seqs))
<1>1. n \in Nat /\ DOMAIN s = 1..n /\ \A i \in 1..n : s[i] \in Nat OBVIOUS
<1>2. ExpEncode(s, k) = bits BY <1>1 DEF ExpEncode
<1>3. \A i \in 1..n : seqs[i] = ExpCode(s[i], k) /\ seqs[i] \in Seq(Bit) BY <1>1, ExpCodeLemma
<1>4. seqs \in [1..n -> Seq(Bit)] BY <1>3
<1> HIDE DEF n, seqs
<1>5. bits \in Seq(Bit) /\ \E at : Placed(bits, n, seqs, at) BY <1>1, <1>4, PaddedPieces
<1>6. PICK at : Placed(bits, n, seqs, at) BY <1>5
<1> HIDE DEF bits
<1>7. /\ at \in [0..n -> Nat] /\ at[0] = 0
      /\ \A i \in 1..n : at[i] = at[i - 1] + Len(seqs[i]) /\ at[i] <= Len(bits)
      /\ \A i \in 1..n : \A j \in 1..Len(seqs[i]) : bits[at[i - 1] + j] = seqs[i][j]
  BY <1>6 DEF Placed
<1> DEFINE Done(i) == [at |-> at[i], values |-> Firsts(s, i)]
           Rec(g) == [i \in 0..n |-> IF i = 0 THEN [at |-> 0, values |-> <<>>]
                                     ELSE ExpTurn(bits, k, g[i - 1])]
           read == CHOOSE g : g = Rec(g)
<1>8. ExpDecode(bits, k, n) = read[n].values BY Zenon DEF ExpDecode, ExpTurn, ExpOnes, ExpStop, ExpNumber
<1>9. /\ Firsts(s, 0) = <<>> /\ Firsts(s, n) = s
      /\ \A i \in 1..n : Append(Firsts(s, i - 1), s[i]) = Firsts(s, i)
  BY FirstsLemma DEF n
<1>10. \A i \in 1..n : i \in 0..n /\ i - 1 \in 0..n /\ i # 0 BY <1>1
\* A turn of the loop.
<1>11. ASSUME NEW i \in 1..n PROVE ExpTurn(bits, k, Done(i - 1)) = Done(i)
  <2> DEFINE a == at[i - 1]
             c == seqs[i]
             before == Done(i - 1)
  <2>1. a \in Nat /\ at[i] = a + Len(c) /\ at[i] <= Len(bits) BY <1>7, <1>10
  <2>2. Holds(bits, a, c) BY <1>7, <2>1 DEF Holds
  <2>3. before.at = a /\ before.values = Firsts(s, i - 1) OBVIOUS
  <2>4. c = ExpCode(s[i], k) /\ s[i] \in Nat BY <1>1, <1>3
  <2> HIDE DEF a, c, before
  <2>5. PICK high \in Nat \ {0}, low \in Nat :
          /\ low < Pow2[k] /\ ExpShape(c, high, BitLength[high], low, k)
          /\ FromUnsigned((high - 1) * Pow2[k] + low) = s[i]
    BY <2>4, ExpCodeLemma
  <2>6. /\ ExpOnes(bits, a) # {} /\ ExpStop(bits, a, k) = a + Len(c)
        /\ ExpNumber(bits, a, k) = s[i]
    BY <1>5, <2>1, <2>2, <2>5, ExpReadLemma
  <2>7. ~(ExpStop(bits, a, k) > Len(bits))
    <3>0. i \in 0..n BY <1>10
    <3>1. Len(bits) \in Nat /\ at[i] \in Nat
      <4>1. at[i] \in Nat BY <1>7, <3>0
      <4>2. \A b \in Seq(Bit) : Len(b) \in Nat OBVIOUS
      <4> QED BY <1>5, <4>1, <4>2
    <3> QED BY <2>1, <2>6, <3>1
  <2>8. ExpTurn(bits, k, before) = [at |-> ExpStop(bits, a, k),
                                   values |-> Append(before.values, ExpNumber(bits, a, k))]
    BY <2>3, <2>6, <2>7 DEF ExpTurn
  <2>9. ExpTurn(bits, k, before) = [at |-> at[i], values |-> Append(Firsts(s, i - 1), s[i])]
    BY <2>1, <2>3, <2>6, <2>8
  <2>10. ExpTurn(bits, k, before) = [at |-> at[i], values |-> Firsts(s, i)] BY <1>9, <2>9
  <2> QED BY <2>10 DEF before
<1> DEFINE sol == [i \in 0..n |-> Done(i)]
<1>12. Done(0) = [at |-> 0, values |-> <<>>] BY <1>7, <1>9
<1>13. sol = Rec(sol)
  <2>1. ASSUME NEW i \in 0..n PROVE sol[i] = Rec(sol)[i]
    <3>1. CASE i = 0
      <4> HIDE DEF Done
      <4> QED BY <1>12, <3>1
    <3>2. CASE i # 0
      <4>1. i \in 1..n BY <1>1, <3>2
      <4>2. sol[i - 1] = Done(i - 1) /\ sol[i] = Done(i) BY <1>10, <4>1
      <4>3. Rec(sol)[i] = ExpTurn(bits, k, sol[i - 1]) BY <3>2
      <4> HIDE DEF Done, sol
      <4> QED BY <1>11, <4>1, <4>2, <4>3
    <3> QED BY <3>1, <3>2
  <2> HIDE DEF Done
  <2>2. sol = [i \in 0..n |-> sol[i]] /\ Rec(sol) = [i \in 0..n |-> Rec(sol)[i]] OBVIOUS
  <2> HIDE DEF sol, Rec
  <2> QED BY <2>1, <2>2
<1>14. read = Rec(read)
  <2> HIDE DEF sol, Rec
  <2> QED BY <1>13
<1> HIDE DEF read, Done
<1> DEFINE P == {i \in Nat : i <= n => read[i] = Done(i)}
<1>15. 0 \in P
  <2>1. 0 \in 0..n BY <1>1
  <2>2. read[0] = [at |-> 0, values |-> <<>>] BY <1>14, <2>1
  <2> QED BY <1>12, <2>2
<1>16. ASSUME NEW i \in Nat, i \in P PROVE i + 1 \in P
  <2> SUFFICES ASSUME i + 1 <= n PROVE read[i + 1] = Done(i + 1) OBVIOUS
  <2> DEFINE j == i + 1
  <2>1. j \in 1..n /\ j - 1 = i /\ i <= n /\ j # 0 /\ j \in 0..n BY <1>1
  <2>2. read[j - 1] = Done(j - 1) BY <1>16, <2>1
  <2> HIDE DEF j, P
  <2>3. read[j] = ExpTurn(bits, k, read[j - 1]) BY <1>14, <2>1
  <2>4. read[j] = Done(j) BY <1>11, <2>1, <2>2, <2>3
  <2> QED BY <2>4 DEF j
<1> HIDE DEF P
<1>17. \A i \in Nat : i \in P BY <1>15, <1>16, SimpleInduction
<1>18. read[n] = Done(n)
  <2>1. n \in P BY <1>1, <1>17
  <2> QED BY <1>1, <2>1 DEF P
<1>19. Done(n).values = s BY <1>9 DEF Done
<1> QED BY <1>2, <1>5, <1>8, <1>18, <1>19 DEF n

-----------------------------------------------------------------------------
(* Huffman codes *)

LEMMA HuffmanBits ==
  ASSUME NEW table, NEW s, s \in Seq(DOMAIN table), \A v \in DOMAIN table : table[v] \in Seq(Bit)
  PROVE  HuffmanEncode(table, s) \in Seq(Bit)
<1> DEFINE seqs == [i \in DOMAIN s |-> table[s[i]]]
<1>1. Len(s) \in Nat /\ DOMAIN s = 1..Len(s) /\ \A i \in DOMAIN s : s[i] \in DOMAIN table OBVIOUS
<1>2. seqs \in [1..Len(s) -> Seq(Bit)] BY <1>1
<1> HIDE DEF seqs
<1>3. Padded(FlattenSeq(seqs)) \in Seq(Bit) BY <1>1, <1>2, PaddedPieces
<1> QED BY <1>3 DEF HuffmanEncode, seqs

\* A table whose codes fit their word, none of which begins another.
Usable(table) ==
  /\ IsFiniteSet(DOMAIN table)
  /\ \A v \in DOMAIN table : table[v] \in Seq(Bit) /\ Len(table[v]) \in 1..CodeBits
  /\ \A v, w \in DOMAIN table : v # w => Differ(table[v], table[w])

\* A decoder finds the symbol of every code, and nothing on the way to one.
LEMMA MapLemma ==
  ASSUME NEW table, Usable(table), NEW map \in DecodeMaps(table)
  PROVE  /\ DOMAIN map = {table[v] : v \in DOMAIN table} /\ IsFiniteSet(DOMAIN map)
         /\ \A c \in DOMAIN map : map[c] \in DOMAIN table
         /\ \A v \in DOMAIN table : /\ table[v] \in DOMAIN map /\ map[table[v]] = v
                                    /\ \A j \in 0..(Len(table[v]) - 1) : Firsts(table[v], j) \notin DOMAIN map
<1> DEFINE codes == {table[v] : v \in DOMAIN table}
<1>1. map \in [codes -> DOMAIN table] /\ \A c \in codes : table[map[c]] = c BY DEF DecodeMaps
<1>2. /\ IsFiniteSet(DOMAIN table)
      /\ \A v \in DOMAIN table : table[v] \in Seq(Bit) /\ Len(table[v]) \in 1..CodeBits
      /\ \A v, w \in DOMAIN table : v # w => Differ(table[v], table[w])
  BY DEF Usable
<1>3. IsFiniteSet(codes)
  <2> DEFINE f == [v \in DOMAIN table |-> table[v]]
  <2>1. codes = {f[v] : v \in DOMAIN table} /\ DOMAIN f = DOMAIN table
        /\ f = [v \in DOMAIN table |-> f[v]]
    OBVIOUS
  <2> HIDE DEF f, codes
  <2>2. IsFiniteSet({f[v] : v \in DOMAIN table}) BY <1>2, <2>1, ImageLemma
  <2> QED BY <2>1, <2>2
<1>4. ASSUME NEW v \in DOMAIN table PROVE table[v] \in codes /\ map[table[v]] = v
  <2> DEFINE w == map[table[v]]
  <2>1. table[v] \in codes OBVIOUS
  <2>2. w \in DOMAIN table /\ table[w] = table[v] BY <1>1, <2>1
  <2> HIDE DEF w
  <2>3. w # v => Differ(table[w], table[v]) BY <1>2, <2>2
  <2>4. w = v BY <2>2, <2>3 DEF Differ
  <2> QED BY <2>1, <2>4 DEF w
<1>5. ASSUME NEW v \in DOMAIN table, NEW j \in 0..(Len(table[v]) - 1)
      PROVE  Firsts(table[v], j) \notin codes
  <2> SUFFICES ASSUME Firsts(table[v], j) \in codes PROVE FALSE OBVIOUS
  <2> DEFINE c == table[v]
  <2>1. c \in Seq(Bit) /\ Len(c) \in Nat BY <1>2
  <2>2. PICK w \in DOMAIN table : table[w] = Firsts(c, j) OBVIOUS
  <2>3. j \in 0..Len(c) /\ j < Len(c) /\ j \in Nat BY <2>1
  <2> HIDE DEF c
  <2>4. Len(Firsts(c, j)) = j BY <2>1, <2>3, FirstsLemma
  <2>5. w # v BY <2>2, <2>3, <2>4 DEF c
  <2>6. Differ(table[w], c) BY <1>2, <2>5 DEF c
  <2>7. PICK i \in Nat \ {0} : i <= j /\ Firsts(c, j)[i] # c[i] BY <2>2, <2>4, <2>6 DEF Differ
  <2>8. i \in 1..j BY <2>3, <2>7
  <2> QED BY <2>7, <2>8 DEF Firsts
<1>6. DOMAIN map = codes /\ \A c \in codes : map[c] \in DOMAIN table BY <1>1
<1> QED BY <1>3, <1>4, <1>5, <1>6

\* A turn of the loop that decodes.
HuffmanTurn(map, bit, n, before) ==
  IF Len(before.values) = n THEN before
  ELSE IF Kept(Append(before.code, bit)) \in DOMAIN map
  THEN [code |-> <<>>, values |-> Append(before.values, map[Kept(Append(before.code, bit))])]
  ELSE [before EXCEPT !.code = Kept(Append(before.code, bit))]

LEMMA KeptLemma ==
  ASSUME NEW c \in Seq(Bit)
  PROVE  /\ Kept(c) \in Seq(Bit) /\ Len(Kept(c)) = Len(c)
         /\ Len(c) <= CodeBits => Kept(c) = c
<1> DEFINE n == Len(c)
<1>1. n \in Nat /\ DOMAIN c = 1..n /\ \A i \in 1..n : c[i] \in Bit OBVIOUS
<1>2. 0 \in Bit BY DEF Bit
<1>3. Kept(c) = [i \in 1..n |-> IF i <= n - CodeBits THEN 0 ELSE c[i]] BY <1>1 DEF Kept
<1>4. Kept(c) \in [1..n -> Bit] BY <1>1, <1>2, <1>3
<1>5. ASSUME n <= CodeBits PROVE Kept(c) = c
  <2>1. CodeBits \in Nat BY BitsAssumption
  <2>2. \A i \in 1..n : ~(i <= n - CodeBits) BY <1>1, <1>5, <2>1
  <2>3. Kept(c) = [i \in 1..n |-> c[i]] BY <1>3, <2>2
  <2>4. c = [i \in 1..n |-> c[i]] BY <1>1
  <2> QED BY <2>3, <2>4
<1> HIDE DEF n
<1>6. Kept(c) \in Seq(Bit) /\ Len(Kept(c)) = n BY <1>1, <1>4
<1> QED BY <1>5, <1>6 DEF n

\* The loop has a result, whatever the bits are.
HuffmanWalk(map, bits, n, g) ==
  /\ g[0] = [code |-> <<>>, values |-> <<>>]
  /\ \A i \in 1..Len(bits) : g[i] = HuffmanTurn(map, bits[i], n, g[i - 1])
  /\ Symbols(map, bits, n) = g[Len(bits)].values

LEMMA WalkLemma ==
  ASSUME NEW W, NEW map, \A c \in DOMAIN map : map[c] \in W, NEW bits \in Seq(Bit), NEW n \in Nat
  PROVE  \E g : HuffmanWalk(map, bits, n, g)
<1> DEFINE m == Len(bits)
           V == [code : Seq(Bit), values : Seq(W)]
           start == [code |-> <<>>, values |-> <<>>]
           c == [i \in Nat |-> start]
           D == [i \in Nat |-> [v \in V |-> IF i \in 1..m THEN HuffmanTurn(map, bits[i], n, v) ELSE v]]
           below == [i \in Nat |-> i - 1]
           Rec(g) == [i \in 0..m |-> IF i = 0 THEN start ELSE HuffmanTurn(map, bits[i], n, g[i - 1])]
<1>1. m \in Nat /\ \A i \in 1..m : bits[i] \in Bit OBVIOUS
<1>2. ASSUME NEW v \in V, NEW bit \in Bit PROVE HuffmanTurn(map, bit, n, v) \in V
  <2> DEFINE code == Kept(Append(v.code, bit))
  <2>1. v.code \in Seq(Bit) /\ v.values \in Seq(W) /\ v = [code |-> v.code, values |-> v.values] OBVIOUS
  <2>2. Append(v.code, bit) \in Seq(Bit) BY <2>1
  <2>3. code \in Seq(Bit) BY <2>2, KeptLemma
  <2>4. HuffmanTurn(map, bit, n, v) =
          IF Len(v.values) = n THEN v
          ELSE IF code \in DOMAIN map THEN [code |-> <<>>, values |-> Append(v.values, map[code])]
          ELSE [v EXCEPT !.code = code]
    BY DEF HuffmanTurn
  <2> HIDE DEF code
  <2>5. CASE Len(v.values) = n BY <2>4, <2>5
  <2>6. CASE Len(v.values) # n /\ code \in DOMAIN map
    <3>1. map[code] \in W BY <2>6
    <3>2. Append(v.values, map[code]) \in Seq(W) /\ <<>> \in Seq(Bit) BY <2>1, <3>1
    <3> QED BY <2>4, <2>6, <3>2
  <2>7. CASE Len(v.values) # n /\ code \notin DOMAIN map
    <3>1. [v EXCEPT !.code = code] = [code |-> code, values |-> v.values] BY <2>1
    <3> QED BY <2>1, <2>3, <2>4, <2>7, <3>1
  <2> QED BY <2>5, <2>6, <2>7
<1>3. start \in V
  <2>1. <<>> \in Seq(Bit) /\ <<>> \in Seq(W) OBVIOUS
  <2> QED BY <2>1
<1> HIDE DEF m, V, start
<1>4. PICK f \in [Nat -> V] : Solves(f, Nat, {0}, c, below, D)
  <2>1. \A i \in Nat \cap {0} : c[i] \in V BY <1>3
  <2>2. \A i \in Nat \ {0} : below[i] \in Nat /\ below[i] < i OBVIOUS
  <2>3. \A i \in Nat \ {0} : \A v \in V : D[i][v] \in V BY <1>1, <1>2
  <2> HIDE DEF c, below, D
  <2> QED BY <2>1, <2>2, <2>3, Recursion
<1>5. f[0] = start
  <2>1. f[0] = c[0] BY <1>4 DEF Solves
  <2> QED BY <2>1
<1>6. ASSUME NEW i \in 1..m PROVE f[i] = HuffmanTurn(map, bits[i], n, f[i - 1])
  <2>1. i \in Nat \ {0} /\ i \notin {0} /\ i - 1 \in Nat BY <1>1
  <2>2. f[i] = D[i][f[below[i]]] BY <1>4, <2>1 DEF Solves
  <2>3. f[i - 1] \in V /\ below[i] = i - 1 BY <1>4, <2>1
  <2> QED BY <2>1, <2>2, <2>3
<1> DEFINE sol == [i \in 0..m |-> f[i]]
           g == CHOOSE h : h = Rec(h)
<1>7. sol = Rec(sol)
  <2>1. ASSUME NEW i \in 0..m PROVE sol[i] = Rec(sol)[i]
    <3>1. CASE i = 0 BY <1>5, <3>1
    <3>2. CASE i # 0
      <4>1. i \in 1..m /\ i - 1 \in 0..m BY <1>1, <3>2
      <4>2. sol[i - 1] = f[i - 1] /\ sol[i] = f[i] BY <4>1
      <4>3. Rec(sol)[i] = HuffmanTurn(map, bits[i], n, sol[i - 1]) BY <3>2
      <4> HIDE DEF sol
      <4> QED BY <1>6, <4>1, <4>2, <4>3
    <3> QED BY <3>1, <3>2
  <2>2. sol = [i \in 0..m |-> sol[i]] /\ Rec(sol) = [i \in 0..m |-> Rec(sol)[i]] OBVIOUS
  <2> HIDE DEF sol, Rec
  <2> QED BY <2>1, <2>2
<1>8. g = Rec(g)
  <2> HIDE DEF sol, Rec
  <2> QED BY <1>7
<1>9. Symbols(map, bits, n) = g[m].values
  BY Zenon DEF Symbols, HuffmanTurn, m, start
<1> HIDE DEF g
<1>10. g[0] = start
  <2>1. 0 \in 0..m BY <1>1
  <2> QED BY <1>8, <2>1
<1>11. \A i \in 1..m : g[i] = HuffmanTurn(map, bits[i], n, g[i - 1])
  <2> SUFFICES ASSUME NEW i \in 1..m PROVE g[i] = HuffmanTurn(map, bits[i], n, g[i - 1]) OBVIOUS
  <2>1. i \in 0..m /\ i # 0 BY <1>1
  <2> QED BY <1>8, <2>1
<1>12. HuffmanWalk(map, bits, n, g) BY <1>9, <1>10, <1>11 DEF HuffmanWalk, m, start
<1> QED BY <1>12

\* Reading the j-th bit of the code of the i-th symbol.
LEMMA HuffmanTurnLemma ==
  ASSUME NEW table, Usable(table), NEW map \in DecodeMaps(table), NEW s \in Seq(DOMAIN table),
         NEW i \in 1..Len(s), NEW c, c = table[s[i]], NEW j \in 1..Len(c)
  PROVE  HuffmanTurn(map, c[j], Len(s), [code |-> Firsts(c, j - 1), values |-> Firsts(s, i - 1)]) =
           IF j < Len(c) THEN [code |-> Firsts(c, j), values |-> Firsts(s, i - 1)]
           ELSE [code |-> <<>>, values |-> Firsts(s, i)]
<1> DEFINE n == Len(s)
           v == s[i]
           code == Firsts(c, j)
           before == [code |-> Firsts(c, j - 1), values |-> Firsts(s, i - 1)]
<1>1. n \in Nat /\ v \in DOMAIN table OBVIOUS
<1>2. c \in Seq(Bit) /\ Len(c) \in 1..CodeBits BY <1>1 DEF Usable
<1>3. CodeBits \in Nat /\ Len(c) \in Nat /\ j \in 0..Len(c) /\ j <= CodeBits BY <1>2, BitsAssumption
<1>4. Append(Firsts(c, j - 1), c[j]) = code /\ code \in Seq(Bit) /\ Len(code) = j /\ Firsts(c, Len(c)) = c
  BY <1>2, <1>3, FirstsLemma
<1>5. Append(Firsts(s, i - 1), v) = Firsts(s, i) /\ Len(Firsts(s, i - 1)) = i - 1
  <2>1. i - 1 \in 0..n BY <1>1
  <2> QED BY <2>1, FirstsLemma
<1>6. before.code = Firsts(c, j - 1) /\ before.values = Firsts(s, i - 1) OBVIOUS
<1> HIDE DEF code
<1>7. Kept(code) = code BY <1>3, <1>4, KeptLemma
<1>8. Kept(Append(before.code, c[j])) = code BY <1>4, <1>6, <1>7
<1>9. Len(before.values) # n
  <2>1. i - 1 # n BY <1>1
  <2> QED BY <1>5, <1>6, <2>1
<1>10. /\ c \in DOMAIN map /\ map[c] = v
       /\ \A k \in 0..(Len(c) - 1) : Firsts(c, k) \notin DOMAIN map
  <2>1. /\ table[v] \in DOMAIN map /\ map[table[v]] = v
        /\ \A k \in 0..(Len(table[v]) - 1) : Firsts(table[v], k) \notin DOMAIN map
    BY <1>1, MapLemma
  <2> HIDE DEF v
  <2>2. c = table[v] BY DEF v
  <2> QED BY <2>1, <2>2
<1>11. CASE j < Len(c)
  <2>1. code \notin DOMAIN map
    <3>1. j \in 0..(Len(c) - 1) BY <1>3, <1>11
    <3> QED BY <1>10, <3>1 DEF code
  <2>2. HuffmanTurn(map, c[j], n, before) = [before EXCEPT !.code = code]
    <3> HIDE DEF before
    <3> QED BY <1>8, <1>9, <2>1 DEF HuffmanTurn
  <2>3. [before EXCEPT !.code = code] = [code |-> code, values |-> Firsts(s, i - 1)] OBVIOUS
  <2> HIDE DEF before
  <2>4. HuffmanTurn(map, c[j], n, before) = [code |-> code, values |-> Firsts(s, i - 1)] BY <2>2, <2>3
  <2> QED BY <1>11, <2>4 DEF code, before
<1>12. CASE ~(j < Len(c))
  <2>1. j = Len(c) BY <1>3, <1>12
  <2>2. code = c BY <1>4, <2>1 DEF code
  <2>3. code \in DOMAIN map /\ map[code] = v BY <1>10, <2>2
  <2> HIDE DEF before
  <2>4. HuffmanTurn(map, c[j], n, before) = [code |-> <<>>, values |-> Append(before.values, v)]
    BY <1>8, <1>9, <2>3 DEF HuffmanTurn
  <2>5. Append(before.values, v) = Firsts(s, i) BY <1>5, <1>6
  <2>6. HuffmanTurn(map, c[j], n, before) = [code |-> <<>>, values |-> Firsts(s, i)] BY <2>4, <2>5
  <2> QED BY <1>12, <2>6 DEF before
<1> QED BY <1>11, <1>12

LEMMA SymbolsReturn ==
  ASSUME NEW table, Usable(table), NEW map \in DecodeMaps(table), NEW s \in Seq(DOMAIN table)
  PROVE  Symbols(map, HuffmanEncode(table, s), Len(s)) = s
<1> DEFINE n == Len(s)
           seqs == [i \in 1..n |-> table[s[i]]]
           bits == Padded(FlattenSeq(seqs))
<1>1. n \in Nat /\ DOMAIN s = 1..n /\ \A i \in 1..n : s[i] \in DOMAIN table OBVIOUS
<1>2. HuffmanEncode(table, s) = bits BY <1>1 DEF HuffmanEncode
<1>3. \A i \in 1..n : seqs[i] = table[s[i]] /\ seqs[i] \in Seq(Bit) /\ Len(seqs[i]) \in Nat \ {0}
  <2> SUFFICES ASSUME NEW i \in 1..n
               PROVE  seqs[i] = table[s[i]] /\ seqs[i] \in Seq(Bit) /\ Len(seqs[i]) \in Nat \ {0}
    OBVIOUS
  <2>1. s[i] \in DOMAIN table BY <1>1
  <2>2. table[s[i]] \in Seq(Bit) /\ Len(table[s[i]]) \in 1..CodeBits BY <2>1 DEF Usable
  <2> QED BY <2>2
<1>4. seqs \in [1..n -> Seq(Bit)] BY <1>3
<1>5. \A x \in DOMAIN map : map[x] \in DOMAIN table BY MapLemma
<1>6. \A i \in 1..n : \A j \in 1..Len(seqs[i]) :
        HuffmanTurn(map, seqs[i][j], n, [code |-> Firsts(seqs[i], j - 1), values |-> Firsts(s, i - 1)]) =
          IF j < Len(seqs[i]) THEN [code |-> Firsts(seqs[i], j), values |-> Firsts(s, i - 1)]
          ELSE [code |-> <<>>, values |-> Firsts(s, i)]
  <2> SUFFICES ASSUME NEW i \in 1..n, NEW j \in 1..Len(seqs[i])
               PROVE  HuffmanTurn(map, seqs[i][j], n, [code |-> Firsts(seqs[i], j - 1),
                                                       values |-> Firsts(s, i - 1)]) =
                        IF j < Len(seqs[i]) THEN [code |-> Firsts(seqs[i], j), values |-> Firsts(s, i - 1)]
                        ELSE [code |-> <<>>, values |-> Firsts(s, i)]
    OBVIOUS
  <2> DEFINE c == seqs[i]
  <2>1. c = table[s[i]] BY <1>3
  <2> HIDE DEF seqs, c
  <2>2. j \in 1..Len(c) BY DEF c
  <2>3. HuffmanTurn(map, c[j], Len(s), [code |-> Firsts(c, j - 1), values |-> Firsts(s, i - 1)]) =
           IF j < Len(c) THEN [code |-> Firsts(c, j), values |-> Firsts(s, i - 1)]
           ELSE [code |-> <<>>, values |-> Firsts(s, i)]
    BY <2>1, <2>2, HuffmanTurnLemma
  <2> QED BY <2>3 DEF c
<1> HIDE DEF n, seqs
<1>7. bits \in Seq(Bit) /\ \E at : Placed(bits, n, seqs, at) BY <1>1, <1>4, PaddedPieces
<1>8. PICK at : Placed(bits, n, seqs, at) BY <1>7
<1> HIDE DEF bits
<1>9. PICK g : HuffmanWalk(map, bits, n, g)
  <2> DEFINE W == DOMAIN table
  <2>1. \A x \in DOMAIN map : map[x] \in W BY <1>5
  <2> HIDE DEF W
  <2> QED BY <1>1, <1>7, <2>1, WalkLemma
<1>10. /\ at \in [0..n -> Nat] /\ at[0] = 0
       /\ \A i \in 1..n : at[i] = at[i - 1] + Len(seqs[i]) /\ at[i] <= Len(bits)
       /\ \A i \in 1..n : \A j \in 1..Len(seqs[i]) : bits[at[i - 1] + j] = seqs[i][j]
  BY <1>8 DEF Placed
<1>11. /\ g[0] = [code |-> <<>>, values |-> <<>>]
       /\ \A x \in 1..Len(bits) : g[x] = HuffmanTurn(map, bits[x], n, g[x - 1])
       /\ Symbols(map, bits, n) = g[Len(bits)].values
  BY <1>9 DEF HuffmanWalk
<1>12. /\ Firsts(s, 0) = <<>> /\ Firsts(s, n) = s /\ Len(Firsts(s, n)) = n
  <2>1. n \in 0..n BY <1>1
  <2> QED BY <2>1, FirstsLemma DEF n
<1>13. Len(bits) \in Nat
  <2>1. \A b \in Seq(Bit) : Len(b) \in Nat OBVIOUS
  <2> QED BY <1>7, <2>1
<1> DEFINE Done(i) == [code |-> <<>>, values |-> Firsts(s, i)]
\* From the end of a code to the end of the next.
<1>14. ASSUME NEW i \in 1..n, g[at[i - 1]] = Done(i - 1) PROVE g[at[i]] = Done(i)
  <2> DEFINE c == seqs[i]
             a == at[i - 1]
             S(j) == [code |-> Firsts(c, j), values |-> Firsts(s, i - 1)]
             P == {j \in Nat : j < Len(c) => g[a + j] = S(j)}
  <2>1. i - 1 \in 0..n /\ i \in 0..n BY <1>1
  <2>2. a \in Nat /\ at[i] = a + Len(c) /\ at[i] <= Len(bits) /\ Len(c) \in Nat \ {0}
    BY <1>3, <1>10, <2>1
  <2>3. ASSUME NEW j \in 1..Len(c), g[a + (j - 1)] = S(j - 1)
        PROVE  g[a + j] = IF j < Len(c) THEN S(j) ELSE Done(i)
    <3> DEFINE x == a + j
    <3>1. x \in 1..Len(bits) /\ x - 1 = a + (j - 1)
      <4>1. /\ a \in Nat /\ j \in Nat /\ 1 <= j /\ j <= Len(c) /\ Len(c) \in Nat
            /\ a + Len(c) <= Len(bits) /\ Len(bits) \in Nat
        BY <1>13, <2>2
      <4> HIDE DEF a, c
      <4> QED BY <4>1
    <3>2. bits[x] = c[j] BY <1>10
    <3>3. g[x - 1] = S(j - 1) BY <2>3, <3>1
    <3> HIDE DEF x
    <3>4. g[x] = HuffmanTurn(map, bits[x], n, g[x - 1]) BY <1>11, <3>1
    <3>5. HuffmanTurn(map, c[j], n, S(j - 1)) = IF j < Len(c) THEN S(j) ELSE Done(i) BY <1>6
    <3> HIDE DEF S, Done, c
    <3>6. g[x] = HuffmanTurn(map, c[j], n, S(j - 1)) BY <3>2, <3>3, <3>4
    <3>7. g[x] = IF j < Len(c) THEN S(j) ELSE Done(i) BY <3>5, <3>6
    <3> QED BY <3>7 DEF x
  <2>4. 0 \in P
    <3>1. Firsts(c, 0) = <<>> BY DEF Firsts
    <3>2. a + 0 = a BY <2>2
    <3> QED BY <1>14, <3>1, <3>2
  <2>5. ASSUME NEW j \in Nat, j \in P PROVE j + 1 \in P
    <3> SUFFICES ASSUME j + 1 < Len(c) PROVE g[a + (j + 1)] = S(j + 1) OBVIOUS
    <3> DEFINE y == j + 1
    <3>1. y \in 1..Len(c) /\ y - 1 = j /\ j < Len(c) /\ y < Len(c) BY <2>2
    <3>2. g[a + (y - 1)] = S(y - 1) BY <2>5, <3>1
    <3> HIDE DEF y, S, c, a, P
    <3>3. g[a + y] = S(y) BY <2>3, <3>1, <3>2
    <3> QED BY <3>3 DEF y
  <2> HIDE DEF P
  <2>6. \A j \in Nat : j \in P BY <2>4, <2>5, SimpleInduction
  <2> DEFINE l == Len(c)
  <2>7. l \in 1..l /\ l - 1 \in Nat /\ l - 1 < l /\ ~(l < l) /\ l = Len(c) BY <2>2
  <2>8. g[a + (l - 1)] = S(l - 1)
    <3>1. l - 1 \in P BY <2>6, <2>7
    <3> QED BY <2>7, <3>1 DEF P
  <2> HIDE DEF l, S, Done, c, a
  <2>9. g[a + l] = Done(i) BY <2>3, <2>7, <2>8
  <2> QED BY <2>2, <2>7, <2>9
<1>15. g[0] = Done(0) BY <1>11, <1>12
<1> DEFINE P == {i \in Nat : i <= n => g[at[i]] = Done(i)}
<1>16. 0 \in P
  <2> HIDE DEF Done
  <2> QED BY <1>10, <1>15
<1>17. ASSUME NEW i \in Nat, i \in P PROVE i + 1 \in P
  <2> SUFFICES ASSUME i + 1 <= n PROVE g[at[i + 1]] = Done(i + 1) OBVIOUS
  <2> DEFINE j == i + 1
  <2>1. j \in 1..n /\ j - 1 = i /\ i <= n BY <1>1
  <2> HIDE DEF Done
  <2>2. g[at[j - 1]] = Done(j - 1) BY <1>17, <2>1
  <2> HIDE DEF j, P
  <2>3. g[at[j]] = Done(j) BY <1>14, <2>1, <2>2
  <2> QED BY <2>3 DEF j
<1> HIDE DEF P
<1>18. \A i \in Nat : i \in P BY <1>16, <1>17, SimpleInduction
<1>19. g[at[n]] = Done(n)
  <2>1. n \in P BY <1>1, <1>18
  <2> QED BY <1>1, <2>1 DEF P
\* The zeros that fill the last byte change nothing.
<1> DEFINE Q == {x \in Nat : at[n] + x <= Len(bits) => g[at[n] + x] = Done(n)}
<1>20. at[n] \in Nat /\ at[n] <= Len(bits)
  <2>1. n \in 0..n BY <1>1
  <2>2. at[n] \in Nat BY <1>10, <2>1
  <2>3. CASE n = 0 BY <1>10, <1>13, <2>3
  <2>4. CASE n # 0
    <3>1. n \in 1..n BY <1>1, <2>4
    <3> QED BY <1>10, <2>2, <3>1
  <2> QED BY <2>2, <2>3, <2>4
<1>21. 0 \in Q
  <2> HIDE DEF Done
  <2>1. at[n] + 0 = at[n] BY <1>20
  <2> QED BY <1>19, <2>1
<1>22. ASSUME NEW x \in Nat, x \in Q PROVE x + 1 \in Q
  <2> SUFFICES ASSUME at[n] + (x + 1) <= Len(bits) PROVE g[at[n] + (x + 1)] = Done(n) OBVIOUS
  <2> DEFINE y == at[n] + (x + 1)
  <2>1. y \in 1..Len(bits) /\ y - 1 = at[n] + x /\ at[n] + x <= Len(bits) BY <1>13, <1>20
  <2>2. g[y - 1] = Done(n)
    <3> HIDE DEF Done
    <3> QED BY <1>22, <2>1
  <2>3. Len(Done(n).values) = n BY <1>12
  <2> HIDE DEF Done, y, Q
  <2>4. HuffmanTurn(map, bits[y], n, Done(n)) = Done(n) BY <2>3 DEF HuffmanTurn
  <2>5. g[y] = HuffmanTurn(map, bits[y], n, g[y - 1]) BY <1>11, <2>1
  <2>6. g[y] = Done(n) BY <2>2, <2>4, <2>5
  <2> QED BY <2>6 DEF y
<1> HIDE DEF Q
<1>23. \A x \in Nat : x \in Q BY <1>21, <1>22, SimpleInduction
<1>24. g[Len(bits)] = Done(n)
  <2> DEFINE x == Len(bits) - at[n]
  <2>1. x \in Nat /\ at[n] + x = Len(bits) BY <1>13, <1>20
  <2> HIDE DEF x
  <2>2. x \in Q BY <1>23, <2>1
  <2>3. Len(bits) <= Len(bits) BY <1>13
  <2> QED BY <2>1, <2>2, <2>3 DEF Q
<1>25. Done(n).values = s BY <1>12
<1> HIDE DEF Done
<1>26. Symbols(map, bits, n) = s BY <1>11, <1>24, <1>25
<1> QED BY <1>2, <1>26 DEF n

LEMMA HuffmanReturns ==
  ASSUME NEW table, Usable(table), NEW map \in DecodeMaps(table), NEW s \in Seq(DOMAIN table)
  PROVE  HuffmanDecode(map, HuffmanEncode(table, s), Len(s)) = s
<1> DEFINE n == Len(s)
           bits == HuffmanEncode(table, s)
<1>1. n \in Nat /\ \A i \in 1..n : s[i] \in DOMAIN table OBVIOUS
<1>2. CASE Cardinality(DOMAIN map) # 1
  <2>1. HuffmanDecode(map, bits, n) = Symbols(map, bits, n) BY <1>2 DEF HuffmanDecode
  <2> QED BY <2>1, SymbolsReturn
<1>3. CASE Cardinality(DOMAIN map) = 1
  <2>1. /\ DOMAIN map = {table[v] : v \in DOMAIN table} /\ IsFiniteSet(DOMAIN map)
        /\ \A v \in DOMAIN table : map[table[v]] = v
    BY MapLemma
  <2>2. PICK x : DOMAIN map = {x} BY <1>3, <2>1, FS_Singleton
  <2>3. (CHOOSE c \in DOMAIN map : TRUE) = x BY <2>2
  <2>4. \A v \in DOMAIN table : v = map[x]
    <3> SUFFICES ASSUME NEW v \in DOMAIN table PROVE v = map[x] OBVIOUS
    <3>1. table[v] \in DOMAIN map BY <2>1
    <3>2. table[v] = x BY <2>2, <3>1
    <3> QED BY <2>1, <3>2
  <2>5. HuffmanDecode(map, bits, n) = Copies(map[x], n)
    <3> HIDE DEF bits, n
    <3> QED BY <1>3, <2>3 DEF HuffmanDecode
  <2>6. Copies(map[x], n) = [i \in 1..n |-> s[i]] BY <1>1, <2>4 DEF Copies
  <2>7. s = [i \in 1..n |-> s[i]] OBVIOUS
  <2> QED BY <2>5, <2>6, <2>7
<1> QED BY <1>2, <1>3

\* The frequencies of a stream, and of a warm-up stream completed to the alphabet.
LEMMA OccurrencesLemma ==
  ASSUME NEW s \in Seq(Nat), NEW v
  PROVE  /\ Occurrences(s, v) \in Nat
         /\ v \in ToSet(s) => Occurrences(s, v) # 0
<1> DEFINE O == {i \in DOMAIN s : s[i] = v}
<1>1. IsFiniteSet(O)
  <2>1. DOMAIN s = 1..Len(s) /\ 1 \in Int /\ Len(s) \in Int OBVIOUS
  <2>2. IsFiniteSet(DOMAIN s) BY <2>1, FiniteRange
  <2>3. O \subseteq DOMAIN s OBVIOUS
  <2> QED BY <2>2, <2>3, FS_Subset
<1>2. v \in ToSet(s) => O # {} BY DEF ToSet
<1>3. Occurrences(s, v) = Cardinality(O) BY DEF Occurrences
<1> HIDE DEF O
<1> QED BY <1>1, <1>2, <1>3, FS_CardinalityType, FS_EmptySet

LEMMA FreqLemma ==
  ASSUME NEW s \in Seq(Nat)
  PROVE  /\ Frequencies(FreqOf(s)) /\ DOMAIN FreqOf(s) = ToSet(s)
         /\ Frequencies(CompleteFreq(s)) /\ DOMAIN CompleteFreq(s) = ToSet(s) \cup 0..AlphabetMax
<1>1. IsFiniteSet(ToSet(s))
  <2>1. DOMAIN s = 1..Len(s) /\ 1 \in Int /\ Len(s) \in Int OBVIOUS
  <2>2. IsFiniteSet(DOMAIN s) BY <2>1, FiniteRange
  <2>3. s = [i \in DOMAIN s |-> s[i]] OBVIOUS
  <2>4. IsFiniteSet({s[i] : i \in DOMAIN s}) BY <2>2, <2>3, ImageLemma
  <2> QED BY <2>4 DEF ToSet
<1>2. IsFiniteSet(0..AlphabetMax)
  <2>1. 0 \in Int /\ AlphabetMax \in Int BY StreamAssumption
  <2> QED BY <2>1, FiniteRange
<1>3. IsFiniteSet(ToSet(s) \cup 0..AlphabetMax) BY <1>1, <1>2, FS_Union
<1>4. \A v \in ToSet(s) : Occurrences(s, v) \in Nat \ {0} BY OccurrencesLemma
<1>5. \A v : Max({1, Occurrences(s, v)}) \in Nat \ {0}
  <2> SUFFICES ASSUME NEW v PROVE Max({1, Occurrences(s, v)}) \in Nat \ {0} OBVIOUS
  <2> DEFINE o == Occurrences(s, v)
             S == {1} \cup {o}
  <2>1. o \in Nat BY OccurrencesLemma
  <2> HIDE DEF o
  <2>2. S \in SUBSET Int /\ S # {} /\ 1 \in S BY <2>1
  <2>3. IsFiniteSet({1}) /\ IsFiniteSet({o}) BY FS_Singleton
  <2>4. IsFiniteSet(S) BY <2>3, FS_Union
  <2>5. {1, o} = S OBVIOUS
  <2>6. \A y \in S : y \in Nat BY <2>1
  <2> HIDE DEF S
  <2>7. Max(S) \in S /\ \A y \in S : y <= Max(S) BY <2>2, <2>4, MaxLemma
  <2>8. Max(S) \in Nat \ {0}
    <3>1. Max(S) \in Nat /\ 1 <= Max(S) BY <2>2, <2>6, <2>7
    <3> QED BY <3>1
  <2>9. Max({1, o}) \in Nat \ {0} BY <2>5, <2>8
  <2> QED BY <2>9 DEF o
<1>6. Frequencies(FreqOf(s)) /\ DOMAIN FreqOf(s) = ToSet(s)
  BY <1>1, <1>4 DEF Frequencies, FreqOf
<1>7. Frequencies(CompleteFreq(s)) /\ DOMAIN CompleteFreq(s) = ToSet(s) \cup 0..AlphabetMax
  BY <1>3, <1>5 DEF Frequencies, CompleteFreq
<1> QED BY <1>6, <1>7

\* The codes of the symbols of F.
CodesOf(table, F) ==
  /\ DOMAIN table = DOMAIN F
  /\ \A v \in DOMAIN table :
       /\ table[v] \in Seq(Bit) /\ Len(table[v]) \in Nat \ {0}
       /\ Len(table[v]) >= 2 => Fib[Len(table[v]) + 2] <= WeightIn(F, DOMAIN F)
  /\ \A v, w \in DOMAIN table :
       v # w /\ Len(table[v]) <= CodeBits /\ Len(table[w]) <= CodeBits => Differ(table[v], table[w])

LEMMA CodeTableLemma ==
  ASSUME NEW F, Frequencies(F), NEW f, Trees(f, F), IsFiniteSet(f), Cardinality(f) = 1
  PROVE  CodesOf(CodeTable(CHOOSE t \in f : TRUE), F)
<1>1. PICK t : f = {t} BY FS_Singleton
<1>2. (CHOOSE u \in f : TRUE) = t BY <1>1
<1>3. Tree(t, F) BY <1>1 DEF Trees
<1>4. DOMAIN t.way = DOMAIN F
  <2>1. UNION {DOMAIN u.way : u \in f} = DOMAIN F BY DEF Trees
  <2> QED BY <1>1, <2>1
<1>5. /\ t.freq = WeightIn(F, DOMAIN F)
      /\ \A v \in DOMAIN F : t.way[v] \in Seq(Bit) /\ Fib[Len(t.way[v]) + 2] <= t.freq
      /\ \A v, w \in DOMAIN F : v # w => Differ(t.way[v], t.way[w])
  BY <1>3, <1>4 DEF Tree
<1> DEFINE table == CodeTable(t)
<1>6. /\ DOMAIN table = DOMAIN F
      /\ \A v \in DOMAIN F : table[v] = IF t.way[v] = <<>> THEN <<0>> ELSE Kept(t.way[v])
  BY <1>4 DEF CodeTable
<1> HIDE DEF table
<1>7. \A c \in Seq(Bit) : Len(c) \in Nat /\ (c = <<>> <=> Len(c) = 0) OBVIOUS
<1>8. ASSUME NEW v \in DOMAIN F
      PROVE  /\ table[v] \in Seq(Bit) /\ Len(table[v]) \in Nat \ {0}
             /\ Len(table[v]) >= 2 => Fib[Len(table[v]) + 2] <= WeightIn(F, DOMAIN F)
             /\ Len(table[v]) <= CodeBits /\ Len(t.way[v]) # 0 => table[v] = t.way[v]
  <2> DEFINE c == t.way[v]
  <2>1. c \in Seq(Bit) /\ Fib[Len(c) + 2] <= WeightIn(F, DOMAIN F) BY <1>5
  <2>2. Len(c) \in Nat /\ (c = <<>> <=> Len(c) = 0) BY <1>7, <2>1
  <2>3. table[v] = IF c = <<>> THEN <<0>> ELSE Kept(c) BY <1>6
  <2> HIDE DEF c
  <2>4. CASE c = <<>>
    <3>1. 0 \in Bit /\ <<0>> \in Seq(Bit) /\ Len(<<0>>) = 1 BY DEF Bit
    <3>2. table[v] \in Seq(Bit) /\ Len(table[v]) = 1 BY <2>3, <2>4, <3>1
    <3> QED BY <2>2, <2>4, <3>2 DEF c
  <2>5. CASE c # <<>>
    <3>1. table[v] = Kept(c) BY <2>3, <2>5
    <3>2. table[v] \in Seq(Bit) /\ Len(table[v]) = Len(c) BY <2>1, <3>1, KeptLemma
    <3>3. Len(table[v]) <= CodeBits => table[v] = c BY <2>1, <3>1, <3>2, KeptLemma
    <3> QED BY <2>1, <2>2, <2>5, <3>2, <3>3 DEF c
  <2> QED BY <2>4, <2>5
<1>9. ASSUME NEW v \in DOMAIN F, NEW w \in DOMAIN F, v # w,
             Len(table[v]) <= CodeBits, Len(table[w]) <= CodeBits
      PROVE  Differ(table[v], table[w])
  <2>1. Differ(t.way[v], t.way[w]) BY <1>5, <1>9
  <2>2. PICK j \in Nat \ {0} : j <= Len(t.way[v]) /\ j <= Len(t.way[w]) BY <2>1 DEF Differ
  <2>3. Len(t.way[v]) \in Nat /\ Len(t.way[w]) \in Nat BY <1>5, <1>7
  <2>4. Len(t.way[v]) # 0 /\ Len(t.way[w]) # 0 BY <2>2, <2>3
  <2>5. table[v] = t.way[v] /\ table[w] = t.way[w] BY <1>8, <1>9, <2>4
  <2> QED BY <2>1, <2>5
<1>10. CodesOf(table, F) BY <1>6, <1>8, <1>9 DEF CodesOf
<1> QED BY <1>2, <1>10 DEF table

LEMMA UsableLemma ==
  ASSUME NEW F, Frequencies(F), NEW table, CodesOf(table, F),
         \A v \in DOMAIN table : ~(Len(table[v]) > CodeBits)
  PROVE  Usable(table)
<1>1. /\ DOMAIN table = DOMAIN F
      /\ \A v \in DOMAIN table : table[v] \in Seq(Bit) /\ Len(table[v]) \in Nat \ {0}
      /\ \A v, w \in DOMAIN table :
           v # w /\ Len(table[v]) <= CodeBits /\ Len(table[w]) <= CodeBits => Differ(table[v], table[w])
  BY DEF CodesOf
<1>2. CodeBits \in Nat BY BitsAssumption
<1>3. \A v \in DOMAIN table : Len(table[v]) <= CodeBits /\ Len(table[v]) \in 1..CodeBits BY <1>1, <1>2
<1>4. IsFiniteSet(DOMAIN table) BY <1>1 DEF Frequencies
<1> QED BY <1>1, <1>3, <1>4 DEF Usable

\* The best parameter exists.
LEMMA BestExpKLemma ==
  ASSUME NEW s \in Seq(Nat)
  PROVE  BestExpK(s) \in 0..MaxExpK
<1> DEFINE K == 0..MaxExpK
           cost == [k \in K |-> ExpCost(s, k)]
           costs == {cost[k] : k \in K}
           S == {k \in K : \A j \in K : ExpCost(s, k) <= ExpCost(s, j)}
<1>1. MaxExpK \in Nat /\ 0 \in K /\ IsFiniteSet(K) /\ K \in SUBSET Nat
  <2>1. MaxExpK \in Nat BY BitsAssumption
  <2>2. 0 \in Int /\ MaxExpK \in Int BY <2>1
  <2>3. IsFiniteSet(K) BY <2>2, FiniteRange
  <2> QED BY <2>1, <2>3
<1> HIDE DEF K
<1>2. ASSUME NEW k \in K PROVE ExpCost(s, k) \in Nat
  <2> DEFINE f == [i \in DOMAIN s |-> Len(ExpCode(s[i], k))]
  <2>1. k \in Nat BY <1>1
  <2>2. \A i \in DOMAIN s : f[i] \in Nat
    <3> SUFFICES ASSUME NEW i \in DOMAIN s PROVE Len(ExpCode(s[i], k)) \in Nat OBVIOUS
    <3>1. s[i] \in Nat OBVIOUS
    <3>2. ExpCode(s[i], k) \in Seq(Bit) BY <2>1, <3>1, ExpCodeLemma
    <3> QED BY <3>2
  <2>3. IsFiniteSet(DOMAIN s)
    <3>1. DOMAIN s = 1..Len(s) /\ 1 \in Int /\ Len(s) \in Int OBVIOUS
    <3> QED BY <3>1, FiniteRange
  <2>4. DOMAIN f = DOMAIN s OBVIOUS
  <2>5. ExpCost(s, k) = SumFunction(f) BY DEF ExpCost
  <2> HIDE DEF f
  <2>6. SumFunction(f) \in Nat BY <2>2, <2>3, <2>4, SumType
  <2> QED BY <2>5, <2>6
<1>3. DOMAIN cost = K /\ cost = [k \in K |-> cost[k]] /\ \A k \in K : cost[k] = ExpCost(s, k) OBVIOUS
<1> HIDE DEF cost
<1>4. IsFiniteSet(costs) BY <1>1, <1>3, ImageLemma
<1>5. costs \in SUBSET Int /\ costs # {} BY <1>1, <1>2, <1>3
<1>6. Min(costs) \in costs /\ \A y \in costs : Min(costs) <= y
  <2> HIDE DEF costs
  <2> QED BY <1>4, <1>5, MinLemma
<1>7. PICK k \in K : cost[k] = Min(costs) BY <1>6
<1>8. \A j \in K : ExpCost(s, k) <= ExpCost(s, j)
  <2> SUFFICES ASSUME NEW j \in K PROVE ExpCost(s, k) <= ExpCost(s, j) OBVIOUS
  <2>1. cost[j] \in costs OBVIOUS
  <2> HIDE DEF costs
  <2> QED BY <1>3, <1>6, <1>7, <2>1
<1>9. k \in S BY <1>8
<1>10. S \in SUBSET Int /\ S # {} /\ S \subseteq K
  <2>1. S \subseteq K /\ S # {} BY <1>9
  <2> HIDE DEF S
  <2> QED BY <1>1, <2>1
<1>11. BestExpK(s) = Min(S) BY DEF BestExpK, K
<1> HIDE DEF S
<1>12. IsFiniteSet(S) BY <1>1, <1>10, FS_Subset
<1>13. Min(S) \in S BY <1>10, <1>12, MinLemma
<1> QED BY <1>10, <1>11, <1>13 DEF K

-----------------------------------------------------------------------------
(* The stream on its way *)

Coded == stream.kind \in {"deltas", "shared", "counts"}

\* What an encoder makes of the stream in its present mode.
Encoded(s, c) ==
  [meta |-> Meta(c), bits |-> IF c.exp THEN ExpEncode(s, c.k) ELSE HuffmanEncode(c.table, s)]

CoderInv ==
  /\ coder = [exp |-> coder.exp, k |-> coder.k, table |-> coder.table]
  /\ coder.exp \in BOOLEAN /\ coder.k \in 0..MaxExpK
  /\ coder.exp => stream.kind \in {"deltas", "counts"}
  /\ coder.table = NoTable \/ CodesOf(coder.table, Freq)

QueueInv ==
  /\ pc = "merging" => Coded /\ ~coder.exp /\ IsFiniteSet(forest) /\ Trees(forest, Freq)
  /\ pc # "merging" => forest = {}

\* Every symbol of the stream has a code before any is asked for.
CoverageInv ==
  /\ pc \in {"built", "measured"} => Coded
  /\ pc = "measured" => stream.kind = "counts"
  /\ pc \in {"built", "measured", "encoded", "decoded"} /\ Coded /\ ~coder.exp =>
       stream.data \in Seq(DOMAIN coder.table)

PackedInv ==
  /\ packed.bits \in Seq(Bit)
  /\ pc \in {"encoded", "decoded"} =>
       CASE stream.kind = "blocks" -> packed = BitPack(stream.data)
         [] stream.kind = "patches" -> packed = RicePack(stream.data)
         [] OTHER -> packed = Encoded(stream.data, coder)

StreamInv ==
  /\ stream \in Streams
  /\ pc \in {"start", "merging", "built", "measured", "encoded", "decoded"}
  /\ again => stream.kind = "counts"
  /\ CoderInv /\ QueueInv /\ CoverageInv /\ PackedInv
  /\ RoundTrips

LEMMA Retyped ==
  ASSUME NEW X, NEW Y, NEW s \in Seq(X), \A i \in 1..Len(s) : s[i] \in Y
  PROVE  s \in Seq(Y)
<1>1. Len(s) \in Nat /\ s = [i \in 1..Len(s) |-> s[i]] OBVIOUS
<1>2. s \in [1..Len(s) -> Y] BY <1>1
<1> QED BY <1>1, <1>2

LEMMA KindsOf ==
  ASSUME NEW s \in Streams
  PROVE  /\ s.kind \in {"blocks", "patches", "deltas", "shared", "counts"}
         /\ s.data \in Seq(Nat) /\ s.warmup \in Seq(Nat)
         /\ s.kind = "shared" => s.data \in Seq(0..AlphabetMax)
         /\ s.kind = "patches" => \A i \in DOMAIN s.data : s.data[i] < Pow2[MaxRiceK + 1]
<1>1. /\ s.kind \in {"blocks", "patches", "deltas", "shared", "counts"}
      /\ s.data \in Seq(Nat) /\ s.warmup \in Seq(Nat)
      /\ s.kind \in {"deltas", "shared"} => ToSet(s.data \o s.warmup) \subseteq 0..AlphabetMax
      /\ s.kind = "patches" => \A i \in DOMAIN s.data : s.data[i] < Pow2[MaxRiceK + 1]
  BY StreamAssumption
<1>2. ASSUME s.kind = "shared" PROVE s.data \in Seq(0..AlphabetMax)
  <2> DEFINE d == s.data
             w == s.warmup
             u == d \o w
  <2>1. d \in Seq(Nat) /\ w \in Seq(Nat) BY <1>1
  <2>2. ToSet(u) \subseteq 0..AlphabetMax BY <1>1, <1>2
  <2> HIDE DEF d, w
  <2>3. /\ u \in Seq(Nat) /\ Len(u) = Len(d) + Len(w) /\ Len(d) \in Nat /\ Len(w) \in Nat
        /\ \A j \in 1..Len(d) : u[j] = d[j]
    BY <2>1, Concatenation
  <2> HIDE DEF u
  <2>4. ASSUME NEW j \in 1..Len(d) PROVE d[j] \in 0..AlphabetMax
    <3>1. j \in 1..Len(u) BY <2>3
    <3>2. j \in DOMAIN u BY <2>3, <3>1
    <3>3. u[j] \in ToSet(u) BY <3>2 DEF ToSet
    <3> QED BY <2>2, <2>3, <3>3
  <2>5. d \in Seq(0..AlphabetMax) BY <2>1, <2>4, Retyped
  <2> QED BY <2>5 DEF d
<1> QED BY <1>1, <1>2

\* The frequencies a tree is built from are some.
LEMMA FreqOfStream ==
  ASSUME stream \in Streams
  PROVE  /\ Frequencies(Freq)
         /\ Coded => stream.data \in Seq(DOMAIN Freq)
<1>1. /\ stream.data \in Seq(Nat) /\ stream.warmup \in Seq(Nat)
      /\ stream.kind = "shared" => stream.data \in Seq(0..AlphabetMax)
  BY KindsOf
<1>2. \A s \in Seq(Nat) : /\ Frequencies(FreqOf(s)) /\ DOMAIN FreqOf(s) = ToSet(s)
                          /\ Frequencies(CompleteFreq(s))
                          /\ DOMAIN CompleteFreq(s) = ToSet(s) \cup 0..AlphabetMax
  BY FreqLemma
<1>3. CASE stream.kind = "shared"
  <2>1. Freq = CompleteFreq(stream.warmup) BY <1>3 DEF Freq
  <2>2. DOMAIN Freq = ToSet(stream.warmup) \cup 0..AlphabetMax /\ Frequencies(Freq) BY <1>1, <1>2, <2>1
  <2> DEFINE X == 0..AlphabetMax
             Y == ToSet(stream.warmup) \cup X
             d == stream.data
  <2>3. d \in Seq(X) BY <1>1, <1>3
  <2>4. \A x \in X : x \in Y OBVIOUS
  <2>5. DOMAIN Freq = Y BY <2>2
  <2> HIDE DEF X, Y, d
  <2>6. \A i \in 1..Len(d) : d[i] \in Y BY <2>3, <2>4
  <2>7. d \in Seq(Y) BY <2>3, <2>6, Retyped
  <2> QED BY <2>2, <2>5, <2>7 DEF d
<1>4. CASE stream.kind # "shared"
  <2>1. Freq = FreqOf(stream.data) BY <1>4 DEF Freq
  <2>2. DOMAIN Freq = ToSet(stream.data) /\ Frequencies(Freq) BY <1>1, <1>2, <2>1
  <2>3. \A d \in Seq(Nat) : d \in Seq(ToSet(d)) BY DEF ToSet
  <2> QED BY <1>1, <2>2, <2>3
<1> QED BY <1>3, <1>4

LEMMA StreamInit == Init => StreamInv
<1> SUFFICES ASSUME Init PROVE StreamInv OBVIOUS
<1>1. /\ stream \in Streams /\ pc = "start" /\ forest = {} /\ coder = NewCoder
      /\ again = FALSE /\ packed = NotPacked
  BY DEF Init
<1>2. coder.exp = FALSE /\ coder.k = 0 /\ coder.table = NoTable BY <1>1 DEF NewCoder
<1>3. MaxExpK \in Nat BY BitsAssumption
<1>4. CoderInv
  <2>1. coder.exp \in BOOLEAN /\ ~coder.exp BY <1>2
  <2>2. coder.k \in 0..MaxExpK BY <1>2, <1>3
  <2>3. coder = [exp |-> coder.exp, k |-> coder.k, table |-> coder.table] BY <1>1 DEF NewCoder
  <2> QED BY <1>2, <2>1, <2>2, <2>3 DEF CoderInv
<1>5. packed.bits \in Seq(Bit)
  <2>1. packed.bits = <<>> /\ <<>> \in Seq(Bit) BY <1>1 DEF NotPacked
  <2> QED BY <2>1
<1>6. PackedInv BY <1>1, <1>5 DEF PackedInv
<1>7. QueueInv /\ CoverageInv /\ RoundTrips BY <1>1 DEF QueueInv, CoverageInv, RoundTrips
<1> QED BY <1>1, <1>4, <1>6, <1>7 DEF StreamInv

LEMMA NoTableLemma ==
  /\ DOMAIN NoTable = {} /\ Usable(NoTable) /\ <<>> \in Seq(DOMAIN NoTable)
<1>1. DOMAIN NoTable = {} BY DEF NoTable
<1>2. IsFiniteSet(DOMAIN NoTable) BY <1>1, FS_EmptySet
<1>3. Usable(NoTable) BY <1>1, <1>2 DEF Usable
<1> QED BY <1>1, <1>3

\* A table has been made of nothing, or of the frequencies.
LEMMA TableLemma ==
  ASSUME stream \in Streams, CoderInv
  PROVE  /\ \A v \in DOMAIN coder.table : coder.table[v] \in Seq(Bit)
         /\ ~LongCode => Usable(coder.table)
         /\ LongCode => CodesOf(coder.table, Freq)
<1> DEFINE table == coder.table
<1>1. table = NoTable \/ CodesOf(table, Freq) BY DEF CoderInv
<1>2. Frequencies(Freq) BY FreqOfStream
<1>3. LongCode <=> \E v \in DOMAIN table : Len(table[v]) > CodeBits BY DEF LongCode
<1> HIDE DEF table
<1>4. CASE table = NoTable
  <2>1. \A v \in DOMAIN table : FALSE BY <1>4, NoTableLemma
  <2>2. Usable(table) BY <1>4, NoTableLemma
  <2>3. ~LongCode BY <1>3, <2>1
  <2> QED BY <2>1, <2>2, <2>3 DEF table
<1>5. CASE CodesOf(table, Freq)
  <2>1. \A v \in DOMAIN table : table[v] \in Seq(Bit) BY <1>5 DEF CodesOf
  <2>2. ASSUME ~LongCode PROVE Usable(table)
    <3>1. \A v \in DOMAIN table : ~(Len(table[v]) > CodeBits) BY <1>3, <2>2
    <3> QED BY <1>2, <1>5, <3>1, UsableLemma
  <2> QED BY <1>5, <2>1, <2>2 DEF table
<1> QED BY <1>1, <1>4, <1>5

\* What is packed is a stream of bits, with meta data.
LEMMA EncodedLemma ==
  ASSUME stream \in Streams, CoderInv, ~coder.exp => stream.data \in Seq(DOMAIN coder.table)
  PROVE  Encoded(stream.data, coder).bits \in Seq(Bit) /\ Encoded(stream.data, coder) # NotPacked
<1> DEFINE e == Encoded(stream.data, coder)
<1>1. stream.data \in Seq(Nat) BY KindsOf
<1>2. e.bits = IF coder.exp THEN ExpEncode(stream.data, coder.k) ELSE HuffmanEncode(coder.table, stream.data)
  BY DEF Encoded
<1>3. coder.k \in Nat BY DEF CoderInv
<1>4. e.bits \in Seq(Bit)
  <2>1. CASE coder.exp
    <3>1. ExpEncode(stream.data, coder.k) \in Seq(Bit) BY <1>1, <1>3, ExpReturns
    <3> QED BY <1>2, <2>1, <3>1
  <2>2. CASE ~coder.exp
    <3> DEFINE table == coder.table
               d == stream.data
    <3>1. d \in Seq(DOMAIN table) /\ \A v \in DOMAIN table : table[v] \in Seq(Bit) BY <2>2, TableLemma
    <3> HIDE DEF table, d
    <3>2. HuffmanEncode(table, d) \in Seq(Bit) BY <3>1, HuffmanBits
    <3>3. e.bits = HuffmanEncode(table, d) BY <1>2, <2>2 DEF table, d
    <3> QED BY <3>2, <3>3
  <2> QED BY <2>1, <2>2
<1>5. Meta(coder) # <<>>
  <2>1. "exp" \in DOMAIN Meta(coder) BY DEF Meta
  <2>2. DOMAIN <<>> = {} OBVIOUS
  <2> QED BY <2>1, <2>2
<1>6. e.meta = Meta(coder) /\ NotPacked.meta = <<>> BY DEF Encoded, NotPacked
<1>7. e # NotPacked BY <1>5, <1>6
<1> QED BY <1>4, <1>7

LEMMA PackSteps ==
  ASSUME StreamInv, PackBlocks \/ PackPatches
  PROVE  StreamInv'
<1>1. stream \in Streams /\ CoderInv /\ QueueInv /\ (again => stream.kind = "counts")
      /\ stream.data \in Seq(Nat)
  BY KindsOf DEF StreamInv
<1>2. /\ pc = "start" /\ pc' = "encoded" /\ stream.kind \in {"blocks", "patches"}
      /\ stream' = stream /\ forest' = forest /\ coder' = coder /\ again' = again
      /\ packed' = IF stream.kind = "blocks" THEN BitPack(stream.data) ELSE RicePack(stream.data)
  BY DEF PackBlocks, PackPatches, Pack
<1>3. CoderInv' BY <1>1, <1>2 DEF CoderInv, Freq
<1>4. QueueInv' BY <1>1, <1>2 DEF QueueInv
<1>5. CoverageInv' BY <1>2 DEF CoverageInv, Coded
<1>6. PackedInv'
  <2>1. BitPack(stream.data).bits \in Seq(Bit) /\ RicePack(stream.data).bits \in Seq(Bit)
    BY <1>1, BlocksReturn, PatchesReturn
  <2>2. packed'.bits \in Seq(Bit) BY <1>2, <2>1
  <2> QED BY <1>2, <2>2 DEF PackedInv
<1>7. RoundTrips' BY <1>2 DEF RoundTrips
<1> QED BY <1>1, <1>2, <1>3, <1>4, <1>5, <1>6, <1>7 DEF StreamInv

LEMMA BuildSteps ==
  ASSUME StreamInv, BuildNothing \/ BuildExpGolomb
  PROVE  StreamInv'
<1>1. stream \in Streams /\ CoderInv /\ QueueInv /\ PackedInv /\ (again => stream.kind = "counts")
      /\ stream.data \in Seq(Nat)
  BY KindsOf DEF StreamInv
<1>2. /\ pc = "start" /\ pc' = "built" /\ stream.kind \in {"deltas", "counts"}
      /\ stream' = stream /\ forest' = forest /\ again' = again /\ packed' = packed
  BY DEF BuildNothing, BuildExpGolomb, Builds
<1>3. /\ coder' = [exp |-> coder'.exp, k |-> coder'.k, table |-> coder'.table]
      /\ coder'.exp \in BOOLEAN /\ coder'.k \in 0..MaxExpK /\ coder'.table = NoTable
      /\ coder'.exp \/ stream.data = <<>>
  <2>1. CASE BuildNothing
    <3>1. coder' = [coder EXCEPT !.table = NoTable] /\ stream.data = <<>> BY <2>1 DEF BuildNothing
    <3>2. /\ coder = [exp |-> coder.exp, k |-> coder.k, table |-> coder.table]
          /\ coder.exp \in BOOLEAN /\ coder.k \in 0..MaxExpK
      BY <1>1 DEF CoderInv
    <3>3. coder' = [exp |-> coder.exp, k |-> coder.k, table |-> NoTable] BY <3>1, <3>2
    <3> QED BY <3>1, <3>2, <3>3
  <2>2. CASE BuildExpGolomb
    <3>1. coder' = [exp |-> TRUE, k |-> BestExpK(stream.data), table |-> NoTable]
      BY <2>2 DEF BuildExpGolomb
    <3>2. BestExpK(stream.data) \in 0..MaxExpK BY <1>1, BestExpKLemma
    <3> QED BY <3>1, <3>2
  <2> QED BY <2>1, <2>2
<1>4. CoderInv' BY <1>2, <1>3 DEF CoderInv
<1>5. QueueInv' BY <1>1, <1>2 DEF QueueInv
<1>6. CoverageInv'
  <2>1. ~coder'.exp => stream.data \in Seq(DOMAIN coder'.table) BY <1>3, NoTableLemma
  <2> QED BY <1>2, <2>1 DEF CoverageInv, Coded
<1>7. PackedInv' BY <1>1, <1>2 DEF PackedInv
<1>8. RoundTrips' BY <1>2 DEF RoundTrips
<1> QED BY <1>1, <1>2, <1>4, <1>5, <1>6, <1>7, <1>8 DEF StreamInv

LEMMA LeavesFinite ==
  ASSUME NEW F, IsFiniteSet(DOMAIN F)
  PROVE  IsFiniteSet(Leaves(F))
<1> DEFINE f == [v \in DOMAIN F |-> [freq |-> F[v], way |-> [x \in {v} |-> <<>>]]]
<1>1. Leaves(F) = {f[v] : v \in DOMAIN F} BY DEF Leaves
<1>2. DOMAIN f = DOMAIN F /\ f = [v \in DOMAIN F |-> f[v]] OBVIOUS
<1> HIDE DEF f
<1>3. IsFiniteSet({f[v] : v \in DOMAIN F}) BY <1>2, ImageLemma
<1> QED BY <1>1, <1>3

LEMMA StartSteps ==
  ASSUME StreamInv, Build \/ BuildComplete
  PROVE  StreamInv'
<1>1. stream \in Streams /\ CoderInv /\ PackedInv /\ (again => stream.kind = "counts")
  BY DEF StreamInv
<1>2. /\ pc = "start" /\ pc' = "merging" /\ Coded /\ ~coder.exp
      /\ forest' = Leaves(Freq) /\ coder' = [coder EXCEPT !.table = NoTable]
      /\ stream' = stream /\ again' = again /\ packed' = packed
  <2>1. CASE Build
    <3>1. Builds /\ ~coder.exp /\ StartTree(FreqOf(stream.data)) BY <2>1 DEF Build
    <3>2. stream.kind \in {"deltas", "counts"} /\ pc = "start" BY <3>1 DEF Builds
    <3>3. Freq = FreqOf(stream.data) BY <3>2 DEF Freq
    <3> QED BY <3>1, <3>2, <3>3 DEF StartTree, Coded
  <2>2. CASE BuildComplete
    <3>1. /\ pc = "start" /\ stream.kind = "shared" /\ StartTree(CompleteFreq(stream.warmup))
      BY <2>2 DEF BuildComplete
    <3>2. Freq = CompleteFreq(stream.warmup) BY <3>1 DEF Freq
    <3>3. ~coder.exp BY <1>1, <3>1 DEF CoderInv
    <3> QED BY <3>1, <3>2, <3>3 DEF StartTree, Coded
  <2> QED BY <2>1, <2>2
<1>3. coder' = [exp |-> coder.exp, k |-> coder.k, table |-> NoTable]
      /\ coder.exp \in BOOLEAN /\ coder.k \in 0..MaxExpK
  BY <1>1, <1>2 DEF CoderInv
<1>4. CoderInv' BY <1>2, <1>3 DEF CoderInv
<1>5. QueueInv'
  <2>1. Frequencies(Freq) BY <1>1, FreqOfStream
  <2>2. IsFiniteSet(DOMAIN Freq) BY <2>1 DEF Frequencies
  <2>3. Trees(Leaves(Freq), Freq) /\ IsFiniteSet(Leaves(Freq)) BY <2>1, <2>2, LeavesLemma, LeavesFinite
  <2>4. Freq' = Freq BY <1>2 DEF Freq
  <2>5. Coded' BY <1>2 DEF Coded
  <2>6. ~coder'.exp BY <1>2, <1>3
  <2> QED BY <1>2, <2>3, <2>4, <2>5, <2>6 DEF QueueInv
<1>6. CoverageInv' BY <1>2 DEF CoverageInv
<1>7. PackedInv' BY <1>1, <1>2 DEF PackedInv
<1>8. RoundTrips' BY <1>2 DEF RoundTrips
<1> QED BY <1>1, <1>2, <1>4, <1>5, <1>6, <1>7, <1>8 DEF StreamInv

LEMMA MergeStep ==
  ASSUME StreamInv, Merge
  PROVE  StreamInv'
<1>1. stream \in Streams /\ CoderInv /\ QueueInv /\ PackedInv /\ (again => stream.kind = "counts")
  BY DEF StreamInv
<1>2. /\ pc = "merging" /\ pc' = "merging"
      /\ stream' = stream /\ coder' = coder /\ again' = again /\ packed' = packed
  BY DEF Merge
<1>3. Coded /\ ~coder.exp /\ IsFiniteSet(forest) /\ Trees(forest, Freq) BY <1>1, <1>2 DEF QueueInv
<1>4. PICK pair \in Lightest(forest) :
        forest' = (forest \ {pair[1], pair[2]}) \cup {Join(pair[1], pair[2])}
  BY DEF Merge
<1>5. Trees(forest', Freq)
  <2>1. Frequencies(Freq) BY <1>1, FreqOfStream
  <2>2. Trees((forest \ {pair[1], pair[2]}) \cup {Join(pair[1], pair[2])}, Freq)
    BY <1>3, <2>1, MergeLemma
  <2> QED BY <1>4, <2>2
<1>6. IsFiniteSet(forest')
  <2>1. IsFiniteSet(forest \ {pair[1], pair[2]}) BY <1>3, FS_Subset
  <2>2. IsFiniteSet({Join(pair[1], pair[2])}) BY FS_Singleton
  <2> QED BY <1>4, <2>1, <2>2, FS_Union
<1>7. Freq' = Freq /\ Coded' BY <1>2, <1>3 DEF Freq, Coded
<1>8. QueueInv' BY <1>2, <1>3, <1>5, <1>6, <1>7 DEF QueueInv
<1>9. CoderInv' BY <1>1, <1>2, <1>7 DEF CoderInv
<1>10. CoverageInv' BY <1>2 DEF CoverageInv
<1>11. PackedInv' BY <1>1, <1>2 DEF PackedInv
<1>12. RoundTrips' BY <1>2 DEF RoundTrips
<1> QED BY <1>1, <1>2, <1>8, <1>9, <1>10, <1>11, <1>12 DEF StreamInv

LEMMA EndTreeStep ==
  ASSUME StreamInv, EndTree
  PROVE  StreamInv'
<1>1. stream \in Streams /\ CoderInv /\ QueueInv /\ PackedInv /\ (again => stream.kind = "counts")
  BY DEF StreamInv
<1> DEFINE table == CodeTable(CHOOSE t \in forest : TRUE)
<1>2. /\ pc = "merging" /\ pc' = "built" /\ Cardinality(forest) = 1 /\ forest' = {}
      /\ coder' = [coder EXCEPT !.table = table]
      /\ stream' = stream /\ again' = again /\ packed' = packed
  BY DEF EndTree
<1>3. Coded /\ ~coder.exp /\ IsFiniteSet(forest) /\ Trees(forest, Freq) BY <1>1, <1>2 DEF QueueInv
<1>4. CodesOf(table, Freq)
  <2>1. Frequencies(Freq) BY <1>1, FreqOfStream
  <2> QED BY <1>2, <1>3, <2>1, CodeTableLemma
<1> HIDE DEF table
<1>5. coder' = [exp |-> coder.exp, k |-> coder.k, table |-> table]
      /\ coder.exp \in BOOLEAN /\ coder.k \in 0..MaxExpK
  BY <1>1, <1>2 DEF CoderInv
<1>6. Freq' = Freq /\ Coded' BY <1>2, <1>3 DEF Freq, Coded
<1>7. CoderInv' BY <1>2, <1>3, <1>4, <1>5, <1>6 DEF CoderInv
<1>8. QueueInv' BY <1>2 DEF QueueInv
<1>9. CoverageInv'
  <2>1. stream.data \in Seq(DOMAIN Freq) BY <1>1, <1>3, FreqOfStream
  <2>2. DOMAIN table = DOMAIN Freq BY <1>4 DEF CodesOf
  <2>3. stream'.data \in Seq(DOMAIN coder'.table) BY <1>2, <1>5, <2>1, <2>2
  <2> QED BY <1>2, <1>6, <2>3 DEF CoverageInv
<1>10. PackedInv' BY <1>1, <1>2 DEF PackedInv
<1>11. RoundTrips' BY <1>2 DEF RoundTrips
<1> QED BY <1>1, <1>2, <1>7, <1>8, <1>9, <1>10, <1>11 DEF StreamInv

LEMMA EncodeStep ==
  ASSUME StreamInv, Encode
  PROVE  StreamInv'
<1>1. stream \in Streams /\ CoderInv /\ QueueInv /\ CoverageInv /\ (again => stream.kind = "counts")
  BY DEF StreamInv
<1>2. /\ pc = "built" /\ stream' = stream /\ forest' = forest /\ coder' = coder /\ again' = again
  BY DEF Encode
<1>3. Coded /\ (~coder.exp => stream.data \in Seq(DOMAIN coder.table)) BY <1>1, <1>2 DEF CoverageInv
<1>4. packed' = Encoded(stream.data, coder)
  <2>1. CASE coder.exp
    <3>1. packed' = [meta |-> Meta(coder), bits |-> ExpEncode(stream.data, coder.k)]
      BY <2>1 DEF Encode
    <3> QED BY <2>1, <3>1 DEF Encoded
  <2>2. CASE ~coder.exp
    <3>1. ToSet(stream.data) \subseteq DOMAIN coder.table BY <1>3, <2>2 DEF ToSet
    <3>2. packed' = [meta |-> Meta(coder), bits |-> HuffmanEncode(coder.table, stream.data)]
      BY <2>2, <3>1 DEF Encode
    <3> QED BY <2>2, <3>2 DEF Encoded
  <2> QED BY <2>1, <2>2
<1>5. packed'.bits \in Seq(Bit) /\ packed' # NotPacked BY <1>1, <1>3, <1>4, EncodedLemma
<1>6. pc' \in {"measured", "encoded"} /\ (pc' = "measured" => stream.kind = "counts")
  <2>1. pc' = CASE packed' = NotPacked -> "threw"
                [] stream.kind = "counts" /\ ~again -> "measured"
                [] OTHER -> "encoded"
    BY DEF Encode
  <2> QED BY <1>5, <2>1
<1>7. Coded' BY <1>2, <1>3 DEF Coded
<1>8. CoderInv' BY <1>1, <1>2 DEF CoderInv, Freq
<1>9. QueueInv' BY <1>1, <1>2, <1>6 DEF QueueInv
<1>10. CoverageInv' BY <1>2, <1>3, <1>6, <1>7 DEF CoverageInv
<1>11. PackedInv'
  <2>1. stream'.kind # "blocks" /\ stream'.kind # "patches" BY <1>7 DEF Coded
  <2>2. packed' = Encoded(stream'.data, coder') BY <1>2, <1>4
  <2> QED BY <1>5, <2>1, <2>2 DEF PackedInv
<1>12. RoundTrips' BY <1>6 DEF RoundTrips
<1> QED BY <1>1, <1>2, <1>6, <1>8, <1>9, <1>10, <1>11, <1>12 DEF StreamInv

LEMMA ReconsiderStep ==
  ASSUME StreamInv, Reconsider
  PROVE  StreamInv'
<1>1. stream \in Streams /\ CoderInv /\ QueueInv /\ PackedInv
  BY DEF StreamInv
<1>2. /\ pc = "measured" /\ pc' = "start" /\ stream' = stream /\ forest' = forest
      /\ again' = TRUE /\ packed' = packed
      /\ coder' = [coder EXCEPT !.exp = @ \/ 4 * MetaSize(coder) > Bytes(packed.bits)]
  BY DEF Reconsider
<1>3. stream.kind = "counts" BY <1>2 DEF StreamInv, CoverageInv
<1>4. /\ coder' = [exp |-> coder'.exp, k |-> coder.k, table |-> coder.table]
      /\ coder'.exp \in BOOLEAN
  <2>1. coder = [exp |-> coder.exp, k |-> coder.k, table |-> coder.table] BY <1>1 DEF CoderInv
  <2> DEFINE x == coder.exp \/ 4 * MetaSize(coder) > Bytes(packed.bits)
  <2>2. x \in BOOLEAN OBVIOUS
  <2>3. coder' = [coder EXCEPT !.exp = x] BY <1>2
  <2> HIDE DEF x
  <2>4. coder' = [exp |-> x, k |-> coder.k, table |-> coder.table] BY <2>1, <2>3
  <2> QED BY <2>2, <2>4
<1>5. Freq' = Freq BY <1>2 DEF Freq
<1>6. CoderInv' BY <1>1, <1>2, <1>3, <1>4, <1>5 DEF CoderInv
<1>7. QueueInv' BY <1>1, <1>2 DEF QueueInv
<1>8. CoverageInv' BY <1>2 DEF CoverageInv
<1>9. PackedInv' BY <1>1, <1>2 DEF PackedInv
<1>10. RoundTrips' BY <1>2 DEF RoundTrips
<1> QED BY <1>1, <1>2, <1>3, <1>6, <1>7, <1>8, <1>9, <1>10 DEF StreamInv

LEMMA DecodeSteps ==
  ASSUME StreamInv, DecodeBlocks \/ DecodePatches \/ DecodeSymbols
  PROVE  StreamInv'
<1>1. /\ stream \in Streams /\ CoderInv /\ QueueInv /\ CoverageInv /\ PackedInv
      /\ (again => stream.kind = "counts") /\ stream.data \in Seq(Nat)
  BY KindsOf DEF StreamInv
<1>2. /\ pc = "encoded" /\ pc' = "decoded" /\ stream' = stream /\ forest' = forest
      /\ coder' = coder /\ again' = again /\ packed' = packed
  <2>1. CASE DecodeBlocks BY <2>1 DEF DecodeBlocks, Decoded
  <2>2. CASE DecodePatches BY <2>2 DEF DecodePatches, Decoded
  <2>3. CASE DecodeSymbols BY <2>3 DEF DecodeSymbols, Decoded
  <2> QED BY <2>1, <2>2, <2>3
<1>3. CoderInv' BY <1>1, <1>2 DEF CoderInv, Freq
<1>4. QueueInv' BY <1>1, <1>2 DEF QueueInv
<1>5. CoverageInv' BY <1>1, <1>2 DEF CoverageInv, Coded
<1>6. PackedInv' BY <1>1, <1>2 DEF PackedInv
<1>7. ASSUME ~LongCode PROVE decoded' = stream.data
  <2>1. CASE DecodeBlocks
    <3>1. stream.kind = "blocks" /\ decoded' = BitUnpack(packed) BY <2>1 DEF DecodeBlocks, Decoded
    <3>2. packed = BitPack(stream.data) BY <1>1, <1>2, <3>1 DEF PackedInv
    <3> QED BY <1>1, <3>1, <3>2, BlocksReturn
  <2>2. CASE DecodePatches
    <3>1. stream.kind = "patches" /\ decoded' = RiceUnpack(packed) BY <2>2 DEF DecodePatches, Decoded
    <3>2. packed = RicePack(stream.data) BY <1>1, <1>2, <3>1 DEF PackedInv
    <3> QED BY <1>1, <3>1, <3>2, PatchesReturn
  <2>3. CASE DecodeSymbols
    <3> DEFINE reader == LoadMeta(packed.meta)
               n == Len(stream.data)
    <3>1. /\ stream.kind \in {"deltas", "shared", "counts"}
          /\ \/ reader.exp /\ decoded' = ExpDecode(packed.bits, reader.k, n)
             \/ ~reader.exp /\ \E map \in DecodeMaps(reader.table) :
                                 decoded' = HuffmanDecode(map, packed.bits, n)
      BY <2>3 DEF DecodeSymbols, Decoded
    <3>2. packed = Encoded(stream.data, coder) BY <1>1, <1>2, <3>1 DEF PackedInv
    <3>3. packed.meta = Meta(coder) BY <3>2 DEF Encoded
    <3>4. coder.exp \in BOOLEAN /\ coder.k \in Nat BY <1>1 DEF CoderInv
    <3>5. CASE coder.exp
      <4>1. packed.meta.exp = TRUE /\ packed.meta.k = coder.k BY <3>3, <3>5 DEF Meta
      <4>2. reader.exp = TRUE /\ reader.k = coder.k BY <4>1 DEF LoadMeta
      <4>3. packed.bits = ExpEncode(stream.data, coder.k) BY <3>2, <3>5 DEF Encoded
      <4> HIDE DEF reader
      <4>4. decoded' = ExpDecode(ExpEncode(stream.data, coder.k), coder.k, n) BY <3>1, <4>2, <4>3
      <4> QED BY <1>1, <3>4, <4>4, ExpReturns
    <3>6. CASE ~coder.exp
      <4>1. packed.meta.exp = FALSE /\ packed.meta.table = coder.table BY <3>3, <3>6 DEF Meta
      <4>2. reader.exp = FALSE /\ reader.table = coder.table BY <4>1 DEF LoadMeta
      <4> DEFINE table == coder.table
                 d == stream.data
      <4>3. packed.bits = HuffmanEncode(table, d) BY <3>2, <3>6 DEF Encoded
      <4>4. d \in Seq(DOMAIN table) BY <1>1, <1>2, <3>1, <3>6 DEF CoverageInv, Coded
      <4>5. Usable(table) BY <1>1, <1>7, TableLemma
      <4>6. PICK map \in DecodeMaps(table) : decoded' = HuffmanDecode(map, HuffmanEncode(table, d), Len(d))
        <5> HIDE DEF reader
        <5> QED BY <3>1, <4>2, <4>3
      <4> HIDE DEF table, d
      <4>7. decoded' = d BY <4>4, <4>5, <4>6, HuffmanReturns
      <4> QED BY <4>7 DEF d
    <3> QED BY <3>4, <3>5, <3>6
  <2> QED BY <2>1, <2>2, <2>3
<1>8. RoundTrips' BY <1>2, <1>7 DEF RoundTrips, LongCode
<1> QED BY <1>1, <1>2, <1>3, <1>4, <1>5, <1>6, <1>8 DEF StreamInv

LEMMA StreamNext == StreamInv /\ [Next]_vars => StreamInv'
<1> SUFFICES ASSUME StreamInv, [Next]_vars PROVE StreamInv' OBVIOUS
<1>1. CASE PackBlocks \/ PackPatches BY <1>1, PackSteps
<1>2. CASE BuildNothing \/ BuildExpGolomb BY <1>2, BuildSteps
<1>3. CASE Build \/ BuildComplete BY <1>3, StartSteps
<1>4. CASE Merge BY <1>4, MergeStep
<1>5. CASE EndTree BY <1>5, EndTreeStep
<1>6. CASE Encode BY <1>6, EncodeStep
<1>7. CASE Reconsider BY <1>7, ReconsiderStep
<1>8. CASE DecodeBlocks \/ DecodePatches \/ DecodeSymbols BY <1>8, DecodeSteps
<1>9. CASE UNCHANGED vars
  BY <1>9 DEF vars, StreamInv, CoderInv, QueueInv, CoverageInv, PackedInv, RoundTrips, LongCode,
              Freq, Coded
<1> QED BY <1>1, <1>2, <1>3, <1>4, <1>5, <1>6, <1>7, <1>8, <1>9 DEF Next

\* A coder's table comes from a whole tree of the stream's frequencies, whichever trees were
\* merged; every symbol has a code before any is asked for; and what is packed is what the
\* coder in its present mode makes of the stream.
THEOREM StreamInvariant == Spec => []StreamInv
<1>1. Init => StreamInv BY StreamInit
<1>2. StreamInv /\ [Next]_vars => StreamInv' BY StreamNext
<1> QED BY <1>1, <1>2, PTL DEF Spec

\* What an encoder writes its decoder reads, for any stream of any of the five kinds: block
\* numbers, patches, deltas with a codebook of their own or a shared one, and counts in
\* either mode, as long as no code is longer than its word.
THEOREM StreamsReturn == Spec => []RoundTrips
<1>1. StreamInv => RoundTrips BY DEF StreamInv
<1> QED BY <1>1, StreamInvariant, PTL

\* encode never throws: a codebook has a code for each symbol it is asked for, a shared one
\* because the warm-up frequencies are completed to the alphabet.
THEOREM NoSymbolWithoutCode == Spec => []EveryoneHasACode
<1>1. StreamInv => EveryoneHasACode BY DEF StreamInv, EveryoneHasACode
<1> QED BY <1>1, StreamInvariant, PTL

\* The trees in the queue of build_from_freq share out the symbols, the modes are as they
\* should be, and only an encoder of the counts is built twice.
THEOREM StreamTypes == Spec => []TypeOK
<1>1. ASSUME StreamInv PROVE TypeOK
  <2>1. /\ pc \in {"start", "merging", "built", "measured", "encoded", "decoded"}
        /\ (again => stream.kind = "counts") /\ CoderInv /\ QueueInv /\ PackedInv
    BY <1>1 DEF StreamInv
  <2>2. \A t, u \in forest : t = u \/ DOMAIN t.way \cap DOMAIN u.way = {}
    BY <2>1 DEF QueueInv, Trees
  <2>3. pc = "merging" => UNION {DOMAIN t.way : t \in forest} = DOMAIN Freq
    BY <2>1 DEF QueueInv, Trees
  <2>4. \A i \in DOMAIN packed.bits : packed.bits[i] \in {0, 1}
    <3>1. packed.bits \in Seq({0, 1}) BY <2>1 DEF PackedInv, Bit
    <3> QED BY <3>1
  <2>5. coder.exp \in BOOLEAN /\ coder.k \in 0..MaxExpK BY <2>1 DEF CoderInv
  <2> QED BY <2>1, <2>2, <2>3, <2>4, <2>5 DEF TypeOK
<1> QED BY <1>1, StreamInvariant, PTL

\* Only a stream of Fibonacci length gets a code longer than the word that holds it, whatever
\* its numbers and whichever of equally light trees were merged.
THEOREM LongCodesAreRare == Spec => []LongCodesNeedMany
<1>1. ASSUME StreamInv, LongCode PROVE Weight >= Fib[CodeBits + 3]
  <2>1. stream \in Streams /\ CoderInv BY <1>1 DEF StreamInv
  <2>2. CodesOf(coder.table, Freq) BY <1>1, <2>1, TableLemma
  <2>3. Frequencies(Freq) BY <2>1, FreqOfStream
  <2> DEFINE table == coder.table
  <2>4. PICK v \in DOMAIN table : Len(table[v]) > CodeBits BY <1>1 DEF LongCode
  <2> DEFINE n == Len(table[v])
  <2>5. CodeBits \in Nat \ {0} BY BitsAssumption
  <2>6. n \in Nat /\ n > CodeBits /\ (n >= 2 => Fib[n + 2] <= WeightIn(Freq, DOMAIN Freq))
    BY <2>2, <2>4 DEF CodesOf
  <2> HIDE DEF n, table
  <2>7. n >= 2 /\ CodeBits + 3 <= n + 2 /\ CodeBits + 3 \in Nat /\ n + 2 \in Nat BY <2>5, <2>6
  <2>8. Fib[CodeBits + 3] <= Fib[n + 2] /\ Fib[CodeBits + 3] \in Nat /\ Fib[n + 2] \in Nat
    BY <2>7, FibGrows, Fibonacci
  <2>9. WeightIn(Freq, DOMAIN Freq) = Weight
    <3>1. Freq = [x \in DOMAIN Freq |-> Freq[x]] BY <2>3 DEF Frequencies
    <3> QED BY <3>1 DEF WeightIn, Weight
  <2>10. WeightIn(Freq, DOMAIN Freq) \in Nat BY <2>3, WeightLemma
  <2> QED BY <2>6, <2>7, <2>8, <2>9, <2>10
<1>2. StreamInv => LongCodesNeedMany BY <1>1 DEF LongCodesNeedMany
<1> QED BY <1>2, StreamInvariant, PTL

\* The unary quotients of a Golomb-Rice stream cannot run away, whatever patches it is of:
\* the parameter is chosen from their average.
THEOREM PatchesAreShort == Spec => []RiceIsShort
<1>1. ASSUME StreamInv PROVE RiceIsShort
  <2> SUFFICES ASSUME pc = "encoded", stream.kind = "patches", stream.data # <<>>
               PROVE  Len(packed.bits) < Len(stream.data) * (packed.meta.k + 3) + ByteBits
    BY DEF RiceIsShort
  <2> DEFINE s == stream.data
  <2>1. s \in Seq(Nat) /\ \A i \in DOMAIN s : s[i] < Pow2[MaxRiceK + 1]
    BY <1>1, KindsOf DEF StreamInv
  <2>2. packed = RicePack(s) BY <1>1 DEF StreamInv, PackedInv
  <2>3. s # <<>> OBVIOUS
  <2> HIDE DEF s
  <2>4. \A i \in 1..Len(s) : s[i] < Pow2[MaxRiceK + 1] BY <2>1
  <2>5. Len(RicePack(s).bits) < Len(s) * (RicePack(s).meta.k + 3) + ByteBits
    BY <2>1, <2>3, <2>4, RiceLength
  <2> QED BY <2>2, <2>5 DEF s
<1> QED BY <1>1, StreamInvariant, PTL
=============================================================================
