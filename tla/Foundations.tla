----------------------------- MODULE Foundations -----------------------------
(***************************************************************************)
(* Induction, recursion, minima and sums, in the form the proofs about the *)
(* drivers and the codecs need.  An induction is stated for a set instead  *)
(* of a predicate, and a recursion for functions instead of operators.  A  *)
(* sum is shown to be the size of a set, which makes it independent of the *)
(* order in which the fold takes its terms.  The last sections are about   *)
(* two modules that several programs share: the call logs of MpiComm, and  *)
(* that both Quantizers keep the error bound whatever the lattice step is. *)
(***************************************************************************)
EXTENDS MpiComm, Quantizers, Integers, FiniteSetsExt, SequencesExt, FiniteSetTheorems,
        WellFoundedInduction, TLAPS

\* What holds of a set whenever it holds of its proper subsets holds of every
\* subset of a finite set.
LEMMA SubsetInduction ==
  ASSUME NEW S, IsFiniteSet(S), NEW P,
         \A T \in SUBSET S : (\A U \in SUBSET T : U # T => U \in P) => T \in P
  PROVE  \A T \in SUBSET S : T \in P
<1> DEFINE Bad == {T \in SUBSET S : T \notin P}
<1> SUFFICES ASSUME Bad # {} PROVE FALSE OBVIOUS
<1>1. Bad \subseteq FiniteSubsetsOf(S)
  <2>1. \A T \in SUBSET S : IsFiniteSet(T) BY FS_Subset
  <2> QED BY <2>1 DEF FiniteSubsetsOf
<1>2. IsWellFoundedOn(StrictSubsetOrdering(S), FiniteSubsetsOf(S))
  BY FS_StrictSubsetOrderingWellFounded
<1> HIDE DEF Bad
<1>3. PICK T \in Bad : \A U \in Bad : <<U, T>> \notin StrictSubsetOrdering(S)
  BY <1>1, <1>2, WFMin
<1>4. T \in SUBSET S /\ T \notin P BY <1>3 DEF Bad
<1>5. PICK U \in SUBSET T : U # T /\ U \notin P BY <1>4
<1>6. U \in Bad BY <1>4, <1>5 DEF Bad
<1>7. <<U, T>> \in StrictSubsetOrdering(S) BY <1>4, <1>5 DEF StrictSubsetOrdering
<1> QED BY <1>3, <1>6, <1>7

\* A finite set of integers that is not empty has a least element: one with the
\* fewest elements below it.
LEMMA MinLemma ==
  ASSUME NEW S \in SUBSET Int, IsFiniteSet(S), S # {}
  PROVE  Min(S) \in S /\ \A y \in S : Min(S) <= y
<1> DEFINE Below(x) == {z \in S : z < x}
           T == {Below(x) : x \in S}
<1>1. T \subseteq FiniteSubsetsOf(S) /\ T # {}
  <2>1. \A x \in S : Below(x) \in SUBSET S /\ IsFiniteSet(Below(x)) BY FS_Subset
  <2> QED BY <2>1 DEF FiniteSubsetsOf
<1>2. IsWellFoundedOn(StrictSubsetOrdering(S), FiniteSubsetsOf(S))
  BY FS_StrictSubsetOrderingWellFounded
<1>3. PICK B \in T : \A C \in T : <<C, B>> \notin StrictSubsetOrdering(S)
  BY <1>1, <1>2, WFMin
<1>4. PICK x \in S : B = Below(x) BY <1>3
<1>5. ASSUME NEW y \in S PROVE x <= y
  <2> SUFFICES ASSUME ~(x <= y) PROVE FALSE OBVIOUS
  <2>1. y < x
    <3>1. x \in Int /\ y \in Int OBVIOUS
    <3> QED BY <3>1
  <2>2. Below(y) \subseteq Below(x) /\ y \in Below(x) /\ y \notin Below(y)
    <3>1. x \in Int /\ y \in Int /\ \A z \in S : z \in Int OBVIOUS
    <3>2. \A z \in S : z < y => z < x BY <2>1, <3>1
    <3>3. ~(y < y) BY <3>1
    <3> QED BY <2>1, <3>2, <3>3
  <2>3. <<Below(y), B>> \in StrictSubsetOrdering(S)
    BY <2>2, <1>4 DEF StrictSubsetOrdering
  <2> QED BY <2>3, <1>3
<1>6. \E m \in S : \A y \in S : m <= y BY <1>5
<1> QED BY <1>6 DEF Min

\* The values a function takes on a finite set are finitely many.
LEMMA ImageLemma ==
  ASSUME NEW S, IsFiniteSet(S), NEW f, DOMAIN f = S, f = [x \in S |-> f[x]]
  PROVE  IsFiniteSet({f[x] : x \in S})
<1>1. f \in Surjection(S, {f[x] : x \in S}) BY DEF Surjection
<1> QED BY <1>1, FS_Surjection

\* So it has a greatest one, the least of the negated numbers.
LEMMA MaxLemma ==
  ASSUME NEW S \in SUBSET Int, IsFiniteSet(S), S # {}
  PROVE  Max(S) \in S /\ \A y \in S : y <= Max(S)
<1> DEFINE f == [x \in S |-> -x]
           N == {f[x] : x \in S}
           m == Min(N)
<1>1. N \in SUBSET Int /\ N # {}
  <2>1. \A x \in S : x \in Int /\ -x \in Int OBVIOUS
  <2> QED BY <2>1
<1>2. IsFiniteSet(N) BY ImageLemma
<1>3. m \in N /\ \A y \in N : m <= y
  <2> HIDE DEF N
  <2> QED BY <1>1, <1>2, MinLemma
<1> HIDE DEF m
<1>4. PICK x \in S : m = -x BY <1>3
<1>5. ASSUME NEW y \in S PROVE x >= y
  <2>1. -x <= -y BY <1>3, <1>4
  <2> QED BY <2>1
<1>6. \E g \in S : \A y \in S : g >= y BY <1>5
<1>7. Max(S) \in S /\ \A y \in S : Max(S) >= y BY <1>6, Zenon DEF Max
<1> QED BY <1>7

\* A finite union of finite sets is finite.
LEMMA UnionLemma ==
  ASSUME NEW S, IsFiniteSet(S), NEW f, f = [x \in S |-> f[x]],
         \A x \in S : IsFiniteSet(f[x])
  PROVE  IsFiniteSet(UNION {f[x] : x \in S})
<1>1. IsFiniteSet({f[x] : x \in S}) BY ImageLemma
<1> QED BY <1>1, FS_UNION

\* The least element is the minimum.
LEMMA LeastLemma ==
  ASSUME NEW S \in SUBSET Int, IsFiniteSet(S), NEW m \in S, \A y \in S : m <= y
  PROVE  Min(S) = m
<1>1. Min(S) \in S /\ Min(S) <= m /\ m <= Min(S) BY MinLemma
<1>2. Min(S) \in Int /\ m \in Int BY <1>1
<1> QED BY <1>1, <1>2

-----------------------------------------------------------------------------
(* Natural numbers *)

\* Induction, and course-of-values induction.
LEMMA BelowInduction ==
  ASSUME NEW P, \A n \in Nat : (\A k \in 0..(n - 1) : k \in P) => n \in P
  PROVE  \A n \in Nat : n \in P
<1> SUFFICES ASSUME NEW n \in Nat, n \notin P PROVE FALSE OBVIOUS
<1> DEFINE S == {k \in 0..n : k \notin P}
           m == Min(S)
<1>1. S \in SUBSET Int /\ n \in S OBVIOUS
<1>2. IsFiniteSet(S)
  <2>1. IsFiniteSet(0..n) BY FS_Interval
  <2> QED BY <2>1, FS_Subset
<1>3. m \in S /\ \A y \in S : m <= y
  <2> HIDE DEF S
  <2> QED BY <1>1, <1>2, MinLemma
<1> HIDE DEF m
<1>4. m \in 0..n /\ m \notin P BY <1>3
<1>5. \A k \in 0..(m - 1) : k \in P
  <2> SUFFICES ASSUME NEW k \in 0..(m - 1), k \notin P PROVE FALSE OBVIOUS
  <2>1. k \in 0..n /\ ~(m <= k) BY <1>4
  <2> QED BY <2>1, <1>3
<1> QED BY <1>4, <1>5

LEMMA SimpleInduction ==
  ASSUME NEW P, 0 \in P, \A n \in Nat : n \in P => n + 1 \in P
  PROVE  \A n \in Nat : n \in P
<1>1. ASSUME NEW n \in Nat, \A k \in 0..(n - 1) : k \in P PROVE n \in P
  <2>1. CASE n = 0 BY <2>1
  <2>2. CASE n # 0
    <3>1. n - 1 \in Nat /\ n - 1 \in 0..(n - 1) /\ (n - 1) + 1 = n BY <2>2
    <3>2. n - 1 \in P BY <3>1, <1>1
    <3>3. (n - 1) + 1 \in P BY <3>1, <3>2
    <3> QED BY <3>1, <3>3
  <2> QED BY <2>1, <2>2
<1> QED BY <1>1, BelowInduction

\* f is given on B by c, and elsewhere in terms of a smaller argument.
Solves(f, N, B, c, below, D) ==
  \A n \in N : f[n] = IF n \in B THEN c[n] ELSE D[n][f[below[n]]]

\* Two solutions, on initial segments of the numbers, agree.
LEMMA SolutionsAgree ==
  ASSUME NEW B, NEW c, NEW D, NEW below,
         \A n \in Nat \ B : below[n] \in Nat /\ below[n] < n,
         NEW m \in Nat, NEW g, Solves(g, 0..m, B, c, below, D),
         NEW k \in Nat, NEW h, Solves(h, 0..k, B, c, below, D)
  PROVE  \A n \in Nat : n <= m /\ n <= k => g[n] = h[n]
<1> DEFINE P == {n \in Nat : n <= m /\ n <= k => g[n] = h[n]}
<1>1. ASSUME NEW n \in Nat, \A i \in 0..(n - 1) : i \in P PROVE n \in P
  <2> SUFFICES ASSUME n <= m, n <= k PROVE g[n] = h[n] OBVIOUS
  <2>1. n \in 0..m /\ n \in 0..k OBVIOUS
  <2>2. /\ g[n] = IF n \in B THEN c[n] ELSE D[n][g[below[n]]]
        /\ h[n] = IF n \in B THEN c[n] ELSE D[n][h[below[n]]]
    BY <2>1 DEF Solves
  <2>3. ASSUME n \notin B PROVE g[below[n]] = h[below[n]]
    <3>1. below[n] \in Nat /\ below[n] < n BY <2>3
    <3>2. below[n] \in 0..(n - 1) /\ below[n] <= m /\ below[n] <= k BY <3>1
    <3> QED BY <3>2, <1>1
  <2> QED BY <2>2, <2>3
<1> HIDE DEF P
<1>2. \A n \in Nat : n \in P BY <1>1, BelowInduction
<1> QED BY <1>2 DEF P

\* Every such recursion defines a function.
LEMMA Recursion ==
  ASSUME NEW V, NEW B, NEW c, NEW D, NEW below,
         \A n \in Nat \cap B : c[n] \in V,
         \A n \in Nat \ B : below[n] \in Nat /\ below[n] < n,
         \A n \in Nat \ B : \A v \in V : D[n][v] \in V
  PROVE  \E f \in [Nat -> V] : Solves(f, Nat, B, c, below, D)
<1> DEFINE Sol(g, n) == g \in [0..n -> V] /\ Solves(g, 0..n, B, c, below, D)
           P == {n \in Nat : \E g : Sol(g, n)}
<1>1. ASSUME NEW n \in Nat, \A k \in 0..(n - 1) : k \in P PROVE n \in P
  <2>1. ASSUME NEW h, n # 0 => Sol(h, n - 1) PROVE \E g : Sol(g, n)
    <3> DEFINE last == IF n \in B THEN c[n] ELSE D[n][h[below[n]]]
               g == [k \in 0..n |-> IF k = n THEN last ELSE h[k]]
    <3>1. \A k \in 0..n : k # n => n # 0 /\ k \in 0..(n - 1) OBVIOUS
    <3>2. last \in V
      <4>1. CASE n \in B BY <4>1
      <4>2. CASE n \notin B
        <5>1. below[n] \in Nat /\ below[n] < n BY <4>2
        <5>2. n # 0 /\ below[n] \in 0..(n - 1) BY <5>1
        <5>3. h[below[n]] \in V BY <5>2, <2>1
        <5> QED BY <5>3, <4>2
      <4> QED BY <4>1, <4>2
    <3>3. g \in [0..n -> V]
      <4>1. \A k \in 0..n : k # n => h[k] \in V BY <3>1, <2>1
      <4> HIDE DEF last
      <4> QED BY <3>2, <4>1
    <3>4. ASSUME NEW k \in 0..n PROVE g[k] = IF k \in B THEN c[k] ELSE D[k][g[below[k]]]
      <4>1. ASSUME k \notin B PROVE below[k] \in 0..n /\ g[below[k]] = h[below[k]]
        <5>1. below[k] \in Nat /\ below[k] < k BY <4>1
        <5>2. below[k] \in 0..n /\ below[k] # n BY <5>1
        <5> QED BY <5>2
      <4>2. CASE k = n BY <4>1, <4>2
      <4>3. CASE k # n
        <5>1. h[k] = IF k \in B THEN c[k] ELSE D[k][h[below[k]]]
          BY <4>3, <3>1, <2>1 DEF Solves
        <5> QED BY <4>1, <4>3, <5>1
      <4> QED BY <4>2, <4>3
    <3> HIDE DEF g
    <3> QED BY <3>3, <3>4 DEF Solves
  <2>2. CASE n = 0 BY <2>1, <2>2
  <2>3. CASE n # 0
    <3>1. n - 1 \in 0..(n - 1) BY <2>3
    <3>2. PICK h : Sol(h, n - 1) BY <3>1, <1>1
    <3> HIDE DEF Sol
    <3> QED BY <3>2, <2>1
  <2> QED BY <2>2, <2>3
<1> HIDE DEF P
<1>2. \A n \in Nat : n \in P BY <1>1, BelowInduction
<1> DEFINE at(n) == CHOOSE g : Sol(g, n)
           f == [n \in Nat |-> at(n)[n]]
<1>3. \A n \in Nat : Sol(at(n), n)
  <2> SUFFICES ASSUME NEW n \in Nat PROVE \E g : Sol(g, n)
    <3> HIDE DEF Sol
    <3> QED OBVIOUS
  <2> QED BY <1>2 DEF P
<1> HIDE DEF at
<1>4. ASSUME NEW n \in Nat, NEW k \in 0..n PROVE at(n)[k] = f[k]
  <2>1. k \in Nat /\ k <= n /\ k <= k OBVIOUS
  <2>2. Solves(at(n), 0..n, B, c, below, D) /\ Solves(at(k), 0..k, B, c, below, D)
    BY <1>3, <2>1
  <2>3. at(n)[k] = at(k)[k] BY <2>1, <2>2, SolutionsAgree
  <2> QED BY <2>1, <2>3
<1>5. f \in [Nat -> V]
  <2>1. \A n \in Nat : n \in 0..n OBVIOUS
  <2>2. \A n \in Nat : at(n)[n] \in V BY <1>3, <2>1
  <2> QED BY <2>2
<1>6. ASSUME NEW n \in Nat PROVE f[n] = IF n \in B THEN c[n] ELSE D[n][f[below[n]]]
  <2>1. n \in 0..n OBVIOUS
  <2>2. at(n)[n] = IF n \in B THEN c[n] ELSE D[n][at(n)[below[n]]]
    BY <1>3, <2>1 DEF Solves
  <2>3. ASSUME n \notin B PROVE at(n)[below[n]] = f[below[n]]
    <3>1. below[n] \in Nat /\ below[n] < n BY <2>3
    <3>2. below[n] \in 0..n BY <3>1
    <3> QED BY <3>2, <1>4
  <2> QED BY <1>4, <2>1, <2>2, <2>3
<1> HIDE DEF f
<1> QED BY <1>5, <1>6 DEF Solves

\* The recursion that puts the bits of a number three places apart.
SpreadRule(f) ==
  [k \in Nat |-> [n \in Int |-> IF k = 0 THEN 0 ELSE (n % 2) + 8 * f[k - 1][n \div 2]]]

\* It has a solution, and every solution gives numbers.
LEMMA Spreading ==
  /\ \E f : f = SpreadRule(f)
  /\ \A f : f = SpreadRule(f) => \A k \in Nat : f[k] \in [Int -> Nat]
<1> DEFINE V == [Int -> Nat]
           c == [k \in Nat |-> [n \in Int |-> 0]]
           D == [k \in Nat |-> [v \in V |-> [n \in Int |-> (n % 2) + 8 * v[n \div 2]]]]
           below == [k \in Nat |-> k - 1]
<1>1. \A n \in Int : n % 2 \in 0..1 /\ n \div 2 \in Int OBVIOUS
<1>2. \A v \in V : [n \in Int |-> (n % 2) + 8 * v[n \div 2]] \in V BY <1>1
<1>3. \E f \in [Nat -> V] : Solves(f, Nat, {0}, c, below, D)
  <2>1. \A k \in Nat \cap {0} : c[k] \in V OBVIOUS
  <2>2. \A k \in Nat \ {0} : below[k] \in Nat /\ below[k] < k OBVIOUS
  <2>3. \A k \in Nat \ {0} : \A v \in V : D[k][v] \in V BY <1>2
  <2> HIDE DEF V, c, below, D
  <2> QED BY <2>1, <2>2, <2>3, Recursion
<1>4. \E f : f = SpreadRule(f)
  <2>1. PICK f \in [Nat -> V] : Solves(f, Nat, {0}, c, below, D) BY <1>3
  <2>2. ASSUME NEW k \in Nat
        PROVE  f[k] = [n \in Int |-> IF k = 0 THEN 0 ELSE (n % 2) + 8 * f[k - 1][n \div 2]]
    <3>1. CASE k = 0
      <4>1. f[k] = c[k] BY <2>1, <3>1 DEF Solves
      <4> QED BY <4>1, <3>1
    <3>2. CASE k # 0
      <4>1. f[k] = D[k][f[below[k]]] BY <2>1, <3>2 DEF Solves
      <4>2. k - 1 \in Nat /\ below[k] = k - 1 BY <3>2
      <4>3. f[k - 1] \in V BY <2>1, <4>2
      <4>4. f[k] = [n \in Int |-> (n % 2) + 8 * f[k - 1][n \div 2]] BY <4>1, <4>2, <4>3
      <4> QED BY <4>4, <3>2
    <3> QED BY <3>1, <3>2
  <2>3. f = [k \in Nat |-> f[k]] BY <2>1
  <2>4. \A k \in Nat : f[k] = SpreadRule(f)[k] BY <2>2 DEF SpreadRule
  <2>5. SpreadRule(f) = [k \in Nat |-> SpreadRule(f)[k]] BY DEF SpreadRule
  <2>6. f = SpreadRule(f) BY <2>3, <2>4, <2>5
  <2> QED BY <2>6
<1>5. ASSUME NEW f, f = SpreadRule(f) PROVE \A k \in Nat : f[k] \in [Int -> Nat]
  <2> DEFINE P == {k \in Nat : f[k] \in V}
  <2>1. \A k \in Nat : f[k] = [n \in Int |-> IF k = 0 THEN 0 ELSE (n % 2) + 8 * f[k - 1][n \div 2]]
    BY <1>5 DEF SpreadRule
  <2>2. 0 \in P
    <3>1. f[0] = [n \in Int |-> 0] BY <2>1
    <3> QED BY <3>1
  <2>3. ASSUME NEW k \in Nat, k \in P PROVE k + 1 \in P
    <3>1. k + 1 \in Nat /\ (k + 1) - 1 = k /\ k + 1 # 0 OBVIOUS
    <3>2. f[k + 1] = [n \in Int |-> (n % 2) + 8 * f[k][n \div 2]] BY <2>1, <3>1
    <3> QED BY <1>2, <2>3, <3>1, <3>2
  <2> HIDE DEF P
  <2>4. \A k \in Nat : k \in P BY <2>2, <2>3, SimpleInduction
  <2> QED BY <2>4 DEF P
<1> QED BY <1>4, <1>5

-----------------------------------------------------------------------------
(* Products and quotients *)

\* Integer division rounds down.
LEMMA DivBounds ==
  ASSUME NEW x \in Int, NEW y \in Nat \ {0}
  PROVE  /\ x \div y \in Int
         /\ y * (x \div y) <= x /\ x < y * (x \div y) + y
OBVIOUS

LEMMA Products ==
  /\ \A x, y \in Int : x * y \in Int
  /\ \A x, y \in Int : x >= 0 /\ y >= 0 => x * y >= 0
OBVIOUS

\* Three factors up to A multiply to no more than its cube.
LEMMA CubeProduct ==
  ASSUME NEW A \in Nat, NEW x \in 0..A, NEW y \in 0..A, NEW z \in 0..A
  PROVE  x * y * z <= A * A * A
<1>1. /\ x * y \in Int /\ x * y >= 0 /\ A * y \in Int /\ A * A \in Int
      /\ (A - x) * y >= 0 /\ A * (A - y) >= 0
  BY Products
<1>2. (A - x) * y = A * y - x * y /\ A * (A - y) = A * A - A * y OBVIOUS
<1>3. x * y <= A * A BY <1>1, <1>2
<1> DEFINE p == x * y
           q == A * A
<1>4. p \in Int /\ p >= 0 /\ q \in Int /\ p <= q BY <1>1, <1>3
<1> HIDE DEF p, q
<1>5. p * z \in Int /\ q * z \in Int /\ q * A \in Int /\ (q - p) * z >= 0 /\ q * (A - z) >= 0
  BY <1>4, Products
<1>6. (q - p) * z = q * z - p * z /\ q * (A - z) = q * A - q * z BY <1>4
<1>7. p * z <= q * A BY <1>5, <1>6
<1> QED BY <1>7 DEF p, q

LEMMA ModuloLemma ==
  ASSUME NEW a \in Int, NEW d \in Nat \ {0}
  PROVE  /\ a \div d \in Int /\ a % d \in 0..(d - 1)
         /\ a = d * (a \div d) + (a % d)
OBVIOUS

\* A quotient and a remainder that fit are the quotient and the remainder.
LEMMA DivisionUnique ==
  ASSUME NEW d \in Nat \ {0}, NEW q \in Int, NEW x \in 0..(d - 1), NEW a \in Int, a = d * q + x
  PROVE  a \div d = q /\ a % d = x
<1> DEFINE p == a \div d
           y == a % d
<1>1. p \in Int /\ y \in 0..(d - 1) /\ a = d * p + y BY ModuloLemma
<1> HIDE DEF p, y
<1>2. d * q \in Int /\ d * p \in Int BY <1>1, Products
<1>3. ~(p >= q + 1)
  <2> SUFFICES ASSUME p >= q + 1 PROVE FALSE OBVIOUS
  <2>1. d * (p - q - 1) >= 0 BY <1>1, Products
  <2>2. d * (p - q - 1) = d * p - d * q - d BY <1>1
  <2> QED BY <1>1, <1>2, <2>1, <2>2
<1>4. ~(q >= p + 1)
  <2> SUFFICES ASSUME q >= p + 1 PROVE FALSE OBVIOUS
  <2>1. d * (q - p - 1) >= 0 BY <1>1, Products
  <2>2. d * (q - p - 1) = d * q - d * p - d BY <1>1
  <2> QED BY <1>1, <1>2, <2>1, <2>2
<1>5. p = q BY <1>1, <1>3, <1>4
<1>6. y = x BY <1>1, <1>2, <1>5
<1> QED BY <1>5, <1>6 DEF p, y

\* The next number with the same remainder.
LEMMA SameRemainder ==
  ASSUME NEW a \in Int, NEW d \in Nat \ {0}
  PROVE  (a + d) % d = a % d
<1> DEFINE q == a \div d
           x == a % d
<1>1. q \in Int /\ x \in 0..(d - 1) /\ a = d * q + x BY ModuloLemma
<1> HIDE DEF q, x
<1>2. d * (q + 1) = d * q + d /\ d * q \in Int BY <1>1, Products
<1>3. a + d = d * (q + 1) + x /\ q + 1 \in Int /\ a + d \in Int BY <1>1, <1>2
<1>4. (a + d) % d = x BY <1>1, <1>3, DivisionUnique
<1> QED BY <1>4 DEF x

LEMMA NextInClass ==
  ASSUME NEW a \in Int, NEW b \in Int, NEW d \in Nat \ {0}, a % d = b % d, b < a + d
  PROVE  b <= a
<1> DEFINE p == a \div d
           q == b \div d
           x == a % d
<1>1. /\ p \in Int /\ x \in 0..(d - 1) /\ a = d * p + x
      /\ q \in Int /\ b = d * q + x
  BY ModuloLemma
<1> HIDE DEF p, q, x
<1>2. d * p \in Int /\ d * q \in Int BY <1>1, Products
<1>3. q <= p
  <2> SUFFICES ASSUME q >= p + 1 PROVE FALSE BY <1>1
  <2>1. d * (q - p - 1) >= 0 BY <1>1, Products
  <2>2. d * (q - p - 1) = d * q - d * p - d BY <1>1
  <2> QED BY <1>1, <1>2, <2>1, <2>2
<1>4. d * (p - q) >= 0 BY <1>1, <1>3, Products
<1>5. d * (p - q) = d * p - d * q BY <1>1
<1> QED BY <1>1, <1>2, <1>4, <1>5

\* Of total things in d portions, the first i portions are fewer than all of them.
LEMMA FractionLemma ==
  ASSUME NEW total \in Nat \ {0}, NEW d \in Nat \ {0}, NEW i \in 1..(d - 1)
  PROVE  (total * i) \div d \in Nat /\ (total * i) \div d < total
<1> DEFINE q == (total * i) \div d
<1>1. total * i \in Int /\ total * i >= 0 BY Products
<1>2. q \in Int /\ d * q <= total * i /\ total * i < d * q + d BY <1>1, DivBounds
<1> HIDE DEF q
<1>3. q >= 0
  <2> SUFFICES ASSUME q <= -1 PROVE FALSE BY <1>2
  <2>1. d * (-1 - q) >= 0 BY <1>2, Products
  <2>2. d * (-1 - q) = -d - d * q BY <1>2
  <2>3. d * q \in Int BY <1>2, Products
  <2> QED BY <1>1, <1>2, <2>1, <2>2, <2>3
<1>4. q < total
  <2> SUFFICES ASSUME q >= total PROVE FALSE BY <1>2
  <2>1. d * (q - total) >= 0 BY <1>2, Products
  <2>2. d * (q - total) = d * q - d * total BY <1>2
  <2>3. total * (d - 1 - i) >= 0 BY Products
  <2>4. total * (d - 1 - i) = d * total - total - total * i OBVIOUS
  <2>5. d * q \in Int /\ d * total \in Int BY <1>2, Products
  <2> QED BY <1>1, <1>2, <2>1, <2>2, <2>3, <2>4, <2>5
<1> QED BY <1>2, <1>3, <1>4 DEF q

\* Division keeps the order.
LEMMA DivMonotone ==
  ASSUME NEW x \in Nat, NEW y \in Nat, x <= y, NEW d \in Nat \ {0}
  PROVE  /\ x \div d \in Nat /\ y \div d \in Nat /\ x \div d <= y \div d
<1> DEFINE p == x \div d
           q == y \div d
<1>1. /\ p \in Int /\ d * p <= x /\ x < d * p + d
      /\ q \in Int /\ d * q <= y /\ y < d * q + d
  BY DivBounds
<1> HIDE DEF p, q
<1>2. \A z \in Int : d * z \in Int BY Products
<1>3. ASSUME NEW z \in Int, NEW v \in Nat, v < d * z + d PROVE z >= 0
  <2> SUFFICES ASSUME z <= -1 PROVE FALSE OBVIOUS
  <2>1. d * (-1 - z) >= 0 BY Products
  <2>2. d * (-1 - z) = -d - d * z OBVIOUS
  <2> QED BY <1>2, <1>3, <2>1, <2>2
<1>4. p <= q
  <2> SUFFICES ASSUME q + 1 <= p PROVE FALSE BY <1>1
  <2>1. d * (p - q - 1) >= 0 BY <1>1, Products
  <2>2. d * (p - q - 1) = d * p - d * q - d BY <1>1
  <2> QED BY <1>1, <1>2, <2>1, <2>2
<1> QED BY <1>1, <1>3, <1>4 DEF p, q

-----------------------------------------------------------------------------
(* Sums *)

\* As many pairs as the terms of f on S add up to.
Units(f, S) == UNION {{x} \X (1..f[x]) : x \in S}

\* The pairs of one term and of the others are disjoint.
LEMMA UnitsStep ==
  ASSUME NEW S, NEW f, IsFiniteSet(Units(f, S)), NEW x \in S, f[x] \in Nat
  PROVE  /\ IsFiniteSet(Units(f, S \ {x}))
         /\ Cardinality(Units(f, S)) = f[x] + Cardinality(Units(f, S \ {x}))
<1> DEFINE A == {x} \X (1..f[x])
           B == Units(f, S \ {x})
<1>1. Units(f, S) = A \cup B /\ A \cap B = {} BY DEF Units
<1>2. IsFiniteSet(A) /\ IsFiniteSet(B) BY <1>1, FS_Subset
<1>3. Cardinality(A) = f[x]
  <2>1. Cardinality({x}) = 1 /\ IsFiniteSet({x}) BY FS_Singleton
  <2>2. IsFiniteSet(1..f[x]) /\ Cardinality(1..f[x]) = f[x]
    <3>1. IsFiniteSet(1..f[x]) /\ Cardinality(1..f[x]) = IF 1 > f[x] THEN 0 ELSE f[x] - 1 + 1
      <4>1. 1 \in Int /\ f[x] \in Int OBVIOUS
      <4> QED BY <4>1, FS_Interval
    <3> QED BY <3>1
  <2>3. Cardinality(A) = Cardinality({x}) * Cardinality(1..f[x])
    BY <2>1, <2>2, FS_Product
  <2> QED BY <2>1, <2>2, <2>3
<1>4. Cardinality(A \cup B) = Cardinality(A) + Cardinality(B) - Cardinality(A \cap B)
  BY <1>2, FS_Union
<1>5. Cardinality(A \cap B) = 0 BY <1>1, FS_EmptySet
<1>6. Cardinality(A) \in Nat /\ Cardinality(B) \in Nat BY <1>2, FS_CardinalityType
<1> QED BY <1>1, <1>2, <1>3, <1>4, <1>5, <1>6

LEMMA UnitsFinite ==
  ASSUME NEW S, IsFiniteSet(S), NEW f, \A x \in S : f[x] \in Nat
  PROVE  IsFiniteSet(Units(f, S))
<1> DEFINE h == [x \in S |-> {x} \X (1..f[x])]
<1>1. \A x \in S : IsFiniteSet(h[x])
  <2> SUFFICES ASSUME NEW x \in S PROVE IsFiniteSet({x} \X (1..f[x])) OBVIOUS
  <2>1. IsFiniteSet({x}) BY FS_Singleton
  <2>2. IsFiniteSet(1..f[x]) BY FS_Interval
  <2> QED BY <2>1, <2>2, FS_Product
<1>2. h \in Surjection(S, {h[x] : x \in S}) BY DEF Surjection
<1>3. IsFiniteSet({h[x] : x \in S})
  <2> HIDE DEF h
  <2> QED BY <1>2, FS_Surjection
<1>4. IsFiniteSet(UNION {h[x] : x \in S})
  <2> HIDE DEF h
  <2> QED BY <1>1, <1>3, FS_UNION
<1> QED BY <1>4 DEF Units

\* What the fold of a sum is, without its operators.
LEMMA SumFold ==
  ASSUME NEW f, NEW S
  PROVE  SumFunctionOnSet(f, S) =
           (CHOOSE g : g = [s \in SUBSET S |->
              IF s = {} THEN 0
              ELSE f[CHOOSE x \in s : TRUE] + g[s \ {CHOOSE x \in s : TRUE}]])[S]
BY Zenon DEF SumFunctionOnSet, FoldFunctionOnSet, MapThenFoldSet

\* A sum is the size of its units.
LEMMA SumIsUnits ==
  ASSUME NEW S, IsFiniteSet(S), NEW f, \A x \in S : f[x] \in Nat
  PROVE  SumFunctionOnSet(f, S) = Cardinality(Units(f, S))
<1> DEFINE ch(s) == CHOOSE x \in s : TRUE
           Rec(g) == [s \in SUBSET S |-> IF s = {} THEN 0 ELSE f[ch(s)] + g[s \ {ch(s)}]]
           size == [s \in SUBSET S |-> Cardinality(Units(f, s))]
<1>1. \A s \in SUBSET S : s # {} => ch(s) \in s OBVIOUS
<1> HIDE DEF ch
<1>2. size = Rec(size)
  <2>1. ASSUME NEW s \in SUBSET S
        PROVE  size[s] = IF s = {} THEN 0 ELSE f[ch(s)] + size[s \ {ch(s)}]
    <3>1. CASE s = {}
      <4>1. Units(f, s) = {} BY <3>1 DEF Units
      <4> QED BY <4>1, <3>1, FS_EmptySet
    <3>2. CASE s # {}
      <4>1. ch(s) \in s /\ f[ch(s)] \in Nat BY <1>1, <3>2
      <4>2. IsFiniteSet(Units(f, s)) BY FS_Subset, UnitsFinite
      <4>3. Cardinality(Units(f, s)) = f[ch(s)] + Cardinality(Units(f, s \ {ch(s)}))
        BY <4>1, <4>2, UnitsStep
      <4>4. s \ {ch(s)} \in SUBSET S OBVIOUS
      <4> QED BY <4>3, <4>4, <3>2
    <3> QED BY <3>1, <3>2
  <2>2. size = [s \in SUBSET S |-> size[s]] OBVIOUS
  <2> HIDE DEF size
  <2> QED BY <2>1, <2>2
<1>3. ASSUME NEW g, g = Rec(g) PROVE g[S] = size[S]
  <2> DEFINE P == {s \in SUBSET S : g[s] = size[s]}
  <2>1. ASSUME NEW T \in SUBSET S, \A U \in SUBSET T : U # T => U \in P PROVE T \in P
    <3>1. g[T] = IF T = {} THEN 0 ELSE f[ch(T)] + g[T \ {ch(T)}] BY <1>3
    <3>2. size[T] = IF T = {} THEN 0 ELSE f[ch(T)] + size[T \ {ch(T)}]
      <4> HIDE DEF size
      <4> QED BY <1>2
    <3>3. CASE T = {} BY <3>1, <3>2, <3>3
    <3>4. CASE T # {}
      <4>1. T \ {ch(T)} \in SUBSET T /\ T \ {ch(T)} # T BY <1>1, <3>4
      <4>2. g[T \ {ch(T)}] = size[T \ {ch(T)}] BY <4>1, <2>1
      <4> HIDE DEF size
      <4> QED BY <3>1, <3>2, <3>4, <4>2
    <3> QED BY <3>3, <3>4
  <2> HIDE DEF P
  <2>2. \A T \in SUBSET S : T \in P BY <2>1, SubsetInduction
  <2> QED BY <2>2 DEF P
<1> DEFINE it == CHOOSE g : g = Rec(g)
<1>4. it = Rec(it)
  <2> HIDE DEF size, Rec
  <2> QED BY <1>2
<1>5. SumFunctionOnSet(f, S) = it[S] BY SumFold DEF ch
<1> HIDE DEF it
<1> QED BY <1>3, <1>4, <1>5

\* The sum of a function is a number, and at least each of its terms.
LEMMA SumType ==
  ASSUME NEW f, IsFiniteSet(DOMAIN f), \A x \in DOMAIN f : f[x] \in Nat
  PROVE  /\ SumFunction(f) = Cardinality(Units(f, DOMAIN f))
         /\ SumFunction(f) \in Nat
         /\ \A x \in DOMAIN f : f[x] <= SumFunction(f)
<1>1. SumFunction(f) = Cardinality(Units(f, DOMAIN f)) BY SumIsUnits DEF SumFunction
<1>2. IsFiniteSet(Units(f, DOMAIN f)) BY UnitsFinite
<1>3. ASSUME NEW x \in DOMAIN f PROVE f[x] <= SumFunction(f)
  <2>1. /\ IsFiniteSet(Units(f, DOMAIN f \ {x}))
        /\ SumFunction(f) = f[x] + Cardinality(Units(f, DOMAIN f \ {x}))
    BY <1>1, <1>2, UnitsStep
  <2>2. Cardinality(Units(f, DOMAIN f \ {x})) \in Nat BY <2>1, FS_CardinalityType
  <2> QED BY <2>1, <2>2
<1> QED BY <1>1, <1>2, <1>3, FS_CardinalityType

\* One term more.
LEMMA SumAdd ==
  ASSUME NEW f, IsFiniteSet(DOMAIN f), \A x \in DOMAIN f : f[x] \in Nat,
         NEW x \in DOMAIN f, NEW g, DOMAIN g = DOMAIN f \ {x},
         \A y \in DOMAIN g : g[y] = f[y]
  PROVE  SumFunction(f) = f[x] + SumFunction(g)
<1>1. SumFunction(f) = f[x] + Cardinality(Units(f, DOMAIN f \ {x}))
  BY SumType, UnitsFinite, UnitsStep
<1>2. Units(g, DOMAIN g) = Units(f, DOMAIN f \ {x}) BY DEF Units
<1>3. IsFiniteSet(DOMAIN g) /\ \A y \in DOMAIN g : g[y] \in Nat BY FS_Subset
<1> QED BY <1>1, <1>2, <1>3, SumType

LEMMA SumEmpty == ASSUME NEW f, DOMAIN f = {} PROVE SumFunction(f) = 0
<1>1. Units(f, DOMAIN f) = {} BY DEF Units
<1>2. IsFiniteSet(DOMAIN f) BY FS_EmptySet
<1> QED BY <1>1, <1>2, SumType, FS_EmptySet

\* Sets that have nothing in common together have as many elements as the sum of
\* their sizes.
LEMMA DisjointUnits ==
  ASSUME NEW S, NEW h, NEW f,
         \A s \in S : IsFiniteSet(h[s]) /\ f[s] = Cardinality(h[s]),
         \A s, t \in S : s # t => h[s] \cap h[t] = {},
         IsFiniteSet(UNION {h[s] : s \in S})
  PROVE  Cardinality(Units(f, S)) = Cardinality(UNION {h[s] : s \in S})
<1> DEFINE U == UNION {{s} \X (1..f[s]) : s \in S}
           H == UNION {h[s] : s \in S}
           b(s) == CHOOSE g : g \in Bijection(1..f[s], h[s])
           F == [u \in U |-> b(u[1])[u[2]]]
<1>1. \A s \in S : b(s) \in Bijection(1..f[s], h[s])
  <2> SUFFICES ASSUME NEW s \in S PROVE \E g : g \in Bijection(1..f[s], h[s]) OBVIOUS
  <2>1. ExistsBijection(1..Cardinality(h[s]), h[s]) BY FS_CardinalityType
  <2> QED BY <2>1 DEF ExistsBijection
<1> HIDE DEF b
<1>2. \A s \in S : /\ b(s) \in [1..f[s] -> h[s]]
                   /\ \A i, j \in 1..f[s] : b(s)[i] = b(s)[j] => i = j
                   /\ \A x \in h[s] : \E i \in 1..f[s] : b(s)[i] = x
  <2> SUFFICES ASSUME NEW s \in S, NEW g, g \in Bijection(1..f[s], h[s])
               PROVE  /\ g \in [1..f[s] -> h[s]]
                      /\ \A i, j \in 1..f[s] : g[i] = g[j] => i = j
                      /\ \A x \in h[s] : \E i \in 1..f[s] : g[i] = x
    BY <1>1
  <2>1. DOMAIN g = 1..f[s] BY DEF Bijection, Injection
  <2> QED BY <2>1 DEF Bijection, Injection, Surjection, IsInjective
<1>3. \A u \in U : /\ u[1] \in S /\ u[2] \in 1..f[u[1]]
                   /\ u = <<u[1], u[2]>> /\ F[u] \in h[u[1]]
  <2> TAKE u \in U
  <2>1. PICK s \in S : u \in {s} \X (1..f[s]) OBVIOUS
  <2>2. u[1] = s /\ u[2] \in 1..f[s] /\ u = <<u[1], u[2]>> BY <2>1
  <2>3. F[u] = b(u[1])[u[2]] OBVIOUS
  <2>4. b(s)[u[2]] \in h[s] BY <1>2, <2>2
  <2> QED BY <2>2, <2>3, <2>4
<1>4. F \in [U -> H]
  <2>1. \A u \in U : F[u] \in H
    <3>1. \A x : (\E s \in S : x \in h[s]) => x \in H OBVIOUS
    <3> HIDE DEF F, U, H
    <3>2. \A u \in U : \E s \in S : F[u] \in h[s] BY <1>3
    <3> QED BY <3>1, <3>2
  <2>2. F = [u \in U |-> F[u]] OBVIOUS
  <2> HIDE DEF F, U, H
  <2> QED BY <2>1, <2>2
<1>5. ASSUME NEW u \in U, NEW v \in U, F[u] = F[v] PROVE u = v
  <2>1. u[1] = v[1] BY <1>3, <1>5
  <2>2. b(u[1])[u[2]] = b(v[1])[v[2]] BY <1>5
  <2>3. u[2] = v[2] BY <1>2, <1>3, <2>1, <2>2
  <2> QED BY <1>3, <2>1, <2>3
<1>6. ASSUME NEW x \in H PROVE \E u \in U : F[u] = x
  <2>1. PICK s \in S : x \in h[s] OBVIOUS
  <2>2. PICK i \in 1..f[s] : b(s)[i] = x BY <1>2, <2>1
  <2>3. <<s, i>> \in U BY <2>1, <2>2
  <2>4. F[<<s, i>>] = x BY <2>2, <2>3
  <2> QED BY <2>3, <2>4
<1> HIDE DEF F, H, U
<1>7. F \in Injection(U, H) /\ F \in Surjection(U, H)
  BY <1>4, <1>5, <1>6 DEF Injection, Surjection, IsInjective
<1>8. Cardinality(U) = Cardinality(H)
  <2>1. IsFiniteSet(H) BY DEF H
  <2> QED BY <1>7, <2>1, FS_Injection
<1> QED BY <1>8 DEF Units, U, H

\* The sizes of disjoint sets add up to the size of their union.
LEMMA DisjointSum ==
  ASSUME NEW f, NEW h, IsFiniteSet(DOMAIN f),
         \A s \in DOMAIN f : IsFiniteSet(h[s]) /\ f[s] = Cardinality(h[s]),
         \A s, t \in DOMAIN f : s # t => h[s] \cap h[t] = {},
         IsFiniteSet(UNION {h[s] : s \in DOMAIN f})
  PROVE  SumFunction(f) = Cardinality(UNION {h[s] : s \in DOMAIN f})
<1>1. \A s \in DOMAIN f : f[s] \in Nat BY FS_CardinalityType
<1> QED BY <1>1, SumType, DisjointUnits

-----------------------------------------------------------------------------
(* Sequences *)

\* A list without repetitions that is as long as a finite set is large has each
\* element of the set.
LEMMA ListedOnto ==
  ASSUME NEW S, IsFiniteSet(S), NEW s \in [1..Cardinality(S) -> S],
         \A i, k \in 1..Cardinality(S) : i # k => s[i] # s[k]
  PROVE  \A x \in S : \E i \in 1..Cardinality(S) : s[i] = x
<1> DEFINE n == Cardinality(S)
<1>1. n \in Nat BY FS_CardinalityType
<1>2. IsFiniteSet(1..n) /\ Cardinality(1..n) = n
  <2>1. 1 \in Int /\ n \in Int BY <1>1
  <2> HIDE DEF n
  <2>2. IsFiniteSet(1..n) /\ Cardinality(1..n) = IF 1 > n THEN 0 ELSE n - 1 + 1
    BY <2>1, FS_Interval
  <2> QED BY <1>1, <2>2
<1>3. s \in Injection(1..n, S) BY DEF Injection, IsInjective
<1>4. s \in Surjection(1..n, S)
  <2> HIDE DEF n
  <2>1. Cardinality(1..n) = Cardinality(S) BY <1>2 DEF n
  <2> QED BY <1>3, <2>1, FS_Injection
<1> QED BY <1>4 DEF Surjection

\* A finite set can be listed in any total order R of its elements.
LEMMA Sorting ==
  ASSUME NEW S, IsFiniteSet(S), NEW R,
         \A x, y \in S : x # y => <<x, y>> \in R \/ <<y, x>> \in R,
         \A x, y, z \in S : <<x, y>> \in R /\ <<y, z>> \in R => <<x, z>> \in R
  PROVE  \E s \in [1..Cardinality(S) -> S] :
           \A i, k \in 1..Cardinality(S) : i < k => <<s[i], s[k]>> \in R
<1> DEFINE Listed(s, T) == /\ s \in [1..Cardinality(T) -> T]
                           /\ \A i, k \in 1..Cardinality(T) : i < k => <<s[i], s[k]>> \in R
           Greatest(m, T) == m \in T /\ \A y \in T : y # m => <<y, m>> \in R
           L == {T \in SUBSET S : T # {} => \E m : Greatest(m, T)}
           P == {T \in SUBSET S : \E s : Listed(s, T)}
<1>1. ASSUME NEW T \in SUBSET S, \A U \in SUBSET T : U # T => U \in L PROVE T \in L
  <2> SUFFICES ASSUME T # {} PROVE \E m : Greatest(m, T) OBVIOUS
  <2>1. PICK x \in T : TRUE OBVIOUS
  <2> DEFINE U == T \ {x}
  <2>2. CASE U = {}
    <3>1. Greatest(x, T) BY <2>2
    <3> QED BY <3>1
  <2>3. CASE U # {}
    <3>1. U \in SUBSET T /\ U # T BY <2>1
    <3>2. PICK m : Greatest(m, U) BY <1>1, <2>3, <3>1
    <3>3. CASE <<x, m>> \in R
      <4>1. Greatest(m, T) BY <3>2, <3>3
      <4> QED BY <4>1
    <3>4. CASE <<m, x>> \in R
      <4>1. Greatest(x, T)
        <5> SUFFICES ASSUME NEW y \in T, y # x PROVE <<y, x>> \in R OBVIOUS
        <5>1. y = m \/ <<y, m>> \in R BY <3>2
        <5>2. y \in S /\ m \in S /\ x \in S BY <3>2
        <5> QED BY <3>4, <5>1, <5>2
      <4> QED BY <4>1
    <3>5. x \in S /\ m \in S /\ x # m BY <3>2
    <3> QED BY <3>3, <3>4, <3>5
  <2> QED BY <2>2, <2>3
<1> HIDE DEF L
<1>2. \A T \in SUBSET S : T \in L BY <1>1, SubsetInduction
<1>3. ASSUME NEW T \in SUBSET S, \A U \in SUBSET T : U # T => U \in P PROVE T \in P
  <2>1. CASE T = {}
    <3>1. Cardinality(T) = 0 BY <2>1, FS_EmptySet
    <3>2. Listed(<<>>, T) BY <3>1
    <3> QED BY <3>2
  <2>2. CASE T # {}
    <3>0. PICK m : Greatest(m, T) BY <1>2, <2>2 DEF L
    <3> DEFINE U == T \ {m}
               n == Cardinality(U)
    <3>1. IsFiniteSet(T) BY FS_Subset
    <3>2. m \in T /\ \A y \in T : y # m => <<y, m>> \in R BY <3>0
    <3>3. n \in Nat /\ Cardinality(T) = n + 1
      <4>1. IsFiniteSet(U) BY <3>1, FS_Subset
      <4>2. Cardinality(T) = Cardinality(U) + 1 /\ n \in Nat
        BY <3>1, <3>2, <4>1, FS_RemoveElement, FS_CardinalityType
      <4> QED BY <4>2
    <3>4. U \in SUBSET T /\ U # T BY <3>2
    <3>5. PICK s : Listed(s, U) BY <1>3, <3>4
    <3> DEFINE t == [i \in 1..(n + 1) |-> IF i <= n THEN s[i] ELSE m]
    <3>6. s \in [1..n -> U] /\ \A i, k \in 1..n : i < k => <<s[i], s[k]>> \in R BY <3>5
    <3> HIDE DEF n
    <3>7. \A i \in 1..n : s[i] \in T /\ <<s[i], m>> \in R BY <3>2, <3>6
    <3>8. t \in [1..(n + 1) -> T]
      <4>1. \A i \in 1..(n + 1) : i <= n => i \in 1..n BY <3>3
      <4> QED BY <3>2, <3>7, <4>1
    <3>9. ASSUME NEW i \in 1..(n + 1), NEW k \in 1..(n + 1), i < k PROVE <<t[i], t[k]>> \in R
      <4>1. i \in 1..n /\ t[i] = s[i] BY <3>3, <3>9
      <4>2. CASE k <= n
        <5>1. k \in 1..n /\ t[k] = s[k] BY <3>3, <4>2
        <5> QED BY <3>6, <3>9, <4>1, <5>1
      <4>3. CASE ~(k <= n)
        <5>1. t[k] = m BY <4>3
        <5> QED BY <3>7, <4>1, <5>1
      <4> QED BY <4>2, <4>3
    <3> HIDE DEF t
    <3>10. Listed(t, T) BY <3>3, <3>8, <3>9
    <3> QED BY <3>10
  <2> QED BY <2>1, <2>2
<1> HIDE DEF P
<1>4. S \in P BY <1>3, SubsetInduction
<1> QED BY <1>4 DEF P

\* A finite set of integers can be listed in ascending order.
LEMMA Ascending ==
  ASSUME NEW S \in SUBSET Int, IsFiniteSet(S)
  PROVE  \E s \in [1..Cardinality(S) -> S] :
           \A i, k \in 1..Cardinality(S) : i < k => s[i] < s[k]
<1> DEFINE R == {p \in S \X S : p[1] < p[2]}
<1>1. \A x, y \in S : <<x, y>> \in R <=> x < y OBVIOUS
<1> HIDE DEF R
<1>2. \A x, y \in S : x # y => <<x, y>> \in R \/ <<y, x>> \in R
  <2>1. \A x, y \in S : x \in Int /\ y \in Int OBVIOUS
  <2> QED BY <1>1, <2>1
<1>3. \A x, y, z \in S : <<x, y>> \in R /\ <<y, z>> \in R => <<x, z>> \in R
  <2>1. \A x, y, z \in S : x \in Int /\ y \in Int /\ z \in Int OBVIOUS
  <2> QED BY <1>1, <2>1
<1>4. PICK s \in [1..Cardinality(S) -> S] :
        \A i, k \in 1..Cardinality(S) : i < k => <<s[i], s[k]>> \in R
  BY <1>2, <1>3, Sorting
<1> QED BY <1>1, <1>4

\* Such a list has each element of the set.
LEMMA AscendingOnto ==
  ASSUME NEW S \in SUBSET Int, IsFiniteSet(S), NEW s \in [1..Cardinality(S) -> S],
         \A i, k \in 1..Cardinality(S) : i < k => s[i] < s[k]
  PROVE  /\ \A i, k \in 1..Cardinality(S) : s[i] = s[k] => i = k
         /\ \A x \in S : \E i \in 1..Cardinality(S) : s[i] = x
<1> DEFINE n == Cardinality(S)
<1>1. n \in Nat BY FS_CardinalityType
<1>2. ASSUME NEW i \in 1..n, NEW k \in 1..n, s[i] = s[k] PROVE i = k
  <2>1. s[i] \in S /\ s[k] \in S OBVIOUS
  <2>2. i \in Int /\ k \in Int BY <1>1
  <2>3. s[i] \in Int /\ s[k] \in Int BY <2>1
  <2>4. ~(i < k) /\ ~(k < i) BY <1>2, <2>3
  <2> QED BY <2>2, <2>4
<1>3. \A i, k \in 1..n : i # k => s[i] # s[k] BY <1>2
<1>4. \A x \in S : \E i \in 1..Cardinality(S) : s[i] = x BY <1>3, ListedOnto
<1>5. \A i, k \in 1..Cardinality(S) : s[i] = s[k] => i = k BY <1>2
<1> QED BY <1>4, <1>5

\* A flattened sequence is the last of the concatenations of its beginnings.
LEMMA Flattening ==
  ASSUME NEW V, NEW n \in Nat, NEW seqs \in [1..n -> Seq(V)]
  PROVE  \E f \in [0..n -> Seq(V)] :
           /\ f[0] = <<>>
           /\ \A i \in 1..n : f[i] = f[i - 1] \o seqs[i]
           /\ FlattenSeq(seqs) = f[n]
<1>1. seqs \in Seq(Seq(V)) /\ Len(seqs) = n OBVIOUS
<1>2. CASE n = 0
  <2> DEFINE f == [i \in 0..0 |-> <<>>]
  <2>1. FlattenSeq(seqs) = seqs BY <1>1, <1>2 DEF FlattenSeq
  <2>2. seqs = <<>> BY <1>1, <1>2
  <2>3. f \in [0..n -> Seq(V)] /\ f[0] = <<>> /\ FlattenSeq(seqs) = f[n]
    <3>1. <<>> \in Seq(V) OBVIOUS
    <3> QED BY <1>2, <2>1, <2>2, <3>1
  <2>4. 1..n = {} BY <1>2
  <2> HIDE DEF f
  <2> QED BY <2>3, <2>4
<1>3. CASE n # 0
  <2> DEFINE c == [k \in Nat |-> <<>>]
             D == [k \in Nat |-> [v \in Seq(V) |-> IF k \in 1..n THEN v \o seqs[k] ELSE v]]
             below == [k \in Nat |-> k - 1]
             Rec(g) == [i \in 1..n |-> IF i = 1 THEN seqs[i] ELSE g[i - 1] \o seqs[i]]
  <2>1. \A v, w \in Seq(V) : v \o w \in Seq(V) OBVIOUS
  <2>2. \A k \in Nat : \A v \in Seq(V) : D[k][v] \in Seq(V)
    <3> SUFFICES ASSUME NEW k \in Nat, NEW v \in Seq(V)
                 PROVE  (IF k \in 1..n THEN v \o seqs[k] ELSE v) \in Seq(V)
      OBVIOUS
    <3>1. CASE k \in 1..n
      <4>1. seqs[k] \in Seq(V) BY <3>1
      <4> QED BY <2>1, <3>1, <4>1
    <3> QED BY <3>1
  <2>3. PICK f \in [Nat -> Seq(V)] : Solves(f, Nat, {0}, c, below, D)
    <3>1. \A k \in Nat \cap {0} : c[k] \in Seq(V)
      <4>1. <<>> \in Seq(V) OBVIOUS
      <4> QED BY <4>1
    <3>2. \A k \in Nat \ {0} : below[k] \in Nat /\ below[k] < k OBVIOUS
    <3> HIDE DEF c, D, below
    <3> QED BY <2>2, <3>1, <3>2, Recursion
  <2>4. f[0] = <<>>
    <3>1. f[0] = c[0] BY <2>3 DEF Solves
    <3> QED BY <3>1
  <2>5. ASSUME NEW k \in 1..n PROVE f[k] = f[k - 1] \o seqs[k]
    <3>1. k \in Nat /\ k # 0 /\ k - 1 \in Nat /\ below[k] = k - 1 OBVIOUS
    <3>2. f[k] = D[k][f[below[k]]] BY <2>3, <3>1 DEF Solves
    <3>3. f[k - 1] \in Seq(V) BY <2>3, <3>1
    <3> QED BY <3>1, <3>2, <3>3
  <2> DEFINE g == [i \in 1..n |-> f[i]]
  <2>6. g = Rec(g)
    <3>1. ASSUME NEW i \in 1..n PROVE g[i] = Rec(g)[i]
      <4>1. CASE i = 1
        <5>1. f[i] = f[i - 1] \o seqs[i] BY <2>5
        <5>2. f[i] = f[0] \o seqs[i] BY <4>1, <5>1
        <5>3. seqs[i] \in Seq(V) OBVIOUS
        <5>4. f[i] = seqs[i] BY <2>4, <5>2, <5>3
        <5> QED BY <4>1, <5>4
      <4>2. CASE i # 1
        <5>1. i - 1 \in 1..n BY <4>2
        <5>2. g[i - 1] = f[i - 1] BY <5>1
        <5> QED BY <2>5, <4>2, <5>2
      <4> QED BY <4>1, <4>2
    <3>2. g = [i \in 1..n |-> g[i]] OBVIOUS
    <3>3. Rec(g) = [i \in 1..n |-> Rec(g)[i]] OBVIOUS
    <3> HIDE DEF g, Rec
    <3> QED BY <3>1, <3>2, <3>3
  <2>7. ASSUME NEW h, h = Rec(h) PROVE \A k \in Nat : k \in 1..n => h[k] = f[k]
    <3> DEFINE P == {k \in Nat : k \in 1..n => h[k] = f[k]}
    <3>1. 0 \in P OBVIOUS
    <3>2. ASSUME NEW k \in Nat, k \in P PROVE k + 1 \in P
      <4> SUFFICES ASSUME k + 1 \in 1..n PROVE h[k + 1] = f[k + 1] OBVIOUS
      <4>1. h[k + 1] = IF k + 1 = 1 THEN seqs[k + 1] ELSE h[(k + 1) - 1] \o seqs[k + 1]
        BY <2>7
      <4>2. f[k + 1] = f[(k + 1) - 1] \o seqs[k + 1] BY <2>5
      <4>3. (k + 1) - 1 = k OBVIOUS
      <4>4. CASE k = 0
        <5>1. seqs[k + 1] \in Seq(V) OBVIOUS
        <5>2. f[k + 1] = <<>> \o seqs[k + 1] BY <2>4, <4>2, <4>3, <4>4
        <5>3. f[k + 1] = seqs[k + 1] BY <5>1, <5>2
        <5> QED BY <4>1, <4>4, <5>3
      <4>5. CASE k # 0
        <5>1. k \in 1..n /\ k + 1 # 1 BY <4>5
        <5>2. h[k] = f[k] BY <3>2, <5>1
        <5> QED BY <4>1, <4>2, <4>3, <5>1, <5>2
      <4> QED BY <4>4, <4>5
    <3> HIDE DEF P
    <3>3. \A k \in Nat : k \in P BY <3>1, <3>2, SimpleInduction
    <3> QED BY <3>3 DEF P
  <2> DEFINE it == CHOOSE h : h = Rec(h)
  <2>8. it = Rec(it)
    <3> HIDE DEF g, Rec
    <3> QED BY <2>6
  <2>9. FlattenSeq(seqs) = it[n] BY <1>1, <1>3, Zenon DEF FlattenSeq
  <2>10. n \in 1..n BY <1>3
  <2> HIDE DEF it
  <2>11. FlattenSeq(seqs) = f[n] BY <2>7, <2>8, <2>9, <2>10
  <2> DEFINE e == [i \in 0..n |-> f[i]]
  <2>12. /\ e \in [0..n -> Seq(V)] /\ e[0] = <<>> /\ FlattenSeq(seqs) = e[n]
         /\ \A i \in 1..n : e[i] = e[i - 1] \o seqs[i]
    <3>1. \A i \in 1..n : i \in 0..n /\ i - 1 \in 0..n OBVIOUS
    <3>2. e \in [0..n -> Seq(V)] OBVIOUS
    <3>3. \A i \in 0..n : e[i] = f[i] OBVIOUS
    <3>4. 0 \in 0..n /\ n \in 0..n OBVIOUS
    <3> HIDE DEF e
    <3> QED BY <2>4, <2>5, <2>11, <3>1, <3>2, <3>3, <3>4
  <2> HIDE DEF e
  <2> QED BY <2>12
<1> QED BY <1>2, <1>3

\* How often an element is in a sequence.
Places(s, x) == {i \in 1..Len(s) : s[i] = x}

\* In two sequences together it is as often as in each.
LEMMA PlacesOf ==
  ASSUME NEW V, NEW s \in Seq(V), NEW t \in Seq(V), NEW x
  PROVE  /\ IsFiniteSet(Places(s, x)) /\ Cardinality(Places(s, x)) \in Nat
         /\ Cardinality(Places(s \o t, x)) = Cardinality(Places(s, x)) + Cardinality(Places(t, x))
<1> DEFINE n == Len(s)
           m == Len(t)
           T == {i \in (n + 1)..(n + m) : t[i - n] = x}
           F == [i \in Places(t, x) |-> n + i]
<1>1. n \in Nat /\ m \in Nat OBVIOUS
<1>2. \A u \in Seq(V) : IsFiniteSet(Places(u, x)) /\ Cardinality(Places(u, x)) \in Nat
  <2> SUFFICES ASSUME NEW u \in Seq(V) PROVE IsFiniteSet(Places(u, x)) BY FS_CardinalityType
  <2>1. 1 \in Int /\ Len(u) \in Int OBVIOUS
  <2>2. IsFiniteSet(1..Len(u)) BY <2>1, FS_Interval
  <2>3. Places(u, x) \in SUBSET (1..Len(u)) BY DEF Places
  <2> QED BY <2>2, <2>3, FS_Subset
<1>3. Places(s \o t, x) = Places(s, x) \cup T
  <2>1. /\ Len(s \o t) = n + m
        /\ \A i \in 1..(n + m) : (s \o t)[i] = IF i <= n THEN s[i] ELSE t[i - n]
    OBVIOUS
  <2>2. \A i : i \in 1..(n + m) <=> (i \in 1..n \/ i \in (n + 1)..(n + m)) BY <1>1
  <2>3. \A i \in (n + 1)..(n + m) : ~(i <= n) BY <1>1
  <2> QED BY <2>1, <2>2, <2>3 DEF Places
<1>4. Places(s, x) \cap T = {} BY <1>1 DEF Places
<1>5. F \in Bijection(Places(t, x), T)
  <2>1. \A i \in Places(t, x) : i \in 1..m /\ t[i] = x BY DEF Places
  <2> HIDE DEF n, m
  <2>2. ASSUME NEW i \in Places(t, x) PROVE n + i \in T
    <3>1. i \in 1..m /\ t[i] = x BY <2>1
    <3>2. n + i \in (n + 1)..(n + m) /\ (n + i) - n = i BY <1>1, <3>1
    <3> QED BY <3>1, <3>2
  <2>3. ASSUME NEW j \in T PROVE \E i \in Places(t, x) : n + i = j
    <3>1. j \in (n + 1)..(n + m) /\ t[j - n] = x OBVIOUS
    <3>2. j - n \in 1..m /\ n + (j - n) = j BY <1>1, <3>1
    <3>3. j - n \in Places(t, x) BY <3>1, <3>2 DEF Places, m
    <3> QED BY <3>2, <3>3
  <2>4. \A i, j \in Places(t, x) : n + i = n + j => i = j BY <1>1, <2>1
  <2> HIDE DEF T
  <2>5. F \in [Places(t, x) -> T] BY <2>2
  <2>6. \A i \in Places(t, x) : F[i] = n + i OBVIOUS
  <2> HIDE DEF F
  <2>7. F \in Injection(Places(t, x), T) BY <2>4, <2>5, <2>6 DEF Injection, IsInjective
  <2>8. F \in Surjection(Places(t, x), T) BY <2>3, <2>5, <2>6 DEF Surjection
  <2> QED BY <2>7, <2>8 DEF Bijection
<1> HIDE DEF T, F
<1>6. IsFiniteSet(T) /\ Cardinality(T) = Cardinality(Places(t, x))
  <2>1. ExistsBijection(Places(t, x), T) BY <1>5 DEF ExistsBijection
  <2> QED BY <1>2, <2>1, FS_Bijection
<1>7. Cardinality(Places(s, x) \cup T)
        = Cardinality(Places(s, x)) + Cardinality(T) - Cardinality(Places(s, x) \cap T)
  BY <1>2, <1>6, FS_Union
<1>8. Cardinality(Places(s, x) \cap T) = 0 BY <1>4, FS_EmptySet
<1>9. /\ Cardinality(Places(s, x)) \in Nat /\ Cardinality(Places(t, x)) \in Nat
      /\ IsFiniteSet(Places(s, x))
  BY <1>2
<1>10. Cardinality(Places(s, x) \cup T) = Cardinality(Places(s, x)) + Cardinality(Places(t, x))
  <2> DEFINE a == Cardinality(Places(s, x))
             b == Cardinality(Places(t, x))
             c == Cardinality(Places(s, x) \cup T)
  <2>1. c = a + b - 0 /\ a \in Nat /\ b \in Nat BY <1>6, <1>7, <1>8, <1>9
  <2> HIDE DEF a, b, c
  <2>2. c = a + b BY <2>1
  <2> QED BY <2>2 DEF a, b, c
<1> QED BY <1>3, <1>6, <1>9, <1>10

\* Elements one after another, each as often as its count says.
Runs(n, s, m) == [i \in 1..n |-> [k \in 1..m[i] |-> s[i]]]

LEMMA Repeating ==
  ASSUME NEW V, NEW n \in Nat, NEW s \in [1..n -> V], \A i, k \in 1..n : s[i] = s[k] => i = k,
         NEW m \in [1..n -> Nat]
  PROVE  /\ FlattenSeq(Runs(n, s, m)) \in Seq(V)
         /\ \A i \in 1..n : Cardinality(Places(FlattenSeq(Runs(n, s, m)), s[i])) = m[i]
<1> DEFINE runs == Runs(n, s, m)
<1>1. \A i \in 1..n : /\ runs[i] \in Seq(V) /\ Len(runs[i]) = m[i]
                       /\ \A k \in 1..m[i] : runs[i][k] = s[i]
  <2> SUFFICES ASSUME NEW i \in 1..n
               PROVE  /\ runs[i] \in Seq(V) /\ Len(runs[i]) = m[i]
                      /\ \A k \in 1..m[i] : runs[i][k] = s[i]
    OBVIOUS
  <2> DEFINE x == s[i]
             k == m[i]
  <2>1. x \in V /\ k \in Nat /\ runs[i] = [j \in 1..k |-> x] BY DEF Runs
  <2> HIDE DEF runs, x, k
  <2>2. runs[i] \in Seq(V) /\ Len(runs[i]) = k /\ \A j \in 1..k : runs[i][j] = x BY <2>1
  <2> QED BY <2>2 DEF x, k
<1>2. runs \in [1..n -> Seq(V)] BY <1>1 DEF Runs
<1> HIDE DEF runs
<1>3. PICK f \in [0..n -> Seq(V)] :
        /\ f[0] = <<>>
        /\ \A i \in 1..n : f[i] = f[i - 1] \o runs[i]
        /\ FlattenSeq(runs) = f[n]
  BY <1>2, Flattening
<1> DEFINE Right(k, e) == \A i \in 1..n : Cardinality(Places(e, s[i])) = IF i <= k THEN m[i] ELSE 0
           P == {k \in Nat : k <= n => Right(k, f[k])}
<1>4. 0 \in P
  <2>1. \A x : Places(<<>>, x) = {}
    <3>1. Len(<<>>) = 0 OBVIOUS
    <3> QED BY <3>1 DEF Places
  <2>2. \A i \in 1..n : Cardinality(Places(<<>>, s[i])) = 0 BY <2>1, FS_EmptySet
  <2>3. \A i \in 1..n : ~(i <= 0) OBVIOUS
  <2>4. Right(0, <<>>) BY <2>2, <2>3
  <2> HIDE DEF Right
  <2> QED BY <1>3, <2>4
<1>5. ASSUME NEW k \in Nat, k \in P PROVE k + 1 \in P
  <2> SUFFICES ASSUME k + 1 <= n PROVE Right(k + 1, f[k + 1]) OBVIOUS
  <2> DEFINE e == f[k]
             t == runs[k + 1]
             u == f[k + 1]
  <2>1. k + 1 \in 1..n /\ k \in 0..n /\ (k + 1) - 1 = k /\ k <= n OBVIOUS
  <2>2. u = e \o t BY <1>3, <2>1
  <2>3. e \in Seq(V) /\ Right(k, e) BY <1>3, <1>5, <2>1
  <2>4. /\ t \in Seq(V) /\ Len(t) = m[k + 1] /\ m[k + 1] \in Nat
        /\ \A j \in 1..m[k + 1] : t[j] = s[k + 1]
    BY <1>1, <2>1
  <2> HIDE DEF e, t, u, Right
  <2>5. ASSUME NEW i \in 1..n
        PROVE  Cardinality(Places(u, s[i])) = IF i <= k + 1 THEN m[i] ELSE 0
    <3>1. Cardinality(Places(u, s[i])) = Cardinality(Places(e, s[i])) + Cardinality(Places(t, s[i]))
      BY <2>2, <2>3, <2>4, PlacesOf
    <3>2. Cardinality(Places(e, s[i])) = IF i <= k THEN m[i] ELSE 0 BY <2>3 DEF Right
    <3>3. Cardinality(Places(t, s[i])) = IF i = k + 1 THEN m[i] ELSE 0
      <4>1. CASE i = k + 1
        <5>1. Places(t, s[i]) = 1..m[i] BY <2>4, <4>1 DEF Places
        <5>2. 1 \in Int /\ m[i] \in Int /\ m[i] \in Nat BY <2>4, <4>1
        <5>3. Cardinality(1..m[i]) = IF 1 > m[i] THEN 0 ELSE m[i] - 1 + 1 BY <5>2, FS_Interval
        <5> QED BY <4>1, <5>1, <5>2, <5>3
      <4>2. CASE i # k + 1
        <5>1. s[i] # s[k + 1] BY <2>1, <4>2
        <5>2. Places(t, s[i]) = {} BY <2>4, <5>1 DEF Places
        <5> QED BY <4>2, <5>2, FS_EmptySet
      <4> QED BY <4>1, <4>2
    <3>4. m[i] \in Nat /\ i \in Int OBVIOUS
    <3> QED BY <3>1, <3>2, <3>3, <3>4
  <2>6. Right(k + 1, u) BY <2>5 DEF Right
  <2> QED BY <2>6 DEF u
<1> HIDE DEF P
<1>6. \A k \in Nat : k \in P BY <1>4, <1>5, SimpleInduction
<1>7. Right(n, f[n])
  <2>1. n \in P /\ n <= n BY <1>6
  <2> HIDE DEF Right
  <2> QED BY <2>1 DEF P
<1>8. n \in 0..n /\ f[n] \in Seq(V) OBVIOUS
<1>9. \A i \in 1..n : i <= n OBVIOUS
<1> QED BY <1>3, <1>7, <1>8, <1>9 DEF runs

-----------------------------------------------------------------------------
(* Call logs *)

\* Entering a collective adds one call to one rank's log and changes no other.
LEMMA PostLemma ==
  ASSUME NEW Comm, NEW S, NEW log \in [Comm -> Seq(S)], NEW r \in Comm, NEW op, NEW val
  PROVE  /\ \E T : Post(log, r, op, val) \in [Comm -> Seq(T)]
         /\ \A s \in Comm \ {r} : Post(log, r, op, val)[s] = log[s]
         /\ Len(Post(log, r, op, val)[r]) = Len(log[r]) + 1
         /\ \A k \in 1..Len(log[r]) : Post(log, r, op, val)[r][k] = log[r][k]
         /\ Post(log, r, op, val)[r][Len(log[r]) + 1] = MpiCall(op, val)
<1> DEFINE new == MpiCall(op, val)
           T == S \cup {new}
<1>1. log[r] \in Seq(T) /\ new \in T
  <2>1. log[r] \in Seq(S) OBVIOUS
  <2>2. Len(log[r]) \in Nat /\ log[r] \in [1..Len(log[r]) -> T] BY <2>1
  <2> QED BY <2>2
<1>2. \A s \in Comm : log[s] \in Seq(T)
  <2> SUFFICES ASSUME NEW s \in Comm PROVE log[s] \in Seq(T) OBVIOUS
  <2>1. log[s] \in Seq(S) OBVIOUS
  <2>2. Len(log[s]) \in Nat /\ log[s] \in [1..Len(log[s]) -> T] BY <2>1
  <2> QED BY <2>2
<1> HIDE DEF new, T
<1>3. /\ Append(log[r], new) \in Seq(T)
      /\ Len(Append(log[r], new)) = Len(log[r]) + 1
      /\ \A k \in 1..Len(log[r]) : Append(log[r], new)[k] = log[r][k]
      /\ Append(log[r], new)[Len(log[r]) + 1] = new
  BY <1>1
<1>4. Post(log, r, op, val) = [log EXCEPT ![r] = Append(log[r], new)] BY DEF Post, new
<1>5. Post(log, r, op, val) \in [Comm -> Seq(T)] BY <1>2, <1>3, <1>4
<1> QED BY <1>3, <1>4, <1>5 DEF new

\* A collective every rank has entered keeps its contributions.
LEMMA StableColumns ==
  ASSUME NEW Comm, NEW S, NEW log \in [Comm -> Seq(S)], NEW r \in Comm, NEW op, NEW val,
         NEW k \in Nat \ {0}, AllEntered(log, k)
  PROVE  /\ AllEntered(Post(log, r, op, val), k)
         /\ Column(Post(log, r, op, val), k) = Column(log, k)
<1> DEFINE log2 == Post(log, r, op, val)
<1>1. /\ \E T : log2 \in [Comm -> Seq(T)]
      /\ \A s \in Comm \ {r} : log2[s] = log[s]
      /\ Len(log2[r]) = Len(log[r]) + 1
      /\ \A j \in 1..Len(log[r]) : log2[r][j] = log[r][j]
  BY PostLemma
<1> HIDE DEF log2
<1>2. DOMAIN log2 = Comm /\ DOMAIN log = Comm BY <1>1
<1>3. \A s \in Comm : Len(log[s]) \in Nat /\ Len(log[s]) >= k BY <1>2 DEF AllEntered
<1>4. \A s \in Comm : Len(log2[s]) >= k /\ log2[s][k] = log[s][k]
  <2> SUFFICES ASSUME NEW s \in Comm
               PROVE  Len(log2[s]) >= k /\ log2[s][k] = log[s][k]
    OBVIOUS
  <2>1. CASE s # r BY <1>1, <1>3, <2>1
  <2>2. CASE s = r
    <3>1. Len(log[r]) \in Nat /\ Len(log[r]) >= k BY <1>3
    <3>2. k \in 1..Len(log[r]) BY <3>1
    <3>3. log2[r][k] = log[r][k] BY <1>1, <3>2
    <3>4. Len(log2[r]) >= k BY <1>1, <3>1
    <3> QED BY <2>2, <3>3, <3>4
  <2> QED BY <2>1, <2>2
<1>6. AllEntered(log2, k) /\ Column(log2, k) = Column(log, k)
  BY <1>2, <1>4 DEF AllEntered, Column
<1> QED BY <1>6 DEF log2

-----------------------------------------------------------------------------
(* Quantizers: squares and roundings *)

LEMMA Squares ==
  ASSUME NEW x \in Int, NEW b \in Int, -b <= x, x <= b
  PROVE  x * x \in Int /\ x * x <= b * b /\ x * x >= 0
<1>1. (b - x) * (b + x) >= 0 BY Products
<1>2. (b - x) * (b + x) = b * b - x * x OBVIOUS
<1>3. x * x \in Int /\ b * b \in Int BY Products
<1>4. x * x >= 0 OBVIOUS
<1> QED BY <1>1, <1>2, <1>3, <1>4

LEMMA Rounding ==
  ASSUME NEW n \in Int, NEW d \in Nat \ {0}
  PROVE  /\ RoundAway(n, d) \in Int
         /\ -d <= 2 * (n - d * RoundAway(n, d)) /\ 2 * (n - d * RoundAway(n, d)) <= d
<1>0. 2*d \in Nat \ {0} /\ 2*n + d \in Int /\ d - 2*n \in Int OBVIOUS
<1>1. CASE n >= 0
  <2> DEFINE q == (2*n + d) \div (2*d)
  <2>1. q \in Int /\ (2*d) * q <= 2*n + d /\ 2*n + d < (2*d) * q + 2*d
    BY <1>0, DivBounds
  <2>2. RoundAway(n, d) = q BY <1>1 DEF RoundAway
  <2> HIDE DEF q
  <2>3. (2*d) * q = 2 * (d * q) /\ d * q \in Int BY <2>1, Products
  <2> QED BY <2>1, <2>2, <2>3
<1>2. CASE ~(n >= 0)
  <2> DEFINE q == (d - 2*n) \div (2*d)
  <2>1. q \in Int /\ (2*d) * q <= d - 2*n /\ d - 2*n < (2*d) * q + 2*d
    BY <1>0, DivBounds
  <2>2. RoundAway(n, d) = -q BY <1>2 DEF RoundAway
  <2> HIDE DEF q
  <2>3. (2*d) * q = 2 * (d * q) /\ d * (-q) = -(d * q) /\ d * q \in Int BY <2>1, Products
  <2> QED BY <2>1, <2>2, <2>3
<1> QED BY <1>1, <1>2

-----------------------------------------------------------------------------
(* Quantizers: cubes *)

\* Twice the distance to the centre of an interval of length Pitch is at most Pitch.
LEMMA CubeAxis ==
  ASSUME NEW x \in Int
  PROVE  /\ -Pitch <= 2 * x - Pitch * (2 * (x \div Pitch) + 1)
         /\ 2 * x - Pitch * (2 * (x \div Pitch) + 1) <= Pitch
<1> DEFINE q == x \div Pitch
<1>1. q \in Int /\ Pitch * q <= x /\ x < Pitch * q + Pitch
  BY DivBounds, QuantizerAssumption
<1> HIDE DEF q
<1>2. Pitch * (2 * q + 1) = 2 * (Pitch * q) + Pitch /\ Pitch * q \in Int /\ Pitch \in Int
  BY <1>1, Products, QuantizerAssumption
<1> QED BY <1>1, <1>2 DEF q

LEMMA CubeBound ==
  ASSUME NEW p \in Point
  PROVE  SqDist(Scale(2, p), CubeCentre2(CubeCell(p))) <= 3 * Pitch * Pitch
<1> DEFINE D(a) == 2 * p[a] - Pitch * (2 * (p[a] \div Pitch) + 1)
<1>1. \A a \in Axes : p[a] \in Int BY DEF Point, Axes
<1>2. \A a \in Axes : D(a) \in Int /\ -Pitch <= D(a) /\ D(a) <= Pitch
  <2> SUFFICES ASSUME NEW a \in Axes PROVE D(a) \in Int /\ -Pitch <= D(a) /\ D(a) <= Pitch
    OBVIOUS
  <2>1. p[a] \in Int /\ p[a] \div Pitch \in Int BY <1>1, DivBounds, QuantizerAssumption
  <2>2. Pitch * (2 * (p[a] \div Pitch) + 1) \in Int BY <2>1, Products, QuantizerAssumption
  <2> QED BY <2>1, <2>2, CubeAxis
<1>3. SqDist(Scale(2, p), CubeCentre2(CubeCell(p))) = D(1) * D(1) + D(2) * D(2) + D(3) * D(3)
  BY DEF SqDist, Scale, CubeCentre2, CubeCell
<1> HIDE DEF D
<1>4. \A a \in Axes : D(a) * D(a) \in Int /\ D(a) * D(a) <= Pitch * Pitch
  BY <1>2, Squares, QuantizerAssumption
<1>5. Pitch * Pitch \in Int /\ 3 * Pitch * Pitch = 3 * (Pitch * Pitch)
  BY QuantizerAssumption
<1> QED BY <1>3, <1>4, <1>5 DEF Axes

-----------------------------------------------------------------------------
(* Truncated octahedra *)

\* Of three numbers up to P that add up to at most 3/2 of it, the first being the
\* largest, the squares add up to at most 5/4 of its square.
LEMMA LargestFirst ==
  ASSUME NEW P \in Nat, NEW a \in 0..P, NEW b \in 0..P, NEW c \in 0..P,
         2 * (a + b + c) <= 3 * P, b <= a, c <= a
  PROVE  4 * (a * a + b * b + c * c) <= 5 * (P * P)
<1> DEFINE M == 2 * (b + c)
<1>0. /\ a * a \in Int /\ b * b \in Int /\ c * c \in Int /\ P * P \in Int
      /\ b * c \in Int /\ b * c >= 0
      /\ M \in Nat
  BY Products
<1>1. M * M = 4 * (b * b) + 4 * (c * c) + 8 * (b * c) BY DEF M
<1>2. CASE M <= P
  <2>1. M * M <= P * P BY <1>0, <1>2, Squares
  <2>2. a * a <= P * P BY Squares
  <2> QED BY <1>0, <1>1, <2>1, <2>2
<1>3. CASE M > P
  <2>1. 2 * a <= 3 * P - M /\ M <= 2 * P BY DEF M
  <2> HIDE DEF M
  <2>2. (2 * a) * (2 * a) <= (3 * P - M) * (3 * P - M) BY <1>0, <2>1, Squares
  <2>3. (M - P) * (2 * P - M) >= 0 BY <1>0, <1>3, <2>1, Products
  <2>4. P * M \in Int /\ M * M \in Int BY <1>0, Products
  <2>5. (3 * P - M) * (3 * P - M) = 9 * (P * P) - 6 * (P * M) + M * M BY <1>0
  <2>6. (M - P) * (2 * P - M) = 3 * (P * M) - M * M - 2 * (P * P) BY <1>0
  <2>7. (2 * a) * (2 * a) = 4 * (a * a) OBVIOUS
  <2> QED BY <1>0, <1>1, <2>2, <2>3, <2>4, <2>5, <2>6, <2>7
<1> QED BY <1>0, <1>2, <1>3

LEMMA SmallSum ==
  ASSUME NEW P \in Nat, NEW a \in 0..P, NEW b \in 0..P, NEW c \in 0..P,
         2 * (a + b + c) <= 3 * P
  PROVE  4 * (a * a + b * b + c * c) <= 5 * (P * P)
<1>0. a * a \in Int /\ b * b \in Int /\ c * c \in Int /\ P * P \in Int BY Products
<1>1. CASE b <= a /\ c <= a BY <1>1, LargestFirst
<1>2. CASE a <= b /\ c <= b
  <2>1. 4 * (b * b + a * a + c * c) <= 5 * (P * P) BY <1>2, LargestFirst
  <2> QED BY <1>0, <2>1
<1>3. CASE a <= c /\ b <= c
  <2>1. 4 * (c * c + a * a + b * b) <= 5 * (P * P) BY <1>3, LargestFirst
  <2> QED BY <1>0, <2>1
<1> QED BY <1>1, <1>2, <1>3

\* The squares of three numbers up to P, or those of what they leave of P, add up to
\* at most 5/4 of its square: a point is near to an even or to an odd node.
LEMMA NearOneOfTwo ==
  ASSUME NEW P \in Nat, NEW a \in 0..P, NEW b \in 0..P, NEW c \in 0..P,
         NEW s, NEW t,
         s = a * a + b * b + c * c,
         t = (P - a) * (P - a) + (P - b) * (P - b) + (P - c) * (P - c)
  PROVE  4 * s <= 5 * (P * P) \/ 4 * t <= 5 * (P * P)
<1>1. CASE 2 * (a + b + c) <= 3 * P BY <1>1, SmallSum
<1>2. CASE ~(2 * (a + b + c) <= 3 * P)
  <2>1. P - a \in 0..P /\ P - b \in 0..P /\ P - c \in 0..P OBVIOUS
  <2>2. 2 * ((P - a) + (P - b) + (P - c)) <= 3 * P BY <1>2
  <2> QED BY <2>1, <2>2, SmallSum
<1> QED BY <1>1, <1>2

\* Along an axis, the distances to the nearest even and to the nearest odd multiple
\* of Pitch add up to Pitch.
LEMMA EvenAndOdd ==
  ASSUME NEW x \in Int, NEW i \in Int, NEW j \in Int,
         i = RoundAway(x, 2 * Pitch), j = RoundAway(x - Pitch, 2 * Pitch)
  PROVE  \E a \in 0..Pitch :
           /\ (x - Pitch * (2 * i)) * (x - Pitch * (2 * i)) = a * a
           /\ (x - Pitch * (2 * j + 1)) * (x - Pitch * (2 * j + 1)) = (Pitch - a) * (Pitch - a)
<1> DEFINE u == x - Pitch * (2 * i)
           v == x - Pitch * (2 * j + 1)
           m == Pitch * (j - i)
<1>0. Pitch \in Nat \ {0} /\ Pitch * i \in Int /\ Pitch * j \in Int
  BY QuantizerAssumption, Products
<1>1. /\ -(2 * Pitch) <= 2 * (x - (2 * Pitch) * i)
      /\ 2 * (x - (2 * Pitch) * i) <= 2 * Pitch
      /\ -(2 * Pitch) <= 2 * (x - Pitch - (2 * Pitch) * j)
      /\ 2 * (x - Pitch - (2 * Pitch) * j) <= 2 * Pitch
  <2>1. 2 * Pitch \in Nat \ {0} /\ x - Pitch \in Int BY <1>0
  <2> QED BY <2>1, Rounding
<1>2. /\ u = x - 2 * (Pitch * i)
      /\ v = x - Pitch - 2 * (Pitch * j)
      /\ (2 * Pitch) * i = 2 * (Pitch * i)
      /\ (2 * Pitch) * j = 2 * (Pitch * j)
      /\ m = Pitch * j - Pitch * i
  BY <1>0
<1> HIDE DEF u, v, m
<1>3. u \in Int /\ v \in Int /\ m \in Int BY <1>0, <1>2
<1>4. -Pitch <= u /\ u <= Pitch /\ -Pitch <= v /\ v <= Pitch /\ u - v = Pitch + 2 * m
  BY <1>0, <1>1, <1>2
<1>5. j - i \in {0, -1}
  <2>1. CASE j - i >= 1
    <3>1. Pitch * (j - i - 1) >= 0 BY <1>0, <2>1, Products
    <3>2. Pitch * (j - i - 1) = Pitch * j - Pitch * i - Pitch BY <1>0
    <3> QED BY <1>0, <1>2, <1>3, <1>4, <3>1, <3>2
  <2>2. CASE j - i <= -2
    <3>1. Pitch * (i - j - 2) >= 0 BY <1>0, <2>2, Products
    <3>2. Pitch * (i - j - 2) = Pitch * i - Pitch * j - 2 * Pitch BY <1>0
    <3> QED BY <1>0, <1>2, <1>3, <1>4, <3>1, <3>2
  <2> QED BY <2>1, <2>2
<1>6. CASE j - i = 0
  <2>1. m = 0 BY <1>0, <1>6 DEF m
  <2>2. v = u - Pitch /\ u \in 0..Pitch BY <1>0, <1>3, <1>4, <2>1
  <2>3. v * v = (Pitch - u) * (Pitch - u) BY <1>0, <1>3, <2>2
  <2> QED BY <2>2, <2>3 DEF u, v
<1>7. CASE j - i = -1
  <2>1. m = -Pitch BY <1>0, <1>7 DEF m
  <2>2. v = u + Pitch /\ -u \in 0..Pitch BY <1>0, <1>3, <1>4, <2>1
  <2>3. v * v = (Pitch - (-u)) * (Pitch - (-u)) /\ u * u = (-u) * (-u)
    BY <1>0, <1>3, <2>2
  <2> QED BY <2>2, <2>3 DEF u, v
<1> QED BY <1>5, <1>6, <1>7

LEMMA AxisSquares ==
  ASSUME NEW x \in Int
  PROVE  \E a \in 0..Pitch :
           /\ (x - Pitch * (2 * RoundAway(x, 2 * Pitch))) * (x - Pitch * (2 * RoundAway(x, 2 * Pitch)))
                = a * a
           /\ (x - Pitch * (2 * RoundAway(x - Pitch, 2 * Pitch) + 1))
                * (x - Pitch * (2 * RoundAway(x - Pitch, 2 * Pitch) + 1)) = (Pitch - a) * (Pitch - a)
<1> DEFINE i == RoundAway(x, 2 * Pitch)
           j == RoundAway(x - Pitch, 2 * Pitch)
<1>1. i \in Int /\ j \in Int
  <2>1. 2 * Pitch \in Nat \ {0} /\ x - Pitch \in Int BY QuantizerAssumption
  <2> QED BY <2>1, Rounding
<1>2. i = RoundAway(x, 2 * Pitch) /\ j = RoundAway(x - Pitch, 2 * Pitch) OBVIOUS
<1> HIDE DEF i, j
<1>3. \E a \in 0..Pitch :
        /\ (x - Pitch * (2 * i)) * (x - Pitch * (2 * i)) = a * a
        /\ (x - Pitch * (2 * j + 1)) * (x - Pitch * (2 * j + 1)) = (Pitch - a) * (Pitch - a)
  BY <1>1, <1>2, EvenAndOdd
<1> QED BY <1>3 DEF i, j

\* What the halving of x and y drops, z tells.
LEMMA EvenUnpacks ==
  ASSUME NEW i \in Int, NEW j \in Int, NEW k \in Int
  PROVE  UnpackNode(PackNode(<<2*i, 2*j, 2*k>>)) = <<2*i, 2*j, 2*k>>
<1>1. \A n \in Int : (2*n) % 2 = 0 /\ (2*n) \div 2 = n OBVIOUS
<1>2. PackNode(<<2*i, 2*j, 2*k>>) = <<i, j, 2*k>> BY <1>1 DEF PackNode
<1> QED BY <1>1, <1>2 DEF UnpackNode

LEMMA OddUnpacks ==
  ASSUME NEW i \in Int, NEW j \in Int, NEW k \in Int
  PROVE  UnpackNode(PackNode(<<2*i + 1, 2*j + 1, 2*k + 1>>)) = <<2*i + 1, 2*j + 1, 2*k + 1>>
<1>1. \A n \in Int : (2*n + 1) % 2 = 1 /\ (2*n + 1 + 1) \div 2 = n + 1 /\ 2*(n + 1) - 1 = 2*n + 1
  OBVIOUS
<1>2. PackNode(<<2*i + 1, 2*j + 1, 2*k + 1>>) = <<i + 1, j + 1, 2*k + 1>> BY <1>1 DEF PackNode
<1> QED BY <1>1, <1>2 DEF UnpackNode

LEMMA ToBound ==
  ASSUME NEW p \in Point
  PROVE  SqDist(Scale(2, p), ToCentre2(ToCell(p))) <= 5 * Pitch * Pitch
<1> DEFINE i(a) == RoundAway(p[a], 2 * Pitch)
           j(a) == RoundAway(p[a] - Pitch, 2 * Pitch)
           u(a) == p[a] - Pitch * (2 * i(a))
           v(a) == p[a] - Pitch * (2 * j(a) + 1)
           e == <<2 * i(1), 2 * i(2), 2 * i(3)>>
           o == <<2 * j(1) + 1, 2 * j(2) + 1, 2 * j(3) + 1>>
           near == u(1) * u(1) + u(2) * u(2) + u(3) * u(3)
           far == v(1) * v(1) + v(2) * v(2) + v(3) * v(3)
<1>1. p[1] \in Int /\ p[2] \in Int /\ p[3] \in Int BY DEF Point
<1>2. \A a \in Axes : i(a) \in Int /\ j(a) \in Int
  <2>1. 2 * Pitch \in Nat \ {0} /\ Pitch \in Int BY QuantizerAssumption
  <2>2. \A a \in Axes : p[a] \in Int /\ p[a] - Pitch \in Int BY <1>1, <2>1 DEF Axes
  <2> QED BY <2>1, <2>2, Rounding
<1>3. EvenNode(p) = e BY DEF EvenNode, Scale
<1>4. OddNode(p) = o BY DEF OddNode, EvenNode, Scale
<1>5. SqDist(p, Scale(Pitch, e)) = near BY DEF SqDist, Scale
<1>6. SqDist(p, Scale(Pitch, o)) = far BY DEF SqDist, Scale
<1>7. PICK a \in 0..Pitch :
        u(1) * u(1) = a * a /\ v(1) * v(1) = (Pitch - a) * (Pitch - a)
  BY <1>1, AxisSquares
<1>8. PICK b \in 0..Pitch :
        u(2) * u(2) = b * b /\ v(2) * v(2) = (Pitch - b) * (Pitch - b)
  BY <1>1, AxisSquares
<1>9. PICK c \in 0..Pitch :
        u(3) * u(3) = c * c /\ v(3) * v(3) = (Pitch - c) * (Pitch - c)
  BY <1>1, AxisSquares
<1>10. /\ near \in Int /\ far \in Int
       /\ 4 * near <= 5 * (Pitch * Pitch) \/ 4 * far <= 5 * (Pitch * Pitch)
  <2>1. Pitch \in Nat BY QuantizerAssumption
  <2>2. near = a * a + b * b + c * c BY <1>7, <1>8, <1>9
  <2>3. far = (Pitch - a) * (Pitch - a) + (Pitch - b) * (Pitch - b) + (Pitch - c) * (Pitch - c)
    BY <1>7, <1>8, <1>9
  <2> HIDE DEF near, far
  <2>4. near \in Int /\ far \in Int BY <2>1, <2>2, <2>3, Products
  <2> QED BY <2>1, <2>2, <2>3, <2>4, NearOneOfTwo
<1>11. i(1) \in Int /\ i(2) \in Int /\ i(3) \in Int /\ j(1) \in Int /\ j(2) \in Int /\ j(3) \in Int
  BY <1>2 DEF Axes
<1> HIDE DEF i, j
<1>12. UnpackNode(PackNode(e)) = e BY <1>11, EvenUnpacks
<1>13. UnpackNode(PackNode(o)) = o BY <1>11, OddUnpacks
<1>14. /\ SqDist(Scale(2, p), Scale(2 * Pitch, e)) = 4 * near
       /\ SqDist(Scale(2, p), Scale(2 * Pitch, o)) = 4 * far
  <2>1. \A x, y \in Int : (2 * x - (2 * Pitch) * y) * (2 * x - (2 * Pitch) * y)
                            = 4 * ((x - Pitch * y) * (x - Pitch * y))
    BY QuantizerAssumption
  <2>2. /\ (2 * p[1] - (2 * Pitch) * (2 * i(1))) * (2 * p[1] - (2 * Pitch) * (2 * i(1))) = 4 * (u(1) * u(1))
        /\ (2 * p[2] - (2 * Pitch) * (2 * i(2))) * (2 * p[2] - (2 * Pitch) * (2 * i(2))) = 4 * (u(2) * u(2))
        /\ (2 * p[3] - (2 * Pitch) * (2 * i(3))) * (2 * p[3] - (2 * Pitch) * (2 * i(3))) = 4 * (u(3) * u(3))
    <3>1. 2 * i(1) \in Int /\ 2 * i(2) \in Int /\ 2 * i(3) \in Int BY <1>11
    <3> QED BY <1>1, <2>1, <3>1
  <2>3. /\ (2 * p[1] - (2 * Pitch) * (2 * j(1) + 1)) * (2 * p[1] - (2 * Pitch) * (2 * j(1) + 1)) = 4 * (v(1) * v(1))
        /\ (2 * p[2] - (2 * Pitch) * (2 * j(2) + 1)) * (2 * p[2] - (2 * Pitch) * (2 * j(2) + 1)) = 4 * (v(2) * v(2))
        /\ (2 * p[3] - (2 * Pitch) * (2 * j(3) + 1)) * (2 * p[3] - (2 * Pitch) * (2 * j(3) + 1)) = 4 * (v(3) * v(3))
    <3>1. 2 * j(1) + 1 \in Int /\ 2 * j(2) + 1 \in Int /\ 2 * j(3) + 1 \in Int BY <1>11
    <3> QED BY <1>1, <2>1, <3>1
  <2>4. \A k \in Axes : u(k) * u(k) \in Int /\ v(k) * v(k) \in Int
    <3>1. \A k \in Axes : u(k) \in Int /\ v(k) \in Int
      BY <1>1, <1>11, QuantizerAssumption DEF Axes
    <3> HIDE DEF u, v
    <3> QED BY <3>1, Products
  <2>5. /\ SqDist(Scale(2, p), Scale(2 * Pitch, e)) = 4 * (u(1) * u(1)) + 4 * (u(2) * u(2)) + 4 * (u(3) * u(3))
        /\ SqDist(Scale(2, p), Scale(2 * Pitch, o)) = 4 * (v(1) * v(1)) + 4 * (v(2) * v(2)) + 4 * (v(3) * v(3))
    <3> HIDE DEF u, v
    <3> QED BY <2>2, <2>3, Zenon DEF SqDist, Scale, e, o
  <2> HIDE DEF u, v
  <2> QED BY <2>4, <2>5 DEF Axes, near, far
<1> HIDE DEF e, o, near, far
<1>15. NearestNode(p) = IF near <= far THEN e ELSE o
  BY <1>3, <1>4, <1>5, <1>6 DEF NearestNode
<1>16. ToCentre2(ToCell(p)) = Scale(2 * Pitch, IF near <= far THEN e ELSE o)
  BY <1>12, <1>13, <1>15 DEF ToCell, ToCentre2
<1>17. 5 * Pitch * Pitch = 5 * (Pitch * Pitch) /\ Pitch * Pitch \in Int BY QuantizerAssumption
<1>18. CASE near <= far
  <2>1. 4 * near <= 5 * (Pitch * Pitch) BY <1>10, <1>17, <1>18
  <2> QED BY <1>14, <1>16, <1>17, <1>18, <2>1
<1>19. CASE ~(near <= far)
  <2>1. 4 * far <= 5 * (Pitch * Pitch) BY <1>10, <1>17, <1>19
  <2> QED BY <1>14, <1>16, <1>17, <1>19, <2>1
<1> QED BY <1>18, <1>19

\* The error bound of the program: whatever the bound, the quantizer and the point
\* are, the point is within the bound of what is recovered from its cell.
THEOREM ErrorBound == \A p \in Point : WithinBound(p, QuantizeCell(p))
<1> SUFFICES ASSUME NEW p \in Point PROVE WithinBound(p, QuantizeCell(p)) OBVIOUS
<1>1. CASE Quantizer = "cube"
  BY <1>1, CubeBound DEF WithinBound, QuantizeCell, RecoverCell2, Bound2Sq
<1>2. CASE Quantizer # "cube"
  BY <1>2, ToBound DEF WithinBound, QuantizeCell, RecoverCell2, Bound2Sq
<1> QED BY <1>1, <1>2

\* Both quantizers take a point to a cell.
LEMMA QuantizeLemma == ASSUME NEW p \in Point PROVE QuantizeCell(p) \in Cells
<1>1. Pitch \in Nat \ {0} /\ 2*Pitch \in Nat \ {0} BY QuantizerAssumption
<1>2. p[1] \in Int /\ p[2] \in Int /\ p[3] \in Int BY DEF Point
<1>3. \A m \in Int, k \in Nat \ {0} : m \div k \in Int OBVIOUS
<1>4. CubeCell(p) \in Cells BY <1>1, <1>2, <1>3 DEF CubeCell, Cells
<1>5. ASSUME NEW q \in Point PROVE EvenNode(q) \in Cells
  <2>1. q[1] \in Int /\ q[2] \in Int /\ q[3] \in Int BY DEF Point
  <2>2. /\ RoundAway(q[1], 2*Pitch) \in Int /\ RoundAway(q[2], 2*Pitch) \in Int
        /\ RoundAway(q[3], 2*Pitch) \in Int
    BY <1>1, <2>1, Rounding
  <2> QED BY <2>2 DEF EvenNode, Scale, Cells
<1>6. OddNode(p) \in Cells
  <2>1. <<p[1] - Pitch, p[2] - Pitch, p[3] - Pitch>> \in Point BY <1>1, <1>2 DEF Point
  <2>2. EvenNode(<<p[1] - Pitch, p[2] - Pitch, p[3] - Pitch>>) \in Cells BY <2>1, <1>5
  <2> QED BY <2>2 DEF OddNode, Cells
<1>7. NearestNode(p) \in Cells BY <1>5, <1>6 DEF NearestNode
<1>8. ASSUME NEW n \in Cells PROVE PackNode(n) \in Cells
  <2>1. n[1] \in Int /\ n[2] \in Int /\ n[3] \in Int BY DEF Cells
  <2>2. \A m \in Int : m \div 2 \in Int OBVIOUS
  <2> QED BY <2>1, <2>2 DEF PackNode, Cells
<1>9. ToCell(p) \in Cells BY <1>7, <1>8 DEF ToCell
<1> QED BY <1>4, <1>9 DEF QuantizeCell
=============================================================================
