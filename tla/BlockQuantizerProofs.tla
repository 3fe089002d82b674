------------------------ MODULE BlockQuantizerProofs ------------------------
(***************************************************************************)
(* What both codecs do to cells can be undone: differences and patches,    *)
(* Morton codes whose coordinates have no more than CoordBits bits, and    *)
(* blocks whose numbers fit a word.  A sort of the nodes of a list of      *)
(* cells lists them once each, and what is read has as many cells as were  *)
(* written, whether or not they fit.                                       *)
(***************************************************************************)
EXTENDS BlockQuantizer, Foundations

Triples == Int \X Int \X Int

-----------------------------------------------------------------------------
(* Lists without repetition *)

\* s has every element of S once and nothing else.
Lists(s, S) ==
  /\ s \in Seq(S)
  /\ \A i, k \in 1..Len(s) : s[i] = s[k] => i = k
  /\ \A x \in S : \E i \in 1..Len(s) : s[i] = x

\* Such a list is as long as the set is large.
LEMMA ListSize ==
  ASSUME NEW S, NEW s, Lists(s, S)
  PROVE  IsFiniteSet(S) /\ Len(s) = Cardinality(S) /\ ToSet(s) = S
<1> DEFINE n == Len(s)
<1>1. n \in Nat /\ s \in [1..n -> S] BY DEF Lists
<1>2. ToSet(s) = S BY <1>1 DEF Lists, ToSet
<1>3. IsFiniteSet(1..n) /\ Cardinality(1..n) = n
  <2> HIDE DEF n
  <2>1. 1 \in Int /\ n \in Int BY <1>1
  <2>2. IsFiniteSet(1..n) /\ Cardinality(1..n) = IF 1 > n THEN 0 ELSE n - 1 + 1
    BY <2>1, FS_Interval
  <2> QED BY <1>1, <2>2
<1>4. s \in Injection(1..n, S) BY <1>1 DEF Lists, Injection, IsInjective
<1>5. s \in Surjection(1..n, S) BY <1>1 DEF Lists, Surjection
<1> HIDE DEF n
<1>6. ExistsBijection(1..n, S) BY <1>4, <1>5 DEF ExistsBijection, Bijection
<1>7. IsFiniteSet(S) /\ Cardinality(S) = Cardinality(1..n) BY <1>3, <1>6, FS_Bijection
<1> QED BY <1>2, <1>3, <1>7 DEF n

\* Lists of disjoint sets, one after the other.
LEMMA ListsOneAfterAnother ==
  ASSUME NEW S, NEW s, Lists(s, S), NEW T, NEW t, Lists(t, T), S \cap T = {}
  PROVE  Lists(s \o t, S \cup T)
<1> DEFINE n == Len(s)
           m == Len(t)
           u == s \o t
<1>1. s \in Seq(S) /\ t \in Seq(T) BY DEF Lists
<1>2. n \in Nat /\ m \in Nat /\ s \in [1..n -> S] /\ t \in [1..m -> T] BY <1>1
<1>3. s \in Seq(S \cup T) /\ t \in Seq(S \cup T) BY <1>2
<1>4. /\ u \in Seq(S \cup T) /\ Len(u) = n + m
      /\ \A i \in 1..(n + m) : u[i] = IF i <= n THEN s[i] ELSE t[i - n]
  BY <1>3
<1> HIDE DEF u
<1>5. ASSUME NEW i \in 1..(n + m)
      PROVE  \/ i \in 1..n /\ u[i] = s[i] /\ s[i] \in S
             \/ i \notin 1..n /\ i - n \in 1..m /\ u[i] = t[i - n] /\ t[i - n] \in T
  <2> HIDE DEF n, m
  <2>1. CASE i <= n
    <3>1. i \in 1..n BY <1>2, <2>1
    <3> QED BY <1>2, <1>4, <2>1, <3>1
  <2>2. CASE ~(i <= n)
    <3>1. i - n \in 1..m /\ i \notin 1..n BY <1>2, <2>2
    <3> QED BY <1>2, <1>4, <2>2, <3>1
  <2> QED BY <2>1, <2>2
<1>6. ASSUME NEW i \in 1..(n + m), NEW k \in 1..(n + m), u[i] = u[k] PROVE i = k
  <2>1. CASE i \in 1..n
    <3>1. u[i] = s[i] /\ s[i] \in S BY <1>5, <2>1
    <3>2. k \in 1..n /\ u[k] = s[k] BY <1>5, <1>6, <3>1
    <3> QED BY <1>6, <2>1, <3>1, <3>2 DEF Lists
  <2>2. CASE i \notin 1..n
    <3>1. u[i] = t[i - n] /\ t[i - n] \in T /\ i - n \in 1..m BY <1>5, <2>2
    <3>2. k - n \in 1..m /\ u[k] = t[k - n] BY <1>5, <1>6, <3>1
    <3>3. i - n = k - n BY <1>6, <3>1, <3>2 DEF Lists
    <3>4. i \in Int /\ k \in Int /\ n \in Int BY <1>2
    <3> HIDE DEF n, m
    <3> QED BY <3>3, <3>4
  <2> QED BY <2>1, <2>2
<1>7. ASSUME NEW x \in S \cup T PROVE \E i \in 1..(n + m) : u[i] = x
  <2>1. CASE x \in S
    <3>1. PICK i \in 1..n : s[i] = x BY <2>1 DEF Lists
    <3> HIDE DEF n, m
    <3>2. i \in 1..(n + m) /\ i <= n BY <1>2
    <3> QED BY <1>4, <3>1, <3>2
  <2>2. CASE x \in T
    <3>1. PICK i \in 1..m : t[i] = x BY <2>2 DEF Lists
    <3> HIDE DEF n, m
    <3>2. n + i \in 1..(n + m) /\ ~(n + i <= n) /\ (n + i) - n = i BY <1>2
    <3> QED BY <1>4, <3>1, <3>2
  <2> QED BY <2>1, <2>2
<1> QED BY <1>4, <1>6, <1>7 DEF Lists, u

\* Taken in the order of a list of its places, a list remains one.
LEMMA ListInOrder ==
  ASSUME NEW S, NEW s, Lists(s, S), NEW ords, Lists(ords, 1..Len(s)),
         NEW t, t = [i \in 1..Len(ords) |-> s[ords[i]]]
  PROVE  Lists(t, S)
<1> DEFINE n == Len(s)
           m == Len(ords)
<1>1. n \in Nat /\ s \in [1..n -> S] BY DEF Lists
<1>2. m \in Nat /\ ords \in [1..m -> 1..n]
  <2>1. \A D : \A o \in Seq(D) : Len(o) \in Nat /\ o \in [1..Len(o) -> D] OBVIOUS
  <2>2. ords \in Seq(1..n) BY DEF Lists
  <2> QED BY <2>1, <2>2
<1>3. t = [i \in 1..m |-> s[ords[i]]] OBVIOUS
<1>4. \A i \in 1..m : ords[i] \in 1..n /\ s[ords[i]] \in S BY <1>1, <1>2
<1>5. t \in [1..m -> S] BY <1>3, <1>4
<1>6. t \in Seq(S) /\ Len(t) = m BY <1>2, <1>5
<1>7. ASSUME NEW i \in 1..m, NEW k \in 1..m, t[i] = t[k] PROVE i = k
  <2>1. s[ords[i]] = s[ords[k]] BY <1>3, <1>7
  <2>2. ords[i] \in 1..n /\ ords[k] \in 1..n BY <1>4
  <2>3. \A a, b \in 1..n : s[a] = s[b] => a = b BY DEF Lists
  <2>4. ords[i] = ords[k] BY <2>1, <2>2, <2>3
  <2> QED BY <2>4 DEF Lists
<1>8. ASSUME NEW x \in S PROVE \E i \in 1..m : t[i] = x
  <2>1. PICK k \in 1..n : s[k] = x BY DEF Lists
  <2>2. PICK i \in 1..m : ords[i] = k BY DEF Lists
  <2> QED BY <1>3, <2>1, <2>2
<1> QED BY <1>6, <1>7, <1>8 DEF Lists

\* s lists records, or tuples, that f makes of n places; key finds the place in a
\* record, and t has the places in the order of s.
Keyed(n, S, f, key, s, t) ==
  /\ f \in [1..n -> S] /\ \A x \in S : \E i \in 1..n : f[i] = x
  /\ key \in [S -> 1..n] /\ \A i \in 1..n : key[f[i]] = i
  /\ s \in [1..Cardinality(S) -> S]
  /\ \A i, k \in 1..Cardinality(S) : i # k => s[i] # s[k]
  /\ t = [i \in 1..n |-> t[i]] /\ \A i \in 1..n : t[i] = key[s[i]]

\* Then each place is in it once.
LEMMA KeysListed ==
  ASSUME NEW n \in Nat, NEW S, NEW f, NEW key, NEW s, NEW t, Keyed(n, S, f, key, s, t)
  PROVE  s \in Seq(S) /\ Len(s) = n /\ Lists(t, 1..n)
<1>0. /\ f \in [1..n -> S] /\ \A x \in S : \E i \in 1..n : f[i] = x
      /\ key \in [S -> 1..n] /\ \A i \in 1..n : key[f[i]] = i
      /\ s \in [1..Cardinality(S) -> S]
      /\ \A i, k \in 1..Cardinality(S) : i # k => s[i] # s[k]
      /\ t = [i \in 1..n |-> t[i]] /\ \A i \in 1..n : t[i] = key[s[i]]
  BY DEF Keyed
<1> DEFINE m == Cardinality(S)
<1>1. \A i, k \in 1..n : f[i] = f[k] => i = k
  <2> SUFFICES ASSUME NEW i \in 1..n, NEW k \in 1..n, f[i] = f[k] PROVE i = k OBVIOUS
  <2>1. key[f[i]] = key[f[k]] OBVIOUS
  <2> QED BY <1>0, <2>1
<1>3. IsFiniteSet(1..n) /\ Cardinality(1..n) = n
  <2>1. 1 \in Int /\ n \in Int OBVIOUS
  <2>2. IsFiniteSet(1..n) /\ Cardinality(1..n) = IF 1 > n THEN 0 ELSE n - 1 + 1
    BY <2>1, FS_Interval
  <2> QED BY <2>2
<1>4. f \in Injection(1..n, S) BY <1>0, <1>1 DEF Injection, IsInjective
<1>5. f \in Surjection(1..n, S) BY <1>0 DEF Surjection
<1>6. IsFiniteSet(S) /\ m = n
  <2>1. ExistsBijection(1..n, S) BY <1>4, <1>5 DEF ExistsBijection, Bijection
  <2> QED BY <1>3, <2>1, FS_Bijection
<1>7. \A x \in S : \E i \in 1..Cardinality(S) : s[i] = x
  <2>1. IsFiniteSet(S) BY <1>6
  <2> QED BY <1>0, <2>1, ListedOnto
<1>8. s \in [1..n -> S] /\ \A i, k \in 1..n : i # k => s[i] # s[k] BY <1>0, <1>6
<1>9. s \in Seq(S) /\ Len(s) = n
  <2>1. \A D : \A k \in Nat : \A u \in [1..k -> D] : u \in Seq(D) /\ Len(u) = k OBVIOUS
  <2> QED BY <1>8, <2>1
<1>10. \A i \in 1..n : s[i] \in S /\ key[s[i]] \in 1..n /\ f[key[s[i]]] = s[i]
  <2> SUFFICES ASSUME NEW i \in 1..n PROVE key[s[i]] \in 1..n /\ f[key[s[i]]] = s[i]
    BY <1>8
  <2>1. s[i] \in S BY <1>8
  <2>2. PICK k \in 1..n : s[i] = f[k] BY <1>0, <2>1
  <2> QED BY <1>0, <2>2
<1>11. t \in Seq(1..n) /\ Len(t) = n
  <2>1. t \in [1..n -> 1..n] BY <1>0, <1>10
  <2> QED BY <2>1
<1>12. ASSUME NEW i \in 1..n, NEW k \in 1..n, t[i] = t[k] PROVE i = k
  <2>1. key[s[i]] = key[s[k]] BY <1>0, <1>12
  <2>2. s[i] = s[k] BY <1>10, <2>1
  <2> QED BY <1>8, <2>2
<1>13. ASSUME NEW x \in 1..n PROVE \E i \in 1..n : t[i] = x
  <2>1. f[x] \in S BY <1>0
  <2>2. PICK i \in 1..n : s[i] = f[x] BY <1>6, <1>7, <2>1
  <2>3. t[i] = x BY <1>0, <2>2
  <2> QED BY <2>3
<1>14. Lists(t, 1..n) BY <1>11, <1>12, <1>13 DEF Lists
<1> QED BY <1>9, <1>14

-----------------------------------------------------------------------------
(* Words, differences and patches *)

LEMMA Words ==
  /\ \A n \in Int : Word(n) \in Nat
  /\ \A n \in Int : Word(n) \div Edge \in Int /\ Word(n) % Edge \in 0..(Edge - 1)
<1>1. WordSize \in Nat \ {0} /\ Edge \in Nat \ {0} BY BlockAssumption
<1>2. \A n \in Int : Word(n) \in Nat
  <2> SUFFICES ASSUME NEW n \in Int PROVE n % WordSize \in Nat BY DEF Word
  <2> QED BY <1>1, ModuloLemma
<1>3. ASSUME NEW n \in Int
      PROVE  Word(n) \div Edge \in Int /\ Word(n) % Edge \in 0..(Edge - 1)
  <2>1. Word(n) \in Int BY <1>2
  <2> QED BY <1>1, <2>1, ModuloLemma
<1> QED BY <1>2, <1>3

LEMMA Greatest ==
  ASSUME NEW S \in SUBSET Int, IsFiniteSet(S), S # {}
  PROVE  MaxOf(S) \in S /\ \A y \in S : y <= MaxOf(S)
<1>1. \E x \in S : \A y \in S : y <= x BY MaxLemma
<1> QED BY <1>1 DEF MaxOf

\* The range reaches to every cell.
LEMMA RangeLemma ==
  ASSUME NEW C \in SUBSET Triples, IsFiniteSet(C)
  PROVE  /\ RangeOf(C) \in [1..3 -> Nat]
         /\ \A c \in C : \A a \in 1..3 : c[a] \in Int /\ c[a] <= RangeOf(C)[a]
<1>1. ASSUME NEW a \in 1..3
      PROVE  /\ MaxOf({0} \cup {c[a] : c \in C}) \in Nat
             /\ \A d \in C : d[a] \in Int /\ d[a] <= MaxOf({0} \cup {c[a] : c \in C})
  <2> DEFINE f == [c \in C |-> c[a]]
             S == {f[c] : c \in C}
             T == S \cup {0}
  <2>1. \A c \in C : f[c] = c[a] /\ c[a] \in Int BY DEF Triples
  <2>2. f = [c \in C |-> f[c]] /\ DOMAIN f = C OBVIOUS
  <2>3. {0} \cup {c[a] : c \in C} = T OBVIOUS
  <2> HIDE DEF f
  <2>4. IsFiniteSet(S) BY <2>2, ImageLemma
  <2>5. IsFiniteSet(T)
    <3> HIDE DEF S
    <3> QED BY <2>4, FS_AddElement
  <2>6. T \in SUBSET Int /\ 0 \in T /\ \A c \in C : c[a] \in T BY <2>1
  <2> HIDE DEF T
  <2>7. MaxOf(T) \in T /\ \A y \in T : y <= MaxOf(T) BY <2>5, <2>6, Greatest
  <2> DEFINE m == MaxOf(T)
  <2>8. m \in Int /\ 0 <= m /\ \A c \in C : c[a] <= m BY <2>6, <2>7
  <2> HIDE DEF m
  <2>9. m \in Nat BY <2>8
  <2> QED BY <2>1, <2>3, <2>8, <2>9 DEF m
<1>2. RangeOf(C) = [a \in 1..3 |-> MaxOf({0} \cup {c[a] : c \in C})] BY DEF RangeOf
<1> DEFINE M(a) == MaxOf({0} \cup {c[a] : c \in C})
<1>3. RangeOf(C) = [a \in 1..3 |-> M(a)] BY <1>2
<1>4. \A a \in 1..3 : M(a) \in Nat /\ \A c \in C : c[a] \in Int /\ c[a] <= M(a) BY <1>1
<1> HIDE DEF M
<1> QED BY <1>3, <1>4

\* The range reaches no further than the cells.
LEMMA RangeBelow ==
  ASSUME NEW C \in SUBSET Triples, IsFiniteSet(C), NEW m \in Nat,
         \A c \in C : \A a \in 1..3 : c[a] <= m
  PROVE  \A a \in 1..3 : RangeOf(C)[a] \in 0..m
<1> SUFFICES ASSUME NEW a \in 1..3 PROVE RangeOf(C)[a] \in 0..m OBVIOUS
<1> DEFINE f == [c \in C |-> c[a]]
           S == {f[c] : c \in C}
           T == S \cup {0}
<1>1. \A c \in C : f[c] = c[a] /\ c[a] \in Int BY DEF Triples
<1>2. f = [c \in C |-> f[c]] /\ DOMAIN f = C OBVIOUS
<1>3. {0} \cup {c[a] : c \in C} = T OBVIOUS
<1>4. RangeOf(C)[a] = MaxOf(T) BY <1>3 DEF RangeOf
<1> HIDE DEF f
<1>5. IsFiniteSet(S) BY <1>2, ImageLemma
<1>6. IsFiniteSet(T)
  <2> HIDE DEF S
  <2> QED BY <1>5, FS_AddElement
<1>7. T \in SUBSET Int /\ 0 \in T /\ \A y \in T : y <= m BY <1>1
<1> HIDE DEF T
<1>8. MaxOf(T) \in T /\ \A y \in T : y <= MaxOf(T) BY <1>6, <1>7, Greatest
<1>9. MaxOf(T) \in Int /\ 0 <= MaxOf(T) /\ MaxOf(T) <= m BY <1>7, <1>8
<1> QED BY <1>4, <1>9

\* The differences of a sequence are words, and as many.
LEMMA DeltasLemma ==
  ASSUME NEW n \in Nat, NEW s, s \in [1..n -> Nat]
  PROVE  Deltas(s) \in [1..n -> Nat]
<1>1. \A i \in 1..n : s[i] \in Nat OBVIOUS
<1>2. ASSUME NEW i \in 1..n, i # 1 PROVE Word(s[i] - s[i - 1]) \in Nat
  <2>1. i - 1 \in 1..n BY <1>2
  <2>2. s[i] \in Nat /\ s[i - 1] \in Nat BY <1>1, <2>1
  <2>3. s[i] - s[i - 1] \in Int BY <2>2
  <2> QED BY <2>3, Words
<1>3. \A i \in 1..n : i = 1 => s[1] \in Nat OBVIOUS
<1> QED BY <1>2, <1>3 DEF Deltas

\* What PForDelta leaves of numbers fits its limit.
LEMMA PatchLemma ==
  ASSUME NEW n \in Nat, NEW s, s \in [1..n -> Nat]
  PROVE  ToSet(PatchEncode(s).deltas) \subseteq 0..(PatchLimit + 1)
<1>1. PatchEncode(s).deltas = [i \in 1..n |-> IF s[i] > PatchLimit THEN 0 ELSE s[i] + 1]
  BY DEF PatchEncode
<1>2. PatchLimit \in Nat BY BlockAssumption
<1>3. ASSUME NEW i \in 1..n
      PROVE  (IF s[i] > PatchLimit THEN 0 ELSE s[i] + 1) \in 0..(PatchLimit + 1)
  <2>1. s[i] \in Nat OBVIOUS
  <2> QED BY <1>2, <2>1
<1> QED BY <1>1, <1>3 DEF ToSet

\* Taking a word from another and putting it back.
LEMMA WordDifference ==
  \A x, y \in 0..(WordSize - 1) :
    /\ Word(x) = x
    /\ Word(x - y) \in 0..(WordSize - 1)
    /\ Word(Word(x - y) + y) = x
<1> DEFINE W == WordSize
<1>1. W \in Nat \ {0} BY BlockAssumption
<1> HIDE DEF W
<1> SUFFICES ASSUME NEW x \in 0..(W - 1), NEW y \in 0..(W - 1)
             PROVE  x % W = x /\ (x - y) % W \in 0..(W - 1) /\ (((x - y) % W) + y) % W = x
  BY DEF W, Word
<1>2. x % W = x
  <2>1. x = W * 0 + x /\ x \in Int /\ 0 \in Int BY <1>1
  <2> QED BY <1>1, <2>1, DivisionUnique
<1>3. (x - y) % W = IF y <= x THEN x - y ELSE x - y + W
  <2>1. CASE y <= x
    <3>1. x - y = W * 0 + (x - y) /\ x - y \in 0..(W - 1) /\ x - y \in Int /\ 0 \in Int
      BY <1>1, <2>1
    <3> QED BY <1>1, <2>1, <3>1, DivisionUnique
  <2>2. CASE ~(y <= x)
    <3>1. /\ x - y = W * (-1) + (x - y + W) /\ x - y + W \in 0..(W - 1)
          /\ x - y \in Int /\ -1 \in Int
      BY <1>1, <2>2
    <3> QED BY <1>1, <2>2, <3>1, DivisionUnique
  <2> QED BY <2>1, <2>2
<1>4. (((x - y) % W) + y) % W = x
  <2>1. CASE y <= x BY <1>1, <1>2, <1>3, <2>1
  <2>2. CASE ~(y <= x)
    <3>1. ((x - y) % W) + y = x + W /\ x \in Int BY <1>1, <1>3, <2>2
    <3>2. (x + W) % W = x % W BY <1>1, <3>1, SameRemainder
    <3> QED BY <1>2, <3>1, <3>2
  <2> QED BY <2>1, <2>2
<1>5. (x - y) % W \in 0..(W - 1) BY <1>1, <1>3
<1> QED BY <1>2, <1>4, <1>5

\* From the first place on, one by one, to the last.
LEMMA Onward ==
  ASSUME NEW n \in Nat, NEW P, n >= 1 => 1 \in P, \A i \in 2..n : i - 1 \in P => i \in P
  PROVE  \A i \in 1..n : i \in P
<1> DEFINE Q == {k \in Nat : k + 1 \in 1..n => k + 1 \in P}
<1>1. 0 \in Q OBVIOUS
<1>2. ASSUME NEW k \in Nat, k \in Q PROVE k + 1 \in Q
  <2> SUFFICES ASSUME (k + 1) + 1 \in 1..n PROVE (k + 1) + 1 \in P OBVIOUS
  <2>1. k + 1 \in 1..n /\ (k + 1) + 1 \in 2..n /\ ((k + 1) + 1) - 1 = k + 1 OBVIOUS
  <2>2. k + 1 \in P BY <1>2, <2>1
  <2> QED BY <2>1, <2>2
<1> HIDE DEF Q
<1>3. \A k \in Nat : k \in Q BY <1>1, <1>2, SimpleInduction
<1> SUFFICES ASSUME NEW i \in 1..n PROVE i \in P OBVIOUS
<1>4. i - 1 \in Nat /\ (i - 1) + 1 = i OBVIOUS
<1>5. i - 1 \in Q BY <1>3, <1>4
<1> QED BY <1>4, <1>5 DEF Q

\* Sums undo differences.
LEMMA SumsOfDeltas ==
  ASSUME NEW n \in Nat, NEW s \in [1..n -> 0..(WordSize - 1)]
  PROVE  Deltas(s) \in [1..n -> 0..(WordSize - 1)] /\ Sums(Deltas(s)) = s
<1> DEFINE d == Deltas(s)
           Rule(f) == [i \in 1..n |-> IF i = 1 THEN d[1] ELSE Word(d[i] + f[i - 1])]
<1>1. \A i \in 1..n : s[i] \in 0..(WordSize - 1) OBVIOUS
<1>2. \A i \in 1..n : i # 1 => i - 1 \in 1..n OBVIOUS
<1>3. d = [i \in 1..n |-> IF i = 1 THEN s[1] ELSE Word(s[i] - s[i - 1])] BY DEF Deltas
<1>4. d \in [1..n -> 0..(WordSize - 1)]
  <2>1. ASSUME NEW i \in 1..n, i # 1 PROVE Word(s[i] - s[i - 1]) \in 0..(WordSize - 1)
    <3>1. s[i] \in 0..(WordSize - 1) /\ s[i - 1] \in 0..(WordSize - 1) BY <1>1, <1>2, <2>1
    <3> QED BY <3>1, WordDifference
  <2>2. \A i \in 1..n : i = 1 => s[1] \in 0..(WordSize - 1) BY <1>1
  <2> HIDE DEF d
  <2> QED BY <1>3, <2>1, <2>2
<1>5. DOMAIN d = 1..n BY <1>3
<1> HIDE DEF d
<1>6. s = Rule(s)
  <2>1. ASSUME NEW i \in 1..n PROVE s[i] = IF i = 1 THEN d[1] ELSE Word(d[i] + s[i - 1])
    <3>1. CASE i = 1 BY <1>3, <3>1
    <3>2. CASE i # 1
      <4>1. d[i] = Word(s[i] - s[i - 1]) BY <1>3, <3>2
      <4>2. s[i] \in 0..(WordSize - 1) /\ s[i - 1] \in 0..(WordSize - 1)
        BY <1>1, <1>2, <3>2
      <4>3. Word(Word(s[i] - s[i - 1]) + s[i - 1]) = s[i] BY <4>2, WordDifference
      <4> QED BY <3>2, <4>1, <4>3
    <3> QED BY <3>1, <3>2
  <2>2. s = [i \in 1..n |-> s[i]] OBVIOUS
  <2> QED BY <2>1, <2>2
<1> DEFINE h == Sums(d)
<1>7. h = CHOOSE f : f = Rule(f) BY <1>5, Zenon DEF Sums
<1>8. h = Rule(h)
  <2> HIDE DEF h, Rule
  <2> QED BY <1>6, <1>7
<1> HIDE DEF h
<1>9. h = [i \in 1..n |-> h[i]] /\ \A i \in 1..n : h[i] = IF i = 1 THEN d[1] ELSE Word(d[i] + h[i - 1])
  BY <1>8
<1>10. s = [i \in 1..n |-> s[i]] /\ \A i \in 1..n : s[i] = IF i = 1 THEN d[1] ELSE Word(d[i] + s[i - 1])
  BY <1>6
<1>11. \A i \in 1..n : h[i] = s[i]
  <2> DEFINE P == {i \in 1..n : h[i] = s[i]}
  <2>1. n >= 1 => 1 \in P
    <3>1. n >= 1 => 1 \in 1..n OBVIOUS
    <3> HIDE DEF Rule
    <3> QED BY <1>9, <1>10, <3>1
  <2>2. ASSUME NEW i \in 2..n, i - 1 \in P PROVE i \in P
    <3>1. i \in 1..n /\ i # 1 OBVIOUS
    <3>2. h[i] = Word(d[i] + h[i - 1]) BY <1>9, <3>1
    <3>3. s[i] = Word(d[i] + s[i - 1]) BY <1>10, <3>1
    <3> QED BY <2>2, <3>1, <3>2, <3>3
  <2> HIDE DEF P
  <2>3. \A i \in 1..n : i \in P BY <2>1, <2>2, Onward
  <2> QED BY <2>3 DEF P
<1>12. h = s BY <1>9, <1>10, <1>11
<1> QED BY <1>4, <1>12 DEF d, h

\* The place of an element in an ascending list is the number of elements up to it.
LEMMA RankOf ==
  ASSUME NEW n \in Nat, NEW S \in SUBSET (1..n), NEW i \in S
  PROVE  /\ Sorted(S, <) \in [1..Cardinality(S) -> S]
         /\ Cardinality({k \in S : k <= i}) \in 1..Cardinality(S)
         /\ Sorted(S, <)[Cardinality({k \in S : k <= i})] = i
<1> DEFINE m == Cardinality(S)
           s == Sorted(S, <)
           T == {k \in S : k <= i}
<1>1. IsFiniteSet(S) /\ S \in SUBSET Int /\ m \in Nat
  <2>1. 1 \in Int /\ n \in Int OBVIOUS
  <2>2. IsFiniteSet(1..n) BY <2>1, FS_Interval
  <2>3. IsFiniteSet(S) BY <2>2, FS_Subset
  <2> QED BY <2>3, FS_CardinalityType
<1>2. \E t \in [1..m -> S] : \A a, b \in DOMAIN t : a < b => t[a] < t[b]
  <2>1. PICK t \in [1..m -> S] : \A a, b \in 1..m : a < b => t[a] < t[b]
    BY <1>1, Ascending
  <2>2. DOMAIN t = 1..m OBVIOUS
  <2> QED BY <2>1, <2>2
<1>3. s \in [1..m -> S] /\ \A a, b \in DOMAIN s : a < b => s[a] < s[b] BY <1>2 DEF Sorted
<1> HIDE DEF s
<1>4. DOMAIN s = 1..m BY <1>3
<1>5. \A a, b \in 1..m : a < b => s[a] < s[b] BY <1>3, <1>4
<1>6. /\ \A a, b \in 1..m : s[a] = s[b] => a = b
      /\ \A x \in S : \E a \in 1..m : s[a] = x
  <2> HIDE DEF m
  <2> QED BY <1>1, <1>3, <1>5, AscendingOnto DEF m
<1>7. PICK a \in 1..m : s[a] = i BY <1>6
<1> HIDE DEF m
<1>8. a \in Nat /\ \A b \in 1..m : b \in Int /\ s[b] \in Int /\ s[b] \in S
  <2>1. a \in Nat BY <1>1
  <2>2. ASSUME NEW b \in 1..m PROVE b \in Int /\ s[b] \in Int /\ s[b] \in S
    <3>1. s[b] \in S BY <1>3
    <3>2. b \in Int BY <1>1
    <3>3. s[b] \in Int BY <1>1, <3>1
    <3> QED BY <3>1, <3>2, <3>3
  <2> QED BY <2>1, <2>2
<1> DEFINE f == [b \in 1..a |-> s[b]]
<1>9. \A b \in 1..a : b \in 1..m /\ f[b] = s[b] BY <1>1
<1>10. f \in Bijection(1..a, T)
  <2>1. ASSUME NEW b \in 1..a PROVE f[b] \in T
    <3>1. s[b] \in S /\ b <= a /\ b \in Int /\ s[b] \in Int /\ s[a] \in Int BY <1>8, <1>9
    <3>2. b = a \/ b < a BY <1>8, <3>1
    <3>3. s[b] <= s[a] BY <1>5, <1>9, <3>1, <3>2
    <3> QED BY <1>7, <1>9, <3>1, <3>3
  <2>2. \A b, c \in 1..a : f[b] = f[c] => b = c BY <1>6, <1>9
  <2>3. ASSUME NEW x \in T PROVE \E b \in 1..a : f[b] = x
    <3>1. PICK b \in 1..m : s[b] = x BY <1>6
    <3>2. ~(a < b)
      <4> SUFFICES ASSUME a < b PROVE FALSE OBVIOUS
      <4>1. s[a] < s[b] BY <1>5
      <4>2. s[b] <= s[a] BY <1>7, <3>1
      <4> QED BY <1>8, <4>1, <4>2
    <3>3. b \in 1..a BY <1>1, <1>8, <3>2
    <3> QED BY <1>9, <3>1, <3>3
  <2> HIDE DEF T
  <2>4. f \in [1..a -> T] BY <2>1
  <2> HIDE DEF f
  <2>5. f \in Injection(1..a, T) BY <2>2, <2>4 DEF Injection, IsInjective
  <2>6. f \in Surjection(1..a, T) BY <2>3, <2>4 DEF Surjection
  <2> QED BY <2>5, <2>6 DEF Bijection
<1>11. Cardinality(T) = a
  <2>1. 1 \in Int /\ a \in Int BY <1>8
  <2>2. IsFiniteSet(1..a) /\ Cardinality(1..a) = IF 1 > a THEN 0 ELSE a - 1 + 1
    BY <2>1, FS_Interval
  <2>3. Cardinality(1..a) = a BY <1>8, <2>2
  <2>4. ExistsBijection(1..a, T) BY <1>10 DEF ExistsBijection
  <2> HIDE DEF T
  <2> QED BY <2>2, <2>3, <2>4, FS_Bijection
<1> QED BY <1>3, <1>7, <1>11 DEF m, s

\* Patches put back what PForDelta took out.
LEMMA PatchesReturn ==
  ASSUME NEW n \in Nat, NEW s \in [1..n -> Nat]
  PROVE  PatchDecode(PatchEncode(s)) = s
<1> DEFINE d == PatchEncode(s)
           S == {i \in 1..n : s[i] > PatchLimit}
<1>1. PatchLimit \in Nat BY BlockAssumption
<1>2. \A i \in 1..n : s[i] \in Nat OBVIOUS
<1>3. /\ d.deltas = [i \in 1..n |-> IF s[i] > PatchLimit THEN 0 ELSE s[i] + 1]
      /\ d.patches = [k \in DOMAIN Sorted(S, <) |-> s[Sorted(S, <)[k]]]
  BY DEF PatchEncode, Above
<1>4. PatchDecode(d) =
        [i \in 1..n |-> IF d.deltas[i] = 0
                        THEN d.patches[Cardinality({k \in 1..i : d.deltas[k] = 0})]
                        ELSE d.deltas[i] - 1]
  BY <1>3 DEF PatchDecode
<1> HIDE DEF d
<1>5. ASSUME NEW i \in 1..n
      PROVE  IF i \in S THEN d.deltas[i] = 0
             ELSE d.deltas[i] # 0 /\ d.deltas[i] - 1 = s[i]
  <2>1. d.deltas[i] = IF s[i] > PatchLimit THEN 0 ELSE s[i] + 1 BY <1>3
  <2>2. s[i] \in Nat BY <1>2
  <2>3. i \in S <=> s[i] > PatchLimit OBVIOUS
  <2> HIDE DEF S
  <2> QED BY <2>1, <2>2, <2>3
<1>6. ASSUME NEW i \in 1..n, i \in S
      PROVE  d.patches[Cardinality({k \in 1..i : d.deltas[k] = 0})] = s[i]
  <2>1. \A k \in 1..i : k \in 1..n OBVIOUS
  <2>2. {k \in 1..i : d.deltas[k] = 0} = {k \in S : k <= i}
    <3>1. \A k \in 1..n : k <= i <=> k \in 1..i OBVIOUS
    <3>2. \A k \in S : k \in 1..n OBVIOUS
    <3> HIDE DEF S
    <3> QED BY <1>5, <2>1, <3>1, <3>2
  <2>3. S \in SUBSET (1..n) OBVIOUS
  <2> HIDE DEF S
  <2> DEFINE t == Sorted(S, <)
             r == Cardinality({k \in S : k <= i})
  <2>4. t \in [1..Cardinality(S) -> S] /\ r \in 1..Cardinality(S) /\ t[r] = i
    BY <1>6, <2>3, RankOf
  <2>5. d.patches = [k \in DOMAIN t |-> s[t[k]]] BY <1>3
  <2>6. Cardinality({k \in 1..i : d.deltas[k] = 0}) = r BY <2>2
  <2> HIDE DEF t, r
  <2>7. d.patches[r] = s[t[r]] BY <2>4, <2>5
  <2> QED BY <2>4, <2>6, <2>7
<1>7. \A i \in 1..n : PatchDecode(d)[i] = s[i]
  <2> HIDE DEF S
  <2> QED BY <1>4, <1>5, <1>6
<1>8. PatchDecode(d) = [i \in 1..n |-> PatchDecode(d)[i]] /\ s = [i \in 1..n |-> s[i]]
  BY <1>4
<1>9. PatchDecode(d) = s BY <1>7, <1>8
<1> QED BY <1>9 DEF d

-----------------------------------------------------------------------------
(* Direct mode *)

\* A cell has a code.
LEMMA CodeLemma == \A c \in Triples : MortonCode(c) \in Nat
<1>1. \E f : f = SpreadRule(f) BY Spreading
<1>2. Spread = SpreadRule(Spread) BY <1>1, Zenon DEF Spread, SpreadRule
<1>3. \A k \in Nat : Spread[k] \in [Int -> Nat] BY <1>2, Spreading
<1>4. \A x \in Int : SplitBy3(x) \in Nat BY <1>3, BlockAssumption DEF SplitBy3
<1> SUFFICES ASSUME NEW c \in Triples PROVE MortonCode(c) \in Nat OBVIOUS
<1>5. c[1] \in Int /\ c[2] \in Int /\ c[3] \in Int BY DEF Triples
<1>6. SplitBy3(c[1]) \in Nat /\ SplitBy3(c[2]) \in Nat /\ SplitBy3(c[3]) \in Nat BY <1>4, <1>5
<1> QED BY <1>6 DEF MortonCode

\* Numbers of k bits are those below Pow2[k].
Pow2[k \in Nat] == IF k = 0 THEN 1 ELSE 2 * Pow2[k - 1]

LEMMA Powers == Pow2[0] = 1 /\ \A k \in Nat : Pow2[k] \in Nat /\ Pow2[k + 1] = 2 * Pow2[k]
<1> DEFINE Rule(f) == [k \in Nat |-> IF k = 0 THEN 1 ELSE 2 * f[k - 1]]
           c == [k \in Nat |-> 1]
           D == [k \in Nat |-> [v \in Nat |-> 2 * v]]
           below == [k \in Nat |-> k - 1]
<1>1. PICK f \in [Nat -> Nat] : Solves(f, Nat, {0}, c, below, D)
  <2>1. \A k \in Nat \cap {0} : c[k] \in Nat OBVIOUS
  <2>2. \A k \in Nat \ {0} : below[k] \in Nat /\ below[k] < k OBVIOUS
  <2>3. \A k \in Nat \ {0} : \A v \in Nat : D[k][v] \in Nat OBVIOUS
  <2> HIDE DEF c, below, D
  <2> QED BY <2>1, <2>2, <2>3, Recursion
<1>2. f = Rule(f)
  <2>1. ASSUME NEW k \in Nat PROVE f[k] = IF k = 0 THEN 1 ELSE 2 * f[k - 1]
    <3>1. CASE k = 0 BY <1>1, <3>1 DEF Solves
    <3>2. CASE k # 0
      <4>1. f[k] = D[k][f[below[k]]] BY <1>1, <3>2 DEF Solves
      <4>2. k - 1 \in Nat /\ f[k - 1] \in Nat BY <3>2
      <4> QED BY <3>2, <4>1, <4>2
    <3> QED BY <3>1, <3>2
  <2>2. f = [k \in Nat |-> f[k]] OBVIOUS
  <2> QED BY <2>1, <2>2
<1>3. Pow2 = Rule(Pow2)
  <2>1. Pow2 = CHOOSE g : g = Rule(g) BY Zenon DEF Pow2
  <2> HIDE DEF Rule
  <2> QED BY <1>2, <2>1
<1>4. \A k \in Nat : Pow2[k] = IF k = 0 THEN 1 ELSE 2 * Pow2[k - 1] BY <1>3
<1>5. Pow2[0] = 1 BY <1>4
<1>6. \A k \in Nat : Pow2[k + 1] = 2 * Pow2[k]
  <2> SUFFICES ASSUME NEW k \in Nat PROVE Pow2[k + 1] = 2 * Pow2[k] OBVIOUS
  <2>1. k + 1 \in Nat /\ k + 1 # 0 /\ (k + 1) - 1 = k OBVIOUS
  <2> QED BY <1>4, <2>1
<1> DEFINE P == {k \in Nat : Pow2[k] \in Nat}
<1>7. 0 \in P BY <1>5
<1>8. \A k \in Nat : k \in P => k + 1 \in P BY <1>6
<1> HIDE DEF P
<1>9. \A k \in Nat : k \in P BY <1>7, <1>8, SimpleInduction
<1> QED BY <1>5, <1>6, <1>9 DEF P

\* A code of three coordinates has at most three times the bits of one.
LEMMA CodeSize == \A c \in Triples : MortonCode(c) < Pow2[3 * CoordBits]
<1>1. Spread = SpreadRule(Spread)
  <2>1. \E f : f = SpreadRule(f) BY Spreading
  <2> QED BY <2>1, Zenon DEF Spread, SpreadRule
<1>2. \A n \in Nat : Spread[n] \in [Int -> Nat] BY <1>1, Spreading
<1>3. \A n \in Nat : Spread[n] = [v \in Int |-> IF n = 0 THEN 0 ELSE (v % 2) + 8 * Spread[n - 1][v \div 2]]
  BY <1>1 DEF SpreadRule
<1> DEFINE P == {n \in Nat : \A v \in Int : 7 * Spread[n][v] < Pow2[3 * n]}
<1>4. 0 \in P
  <2>1. Spread[0] = [v \in Int |-> IF 0 = 0 THEN 0 ELSE (v % 2) + 8 * Spread[0 - 1][v \div 2]]
    BY <1>3, Zenon
  <2>2. \A v \in Int : Spread[0][v] = 0 BY <2>1
  <2>3. Pow2[3 * 0] = 1 BY Powers
  <2> QED BY <2>2, <2>3
<1>5. ASSUME NEW n \in Nat, n \in P PROVE n + 1 \in P
  <2>1. Pow2[3 * (n + 1)] = 8 * Pow2[3 * n] /\ Pow2[3 * n] \in Nat
    <3>1. 3 * n \in Nat /\ 3 * n + 1 \in Nat /\ 3 * n + 2 \in Nat OBVIOUS
    <3>2. /\ Pow2[3 * n + 1] = 2 * Pow2[3 * n] /\ Pow2[3 * n + 1 + 1] = 2 * Pow2[3 * n + 1]
          /\ Pow2[3 * n + 2 + 1] = 2 * Pow2[3 * n + 2] /\ Pow2[3 * n] \in Nat
      BY <3>1, Powers
    <3>3. 3 * n + 1 + 1 = 3 * n + 2 /\ 3 * n + 2 + 1 = 3 * (n + 1) OBVIOUS
    <3> QED BY <3>2, <3>3
  <2> SUFFICES ASSUME NEW v \in Int PROVE 7 * Spread[n + 1][v] < Pow2[3 * (n + 1)] OBVIOUS
  <2>2. v % 2 \in 0..1 /\ v \div 2 \in Int OBVIOUS
  <2>3. Spread[n + 1][v] = (v % 2) + 8 * Spread[n][v \div 2]
    <3>1. n + 1 \in Nat /\ n + 1 # 0 /\ (n + 1) - 1 = n OBVIOUS
    <3>2. Spread[n + 1] = [h \in Int |-> IF n + 1 = 0 THEN 0
                                         ELSE (h % 2) + 8 * Spread[(n + 1) - 1][h \div 2]]
      BY <1>3, <3>1, Zenon
    <3> QED BY <3>1, <3>2
  <2>4. Spread[n][v \div 2] \in Nat BY <1>2, <2>2
  <2>5. 7 * Spread[n][v \div 2] < Pow2[3 * n] BY <1>5, <2>2
  <2> QED BY <2>1, <2>2, <2>3, <2>4, <2>5
<1> HIDE DEF P
<1>6. \A n \in Nat : n \in P BY <1>4, <1>5, SimpleInduction
<1>7. CoordBits \in Nat BY BlockAssumption
<1>8. \A v \in Int : SplitBy3(v) \in Nat /\ 7 * SplitBy3(v) < Pow2[3 * CoordBits]
  BY <1>2, <1>6, <1>7 DEF P, SplitBy3
<1>9. Pow2[3 * CoordBits] \in Nat BY <1>7, Powers
<1> SUFFICES ASSUME NEW c \in Triples PROVE MortonCode(c) < Pow2[3 * CoordBits] OBVIOUS
<1>10. c[1] \in Int /\ c[2] \in Int /\ c[3] \in Int BY DEF Triples
<1>11. /\ SplitBy3(c[1]) \in Nat /\ 7 * SplitBy3(c[1]) < Pow2[3 * CoordBits]
       /\ SplitBy3(c[2]) \in Nat /\ 7 * SplitBy3(c[2]) < Pow2[3 * CoordBits]
       /\ SplitBy3(c[3]) \in Nat /\ 7 * SplitBy3(c[3]) < Pow2[3 * CoordBits]
  BY <1>8, <1>10
<1> QED BY <1>9, <1>11 DEF MortonCode

\* Compacting reads every third bit.
LEMMA Compacting == \A n \in Nat : Compact[n] \in Nat /\ Compact[n] = (n % 2) + 2 * Compact[n \div 8]
<1> DEFINE Rule(f) == [n \in Nat |-> IF n = 0 THEN 0 ELSE (n % 2) + 2 * f[n \div 8]]
           c == [n \in Nat |-> 0]
           D == [n \in Nat |-> [v \in Nat |-> (n % 2) + 2 * v]]
           below == [n \in Nat |-> n \div 8]
<1>1. \A n \in Nat : n % 2 \in Nat /\ n \div 8 \in Nat OBVIOUS
<1>2. PICK f \in [Nat -> Nat] : Solves(f, Nat, {0}, c, below, D)
  <2>1. \A n \in Nat \cap {0} : c[n] \in Nat OBVIOUS
  <2>2. \A n \in Nat \ {0} : below[n] \in Nat /\ below[n] < n OBVIOUS
  <2>3. \A n \in Nat \ {0} : \A v \in Nat : D[n][v] \in Nat BY <1>1
  <2> HIDE DEF c, below, D
  <2> QED BY <2>1, <2>2, <2>3, Recursion
<1>3. f = Rule(f)
  <2>1. ASSUME NEW n \in Nat PROVE f[n] = IF n = 0 THEN 0 ELSE (n % 2) + 2 * f[n \div 8]
    <3>1. CASE n = 0 BY <1>2, <3>1 DEF Solves
    <3>2. CASE n # 0
      <4>1. f[n] = D[n][f[below[n]]] BY <1>2, <3>2 DEF Solves
      <4>2. f[n \div 8] \in Nat BY <1>1
      <4> QED BY <3>2, <4>1, <4>2
    <3> QED BY <3>1, <3>2
  <2>2. f = [n \in Nat |-> f[n]] OBVIOUS
  <2> QED BY <2>1, <2>2
<1>4. Compact = Rule(Compact)
  <2>1. Compact = CHOOSE g : g = Rule(g) BY Zenon DEF Compact
  <2> HIDE DEF Rule
  <2> QED BY <1>3, <2>1
<1>5. \A n \in Nat : Compact[n] = IF n = 0 THEN 0 ELSE (n % 2) + 2 * Compact[n \div 8] BY <1>4
<1>6. \A n \in Nat : Compact[n] = (n % 2) + 2 * Compact[n \div 8]
  <2> SUFFICES ASSUME NEW n \in Nat PROVE Compact[n] = (n % 2) + 2 * Compact[n \div 8] OBVIOUS
  <2>1. CASE n # 0 BY <1>5, <2>1
  <2>2. CASE n = 0
    <3>1. Compact[0] = 0 /\ 0 % 2 = 0 /\ 0 \div 8 = 0 BY <1>5
    <3> QED BY <2>2, <3>1
  <2> QED BY <2>1, <2>2
<1> DEFINE P == {n \in Nat : Compact[n] \in Nat}
<1>7. ASSUME NEW n \in Nat, \A k \in 0..(n - 1) : k \in P PROVE n \in P
  <2>1. CASE n = 0
    <3>1. Compact[0] = 0 BY <1>5
    <3> QED BY <2>1, <3>1
  <2>2. CASE n # 0
    <3>1. n \div 8 \in 0..(n - 1) BY <2>2
    <3>2. Compact[n \div 8] \in Nat BY <1>7, <3>1
    <3>3. Compact[n] = (n % 2) + 2 * Compact[n \div 8] BY <1>6
    <3> QED BY <1>1, <3>2, <3>3
  <2> QED BY <2>1, <2>2
<1> HIDE DEF P
<1>8. \A n \in Nat : n \in P BY <1>7, BelowInduction
<1> QED BY <1>6, <1>8 DEF P

\* Three bits in front of m, and what is left of them a place or two further on.
Digits(m, a, b, c, r) ==
  /\ m \in Nat /\ m % 2 = a /\ m \div 8 = r
  /\ m \div 2 \in Nat /\ (m \div 2) % 2 = b /\ (m \div 2) \div 8 = r \div 2
  /\ m \div 4 \in Nat /\ (m \div 4) % 2 = c /\ (m \div 4) \div 8 = r \div 4

LEMMA Thirds ==
  ASSUME NEW a \in 0..1, NEW b \in 0..1, NEW c \in 0..1, NEW r \in Nat,
         NEW m, m = a + 2 * b + 4 * c + 8 * r
  PROVE  Digits(m, a, b, c, r)
<1>1. m \in Nat OBVIOUS
<1>2. m % 2 = a /\ m \div 8 = r OBVIOUS
<1>3. m \div 2 = b + 2 * c + 4 * r OBVIOUS
<1>4. m \div 4 = c + 2 * r OBVIOUS
<1>5. (m \div 2) % 2 = b BY <1>3
<1>6. (m \div 4) % 2 = c BY <1>4
<1>7. (m \div 2) \div 8 = r \div 2
  <2>1. r = 2 * (r \div 2) + (r % 2) /\ r % 2 \in 0..1 /\ r \div 2 \in Nat OBVIOUS
  <2> DEFINE q == r \div 2
             e == r % 2
  <2> HIDE DEF q, e
  <2>2. b + 2 * c + 4 * r = 8 * q + (b + 2 * c + 4 * e) BY <2>1 DEF q, e
  <2>3. b + 2 * c + 4 * e \in 0..7 /\ q \in Nat BY <2>1 DEF q, e
  <2>4. (b + 2 * c + 4 * r) \div 8 = q BY <2>2, <2>3
  <2> QED BY <1>3, <2>4 DEF q
<1>8. (m \div 4) \div 8 = r \div 4
  <2> DEFINE q == r \div 4
             e == r % 4
  <2>1. r = 4 * q + e /\ e \in 0..3 /\ q \in Nat OBVIOUS
  <2> HIDE DEF q, e
  <2>2. c + 2 * r = 8 * q + (c + 2 * e) /\ c + 2 * e \in 0..7 BY <2>1
  <2>3. (c + 2 * r) \div 8 = q BY <2>1, <2>2
  <2> QED BY <1>4, <2>3 DEF q
<1>9. m \div 2 \in Nat /\ m \div 4 \in Nat BY <1>1
<1> QED BY <1>1, <1>2, <1>5, <1>6, <1>7, <1>8, <1>9 DEF Digits

\* Three numbers of k bits, spread and joined, come apart again.
LEMMA Joining ==
  ASSUME NEW k \in Nat,
         NEW x \in 0..(Pow2[k] - 1), NEW y \in 0..(Pow2[k] - 1), NEW z \in 0..(Pow2[k] - 1),
         NEW m, m = Spread[k][x] + 2 * Spread[k][y] + 4 * Spread[k][z]
  PROVE  m \in Nat /\ Compact[m] = x /\ Compact[m \div 2] = y /\ Compact[m \div 4] = z
<1>1. Spread = SpreadRule(Spread)
  <2>1. \E f : f = SpreadRule(f) BY Spreading
  <2> QED BY <2>1, Zenon DEF Spread, SpreadRule
<1>2. \A n \in Nat : Spread[n] \in [Int -> Nat] BY <1>1, Spreading
<1>3. \A n \in Nat : Spread[n] = [v \in Int |-> IF n = 0 THEN 0 ELSE (v % 2) + 8 * Spread[n - 1][v \div 2]]
  BY <1>1 DEF SpreadRule
<1> DEFINE Joined(n, u, v, w) == Spread[n][u] + 2 * Spread[n][v] + 4 * Spread[n][w]
           Apart(n, u, v, w) ==
             LET j == Joined(n, u, v, w)
             IN j \in Nat /\ Compact[j] = u /\ Compact[j \div 2] = v /\ Compact[j \div 4] = w
           P == {n \in Nat : \A u, v, w \in 0..(Pow2[n] - 1) : Apart(n, u, v, w)}
<1>4. 0 \in P
  <2> SUFFICES ASSUME NEW u \in 0..(Pow2[0] - 1), NEW v \in 0..(Pow2[0] - 1),
                      NEW w \in 0..(Pow2[0] - 1)
               PROVE  Apart(0, u, v, w)
    OBVIOUS
  <2>1. u = 0 /\ v = 0 /\ w = 0 BY Powers
  <2>2. Spread[0][0] = 0
    <3>1. Spread[0] = [h \in Int |-> IF 0 = 0 THEN 0 ELSE (h % 2) + 8 * Spread[0 - 1][h \div 2]]
      BY <1>3, Zenon
    <3> QED BY <3>1
  <2>3. Joined(0, u, v, w) = 0 BY <2>1, <2>2
  <2>4. Compact[0] = 0
    <3>1. 0 \in Nat /\ Compact[0] \in Nat /\ Compact[0] = (0 % 2) + 2 * Compact[0 \div 8]
      BY Compacting
    <3> QED BY <3>1
  <2>5. 0 \div 2 = 0 /\ 0 \div 4 = 0 OBVIOUS
  <2> HIDE DEF Joined
  <2> QED BY <2>1, <2>3, <2>4, <2>5
<1>5. ASSUME NEW n \in Nat, n \in P PROVE n + 1 \in P
  <2> SUFFICES ASSUME NEW u \in 0..(Pow2[n + 1] - 1), NEW v \in 0..(Pow2[n + 1] - 1),
                      NEW w \in 0..(Pow2[n + 1] - 1)
               PROVE  Apart(n + 1, u, v, w)
    OBVIOUS
  <2>1. ASSUME NEW t \in 0..(Pow2[n + 1] - 1)
        PROVE  /\ t \div 2 \in 0..(Pow2[n] - 1) /\ t % 2 \in 0..1
               /\ t = (t % 2) + 2 * (t \div 2)
               /\ Spread[n][t \div 2] \in Nat
               /\ Spread[n + 1][t] = (t % 2) + 8 * Spread[n][t \div 2]
    <3>1. Pow2[n] \in Nat /\ Pow2[n + 1] = 2 * Pow2[n] BY Powers
    <3>2. /\ t \div 2 \in 0..(Pow2[n] - 1) /\ t % 2 \in 0..1
          /\ t = (t % 2) + 2 * (t \div 2)
      BY <3>1
    <3>3. n + 1 \in Nat /\ n + 1 # 0 /\ (n + 1) - 1 = n /\ t \in Int BY <3>1
    <3>4. Spread[n + 1][t] = (t % 2) + 8 * Spread[n][t \div 2]
      <4> DEFINE f == Spread[n]
                 g == Spread[n + 1]
      <4>1. g = [h \in Int |-> IF n + 1 = 0 THEN 0 ELSE (h % 2) + 8 * Spread[(n + 1) - 1][h \div 2]]
        BY <1>3, <3>3
      <4>2. Spread[(n + 1) - 1] = f BY <3>3
      <4> HIDE DEF f, g
      <4>3. g = [h \in Int |-> (h % 2) + 8 * f[h \div 2]] BY <3>3, <4>1, <4>2
      <4>4. g[t] = (t % 2) + 8 * f[t \div 2] BY <3>3, <4>3
      <4> QED BY <4>4 DEF f, g
    <3>5. t \div 2 \in Int BY <3>3
    <3> QED BY <1>2, <3>2, <3>4, <3>5
  <2> DEFINE a == u % 2
             b == v % 2
             c == w % 2
             r == Joined(n, u \div 2, v \div 2, w \div 2)
             j == Joined(n + 1, u, v, w)
  <2>2. a \in 0..1 /\ b \in 0..1 /\ c \in 0..1 BY <2>1
  <2>3. /\ r \in Nat /\ Compact[r] = u \div 2 /\ Compact[r \div 2] = v \div 2
        /\ Compact[r \div 4] = w \div 2
    BY <1>5, <2>1
  <2>4. j = a + 2 * b + 4 * c + 8 * r
    <3>1. /\ Spread[n + 1][u] = a + 8 * Spread[n][u \div 2]
          /\ Spread[n + 1][v] = b + 8 * Spread[n][v \div 2]
          /\ Spread[n + 1][w] = c + 8 * Spread[n][w \div 2]
          /\ Spread[n][u \div 2] \in Nat /\ Spread[n][v \div 2] \in Nat
          /\ Spread[n][w \div 2] \in Nat
      BY <2>1
    <3> DEFINE su == Spread[n][u \div 2]
               sv == Spread[n][v \div 2]
               sw == Spread[n][w \div 2]
    <3>2. r = su + 2 * sv + 4 * sw OBVIOUS
    <3>3. j = (a + 8 * su) + 2 * (b + 8 * sv) + 4 * (c + 8 * sw) BY <3>1
    <3> HIDE DEF su, sv, sw, r, j, a, b, c
    <3> QED BY <2>2, <3>1, <3>2, <3>3 DEF su, sv, sw
  <2>5. u = a + 2 * (u \div 2) /\ v = b + 2 * (v \div 2) /\ w = c + 2 * (w \div 2)
    BY <2>1
  <2> HIDE DEF r, j, a, b, c
  <2>6. /\ j \in Nat /\ j % 2 = a /\ j \div 8 = r
        /\ j \div 2 \in Nat /\ (j \div 2) % 2 = b /\ (j \div 2) \div 8 = r \div 2
        /\ j \div 4 \in Nat /\ (j \div 4) % 2 = c /\ (j \div 4) \div 8 = r \div 4
    <3>1. Digits(j, a, b, c, r) BY <2>2, <2>3, <2>4, Thirds
    <3> QED BY <3>1 DEF Digits
  <2>7. /\ Compact[j] = (j % 2) + 2 * Compact[j \div 8]
        /\ Compact[j \div 2] = ((j \div 2) % 2) + 2 * Compact[(j \div 2) \div 8]
        /\ Compact[j \div 4] = ((j \div 4) % 2) + 2 * Compact[(j \div 4) \div 8]
    BY <2>6, Compacting
  <2>8. Compact[j] = u /\ Compact[j \div 2] = v /\ Compact[j \div 4] = w
    BY <2>3, <2>5, <2>6, <2>7
  <2> QED BY <2>6, <2>8 DEF j
<1> HIDE DEF P
<1>6. \A n \in Nat : n \in P BY <1>4, <1>5, SimpleInduction
<1> QED BY <1>6 DEF P

\* A cell whose coordinates fit the bits of a code.
Codable(c) == \A a \in 1..3 : c[a] \in 0..(Pow2[CoordBits] - 1)

\* It is got back from its code.
LEMMA CodesReturn == \A c \in Triples : Codable(c) => DecodeMorton(MortonCode(c)) = c
<1> SUFFICES ASSUME NEW c \in Triples, Codable(c) PROVE DecodeMorton(MortonCode(c)) = c
  OBVIOUS
<1>1. /\ c[1] \in 0..(Pow2[CoordBits] - 1) /\ c[2] \in 0..(Pow2[CoordBits] - 1)
      /\ c[3] \in 0..(Pow2[CoordBits] - 1)
  BY DEF Codable
<1>2. CoordBits \in Nat BY BlockAssumption
<1> DEFINE m == MortonCode(c)
<1>3. m = Spread[CoordBits][c[1]] + 2 * Spread[CoordBits][c[2]] + 4 * Spread[CoordBits][c[3]]
  BY DEF MortonCode, SplitBy3
<1> HIDE DEF m
<1>4. Compact[m] = c[1] /\ Compact[m \div 2] = c[2] /\ Compact[m \div 4] = c[3]
  <2> DEFINE k == CoordBits
             x == c[1]
             y == c[2]
             z == c[3]
  <2>1. /\ k \in Nat /\ x \in 0..(Pow2[k] - 1) /\ y \in 0..(Pow2[k] - 1) /\ z \in 0..(Pow2[k] - 1)
        /\ m = Spread[k][x] + 2 * Spread[k][y] + 4 * Spread[k][z]
    BY <1>1, <1>2, <1>3
  <2> HIDE DEF k, x, y, z
  <2>2. Compact[m] = x /\ Compact[m \div 2] = y /\ Compact[m \div 4] = z BY <2>1, Joining
  <2> QED BY <2>2 DEF x, y, z
<1>5. DecodeMorton(m) = <<c[1], c[2], c[3]>> BY <1>4 DEF DecodeMorton
<1>6. c = <<c[1], c[2], c[3]>> BY DEF Triples
<1> QED BY <1>5, <1>6 DEF m

\* In direct mode, too, each point is in one of the entries.
LEMMA EntriesLemma ==
  ASSUME NEW n \in Nat, NEW cs, cs \in [1..n -> Triples]
  PROVE  /\ Len(Entries(cs)) = n /\ DOMAIN Entries(cs) = 1..n
         /\ \A i \in 1..n : /\ Entries(cs)[i][1] \in Nat /\ Entries(cs)[i][2] \in 1..n
                            /\ Entries(cs)[i][1] = MortonCode(cs[Entries(cs)[i][2]])
         /\ Lists([i \in 1..n |-> Entries(cs)[i][2]], 1..n)
<1> DEFINE f == [i \in 1..n |-> <<MortonCode(cs[i]), i>>]
           S == {f[i] : i \in 1..n}
           key == [v \in S |-> v[2]]
           Less(u, v) == u[1] < v[1] \/ (u[1] = v[1] /\ u[2] < v[2])
           R == {p \in S \X S : Less(p[1], p[2])}
           es == Entries(cs)
           m == Cardinality(S)
<1>1. \A i \in 1..n : cs[i] \in Triples OBVIOUS
<1>2. \A i \in 1..n : f[i] \in Nat \X (1..n) /\ f[i][2] = i /\ f[i][1] = MortonCode(cs[i])
  BY <1>1, CodeLemma
<1>3. f = [i \in 1..n |-> f[i]] OBVIOUS
<1>4. {<<MortonCode(cs[i]), i>> : i \in DOMAIN cs} = S OBVIOUS
<1> HIDE DEF f
<1>5. f \in [1..n -> S] /\ \A x \in S : \E i \in 1..n : f[i] = x BY <1>3
<1>6. S \in SUBSET (Nat \X (1..n)) BY <1>2
<1>7. IsFiniteSet(S)
  <2>1. 1 \in Int /\ n \in Int OBVIOUS
  <2>2. IsFiniteSet(1..n) BY <2>1, FS_Interval
  <2> QED BY <1>3, <2>2, ImageLemma
<1>8. key \in [S -> 1..n] /\ (\A i \in 1..n : key[f[i]] = i) /\ \A v \in S : key[v] = v[2]
  <2>1. \A v \in S : v[2] \in 1..n BY <1>6
  <2>2. \A i \in 1..n : f[i] \in S BY <1>5
  <2> HIDE DEF S
  <2> QED BY <1>2, <2>1, <2>2
<1> HIDE DEF S, key
<1>9. \A x, y \in S : <<x, y>> \in R <=> Less(x, y) OBVIOUS
<1>10. \A x \in S : x[1] \in Nat /\ x[2] \in Nat /\ x = <<x[1], x[2]>> BY <1>6
<1>11. \A x, y \in S : x # y => Less(x, y) \/ Less(y, x)
  <2> SUFFICES ASSUME NEW x \in S, NEW y \in S, x # y PROVE Less(x, y) \/ Less(y, x) OBVIOUS
  <2>1. x[1] # y[1] \/ x[2] # y[2] BY <1>10
  <2>2. x[1] \in Nat /\ x[2] \in Nat /\ y[1] \in Nat /\ y[2] \in Nat BY <1>10
  <2> QED BY <2>1, <2>2
<1>12. \A x, y, z \in S : Less(x, y) /\ Less(y, z) => Less(x, z)
  <2> SUFFICES ASSUME NEW x \in S, NEW y \in S, NEW z \in S, Less(x, y), Less(y, z)
               PROVE  Less(x, z)
    OBVIOUS
  <2>1. /\ x[1] \in Nat /\ x[2] \in Nat /\ y[1] \in Nat /\ y[2] \in Nat
        /\ z[1] \in Nat /\ z[2] \in Nat
    BY <1>10
  <2> QED BY <2>1
<1>13. PICK s \in [1..m -> S] : \A i, k \in 1..m : i < k => <<s[i], s[k]>> \in R
  <2>1. /\ \A x, y \in S : x # y => <<x, y>> \in R \/ <<y, x>> \in R
        /\ \A x, y, z \in S : <<x, y>> \in R /\ <<y, z>> \in R => <<x, z>> \in R
    <3> HIDE DEF Less, R
    <3> QED BY <1>9, <1>11, <1>12
  <2> HIDE DEF R
  <2> QED BY <1>7, <2>1, Sorting
<1>14. \A i, k \in DOMAIN s : i < k => Less(s[i], s[k])
  <2>1. DOMAIN s = 1..m OBVIOUS
  <2> HIDE DEF Less, R
  <2> QED BY <1>9, <1>13, <2>1
<1>15. /\ es \in [1..m -> S]
       /\ \A i, k \in DOMAIN es : i < k => Less(es[i], es[k])
  <2> DEFINE InOrder(u) == \A i, k \in DOMAIN u : i < k => Less(u[i], u[k])
  <2>1. es = CHOOSE u \in [1..m -> S] : InOrder(u) BY <1>4 DEF Entries, Sorted
  <2>2. s \in [1..m -> S] /\ InOrder(s) BY <1>13, <1>14
  <2> HIDE DEF es, InOrder
  <2>3. es \in [1..m -> S] /\ InOrder(es) BY <2>1, <2>2
  <2> QED BY <2>3 DEF InOrder
<1> HIDE DEF es
<1>16. \A i, k \in 1..m : i # k => es[i] # es[k]
  <2> SUFFICES ASSUME NEW i \in 1..m, NEW k \in 1..m, i # k PROVE es[i] # es[k] OBVIOUS
  <2>1. Less(es[i], es[k]) \/ Less(es[k], es[i])
    <3>1. m \in Nat BY <1>7, FS_CardinalityType
    <3> HIDE DEF m, Less
    <3>2. i < k \/ k < i BY <3>1
    <3> QED BY <1>15, <3>2
  <2>2. ~Less(es[i], es[i])
    <3>1. es[i] \in S BY <1>15
    <3>2. es[i][1] \in Nat /\ es[i][2] \in Nat BY <1>10, <3>1
    <3> QED BY <3>2
  <2> HIDE DEF Less
  <2> QED BY <2>1, <2>2
<1> DEFINE t == [i \in 1..n |-> es[i][2]]
<1>17. es \in Seq(S) /\ Len(es) = n
  <2> DEFINE w == [i \in 1..n |-> key[es[i]]]
  <2>1. w = [i \in 1..n |-> w[i]] /\ \A i \in 1..n : w[i] = key[es[i]] OBVIOUS
  <2> HIDE DEF w
  <2>2. Keyed(n, S, f, key, es, w) BY <1>5, <1>8, <1>15, <1>16, <2>1 DEF Keyed
  <2> QED BY <2>2, KeysListed
<1>18. DOMAIN es = 1..n /\ \A i \in 1..n : es[i] \in S BY <1>17
<1>19. Lists(t, 1..n)
  <2>1. t = [i \in 1..n |-> t[i]] /\ \A i \in 1..n : t[i] = es[i][2] OBVIOUS
  <2> HIDE DEF t
  <2>2. \A i \in 1..n : t[i] = key[es[i]] BY <1>8, <1>18, <2>1
  <2>3. Keyed(n, S, f, key, es, t) BY <1>5, <1>8, <1>15, <1>16, <2>1, <2>2 DEF Keyed
  <2> QED BY <2>3, KeysListed
<1>20. \A i \in 1..n : es[i][1] \in Nat BY <1>10, <1>18
<1>21. ASSUME NEW i \in 1..n PROVE es[i][2] \in 1..n /\ es[i][1] = MortonCode(cs[es[i][2]])
  <2>1. PICK k \in 1..n : es[i] = f[k] BY <1>5, <1>18
  <2>2. es[i][2] = k /\ es[i][1] = MortonCode(cs[k]) BY <1>2, <2>1
  <2> QED BY <2>2
<1> QED BY <1>17, <1>18, <1>19, <1>20, <1>21 DEF es, t

\* In direct mode cells come out in the order of the entries, if they and their codes
\* fit.
LEMMA DirectReturns ==
  ASSUME NEW n \in Nat, NEW cs \in [1..n -> Triples],
         \A i \in 1..n : Codable(cs[i]) /\ MortonCode(cs[i]) < WordSize,
         NEW es, es = Entries(cs),
         NEW out, out = Sums(PatchDecode(PatchEncode(Deltas([i \in DOMAIN es |-> es[i][1]]))))
  PROVE  [i \in DOMAIN out |-> DecodeMorton(out[i])] = [i \in 1..n |-> cs[es[i][2]]]
<1> DEFINE codes == [i \in DOMAIN es |-> es[i][1]]
<1>1. /\ DOMAIN es = 1..n
      /\ \A i \in 1..n : /\ es[i][1] \in Nat /\ es[i][2] \in 1..n
                         /\ es[i][1] = MortonCode(cs[es[i][2]])
  BY EntriesLemma
<1>2. WordSize \in Nat BY BlockAssumption
<1>3. \A i \in 1..n : es[i][1] \in 0..(WordSize - 1)
  <2> SUFFICES ASSUME NEW i \in 1..n PROVE es[i][1] \in 0..(WordSize - 1) OBVIOUS
  <2> DEFINE x == es[i][1]
  <2>1. x \in Nat /\ x < WordSize BY <1>1
  <2> HIDE DEF x
  <2>2. x \in 0..(WordSize - 1) BY <1>2, <2>1
  <2> QED BY <2>2 DEF x
<1>4. codes = [i \in 1..n |-> es[i][1]] BY <1>1
<1>5. codes \in [1..n -> 0..(WordSize - 1)] BY <1>3, <1>4
<1>6. out = Sums(PatchDecode(PatchEncode(Deltas(codes)))) OBVIOUS
<1> HIDE DEF codes
<1>7. Deltas(codes) \in [1..n -> 0..(WordSize - 1)] /\ Sums(Deltas(codes)) = codes
  BY <1>5, SumsOfDeltas
<1>8. Deltas(codes) \in [1..n -> Nat] BY <1>2, <1>7
<1>9. PatchDecode(PatchEncode(Deltas(codes))) = Deltas(codes) BY <1>8, PatchesReturn
<1>10. out = codes BY <1>6, <1>7, <1>9
<1>11. \A i \in 1..n : DecodeMorton(codes[i]) = cs[es[i][2]]
  <2> SUFFICES ASSUME NEW i \in 1..n PROVE DecodeMorton(codes[i]) = cs[es[i][2]] OBVIOUS
  <2> DEFINE k == es[i][2]
  <2>1. k \in 1..n /\ codes[i] = MortonCode(cs[k]) BY <1>1, <1>4
  <2> HIDE DEF k
  <2>2. cs[k] \in Triples /\ Codable(cs[k]) BY <2>1
  <2>3. DecodeMorton(codes[i]) = cs[k] BY <2>1, <2>2, CodesReturn
  <2> QED BY <2>3 DEF k
<1>12. DOMAIN out = 1..n BY <1>4, <1>10
<1> QED BY <1>10, <1>11, <1>12

-----------------------------------------------------------------------------
(* Blocks *)

\* A number of two digits is below the product of their bases.
LEMMA TwoDigits ==
  ASSUME NEW d \in Nat \ {0}, NEW e \in Nat \ {0}, NEW u \in 0..(d - 1), NEW q \in 0..(e - 1)
  PROVE  /\ d * e \in Nat \ {0} /\ d * q + u \in 0..(d * e - 1)
         /\ (d * q + u) \div d = q /\ (d * q + u) % d = u
<1>1. d * q \in Int /\ d * q >= 0 /\ d * e \in Int /\ d * (e - 1 - q) >= 0 BY Products
<1>2. d * (e - 1 - q) = d * e - d - d * q OBVIOUS
<1> DEFINE x == d * q
           y == d * e
<1>3. x \in Int /\ x >= 0 /\ y \in Int /\ y - d - x >= 0 BY <1>1, <1>2
<1>4. x + u \in Int /\ x + u = d * q + u BY <1>3
<1>5. q \in Int OBVIOUS
<1>6. (d * q + u) \div d = q /\ (d * q + u) % d = u BY <1>4, <1>5, DivisionUnique
<1> HIDE DEF x, y
<1>7. y \in Nat \ {0} /\ x + u \in 0..(y - 1) BY <1>3
<1> QED BY <1>4, <1>6, <1>7 DEF x, y

\* The number of a pair of blocks, and its place along each axis.
Numbers(id, A, B, C, x, y, z) ==
  /\ id \in 0..(A * B * C - 1) /\ A * B * C \in Nat
  /\ id % A = x /\ (id \div A) % B = y /\ (id \div A) \div B = z

LEMMA BlockNumber ==
  ASSUME NEW A \in Nat \ {0}, NEW B \in Nat \ {0}, NEW C \in Nat \ {0},
         NEW x \in 0..(A - 1), NEW y \in 0..(B - 1), NEW z \in 0..(C - 1),
         NEW u, u = y * A, NEW w, w = z * A * B
  PROVE  Numbers(x + u + w, A, B, C, x, y, z)
<1> DEFINE q == B * z + y
           id == x + u + w
<1>1. /\ B * C \in Nat \ {0} /\ q \in 0..(B * C - 1)
      /\ q \div B = z /\ q % B = y
  BY TwoDigits
<1>2. id = A * q + x
  <2>1. A * (B * z + y) = A * (B * z) + A * y /\ A * (B * z) = z * A * B /\ A * y = y * A
    OBVIOUS
  <2>2. A * (B * z) \in Int /\ A * y \in Int
    <3>1. B * z \in Int BY Products
    <3> QED BY <3>1, Products
  <2> QED BY <2>1, <2>2
<1> DEFINE D == B * C
<1>3. D \in Nat \ {0} /\ q \in 0..(D - 1) BY <1>1
<1>4. A * D = A * B * C OBVIOUS
<1> HIDE DEF q, D, id
<1>5. /\ A * D \in Nat \ {0} /\ A * q + x \in 0..(A * D - 1)
      /\ (A * q + x) \div A = q /\ (A * q + x) % A = x
  BY <1>3, TwoDigits
<1> QED BY <1>1, <1>2, <1>4, <1>5 DEF Numbers, id

\* A coordinate that is an int, and not negative, in terms of its place.
LEMMA Coordinate ==
  ASSUME NEW x \in Nat, 2 * x < IntSize, NEW g \in Nat, x <= g
  PROVE  LET b == x \div Edge
             h == b \div 2
         IN /\ Word(x) = x /\ IntOf(Word(x)) = x
            /\ x % Edge \in 0..(Edge - 1) /\ b % 2 \in 0..1
            /\ h \in Nat /\ h < g \div (2 * Edge) + 1 /\ g \div (2 * Edge) + 1 \in Nat \ {0}
            /\ x = h * 2 * Edge + (b % 2) * Edge + (x % Edge)
<1> DEFINE b == x \div Edge
           h == b \div 2
           r == x % Edge
           t == b % 2
           G == 2 * Edge
<1>1. Edge \in Nat \ {0} /\ IntSize \in Nat \ {0} /\ WordSize \in Nat \ {0}
  BY BlockAssumption
<1>2. b \in Int /\ r \in 0..(Edge - 1) /\ x = Edge * b + r BY <1>1, ModuloLemma
<1>3. 0 <= x /\ 0 \in Nat OBVIOUS
<1>4. b \in Nat BY <1>1, <1>3, DivMonotone
<1> HIDE DEF b, r
<1>5. h \in Nat /\ t \in 0..1 /\ b = 2 * h + t BY <1>4
<1> HIDE DEF h, t
<1>6. x = h * 2 * Edge + t * Edge + r
  <2>1. Edge * (2 * h + t) = h * 2 * Edge + t * Edge BY <1>1, <1>5
  <2> QED BY <1>2, <1>5, <2>1
<1>7. G \in Nat \ {0} BY <1>1
<1>8. h * 2 * Edge = G * h /\ G * h \in Nat /\ t * Edge \in Nat
  <2>1. G * h \in Int /\ G * h >= 0 BY <1>5, <1>7, Products
  <2>2. t * Edge \in Int /\ t * Edge >= 0 BY <1>1, <1>5, Products
  <2>3. h * 2 * Edge = G * h BY <1>1, <1>5
  <2> QED BY <2>1, <2>2, <2>3
<1>9. h <= g \div G /\ g \div G \in Nat
  <2>1. G * h <= g
    <3> DEFINE u == G * h
               w == t * Edge
    <3>1. x = u + w + r /\ u \in Nat /\ w \in Nat BY <1>6, <1>8
    <3> HIDE DEF u, w
    <3>2. u <= g BY <1>1, <1>2, <3>1
    <3> QED BY <3>2 DEF u
  <2>2. (G * h) \div G = h
    <3>1. G * h \in Int /\ G * h = G * h + 0 /\ h \in Int /\ 0 \in 0..(G - 1)
      BY <1>5, <1>7, <1>8
    <3> QED BY <1>7, <3>1, DivisionUnique
  <2> HIDE DEF G
  <2> QED BY <1>7, <1>8, <2>1, <2>2, DivMonotone
<1>10. WordSize = IntSize * (WordSize \div IntSize) /\ IntSize <= WordSize
  <2> DEFINE q == WordSize \div IntSize
  <2>1. WordSize \in Int BY <1>1
  <2>2. q \in Int /\ WordSize = IntSize * q + (WordSize % IntSize) BY <1>1, <2>1, ModuloLemma
  <2>3. WordSize % IntSize = 0 BY BlockAssumption
  <2> HIDE DEF q
  <2>4. IntSize * q \in Int BY <1>1, <2>2, Products
  <2>5. WordSize = IntSize * q BY <2>2, <2>3, <2>4
  <2>6. q >= 1
    <3> SUFFICES ASSUME ~(q >= 1) PROVE FALSE OBVIOUS
    <3>1. -q \in Int /\ -q >= 0 BY <2>2
    <3>2. IntSize * (-q) >= 0 /\ IntSize * (-q) = -(IntSize * q) BY <1>1, <2>2, <3>1, Products
    <3> QED BY <1>1, <2>4, <2>5, <3>2
  <2>7. IntSize * (q - 1) >= 0 /\ IntSize * (q - 1) = IntSize * q - IntSize
    <3>1. q - 1 \in Int /\ q - 1 >= 0 BY <2>2, <2>6
    <3>2. IntSize * (q - 1) >= 0 BY <1>1, <3>1, Products
    <3>3. IntSize * (q - 1) = IntSize * q - IntSize BY <1>1, <2>2
    <3> QED BY <3>2, <3>3
  <2>8. IntSize <= WordSize BY <1>1, <2>4, <2>5, <2>7
  <2> QED BY <2>5, <2>8 DEF q
<1>11. Word(x) = x
  <2>1. x \in 0..(WordSize - 1) BY <1>1, <1>10
  <2> QED BY <2>1, WordDifference
<1>12. IntOf(x) = x
  <2>1. x \in 0..(IntSize - 1) /\ x = IntSize * 0 + x /\ x \in Int /\ 0 \in Int BY <1>1
  <2>2. x % IntSize = x BY <1>1, <2>1, DivisionUnique
  <2> QED BY <2>2 DEF IntOf
<1>13. h < g \div G + 1 /\ g \div G + 1 \in Nat \ {0}
  <2> DEFINE d == g \div G
  <2> HIDE DEF d
  <2>1. h <= d /\ d \in Nat BY <1>9 DEF d
  <2>2. h < d + 1 /\ d + 1 \in Nat \ {0} BY <1>5, <2>1
  <2> QED BY <2>2 DEF d
<1> QED BY <1>2, <1>5, <1>6, <1>11, <1>12, <1>13 DEF b, h, r, t

LEMMA CurveReturns == \A p \in Local : FromCurve(Along[p]) = p /\ Along[p] \in 0..(WordSize - 1)
<1> SUFFICES ASSUME NEW p \in Local
             PROVE  FromCurve(Along[p]) = p /\ Along[p] \in 0..(WordSize - 1)
  OBVIOUS
<1>1. \A r, q \in Local : Along[r] = Along[q] => r = q BY BlockAssumption
<1>2. FromCurve(Along[p]) = CHOOSE q \in Local : Along[q] = Along[p] BY DEF FromCurve
<1> HIDE DEF FromCurve
<1>3. FromCurve(Along[p]) \in Local /\ Along[FromCurve(Along[p])] = Along[p] BY <1>2
<1> QED BY <1>1, <1>3, BlockAssumption

\* A cell on a grid that reaches as far: its coordinates are ints that are not
\* negative, and the numbers of blocks are words.
OnGrid(c, grid) ==
  /\ grid \in [1..3 -> Nat]
  /\ \A a \in 1..3 : c[a] \in 0..grid[a] /\ 2 * c[a] < IntSize
  /\ Across(grid, 1) * Across(grid, 2) * Across(grid, 3) <= WordSize

\* The blocks along three axes that reach up to w have numbers that are words.
BlocksFit(w) ==
  LET across == w \div (2 * Edge) + 1 IN across * across * across <= WordSize

LEMMA BlocksBelow ==
  ASSUME NEW w \in Nat, BlocksFit(w), NEW grid, \A a \in 1..3 : grid[a] \in 0..w
  PROVE  Across(grid, 1) * Across(grid, 2) * Across(grid, 3) <= WordSize
<1> DEFINE A == w \div (2 * Edge) + 1
           x == Across(grid, 1)
           y == Across(grid, 2)
           z == Across(grid, 3)
<1>1. WordSize \in Nat /\ Edge \in Nat \ {0} BY BlockAssumption
<1>2. 2 * Edge \in Nat \ {0} BY <1>1
<1>3. ASSUME NEW v \in 0..w
      PROVE  /\ v \div (2 * Edge) \in Nat /\ w \div (2 * Edge) \in Nat
             /\ v \div (2 * Edge) <= w \div (2 * Edge)
  <2> DEFINE e == 2 * Edge
  <2>1. e \in Nat \ {0} BY <1>2
  <2>2. v \in Nat /\ w \in Nat /\ v <= w OBVIOUS
  <2> HIDE DEF e
  <2>3. v \div e \in Nat /\ w \div e \in Nat /\ v \div e <= w \div e BY <2>1, <2>2, DivMonotone
  <2> QED BY <2>3 DEF e
<1>4. w \in 0..w OBVIOUS
<1>5. w \div (2 * Edge) \in Nat BY <1>3, <1>4
<1>6. \A a \in 1..3 : Across(grid, a) = grid[a] \div (2 * Edge) + 1 BY DEF Across
<1>7. \A a \in 1..3 : grid[a] \div (2 * Edge) \in Nat /\ grid[a] \div (2 * Edge) <= w \div (2 * Edge)
  BY <1>3
<1>8. A \in Nat /\ x \in 0..A /\ y \in 0..A /\ z \in 0..A BY <1>5, <1>6, <1>7
<1>9. A * A * A <= WordSize BY DEF BlocksFit
<1> HIDE DEF A, x, y, z
<1>10. x * y * z <= A * A * A BY <1>8, CubeProduct
<1>11. x * y * z \in Int /\ A * A * A \in Int
  <2>1. A \in Int /\ x \in Int /\ y \in Int /\ z \in Int BY <1>8
  <2>2. x * y \in Int /\ A * A \in Int BY <2>1, Products
  <2> QED BY <2>1, <2>2, Products
<1>12. x * y * z <= WordSize BY <1>1, <1>9, <1>10, <1>11
<1> QED BY <1>12 DEF x, y, z

\* The cell of a node, as recover_from_lcp_meta computes it.
CellAt(grid, id, quad, re) ==
  LET corner == Corner(grid, id)
      p == FromCurve(re)
  IN <<IntOf(Word(corner[1] + (quad % 2) * Edge + p[1])),
       IntOf(Word(corner[2] + ((quad \div 2) % 2) * Edge + p[2])),
       IntOf(Word(corner[3] + ((quad \div 4) % 2) * Edge + p[3]))>>

LEMMA Octants ==
  \A x, y, z \in 0..1 : LET q == x + 2 * y + 4 * z
                        IN /\ q \in 0..7 /\ q % 2 = x /\ (q \div 2) % 2 = y
                           /\ (q \div 4) % 2 = z
OBVIOUS

\* A node on the grid fits its words and has the cell.
LEMMA NodesReturn ==
  ASSUME NEW c \in Triples, NEW grid, OnGrid(c, grid), NEW i
  PROVE  LET v == NodeOf(grid, c, i)
         IN /\ v.id \in 0..(WordSize - 1) /\ v.quad \in 0..7 /\ v.re \in 0..(WordSize - 1)
            /\ CellAt(grid, v.id, v.quad, v.re) = c
<1> DEFINE b == [a \in 1..3 |-> c[a] \div Edge]
           h == [a \in 1..3 |-> b[a] \div 2]
           t == [a \in 1..3 |-> b[a] % 2]
           r == [a \in 1..3 |-> c[a] % Edge]
           A == [a \in 1..3 |-> Across(grid, a)]
           v == NodeOf(grid, c, i)
           l == <<r[1], r[2], r[3]>>
<1>0. 1 \in 1..3 /\ 2 \in 1..3 /\ 3 \in 1..3 OBVIOUS
<1>1. ASSUME NEW a \in 1..3
      PROVE  /\ c[a] \in Nat /\ Word(c[a]) = c[a] /\ IntOf(Word(c[a])) = c[a]
             /\ r[a] \in 0..(Edge - 1) /\ t[a] \in 0..1
             /\ A[a] \in Nat \ {0} /\ h[a] \in 0..(A[a] - 1)
             /\ c[a] = h[a] * 2 * Edge + t[a] * Edge + r[a]
  <2> DEFINE x == c[a]
             g == grid[a]
  <2>1. x \in Nat /\ g \in Nat /\ x <= g /\ 2 * x < IntSize BY DEF OnGrid
  <2>2. A[a] = g \div (2 * Edge) + 1 BY DEF Across
  <2>3. b[a] = x \div Edge /\ h[a] = b[a] \div 2 /\ t[a] = b[a] % 2 /\ r[a] = x % Edge OBVIOUS
  <2> HIDE DEF x, g, b, h, t, r, A
  <2>4. /\ Word(x) = x /\ IntOf(Word(x)) = x
        /\ r[a] \in 0..(Edge - 1) /\ t[a] \in 0..1
        /\ h[a] \in Nat /\ h[a] < A[a] /\ A[a] \in Nat \ {0}
        /\ x = h[a] * 2 * Edge + t[a] * Edge + r[a]
    BY <2>1, <2>2, <2>3, Coordinate
  <2>5. h[a] \in 0..(A[a] - 1) BY <2>4
  <2> QED BY <2>1, <2>4, <2>5 DEF x
<1>2. \A a \in 1..3 : Part(c, a) = b[a] BY <1>1 DEF Part
<1>3. \A a \in 1..3 : LocalOf(c)[a] = r[a] BY <1>1 DEF LocalOf
<1>4. v = [id |-> Word(h[1] + h[2] * A[1] + h[3] * A[1] * A[2]),
           quad |-> t[1] + 2 * t[2] + 4 * t[3], re |-> Along[l], ord |-> i]
  BY <1>0, <1>2, <1>3 DEF NodeOf
<1> HIDE DEF v, A, h, t, r, b
<1> DEFINE id == h[1] + h[2] * A[1] + h[3] * A[1] * A[2]
<1>5. /\ id \in 0..(A[1] * A[2] * A[3] - 1) /\ A[1] * A[2] * A[3] \in Nat
      /\ id % A[1] = h[1] /\ (id \div A[1]) % A[2] = h[2] /\ (id \div A[1]) \div A[2] = h[3]
  <2>1. /\ A[1] \in Nat \ {0} /\ A[2] \in Nat \ {0} /\ A[3] \in Nat \ {0}
        /\ h[1] \in 0..(A[1] - 1) /\ h[2] \in 0..(A[2] - 1) /\ h[3] \in 0..(A[3] - 1)
    BY <1>0, <1>1
  <2> DEFINE u == h[2] * A[1]
             w == h[3] * A[1] * A[2]
  <2>2. id = h[1] + u + w OBVIOUS
  <2> HIDE DEF id
  <2>3. u = h[2] * A[1] /\ w = h[3] * A[1] * A[2] OBVIOUS
  <2> HIDE DEF u, w
  <2>4. Numbers(h[1] + u + w, A[1], A[2], A[3], h[1], h[2], h[3]) BY <2>1, <2>3, BlockNumber
  <2> QED BY <2>2, <2>4 DEF Numbers
<1>6. A[1] * A[2] * A[3] <= WordSize BY <1>0 DEF OnGrid, A
<1> HIDE DEF id
<1>7. id \in 0..(WordSize - 1)
  <2> DEFINE N == A[1] * A[2] * A[3]
  <2>1. id \in 0..(N - 1) /\ N \in Nat /\ N <= WordSize /\ WordSize \in Nat
    BY <1>5, <1>6, BlockAssumption
  <2> HIDE DEF N
  <2> QED BY <2>1
<1>8. v.id = id /\ v.quad = t[1] + 2 * t[2] + 4 * t[3] /\ v.re = Along[l]
  <2>1. Word(id) = id BY <1>7, WordDifference
  <2> QED BY <1>4, <2>1 DEF id
<1>9. l \in Local BY <1>0, <1>1 DEF Local
<1>10. FromCurve(v.re) = l /\ v.re \in 0..(WordSize - 1) BY <1>8, <1>9, CurveReturns
<1>11. /\ v.quad \in 0..7 /\ v.quad % 2 = t[1] /\ (v.quad \div 2) % 2 = t[2]
       /\ (v.quad \div 4) % 2 = t[3]
  <2>1. t[1] \in 0..1 /\ t[2] \in 0..1 /\ t[3] \in 0..1 BY <1>0, <1>1
  <2> QED BY <1>8, <2>1, Octants
<1>12. Corner(grid, v.id) = <<h[1] * 2 * Edge, h[2] * 2 * Edge, h[3] * 2 * Edge>>
  <2>1. A[1] = Across(grid, 1) /\ A[2] = Across(grid, 2) BY <1>0 DEF A
  <2> QED BY <1>5, <1>8, <2>1 DEF Corner
<1>13. l[1] = r[1] /\ l[2] = r[2] /\ l[3] = r[3] OBVIOUS
<1> HIDE DEF l
<1>14. CellAt(grid, v.id, v.quad, v.re) = <<IntOf(Word(c[1])), IntOf(Word(c[2])), IntOf(Word(c[3]))>>
  <2>1. /\ c[1] = h[1] * 2 * Edge + t[1] * Edge + r[1]
        /\ c[2] = h[2] * 2 * Edge + t[2] * Edge + r[2]
        /\ c[3] = h[3] * 2 * Edge + t[3] * Edge + r[3]
    BY <1>0, <1>1
  <2> QED BY <1>10, <1>11, <1>12, <1>13, <2>1 DEF CellAt
<1>15. CellAt(grid, v.id, v.quad, v.re) = c
  <2>1. c = <<c[1], c[2], c[3]>> BY DEF Triples
  <2>2. IntOf(Word(c[1])) = c[1] /\ IntOf(Word(c[2])) = c[2] /\ IntOf(Word(c[3])) = c[3]
    BY <1>0, <1>1
  <2> QED BY <1>14, <2>1, <2>2
<1> QED BY <1>7, <1>8, <1>10, <1>11, <1>15 DEF v

\* The node of any cell fits its words, and stands for some cell of ints.
LEMMA NodeAnywhere ==
  ASSUME NEW c \in Triples, NEW grid \in [1..3 -> Nat], NEW i
  PROVE  LET v == NodeOf(grid, c, i)
         IN /\ v.id \in 0..(WordSize - 1) /\ v.quad \in 0..7 /\ v.re \in 0..(WordSize - 1)
            /\ CellAt(grid, v.id, v.quad, v.re) \in Triples
<1> DEFINE v == NodeOf(grid, c, i)
           A == [a \in 1..3 |-> Across(grid, a)]
           b == [a \in 1..3 |-> Part(c, a)]
           l == <<LocalOf(c)[1], LocalOf(c)[2], LocalOf(c)[3]>>
<1>0. 1 \in 1..3 /\ 2 \in 1..3 /\ 3 \in 1..3 OBVIOUS
<1>1. WordSize \in Nat \ {0} /\ Edge \in Nat \ {0} /\ IntSize \in Nat \ {0} BY BlockAssumption
<1>2. \A a \in 1..3 : A[a] \in Nat \ {0}
  <2> SUFFICES ASSUME NEW a \in 1..3 PROVE grid[a] \div (2 * Edge) + 1 \in Nat \ {0}
    BY DEF Across
  <2> DEFINE g == grid[a]
             e == 2 * Edge
  <2>1. g \in Nat /\ e \in Nat \ {0} BY <1>1
  <2> HIDE DEF g, e
  <2>2. 0 \div e = 0
    <3>1. 0 = e * 0 + 0 /\ 0 \in 0..(e - 1) /\ 0 \in Int BY <2>1
    <3> QED BY <2>1, <3>1, DivisionUnique
  <2>3. 0 \div e <= g \div e /\ g \div e \in Nat
    <3>1. 0 \in Nat /\ 0 <= g BY <2>1
    <3> QED BY <2>1, <3>1, DivMonotone
  <2>4. g \div e + 1 \in Nat \ {0} BY <2>2, <2>3
  <2> QED BY <2>4 DEF g, e
<1>3. \A a \in 1..3 : b[a] \in Int /\ b[a] \div 2 \in Int /\ b[a] % 2 \in 0..1
  <2>1. \A a \in 1..3 : c[a] \in Int BY DEF Triples
  <2>2. \A a \in 1..3 : b[a] \in Int BY <2>1, Words DEF Part
  <2>3. \A n \in Int : n \div 2 \in Int /\ n % 2 \in 0..1 OBVIOUS
  <2> HIDE DEF b
  <2> QED BY <2>2, <2>3
<1>4. l \in Local
  <2>1. \A a \in 1..3 : LocalOf(c)[a] = Word(c[a]) % Edge /\ c[a] \in Int
    BY DEF LocalOf, Triples
  <2>2. \A a \in 1..3 : LocalOf(c)[a] \in 0..(Edge - 1) BY <2>1, Words
  <2> QED BY <1>0, <2>2 DEF Local
<1>5. v = [id |-> Word((b[1] \div 2) + (b[2] \div 2) * A[1] + (b[3] \div 2) * A[1] * A[2]),
           quad |-> (b[1] % 2) + 2 * (b[2] % 2) + 4 * (b[3] % 2),
           re |-> Along[l], ord |-> i]
  BY <1>0 DEF NodeOf
<1>6. v.re = Along[l] /\ v.re \in 0..(WordSize - 1) /\ FromCurve(v.re) = l
  BY <1>4, <1>5, CurveReturns
<1>7. v.quad \in 0..7
  <2>1. b[1] % 2 \in 0..1 /\ b[2] % 2 \in 0..1 /\ b[3] % 2 \in 0..1 BY <1>0, <1>3
  <2> HIDE DEF b
  <2>2. v.quad = (b[1] % 2) + 2 * (b[2] % 2) + 4 * (b[3] % 2) BY <1>5
  <2> QED BY <2>1, <2>2, Octants
<1>8. v.id \in 0..(WordSize - 1)
  <2>1. /\ b[1] \div 2 \in Int /\ b[2] \div 2 \in Int /\ b[3] \div 2 \in Int
        /\ A[1] \in Int /\ A[2] \in Int
    BY <1>0, <1>2, <1>3
  <2>2. v.id = Word((b[1] \div 2) + (b[2] \div 2) * A[1] + (b[3] \div 2) * A[1] * A[2]) BY <1>5
  <2> HIDE DEF b, A
  <2> DEFINE x == (b[1] \div 2) + (b[2] \div 2) * A[1] + (b[3] \div 2) * A[1] * A[2]
  <2>3. /\ (b[2] \div 2) * A[1] \in Int /\ (b[3] \div 2) * A[1] \in Int
        /\ (b[3] \div 2) * A[1] * A[2] \in Int
    BY <2>1, Products
  <2>4. x \in Int BY <2>1, <2>3
  <2> HIDE DEF x
  <2>5. Word(x) \in 0..(WordSize - 1) BY <1>1, <2>4, ModuloLemma DEF Word
  <2> QED BY <2>2, <2>5 DEF x
<1> HIDE DEF v
<1>9. \A x \in Int : IntOf(Word(x)) \in Int
  <2> SUFFICES ASSUME NEW x \in Int PROVE IntOf(Word(x)) \in Int OBVIOUS
  <2>1. Word(x) \in Int BY Words
  <2>2. Word(x) % IntSize \in Int BY <1>1, <2>1, ModuloLemma
  <2> DEFINE m == Word(x) % IntSize
  <2>3. IntOf(Word(x)) = IF 2 * m < IntSize THEN m ELSE m - IntSize BY DEF IntOf
  <2>4. m \in Int BY <2>2
  <2> HIDE DEF m
  <2> QED BY <1>1, <2>3, <2>4
<1> DEFINE k == Corner(grid, v.id)
<1>10. k[1] \in Int /\ k[2] \in Int /\ k[3] \in Int
  <2>1. /\ Across(grid, 1) \in Nat \ {0} /\ Across(grid, 2) \in Nat \ {0} BY <1>0, <1>2
  <2> DEFINE A1 == Across(grid, 1)
             A2 == Across(grid, 2)
             d == v.id
  <2>2. k = <<(d % A1) * 2 * Edge, ((d \div A1) % A2) * 2 * Edge, ((d \div A1) \div A2) * 2 * Edge>>
    BY DEF Corner
  <2>3. d \in Int BY <1>1, <1>8
  <2> HIDE DEF A1, A2, d, k
  <2>4. A1 \in Nat \ {0} /\ A2 \in Nat \ {0} BY <2>1 DEF A1, A2
  <2>5. d % A1 \in Int /\ d \div A1 \in Int BY <2>3, <2>4, ModuloLemma
  <2>6. (d \div A1) % A2 \in Int /\ (d \div A1) \div A2 \in Int
    <3> DEFINE h == d \div A1
    <3>1. h \in Int BY <2>5
    <3> HIDE DEF h
    <3>2. h % A2 \in Int /\ h \div A2 \in Int BY <2>4, <3>1, ModuloLemma
    <3> QED BY <3>2 DEF h
  <2>7. \A x \in Int : x * 2 * Edge \in Int
    <3> SUFFICES ASSUME NEW x \in Int PROVE x * 2 * Edge \in Int OBVIOUS
    <3>1. x * 2 \in Int /\ Edge \in Int BY <1>1
    <3> QED BY <3>1, Products
  <2> QED BY <2>2, <2>5, <2>6, <2>7
<1>11. CellAt(grid, v.id, v.quad, v.re) \in Triples
  <2> DEFINE q == v.quad
             x == k[1] + (q % 2) * Edge + l[1]
             y == k[2] + ((q \div 2) % 2) * Edge + l[2]
             z == k[3] + ((q \div 4) % 2) * Edge + l[3]
  <2>1. CellAt(grid, v.id, v.quad, v.re) = <<IntOf(Word(x)), IntOf(Word(y)), IntOf(Word(z))>>
    BY <1>6 DEF CellAt
  <2>2. /\ (q % 2) * Edge \in Int /\ ((q \div 2) % 2) * Edge \in Int
        /\ ((q \div 4) % 2) * Edge \in Int
    <3>1. q \in Int BY <1>7
    <3> HIDE DEF q
    <3>2. q % 2 \in Int /\ (q \div 2) % 2 \in Int /\ (q \div 4) % 2 \in Int BY <3>1
    <3>3. Edge \in Int BY <1>1
    <3> QED BY <3>2, <3>3, Products
  <2>3. l[1] \in Int /\ l[2] \in Int /\ l[3] \in Int
    <3> HIDE DEF l
    <3> QED BY <1>1, <1>4 DEF Local
  <2> HIDE DEF q, k, l
  <2>4. x \in Int /\ y \in Int /\ z \in Int BY <1>10, <2>2, <2>3
  <2> HIDE DEF x, y, z
  <2> QED BY <1>9, <2>1, <2>4 DEF Triples
<1> QED BY <1>6, <1>7, <1>8, <1>11 DEF v

\* What is known of the node of a cell, whatever the grid is.
LEMMA NodeLemma ==
  ASSUME NEW c \in Triples, NEW grid, NEW i
  PROVE  /\ NodeOf(grid, c, i).quad \in Nat /\ NodeOf(grid, c, i).re \in Nat
         /\ NodeOf(grid, c, i).ord = i
<1>1. \A a \in 1..3 : c[a] \in Int BY DEF Triples
<1>2. \A a \in 1..3 : Part(c, a) \in Int BY <1>1, Words DEF Part
<1>3. /\ Part(c, 1) % 2 \in 0..1 /\ Part(c, 2) % 2 \in 0..1 /\ Part(c, 3) % 2 \in 0..1
  <2>1. Part(c, 1) \in Int /\ Part(c, 2) \in Int /\ Part(c, 3) \in Int BY <1>2
  <2>2. \A n \in Int : n % 2 \in 0..1 OBVIOUS
  <2> QED BY <2>1, <2>2
<1>4. (Part(c, 1) % 2) + 2 * (Part(c, 2) % 2) + 4 * (Part(c, 3) % 2) \in Nat
  <2>1. \A x, y, z \in 0..1 : x + 2 * y + 4 * z \in Nat OBVIOUS
  <2> QED BY <1>3, <2>1
<1>5. <<LocalOf(c)[1], LocalOf(c)[2], LocalOf(c)[3]>> \in Local
  <2>1. \A a \in 1..3 : LocalOf(c)[a] \in 0..(Edge - 1)
    <3>1. \A a \in 1..3 : LocalOf(c)[a] = Word(c[a]) % Edge BY DEF LocalOf
    <3> QED BY <1>1, <3>1, Words
  <2>2. LocalOf(c)[1] \in 0..(Edge - 1) /\ LocalOf(c)[2] \in 0..(Edge - 1)
        /\ LocalOf(c)[3] \in 0..(Edge - 1)
    BY <2>1
  <2> QED BY <2>2 DEF Local
<1>6. Along[<<LocalOf(c)[1], LocalOf(c)[2], LocalOf(c)[3]>>] \in Nat BY <1>5, BlockAssumption
<1> QED BY <1>4, <1>6 DEF NodeOf

\* The nodes of cells, listed without repetition.
NodeSet(grid, cs) == {NodeOf(grid, cs[i], i) : i \in DOMAIN cs}
NodesOnce(ns, grid, cs) ==
  /\ ns \in [1..Cardinality(NodeSet(grid, cs)) -> NodeSet(grid, cs)]
  /\ \A i, k \in 1..Cardinality(NodeSet(grid, cs)) : i # k => ns[i] # ns[k]

\* n of them, with each cell in one.
Collected(ns, n, grid, cs) ==
  /\ Len(ns) = n /\ DOMAIN ns = 1..n
  /\ \A j \in 1..n : ns[j].quad \in Nat /\ ns[j].re \in Nat
  /\ ns \in Seq({ns[j] : j \in 1..n})
  /\ \A j \in 1..n : ns[j].ord \in 1..n /\ ns[j] = NodeOf(grid, cs[ns[j].ord], ns[j].ord)
  /\ Lists([j \in 1..n |-> ns[j].ord], 1..n)

LEMMA NodeList ==
  ASSUME NEW n \in Nat, NEW cs, cs \in [1..n -> Triples], NEW grid, NEW ns,
         NodesOnce(ns, grid, cs)
  PROVE  Collected(ns, n, grid, cs)
<1> DEFINE f == [i \in 1..n |-> NodeOf(grid, cs[i], i)]
           S == {f[i] : i \in 1..n}
           key == [v \in S |-> v.ord]
<1>1. \A i \in 1..n : f[i].quad \in Nat /\ f[i].re \in Nat /\ f[i].ord = i
  <2> SUFFICES ASSUME NEW i \in 1..n
               PROVE  /\ NodeOf(grid, cs[i], i).quad \in Nat /\ NodeOf(grid, cs[i], i).re \in Nat
                      /\ NodeOf(grid, cs[i], i).ord = i
    OBVIOUS
  <2>1. cs[i] \in Triples OBVIOUS
  <2> QED BY <2>1, NodeLemma
<1>2. NodeSet(grid, cs) = S BY DEF NodeSet
<1>3. f = [i \in 1..n |-> f[i]] OBVIOUS
<1> HIDE DEF f
<1>4. f \in [1..n -> S] /\ \A x \in S : \E i \in 1..n : f[i] = x BY <1>3
<1>5. key \in [S -> 1..n]
  <2>1. \A v \in S : v.ord \in 1..n BY <1>1
  <2> HIDE DEF S
  <2> QED BY <2>1
<1>6. \A i \in 1..n : key[f[i]] = i
  <2> HIDE DEF S
  <2> QED BY <1>1, <1>4
<1>7. /\ ns \in [1..Cardinality(S) -> S]
      /\ \A i, k \in 1..Cardinality(S) : i # k => ns[i] # ns[k]
  <2> HIDE DEF S
  <2> QED BY <1>2 DEF NodesOnce
<1> HIDE DEF key
<1>8. ns \in Seq(S) /\ Len(ns) = n
  <2> DEFINE t == [i \in 1..n |-> key[ns[i]]]
  <2>1. t = [i \in 1..n |-> t[i]] /\ \A i \in 1..n : t[i] = key[ns[i]] OBVIOUS
  <2> HIDE DEF S, t
  <2>2. Keyed(n, S, f, key, ns, t) BY <1>4, <1>5, <1>6, <1>7, <2>1 DEF Keyed
  <2> QED BY <2>2, KeysListed
<1>9. DOMAIN ns = 1..n /\ \A j \in 1..n : ns[j] \in S
  <2> HIDE DEF S
  <2>1. \A s \in Seq(S) : DOMAIN s = 1..Len(s) /\ \A j \in 1..Len(s) : s[j] \in S OBVIOUS
  <2> QED BY <1>8, <2>1
<1>10. \A j \in 1..n : ns[j].quad \in Nat /\ ns[j].re \in Nat BY <1>1, <1>9
<1>11. Lists([j \in 1..n |-> ns[j].ord], 1..n)
  <2> DEFINE t == [j \in 1..n |-> ns[j].ord]
  <2>1. \A v \in S : key[v] = v.ord BY DEF key
  <2>2. t = [j \in 1..n |-> t[j]] /\ \A j \in 1..n : t[j] = ns[j].ord OBVIOUS
  <2> HIDE DEF S, t
  <2>3. \A j \in 1..n : t[j] = key[ns[j]] BY <1>9, <2>1, <2>2
  <2>4. Keyed(n, S, f, key, ns, t) BY <1>4, <1>5, <1>6, <1>7, <2>2, <2>3 DEF Keyed
  <2>5. Lists(t, 1..n) BY <2>4, KeysListed
  <2> QED BY <2>5 DEF t
<1>12. ns \in Seq({ns[j] : j \in 1..n})
  <2> DEFINE D == {ns[j] : j \in 1..n}
  <2>1. ns \in [1..n -> S] BY <1>8
  <2>2. ns = [j \in 1..n |-> ns[j]] BY <2>1
  <2>3. \A j \in 1..n : ns[j] \in D OBVIOUS
  <2> HIDE DEF D
  <2>4. ns \in [1..n -> D] BY <2>2, <2>3
  <2>5. ns \in Seq(D) BY <2>4
  <2> QED BY <2>5 DEF D
<1>13. ASSUME NEW j \in 1..n
       PROVE  ns[j].ord \in 1..n /\ ns[j] = NodeOf(grid, cs[ns[j].ord], ns[j].ord)
  <2>1. PICK i \in 1..n : ns[j] = f[i] BY <1>4, <1>9
  <2>2. ns[j].ord = i BY <1>1, <2>1
  <2>3. f[i] = NodeOf(grid, cs[i], i) BY DEF f
  <2> QED BY <2>1, <2>2, <2>3
<1> QED BY <1>8, <1>9, <1>10, <1>11, <1>12, <1>13 DEF Collected

\* What a block chunk hands to PForDelta are numbers.
LEMMA StreamsLemma ==
  ASSUME NEW n \in Nat, NEW ns, DOMAIN ns = 1..n,
         \A j \in 1..n : ns[j].quad \in Nat /\ ns[j].re \in Nat
  PROVE  Quads(ns) \in [1..n -> Nat] /\ Repos(ns) \in [1..n -> Nat]
<1>1. ASSUME NEW j \in 1..n, SameBlock(ns, j)
      PROVE  /\ (ns[j].quad - ns[j - 1].quad) % 256 \in Nat
             /\ Word(ns[j].re - ns[j - 1].re) \in Nat
  <2>1. j > 1 BY <1>1 DEF SameBlock
  <2>2. j - 1 \in 1..n BY <2>1
  <2>3. /\ ns[j].quad \in Nat /\ ns[j].re \in Nat
        /\ ns[j - 1].quad \in Nat /\ ns[j - 1].re \in Nat
    BY <2>2
  <2>4. ns[j].quad - ns[j - 1].quad \in Int /\ ns[j].re - ns[j - 1].re \in Int BY <2>3
  <2>5. \A x \in Int : x % 256 \in Nat OBVIOUS
  <2> QED BY <2>4, <2>5, Words
<1>2. Quads(ns) \in [1..n -> Nat] BY <1>1 DEF Quads
<1>3. \A j \in 1..n : SameQuad(ns, j) => SameBlock(ns, j) BY DEF SameQuad
<1>4. Repos(ns) \in [1..n -> Nat] BY <1>1, <1>3 DEF Repos
<1> QED BY <1>2, <1>4

\* A table of blocks is not empty, and has a size for each block.
LEMMA TableOfBlocks ==
  ASSUME NEW n \in Nat, NEW ns, ns \in Seq({ns[j] : j \in DOMAIN ns}), Len(ns) = n
  PROVE  /\ Deltas(Blkst(ns)) # <<>> /\ Len(Deltas(Blkst(ns))) = Len(Deltas(Blkcnt(ns)))
<1> DEFINE S == {j \in DOMAIN ns : ~SameBlock(ns, j)}
           m == Cardinality(S)
<1>1. DOMAIN ns = 1..n OBVIOUS
<1>2. CASE ns = <<>>
  <2>1. Blkst(ns) = <<0>> /\ Blkcnt(ns) = <<0>> BY <1>2 DEF Blkst, Blkcnt
  <2>2. DOMAIN <<0>> = 1..1 OBVIOUS
  <2>3. Deltas(<<0>>) = [i \in 1..1 |-> IF i = 1 THEN <<0>>[1] ELSE Word(<<0>>[i] - <<0>>[i - 1])]
    BY <2>2 DEF Deltas
  <2>4. 1 \in DOMAIN Deltas(<<0>>) BY <2>3
  <2>5. DOMAIN <<>> = {} OBVIOUS
  <2> QED BY <2>1, <2>4, <2>5
<1>3. CASE ns # <<>>
  <2>1. n # 0 BY <1>3
  <2>2. S \in SUBSET Int /\ IsFiniteSet(S)
    <3>1. 1 \in Int /\ n \in Int OBVIOUS
    <3>2. IsFiniteSet(1..n) BY <3>1, FS_Interval
    <3>3. S \in SUBSET (1..n) BY <1>1
    <3> QED BY <3>2, <3>3, FS_Subset
  <2>3. 1 \in S BY <1>1, <2>1 DEF SameBlock
  <2> HIDE DEF S
  <2>4. m \in Nat /\ m # 0
    <3>1. m \in Nat BY <2>2, FS_CardinalityType
    <3>2. m # 0 BY <2>2, <2>3, FS_EmptySet
    <3> QED BY <3>1, <3>2
  <2>5. \E s \in [1..m -> S] : \A i, j \in DOMAIN s : i < j => s[i] < s[j]
    <3>1. PICK s \in [1..m -> S] : \A i, k \in 1..m : i < k => s[i] < s[k]
      BY <2>2, Ascending
    <3>2. DOMAIN s = 1..m OBVIOUS
    <3> QED BY <3>1, <3>2
  <2>6. Sorted(S, <) \in [1..m -> S] BY <2>5 DEF Sorted
  <2>7. Starts(ns) = Sorted(S, <) BY DEF Starts, S
  <2>8. DOMAIN Starts(ns) = 1..m BY <2>6, <2>7
  <2>9. /\ Blkst(ns) = [i \in 1..m |-> ns[Starts(ns)[i]].id]
        /\ Blkcnt(ns) = [i \in 1..m |-> (Append(Starts(ns), Len(ns) + 1))[i + 1] - Starts(ns)[i]]
    BY <1>3, <2>8 DEF Blkst, Blkcnt
  <2>10. \A s : DOMAIN s = 1..m => DOMAIN Deltas(s) = 1..m /\ Len(Deltas(s)) = m
    <3> SUFFICES ASSUME NEW s, DOMAIN s = 1..m
                 PROVE  DOMAIN Deltas(s) = 1..m /\ Len(Deltas(s)) = m
      OBVIOUS
    <3>1. DOMAIN Deltas(s) = 1..m BY DEF Deltas
    <3> HIDE DEF m
    <3>2. Deltas(s) = [i \in 1..m |-> IF i = 1 THEN s[1] ELSE Word(s[i] - s[i - 1])]
      BY DEF Deltas
    <3>3. Len(Deltas(s)) = m BY <2>4, <3>2
    <3> QED BY <3>1, <3>3
  <2>11. DOMAIN Blkst(ns) = 1..m /\ DOMAIN Blkcnt(ns) = 1..m BY <2>9
  <2>12. 1 \in DOMAIN Deltas(Blkst(ns))
    <3> HIDE DEF m
    <3> QED BY <2>4, <2>10, <2>11
  <2>13. DOMAIN <<>> = {} OBVIOUS
  <2> QED BY <2>10, <2>11, <2>12, <2>13
<1> QED BY <1>2, <1>3

\* n nodes whose parts fit, with the quadrants of a block in ascending order.
Walkable(ns, n) ==
  /\ ns \in Seq({ns[j] : j \in 1..n}) /\ Len(ns) = n
  /\ \A j \in 1..n : /\ ns[j].id \in 0..(WordSize - 1) /\ ns[j].quad \in 0..7
                     /\ ns[j].re \in 0..(WordSize - 1)
  /\ \A j \in 2..n : SameBlock(ns, j) => ns[j - 1].quad <= ns[j].quad

\* The walk of the decoder finds quadrants and codes, if it knows where blocks begin.
LEMMA WalkReturns ==
  ASSUME NEW n \in Nat, NEW ns, Walkable(ns, n),
         NEW cnt, \A j \in 1..n : FirstIn(cnt, j) <=> ~SameBlock(ns, j)
  PROVE  Walk(cnt, Quads(ns), Repos(ns)) = [j \in 1..n |-> [quad |-> ns[j].quad, re |-> ns[j].re]]
<1> DEFINE qs == Quads(ns)
           rs == Repos(ns)
           none == [quad |-> 0, re |-> 0]
           Step(j, prev) == [quad |-> Word(qs[j] + prev.quad),
                             re |-> Word(rs[j] + (IF qs[j] # 0 THEN 0 ELSE prev.re))]
           Rule(f) == [j \in 1..n |-> Step(j, IF FirstIn(cnt, j) THEN none ELSE f[j - 1])]
           g == [j \in 1..n |-> [quad |-> ns[j].quad, re |-> ns[j].re]]
<1>1. DOMAIN ns = 1..n BY DEF Walkable
<1>2. \A j \in 1..n : /\ ns[j].quad \in 0..7 /\ ns[j].re \in 0..(WordSize - 1)
  BY DEF Walkable
<1>3. WordSize \in Nat /\ WordSize >= 256 BY BlockAssumption
<1>4. /\ qs = [j \in 1..n |-> IF SameBlock(ns, j) THEN (ns[j].quad - ns[j - 1].quad) % 256
                              ELSE ns[j].quad]
      /\ rs = [j \in 1..n |-> IF SameQuad(ns, j) THEN Word(ns[j].re - ns[j - 1].re)
                              ELSE ns[j].re]
  BY <1>1 DEF Quads, Repos
<1> HIDE DEF qs, rs
<1>5. ASSUME NEW j \in 1..n PROVE g[j] = Step(j, IF FirstIn(cnt, j) THEN none ELSE g[j - 1])
  <2>1. g[j] = [quad |-> ns[j].quad, re |-> ns[j].re] OBVIOUS
  <2>2. CASE ~SameBlock(ns, j)
    <3>1. qs[j] = ns[j].quad /\ rs[j] = ns[j].re BY <1>4, <2>2 DEF SameQuad
    <3>2. ns[j].quad \in 0..(WordSize - 1) /\ ns[j].re \in 0..(WordSize - 1) BY <1>2, <1>3
    <3>3. /\ Word(ns[j].quad) = ns[j].quad /\ Word(ns[j].re) = ns[j].re
          /\ ns[j].quad + 0 = ns[j].quad /\ ns[j].re + 0 = ns[j].re
      BY <1>2, <1>3, <3>2, WordDifference
    <3>4. Step(j, none) = [quad |-> ns[j].quad, re |-> ns[j].re]
      <4>1. none.quad = 0 /\ none.re = 0 OBVIOUS
      <4>2. (IF qs[j] # 0 THEN 0 ELSE none.re) = 0 BY <4>1
      <4> HIDE DEF none
      <4> QED BY <3>1, <3>3, <4>1, <4>2
    <3> HIDE DEF Step, none, g
    <3> QED BY <2>1, <2>2, <3>4
  <2>3. CASE SameBlock(ns, j)
    <3>1. j - 1 \in 1..n /\ j \in 2..n BY <2>3 DEF SameBlock
    <3> DEFINE q == ns[j].quad
               p == ns[j - 1].quad
               r == ns[j].re
               o == ns[j - 1].re
    <3>2. q \in 0..7 /\ p \in 0..7 /\ p <= q BY <1>2, <2>3, <3>1 DEF Walkable
    <3>3. r \in 0..(WordSize - 1) /\ o \in 0..(WordSize - 1) BY <1>2, <3>1
    <3>4. g[j - 1] = [quad |-> p, re |-> o] BY <3>1
    <3>5. qs[j] = (q - p) % 256 BY <1>4, <2>3
    <3>6. SameQuad(ns, j) <=> q = p BY <2>3 DEF SameQuad
    <3>7. rs[j] = IF q = p THEN Word(r - o) ELSE r BY <1>4, <3>6
    <3> HIDE DEF q, p, r, o
    <3>8. qs[j] = q - p BY <3>2, <3>5
    <3>9. Word(qs[j] + p) = q
      <4>1. qs[j] + p = q BY <3>2, <3>8
      <4>2. q \in 0..(WordSize - 1) BY <1>3, <3>2
      <4> QED BY <4>1, <4>2, WordDifference
    <3>10. Word(rs[j] + (IF qs[j] # 0 THEN 0 ELSE o)) = r
      <4>1. CASE q = p
        <5>1. qs[j] = 0 BY <3>2, <3>8, <4>1
        <5>2. Word(Word(r - o) + o) = r BY <3>3, WordDifference
        <5> QED BY <3>7, <4>1, <5>1, <5>2
      <4>2. CASE q # p
        <5>1. qs[j] # 0 BY <3>2, <3>8, <4>2
        <5>2. Word(r) = r BY <3>3, WordDifference
        <5>3. r + 0 = r BY <1>3, <3>3
        <5> QED BY <3>7, <4>2, <5>1, <5>2, <5>3
      <4> QED BY <4>1, <4>2
    <3>11. Step(j, g[j - 1]) = [quad |-> q, re |-> r]
      <4>1. g[j - 1].quad = p /\ g[j - 1].re = o BY <3>4
      <4> HIDE DEF g
      <4> QED BY <3>9, <3>10, <4>1
    <3>12. g[j] = [quad |-> q, re |-> r] BY <2>1 DEF q, r
    <3> HIDE DEF Step, g
    <3> QED BY <2>3, <3>11, <3>12
  <2> QED BY <2>2, <2>3
<1> HIDE DEF Step
<1>6. g = Rule(g)
  <2>1. g = [j \in 1..n |-> g[j]] OBVIOUS
  <2> HIDE DEF g
  <2> QED BY <1>5, <2>1
<1> DEFINE w == Walk(cnt, qs, rs)
<1>7. DOMAIN rs = 1..n BY <1>4
<1>8. w = CHOOSE f : f = Rule(f) BY <1>7, Zenon DEF Walk, Step, none
<1>9. w = Rule(w)
  <2> HIDE DEF w, Rule, g
  <2> QED BY <1>6, <1>8
<1> HIDE DEF w, g, none
<1>10. w = [j \in 1..n |-> w[j]] /\ \A j \in 1..n : w[j] = Step(j, IF FirstIn(cnt, j) THEN none ELSE w[j - 1])
  BY <1>9
<1>11. g = [j \in 1..n |-> g[j]] BY <1>6
<1> DEFINE P == {j \in 1..n : w[j] = g[j]}
<1>12. n >= 1 => 1 \in P
  <2> SUFFICES ASSUME n >= 1 PROVE w[1] = g[1] OBVIOUS
  <2>1. 1 \in 1..n OBVIOUS
  <2>2. FirstIn(cnt, 1) BY <2>1 DEF SameBlock
  <2>3. w[1] = Step(1, none) /\ g[1] = Step(1, none) BY <1>5, <1>10, <2>1, <2>2
  <2> QED BY <2>3
<1>13. ASSUME NEW j \in 2..n, j - 1 \in P PROVE j \in P
  <2>1. j \in 1..n OBVIOUS
  <2>2. w[j - 1] = g[j - 1] BY <1>13
  <2>3. w[j] = g[j] BY <1>5, <1>10, <2>1, <2>2
  <2> QED BY <2>1, <2>3
<1> HIDE DEF P
<1>14. \A j \in 1..n : j \in P BY <1>12, <1>13, Onward
<1>15. \A j \in 1..n : w[j] = g[j] BY <1>14 DEF P
<1>16. w = g BY <1>10, <1>11, <1>15
<1> QED BY <1>16 DEF w, g, qs, rs

\* The table of blocks says where they begin and which they are.
LEMMA TableReturns ==
  ASSUME NEW n \in Nat \ {0}, n < WordSize, NEW ns, Walkable(ns, n)
  PROVE  /\ Sums(Deltas(Blkst(ns))) = Blkst(ns) /\ Sums(Deltas(Blkcnt(ns))) = Blkcnt(ns)
         /\ \A j \in 1..n : /\ FirstIn(Blkcnt(ns), j) <=> ~SameBlock(ns, j)
                            /\ Blkst(ns)[BlockOf(Blkcnt(ns), j)] = ns[j].id
<1> DEFINE S == {j \in 1..n : ~SameBlock(ns, j)}
           m == Cardinality(S)
           st == Starts(ns)
           T == [i \in 1..m |-> IF i = m THEN n ELSE st[i + 1] - 1]
           cnt == Blkcnt(ns)
           blk == Blkst(ns)
<1>1. DOMAIN ns = 1..n /\ ns # <<>> /\ Len(ns) = n BY DEF Walkable
<1>2. st = Sorted(S, <) BY <1>1 DEF Starts
<1>3. S \in SUBSET (1..n) /\ S \in SUBSET Int /\ IsFiniteSet(S) /\ m \in Nat
  <2>1. 1 \in Int /\ n \in Int OBVIOUS
  <2>2. IsFiniteSet(1..n) BY <2>1, FS_Interval
  <2>3. IsFiniteSet(S) BY <2>2, FS_Subset
  <2> QED BY <2>3, FS_CardinalityType
<1>4. 1 \in S BY DEF SameBlock
<1>5. \A j \in 1..n : j \in S <=> ~SameBlock(ns, j) OBVIOUS
<1> HIDE DEF S, st, T, cnt, blk
<1>6. st \in [1..m -> S] /\ \A a, b \in 1..m : a < b => st[a] < st[b]
  <2>1. \E t \in [1..m -> S] : \A a, b \in DOMAIN t : a < b => t[a] < t[b]
    <3>1. PICK t \in [1..m -> S] : \A a, b \in 1..m : a < b => t[a] < t[b]
      BY <1>3, Ascending
    <3>2. DOMAIN t = 1..m OBVIOUS
    <3> QED BY <3>1, <3>2
  <2>2. st \in [1..m -> S] /\ \A a, b \in DOMAIN st : a < b => st[a] < st[b]
    BY <1>2, <2>1 DEF Sorted
  <2>3. DOMAIN st = 1..m BY <2>2
  <2> QED BY <2>2, <2>3
<1>7. \A x \in S : \E i \in 1..m : st[i] = x BY <1>3, <1>6, AscendingOnto
<1> HIDE DEF m
<1>8. \A i \in 1..m : st[i] \in 1..n /\ i \in Nat
  <2> SUFFICES ASSUME NEW i \in 1..m PROVE st[i] \in 1..n /\ i \in Nat OBVIOUS
  <2>1. st[i] \in S BY <1>6
  <2>2. S \subseteq 1..n BY <1>3
  <2>3. i \in Nat BY <1>3
  <2> QED BY <2>1, <2>2, <2>3
<1>9. m # 0 /\ 1 \in 1..m /\ st[1] = 1
  <2>1. PICK i \in 1..m : st[i] = 1 BY <1>4, <1>7
  <2>2. 1 \in 1..m /\ m # 0 BY <1>3, <2>1
  <2>3. st[1] \in Nat /\ st[1] >= 1 BY <1>8, <2>2
  <2>4. ~(1 < i) BY <1>6, <2>1, <2>2, <2>3
  <2>5. i = 1 BY <1>3, <2>1, <2>4
  <2> QED BY <2>1, <2>2, <2>5
<1>10. ASSUME NEW i \in 1..m
       PROVE  /\ T[i] \in st[i]..n /\ T[i] \in Nat /\ st[i] \in Nat
              /\ i # m => i + 1 \in 1..m /\ st[i] < st[i + 1] /\ T[i] = st[i + 1] - 1
              /\ i = m => T[i] = n
  <2>1. st[i] \in 1..n BY <1>8
  <2>2. CASE i = m
    <3>1. T[i] = n BY <2>2 DEF T
    <3> QED BY <2>1, <2>2, <3>1
  <2>3. CASE i # m
    <3>1. i + 1 \in 1..m /\ i < i + 1 BY <1>3, <2>3
    <3>2. st[i] < st[i + 1] /\ st[i + 1] \in 1..n BY <1>6, <1>8, <3>1
    <3>3. T[i] = st[i + 1] - 1 BY <2>3 DEF T
    <3> QED BY <2>1, <2>3, <3>1, <3>2, <3>3
  <2> QED BY <2>2, <2>3
<1>11. /\ blk = [i \in 1..m |-> ns[st[i]].id]
       /\ cnt = [i \in 1..m |-> T[i] + 1 - st[i]]
  <2>1. DOMAIN st = 1..m BY <1>6
  <2>2. blk = [i \in 1..m |-> ns[st[i]].id] BY <1>1, <2>1 DEF blk, Blkst, st
  <2>3. cnt = [i \in 1..m |-> (Append(st, n + 1))[i + 1] - st[i]]
    BY <1>1, <2>1 DEF cnt, Blkcnt, st
  <2>4. ASSUME NEW i \in 1..m PROVE (Append(st, n + 1))[i + 1] = T[i] + 1
    <3>1. st \in Seq(S) /\ Len(st) = m BY <1>3, <1>6
    <3>2. (Append(st, n + 1))[i + 1] = IF i + 1 = m + 1 THEN n + 1 ELSE st[i + 1]
      BY <1>3, <3>1
    <3>3. CASE i = m
      <4>1. T[i] = n BY <1>10, <3>3
      <4> QED BY <1>3, <3>2, <3>3, <4>1
    <3>4. CASE i # m
      <4> DEFINE x == st[i + 1]
      <4>1. T[i] = x - 1 /\ i + 1 \in 1..m BY <1>10, <3>4
      <4>2. x \in 1..n BY <1>8, <4>1
      <4>3. i + 1 # m + 1 BY <1>3, <3>4
      <4>4. (Append(st, n + 1))[i + 1] = x BY <3>2, <4>3
      <4> HIDE DEF x
      <4>5. x = T[i] + 1 BY <4>1, <4>2
      <4> QED BY <4>4, <4>5
    <3> QED BY <3>3, <3>4
  <2> DEFINE P == Append(st, n + 1)
  <2>5. cnt = [i \in 1..m |-> P[i + 1] - st[i]] BY <2>3
  <2>6. \A i \in 1..m : P[i + 1] = T[i] + 1 BY <2>4
  <2> HIDE DEF P
  <2> DEFINE L(i) == P[i + 1] - st[i]
             R(i) == T[i] + 1 - st[i]
  <2>7. ASSUME NEW i \in 1..m PROVE L(i) = R(i)
    <3>1. P[i + 1] = T[i] + 1 BY <2>6
    <3> DEFINE x == P[i + 1]
    <3>2. x = T[i] + 1 BY <3>1
    <3> HIDE DEF x
    <3>3. x - st[i] = T[i] + 1 - st[i] BY <1>10, <3>2
    <3> QED BY <3>3 DEF x
  <2>8. cnt = [i \in 1..m |-> L(i)] BY <2>5
  <2> HIDE DEF L, R
  <2>9. cnt = [i \in 1..m |-> R(i)] BY <2>7, <2>8
  <2> QED BY <2>2, <2>9 DEF R
<1>12. WordSize \in Nat BY BlockAssumption
<1>13. T \in [1..m -> 0..(WordSize - 1)]
  <2>1. \A i \in 1..m : T[i] \in 0..(WordSize - 1) BY <1>10, <1>12
  <2>2. T = [i \in 1..m |-> T[i]] BY DEF T
  <2> QED BY <2>1, <2>2
<1>14. ASSUME NEW i \in 1..m
       PROVE  /\ cnt[i] = T[i] + 1 - st[i] /\ cnt[i] \in 1..(WordSize - 1)
              /\ T[i] - cnt[i] = st[i] - 1
  <2>1. cnt[i] = T[i] + 1 - st[i] BY <1>11
  <2>2. T[i] \in st[i]..n /\ T[i] \in Nat /\ st[i] \in 1..n BY <1>8, <1>10
  <2> QED BY <1>12, <2>1, <2>2
<1>15. cnt = Deltas(T)
  <2>1. Deltas(T) = [i \in 1..m |-> IF i = 1 THEN T[1] ELSE Word(T[i] - T[i - 1])]
    BY <1>13 DEF Deltas
  <2>2. ASSUME NEW i \in 1..m PROVE cnt[i] = IF i = 1 THEN T[1] ELSE Word(T[i] - T[i - 1])
    <3>1. CASE i = 1
      <4>1. cnt[1] = T[1] + 1 - 1 /\ T[1] \in Nat BY <1>9, <1>10, <1>14
      <4> QED BY <3>1, <4>1
    <3>2. CASE i # 1
      <4>1. i - 1 \in 1..m /\ i - 1 # m /\ (i - 1) + 1 = i BY <1>3, <3>2
      <4>2. T[i - 1] = st[i] - 1 BY <1>10, <4>1
      <4>3. cnt[i] = T[i] - T[i - 1] BY <1>8, <1>10, <1>14, <4>2
      <4>4. cnt[i] \in 0..(WordSize - 1) BY <1>12, <1>14
      <4>5. Word(cnt[i]) = cnt[i] BY <4>4, WordDifference
      <4> QED BY <3>2, <4>3, <4>5
    <3> QED BY <3>1, <3>2
  <2>3. cnt = [i \in 1..m |-> cnt[i]] BY <1>11
  <2> QED BY <2>1, <2>2, <2>3
<1>16. Sums(cnt) = T BY <1>3, <1>13, <1>15, SumsOfDeltas
<1>17. Sums(Deltas(cnt)) = cnt
  <2>1. cnt \in [1..m -> 0..(WordSize - 1)]
    <3>1. \A i \in 1..m : cnt[i] \in 0..(WordSize - 1) BY <1>12, <1>14
    <3>2. cnt = [i \in 1..m |-> cnt[i]] BY <1>11
    <3> QED BY <3>1, <3>2
  <2> QED BY <1>3, <2>1, SumsOfDeltas
<1>18. Sums(Deltas(blk)) = blk
  <2>1. blk \in [1..m -> 0..(WordSize - 1)]
    <3>1. \A i \in 1..m : ns[st[i]].id \in 0..(WordSize - 1) BY <1>8 DEF Walkable
    <3> QED BY <1>11, <3>1
  <2> QED BY <1>3, <2>1, SumsOfDeltas
<1>19. DOMAIN cnt = 1..m BY <1>11
<1>20. ASSUME NEW j \in 1..n PROVE FirstIn(cnt, j) <=> ~SameBlock(ns, j)
  <2>1. FirstIn(cnt, j) <=> \E i \in 1..m : j = T[i] - cnt[i] + 1 /\ cnt[i] > 0
    BY <1>16, <1>19 DEF FirstIn
  <2>2. \A i \in 1..m : T[i] - cnt[i] + 1 = st[i] /\ cnt[i] > 0
    <3> SUFFICES ASSUME NEW i \in 1..m PROVE T[i] - cnt[i] + 1 = st[i] /\ cnt[i] > 0 OBVIOUS
    <3> QED BY <1>8, <1>12, <1>14
  <2>3. FirstIn(cnt, j) <=> \E i \in 1..m : j = st[i] BY <2>1, <2>2
  <2>4. (\E i \in 1..m : j = st[i]) <=> j \in S BY <1>6, <1>7
  <2> QED BY <1>5, <2>3, <2>4
<1>21. ASSUME NEW j \in 1..n PROVE blk[BlockOf(cnt, j)] = ns[j].id
  <2> DEFINE Within(i) == j <= Sums(cnt)[i] /\ j > Sums(cnt)[i] - cnt[i]
             b == BlockOf(cnt, j)
  <2>1. \A i \in 1..m : Within(i) <=> j <= T[i] /\ st[i] <= j
    <3> SUFFICES ASSUME NEW i \in 1..m PROVE Within(i) <=> j <= T[i] /\ st[i] <= j OBVIOUS
    <3>1. T[i] - cnt[i] = st[i] - 1 /\ st[i] \in Nat BY <1>10, <1>14
    <3>2. j > st[i] - 1 <=> st[i] <= j BY <3>1
    <3> QED BY <1>16, <3>1, <3>2
  <2>2. b = CHOOSE i \in 1..m : Within(i) BY <1>19 DEF BlockOf
  <2>3. \E i \in 1..m : Within(i)
    <3> DEFINE K == {i \in 1..m : st[i] <= j}
    <3>1. 1 \in K BY <1>9
    <3>2. IsFiniteSet(K) /\ K \in SUBSET Int
      <4>1. 1 \in Int /\ m \in Int BY <1>3
      <4>2. IsFiniteSet(1..m) BY <4>1, FS_Interval
      <4>3. K \in SUBSET (1..m) OBVIOUS
      <4> QED BY <1>3, <4>2, <4>3, FS_Subset
    <3>3. PICK k \in K : \A i \in K : i <= k
      <4> HIDE DEF K
      <4> QED BY <3>1, <3>2, MaxLemma
    <3>4. k \in 1..m /\ st[k] <= j OBVIOUS
    <3>5. j <= T[k]
      <4>1. CASE k = m BY <1>10, <3>4, <4>1
      <4>2. CASE k # m
        <5>1. k + 1 \in 1..m /\ T[k] = st[k + 1] - 1 /\ st[k + 1] \in Nat
          BY <1>8, <1>10, <3>4, <4>2
        <5>2. ~(k + 1 <= k) BY <3>4
        <5>3. k + 1 \notin K BY <3>3, <5>2
        <5>4. ~(st[k + 1] <= j) BY <5>1, <5>3
        <5> QED BY <5>1, <5>4
      <4> QED BY <4>1, <4>2
    <3> HIDE DEF Within
    <3> QED BY <2>1, <3>4, <3>5
  <2> HIDE DEF b, Within
  <2>4. b \in 1..m /\ Within(b) BY <2>2, <2>3
  <2>5. st[b] <= j /\ j <= T[b] /\ st[b] \in 1..n BY <1>8, <2>1, <2>4
  <2> DEFINE P == {k \in Nat : st[b] + k <= T[b] => ns[st[b] + k].id = ns[st[b]].id}
  <2>6. 0 \in P
    <3>1. st[b] + 0 = st[b] BY <2>5
    <3> QED BY <3>1
  <2>7. ASSUME NEW k \in Nat, k \in P PROVE k + 1 \in P
    <3> SUFFICES ASSUME st[b] + (k + 1) <= T[b] PROVE ns[st[b] + (k + 1)].id = ns[st[b]].id
      OBVIOUS
    <3> DEFINE x == st[b] + (k + 1)
    <3>1. T[b] \in 1..n BY <1>10, <2>4, <2>5
    <3>2. x \in 1..n /\ x - 1 = st[b] + k /\ st[b] + k <= T[b] /\ st[b] < x /\ x <= T[b]
      BY <2>5, <3>1
    <3>3. x \notin S
      <4> SUFFICES ASSUME x \in S PROVE FALSE OBVIOUS
      <4>1. PICK i \in 1..m : st[i] = x BY <1>7
      <4>2. b \in Nat /\ i \in Nat BY <1>8, <2>4
      <4>3. b < i
        <5> SUFFICES ASSUME ~(b < i) PROVE FALSE OBVIOUS
        <5>1. i = b \/ i < b BY <4>2
        <5>2. st[i] <= st[b] BY <1>6, <1>8, <2>4, <5>1
        <5> HIDE DEF x
        <5> QED BY <2>5, <3>2, <4>1, <5>2
      <4>4. b # m /\ b + 1 \in 1..m /\ T[b] = st[b + 1] - 1 BY <1>3, <1>10, <2>4, <4>2, <4>3
      <4>5. b + 1 = i \/ b + 1 < i BY <4>2, <4>3
      <4>6. st[b + 1] <= st[i] /\ st[b + 1] \in Nat BY <1>6, <1>8, <4>4, <4>5
      <4> HIDE DEF x
      <4> QED BY <3>2, <4>1, <4>4, <4>6
    <3>4. SameBlock(ns, x) BY <1>5, <3>2, <3>3
    <3>5. ns[x].id = ns[x - 1].id BY <3>4 DEF SameBlock
    <3>6. ns[st[b] + k].id = ns[st[b]].id BY <2>7, <3>2
    <3> QED BY <3>2, <3>5, <3>6
  <2> HIDE DEF P
  <2>8. \A k \in Nat : k \in P BY <2>6, <2>7, SimpleInduction
  <2>9. j - st[b] \in Nat /\ st[b] + (j - st[b]) = j BY <2>5
  <2>10. ns[j].id = ns[st[b]].id
    <3>1. j - st[b] \in P BY <2>8, <2>9
    <3> QED BY <2>5, <2>9, <3>1 DEF P
  <2>11. blk[b] = ns[st[b]].id BY <1>11, <2>4
  <2> QED BY <2>10, <2>11 DEF b
<1> QED BY <1>17, <1>18, <1>20, <1>21 DEF cnt, blk

\* Cells on a grid, fewer than words.
FitsGrid(cs, n, grid) ==
  n < WordSize /\ cs \in [1..n -> Triples] /\ \A i \in 1..n : OnGrid(cs[i], grid)

\* The nodes of n cells, in an order of the blocks and the quadrants.
Arranged(ns, n, grid, cs) ==
  /\ ns \in Seq({ns[j] : j \in 1..n}) /\ Len(ns) = n
  /\ \A j \in 1..n : ns[j].ord \in 1..n /\ ns[j] = NodeOf(grid, cs[ns[j].ord], ns[j].ord)
  /\ \A j \in 2..n : SameBlock(ns, j) => ns[j - 1].quad <= ns[j].quad

\* The blocks give back what their nodes stand for, whether that fits or not.
LEMMA BlocksWalked ==
  ASSUME NEW n \in Nat, n < WordSize, NEW grid, NEW ns, Walkable(ns, n)
  PROVE  BlockCells(grid, Sums(Deltas(Blkst(ns))), Sums(Deltas(Blkcnt(ns))),
                    PatchDecode(PatchEncode(Quads(ns))), PatchDecode(PatchEncode(Repos(ns))))
           = [j \in 1..n |-> CellAt(grid, ns[j].id, ns[j].quad, ns[j].re)]
<1>1. \A j \in 1..n : ns[j].quad \in 0..7 /\ ns[j].re \in 0..(WordSize - 1) BY DEF Walkable
<1>2. DOMAIN ns = 1..n BY DEF Walkable
<1>3. /\ PatchDecode(PatchEncode(Quads(ns))) = Quads(ns)
      /\ PatchDecode(PatchEncode(Repos(ns))) = Repos(ns)
  <2>1. \A j \in 1..n : ns[j].quad \in Nat /\ ns[j].re \in Nat
    <3> SUFFICES ASSUME NEW j \in 1..n PROVE ns[j].quad \in Nat /\ ns[j].re \in Nat
      OBVIOUS
    <3>1. WordSize \in Nat BY BlockAssumption
    <3> DEFINE q == ns[j].quad
               e == ns[j].re
    <3>2. q \in 0..7 /\ e \in 0..(WordSize - 1) BY <1>1
    <3> HIDE DEF q, e
    <3>3. q \in Nat /\ e \in Nat BY <3>1, <3>2
    <3> QED BY <3>3 DEF q, e
  <2>2. Quads(ns) \in [1..n -> Nat] /\ Repos(ns) \in [1..n -> Nat]
    BY <1>2, <2>1, StreamsLemma
  <2> QED BY <2>2, PatchesReturn
<1> DEFINE blk == Sums(Deltas(Blkst(ns)))
           cnt == Sums(Deltas(Blkcnt(ns)))
           walk == Walk(cnt, Quads(ns), Repos(ns))
           out == BlockCells(grid, blk, cnt, Quads(ns), Repos(ns))
<1>4. DOMAIN Repos(ns) = 1..n BY <1>2 DEF Repos
<1>5. out = [j \in 1..n |-> CellAt(grid, blk[BlockOf(cnt, j)], walk[j].quad, walk[j].re)]
  BY <1>4 DEF BlockCells, CellAt
<1> HIDE DEF out, blk, cnt
<1>6. ASSUME NEW j \in 1..n
      PROVE  CellAt(grid, blk[BlockOf(cnt, j)], walk[j].quad, walk[j].re)
             = CellAt(grid, ns[j].id, ns[j].quad, ns[j].re)
  <2>1. n # 0 /\ n \in Nat \ {0} OBVIOUS
  <2>2. /\ blk = Blkst(ns) /\ cnt = Blkcnt(ns)
        /\ \A k \in 1..n : /\ FirstIn(Blkcnt(ns), k) <=> ~SameBlock(ns, k)
                           /\ Blkst(ns)[BlockOf(Blkcnt(ns), k)] = ns[k].id
    BY <2>1, TableReturns DEF blk, cnt
  <2>3. \A k \in 1..n : FirstIn(cnt, k) <=> ~SameBlock(ns, k) BY <2>2
  <2>4. walk = [k \in 1..n |-> [quad |-> ns[k].quad, re |-> ns[k].re]]
    BY <2>3, WalkReturns
  <2>5. walk[j].quad = ns[j].quad /\ walk[j].re = ns[j].re
    <3> HIDE DEF walk
    <3> QED BY <2>4
  <2>6. blk[BlockOf(cnt, j)] = ns[j].id BY <2>2
  <2> HIDE DEF walk
  <2> QED BY <2>5, <2>6
<1> HIDE DEF walk
<1>7. out = [j \in 1..n |-> CellAt(grid, ns[j].id, ns[j].quad, ns[j].re)] BY <1>5, <1>6
<1> QED BY <1>3, <1>7 DEF out, blk, cnt

\* Cells come out of the blocks in the order of the nodes.
LEMMA BlocksReturn ==
  ASSUME NEW n \in Nat, NEW grid, NEW cs, FitsGrid(cs, n, grid), NEW ns, Arranged(ns, n, grid, cs)
  PROVE  BlockCells(grid, Sums(Deltas(Blkst(ns))), Sums(Deltas(Blkcnt(ns))),
                    PatchDecode(PatchEncode(Quads(ns))), PatchDecode(PatchEncode(Repos(ns))))
           = [j \in 1..n |-> cs[ns[j].ord]]
<1>0. n < WordSize /\ cs \in [1..n -> Triples] /\ \A i \in 1..n : OnGrid(cs[i], grid)
  BY DEF FitsGrid
<1>1. ASSUME NEW j \in 1..n
      PROVE  /\ ns[j].id \in 0..(WordSize - 1) /\ ns[j].quad \in 0..7
             /\ ns[j].re \in 0..(WordSize - 1)
             /\ CellAt(grid, ns[j].id, ns[j].quad, ns[j].re) = cs[ns[j].ord]
  <2> DEFINE i == ns[j].ord
             v == NodeOf(grid, cs[i], i)
  <2>1. i \in 1..n /\ ns[j] = v BY DEF Arranged
  <2>2. cs[i] \in Triples /\ OnGrid(cs[i], grid) BY <1>0, <2>1
  <2>3. /\ v.id \in 0..(WordSize - 1) /\ v.quad \in 0..7 /\ v.re \in 0..(WordSize - 1)
        /\ CellAt(grid, v.id, v.quad, v.re) = cs[i]
    BY <2>2, NodesReturn
  <2> HIDE DEF v
  <2> QED BY <2>1, <2>3
<1>2. Walkable(ns, n) BY <1>1 DEF Walkable, Arranged
<1>3. BlockCells(grid, Sums(Deltas(Blkst(ns))), Sums(Deltas(Blkcnt(ns))),
                 PatchDecode(PatchEncode(Quads(ns))), PatchDecode(PatchEncode(Repos(ns))))
        = [j \in 1..n |-> CellAt(grid, ns[j].id, ns[j].quad, ns[j].re)]
  BY <1>0, <1>2, BlocksWalked
<1> QED BY <1>1, <1>3

\* There are as many nodes as cells.
LEMMA NodeSetFinite ==
  ASSUME NEW n \in Nat, NEW cs, cs \in [1..n -> Triples], NEW grid \in [1..3 -> Nat]
  PROVE  /\ IsFiniteSet(NodeSet(grid, cs))
         /\ \A u \in NodeSet(grid, cs) : /\ u.id \in Nat /\ u.quad \in Nat /\ u.re \in Nat
                                         /\ u.ord \in 1..n /\ u = NodeOf(grid, cs[u.ord], u.ord)
<1> DEFINE f == [i \in 1..n |-> NodeOf(grid, cs[i], i)]
<1>1. NodeSet(grid, cs) = {f[i] : i \in 1..n} BY DEF NodeSet
<1>2. f = [i \in 1..n |-> f[i]] /\ DOMAIN f = 1..n /\ \A i \in 1..n : f[i] = NodeOf(grid, cs[i], i)
  OBVIOUS
<1> HIDE DEF f
<1>3. IsFiniteSet({f[i] : i \in 1..n})
  <2>1. 1 \in Int /\ n \in Int OBVIOUS
  <2>2. IsFiniteSet(1..n) BY <2>1, FS_Interval
  <2> QED BY <1>2, <2>2, ImageLemma
<1>4. ASSUME NEW u \in NodeSet(grid, cs)
      PROVE  /\ u.id \in Nat /\ u.quad \in Nat /\ u.re \in Nat
             /\ u.ord \in 1..n /\ u = NodeOf(grid, cs[u.ord], u.ord)
  <2>1. PICK i \in 1..n : u = NodeOf(grid, cs[i], i) BY <1>1, <1>2
  <2>2. cs[i] \in Triples OBVIOUS
  <2>3. /\ NodeOf(grid, cs[i], i).quad \in Nat /\ NodeOf(grid, cs[i], i).re \in Nat
        /\ NodeOf(grid, cs[i], i).ord = i
    BY <2>2, NodeLemma
  <2>4. NodeOf(grid, cs[i], i).id \in 0..(WordSize - 1) BY <2>2, NodeAnywhere
  <2>5. NodeOf(grid, cs[i], i).id \in Nat
    <3> DEFINE x == NodeOf(grid, cs[i], i).id
    <3>1. x \in 0..(WordSize - 1) /\ WordSize \in Nat BY <2>4, BlockAssumption
    <3> HIDE DEF x
    <3>2. x \in Nat BY <3>1
    <3> QED BY <3>2 DEF x
  <2> QED BY <2>1, <2>3, <2>5
<1> QED BY <1>1, <1>3, <1>4

\* Nodes can be compared, and Before orders them.
Ranked(u) == u.id \in Int /\ u.quad \in Int /\ u.re \in Int /\ u.ord \in Int

LEMMA BeforeOrder ==
  /\ \A u : Ranked(u) => ~Before(u, u)
  /\ \A u, v : Ranked(u) /\ Ranked(v) /\ u.ord # v.ord => Before(u, v) \/ Before(v, u)
  /\ \A u, v, w : Ranked(u) /\ Ranked(v) /\ Ranked(w) /\ Before(u, v) /\ Before(v, w) => Before(u, w)
<1> DEFINE Lex(a1, a2, a3, a4, b1, b2, b3, b4) ==
             \/ a1 < b1
             \/ a1 = b1 /\ a2 < b2
             \/ a1 = b1 /\ a2 = b2 /\ a3 < b3
             \/ a1 = b1 /\ a2 = b2 /\ a3 = b3 /\ a4 < b4
<1>1. \A u, v : Before(u, v) <=> Lex(u.id, u.quad, u.re, u.ord, v.id, v.quad, v.re, v.ord)
  BY DEF Before
<1>2. \A a1, a2, a3, a4 \in Int : ~Lex(a1, a2, a3, a4, a1, a2, a3, a4) OBVIOUS
<1>3. \A a1, a2, a3, a4, b1, b2, b3, b4 \in Int :
        a4 # b4 => Lex(a1, a2, a3, a4, b1, b2, b3, b4) \/ Lex(b1, b2, b3, b4, a1, a2, a3, a4)
  OBVIOUS
<1>4. \A a1, a2, a3, a4, b1, b2, b3, b4, c1, c2, c3, c4 \in Int :
        Lex(a1, a2, a3, a4, b1, b2, b3, b4) /\ Lex(b1, b2, b3, b4, c1, c2, c3, c4)
        => Lex(a1, a2, a3, a4, c1, c2, c3, c4)
  OBVIOUS
<1> HIDE DEF Lex
<1>5. ASSUME NEW u, Ranked(u) PROVE ~Before(u, u) BY <1>1, <1>2, <1>5 DEF Ranked
<1>6. ASSUME NEW u, NEW v, Ranked(u), Ranked(v), u.ord # v.ord
      PROVE  Before(u, v) \/ Before(v, u)
  BY <1>1, <1>3, <1>6 DEF Ranked
<1>7. ASSUME NEW u, NEW v, NEW w, Ranked(u), Ranked(v), Ranked(w), Before(u, v), Before(v, w)
      PROVE  Before(u, w)
  BY <1>1, <1>4, <1>7 DEF Ranked
<1> QED BY <1>5, <1>6, <1>7

\* The nodes in their order: by block, then by quadrant.
LEMMA NodesSorted ==
  ASSUME NEW n \in Nat, NEW cs, cs \in [1..n -> Triples], NEW grid \in [1..3 -> Nat],
         NEW ns, ns = Nodes(grid, cs)
  PROVE  Collected(ns, n, grid, cs) /\ Arranged(ns, n, grid, cs)
<1> DEFINE S == NodeSet(grid, cs)
           m == Cardinality(S)
           R == {p \in S \X S : Before(p[1], p[2])}
           InOrder(u) == \A i, k \in DOMAIN u : i < k => Before(u[i], u[k])
<1>1. /\ IsFiniteSet(S)
      /\ \A u \in S : /\ u.id \in Nat /\ u.quad \in Nat /\ u.re \in Nat
                      /\ u.ord \in 1..n /\ u = NodeOf(grid, cs[u.ord], u.ord)
  BY NodeSetFinite
<1>2. ns = CHOOSE u \in [1..m -> S] : InOrder(u) BY DEF Nodes, Sorted, NodeSet
<1> HIDE DEF S
<1>3. \A u \in S : u.id \in Int /\ u.quad \in Int /\ u.re \in Int /\ u.ord \in Int BY <1>1
<1>4. \A u, v \in S : u # v => Before(u, v) \/ Before(v, u)
  <2> SUFFICES ASSUME NEW u \in S, NEW v \in S, u # v PROVE Before(u, v) \/ Before(v, u)
    OBVIOUS
  <2>1. u.ord # v.ord BY <1>1
  <2>2. Ranked(u) /\ Ranked(v) BY <1>3 DEF Ranked
  <2> QED BY <2>1, <2>2, BeforeOrder
<1>5. \A u, v, w \in S : Before(u, v) /\ Before(v, w) => Before(u, w)
  <2> SUFFICES ASSUME NEW u \in S, NEW v \in S, NEW w \in S, Before(u, v), Before(v, w)
               PROVE  Before(u, w)
    OBVIOUS
  <2>1. Ranked(u) /\ Ranked(v) /\ Ranked(w) BY <1>3 DEF Ranked
  <2> QED BY <2>1, BeforeOrder
<1>6. \A u \in S : ~Before(u, u)
  <2> SUFFICES ASSUME NEW u \in S PROVE ~Before(u, u) OBVIOUS
  <2>1. Ranked(u) BY <1>3 DEF Ranked
  <2> QED BY <2>1, BeforeOrder
<1>7. PICK s \in [1..m -> S] : \A i, k \in 1..m : i < k => <<s[i], s[k]>> \in R
  <2>1. \A u, v \in S : <<u, v>> \in R <=> Before(u, v) OBVIOUS
  <2> HIDE DEF R
  <2>2. /\ \A x, y \in S : x # y => <<x, y>> \in R \/ <<y, x>> \in R
        /\ \A x, y, z \in S : <<x, y>> \in R /\ <<y, z>> \in R => <<x, z>> \in R
    BY <1>4, <1>5, <2>1
  <2> QED BY <1>1, <2>2, Sorting
<1>8. s \in [1..m -> S] /\ InOrder(s)
  <2>1. DOMAIN s = 1..m OBVIOUS
  <2>2. \A u, v : <<u, v>> \in R => Before(u, v) OBVIOUS
  <2> HIDE DEF R
  <2> QED BY <1>7, <2>1, <2>2
<1>9. ns \in [1..m -> S] /\ InOrder(ns)
  <2> HIDE DEF InOrder
  <2> QED BY <1>2, <1>8
<1>10. m \in Nat BY <1>1, FS_CardinalityType
<1>11. NodesOnce(ns, grid, cs)
  <2>1. \A i, k \in 1..m : i # k => ns[i] # ns[k]
    <3> SUFFICES ASSUME NEW i \in 1..m, NEW k \in 1..m, i # k PROVE ns[i] # ns[k] OBVIOUS
    <3>1. DOMAIN ns = 1..m BY <1>9
    <3>2. ns[i] \in S /\ ns[k] \in S BY <1>9
    <3> HIDE DEF m
    <3>3. i < k \/ k < i BY <1>10
    <3>4. Before(ns[i], ns[k]) \/ Before(ns[k], ns[i]) BY <1>9, <3>1, <3>3
    <3> QED BY <1>6, <3>2, <3>4
  <2> QED BY <1>9, <2>1 DEF NodesOnce, S
<1>12. Collected(ns, n, grid, cs) BY <1>11, NodeList
<1>13. ASSUME NEW j \in 2..n, SameBlock(ns, j) PROVE ns[j - 1].quad <= ns[j].quad
  <2>1. j \in 1..n /\ j - 1 \in 1..n /\ j - 1 < j OBVIOUS
  <2>2. /\ DOMAIN ns = 1..n /\ ns[j].quad \in Nat /\ ns[j - 1].quad \in Nat
    BY <1>12, <2>1 DEF Collected
  <2>3. Before(ns[j - 1], ns[j]) BY <1>9, <2>1, <2>2
  <2>4. ns[j].id = ns[j - 1].id BY <1>13 DEF SameBlock
  <2>5. ns[j].id \in Int
    <3>1. ns[j] \in S BY <1>9, <2>1, <2>2
    <3> QED BY <1>3, <3>1
  <2> QED BY <2>2, <2>3, <2>4, <2>5 DEF Before
<1>14. Arranged(ns, n, grid, cs) BY <1>12, <1>13 DEF Collected, Arranged
<1> QED BY <1>12, <1>14

\* Such a list can be walked.
LEMMA ArrangedWalkable ==
  ASSUME NEW n \in Nat, NEW cs, cs \in [1..n -> Triples], NEW grid \in [1..3 -> Nat],
         NEW ns, Arranged(ns, n, grid, cs)
  PROVE  /\ Walkable(ns, n)
         /\ \A j \in 1..n : CellAt(grid, ns[j].id, ns[j].quad, ns[j].re) \in Triples
<1>1. ASSUME NEW j \in 1..n
      PROVE  /\ ns[j].id \in 0..(WordSize - 1) /\ ns[j].quad \in 0..7
             /\ ns[j].re \in 0..(WordSize - 1)
             /\ CellAt(grid, ns[j].id, ns[j].quad, ns[j].re) \in Triples
  <2> DEFINE i == ns[j].ord
             v == NodeOf(grid, cs[i], i)
  <2>1. i \in 1..n /\ ns[j] = v BY DEF Arranged
  <2>2. cs[i] \in Triples BY <2>1
  <2>3. /\ v.id \in 0..(WordSize - 1) /\ v.quad \in 0..7 /\ v.re \in 0..(WordSize - 1)
        /\ CellAt(grid, v.id, v.quad, v.re) \in Triples
    BY <2>2, NodeAnywhere
  <2> HIDE DEF v
  <2> QED BY <2>1, <2>3
<1> QED BY <1>1 DEF Walkable, Arranged

\* The quadrants of a list that can be walked ascend, and no difference wraps around.
LEMMA QuadsLemma ==
  ASSUME NEW n \in Nat, NEW ns, Walkable(ns, n)
  PROVE  Quads(ns) \in [1..n -> 0..7]
<1>1. DOMAIN ns = 1..n BY DEF Walkable
<1>2. ASSUME NEW j \in 1..n, SameBlock(ns, j) PROVE (ns[j].quad - ns[j - 1].quad) % 256 \in 0..7
  <2>1. j \in 2..n /\ j - 1 \in 1..n BY <1>2 DEF SameBlock
  <2> DEFINE x == ns[j].quad
             y == ns[j - 1].quad
  <2>2. x \in 0..7 /\ y \in 0..7 /\ y <= x BY <1>2, <2>1 DEF Walkable
  <2> HIDE DEF x, y
  <2>3. (x - y) % 256 \in 0..7 BY <2>2
  <2> QED BY <2>3 DEF x, y
<1>3. \A j \in 1..n : ns[j].quad \in 0..7 BY DEF Walkable
<1>4. Quads(ns) = [j \in 1..n |-> IF SameBlock(ns, j) THEN (ns[j].quad - ns[j - 1].quad) % 256
                                  ELSE ns[j].quad]
  BY <1>1 DEF Quads
<1> QED BY <1>2, <1>3, <1>4

\* Numbers that differ by a multiple of the word size are the same word.
LEMMA SameWord == \A x, y, k \in Int : x = WordSize * k + y => Word(x) = Word(y)
<1> DEFINE W == WordSize
<1>1. W \in Nat \ {0} BY BlockAssumption
<1> HIDE DEF W
<1> SUFFICES ASSUME NEW x \in Int, NEW y \in Int, NEW k \in Int, x = W * k + y
             PROVE  x % W = y % W
  BY DEF W, Word
<1> DEFINE q == y \div W
           e == y % W
<1>2. q \in Int /\ e \in 0..(W - 1) /\ y = W * q + e BY <1>1, ModuloLemma
<1> HIDE DEF q, e
<1>3. W * (q + k) = W * q + W * k /\ q + k \in Int /\ W * q \in Int /\ W * k \in Int BY <1>1, <1>2
<1>4. x = W * (q + k) + e BY <1>2, <1>3
<1>5. x % W = e BY <1>1, <1>2, <1>3, <1>4, DivisionUnique
<1> QED BY <1>5 DEF e

LEMMA Wrapped == \A n \in Int : \E k \in Int : n = WordSize * k + Word(n) /\ Word(n) \in Int
<1> SUFFICES ASSUME NEW n \in Int
             PROVE  \E k \in Int : n = WordSize * k + Word(n) /\ Word(n) \in Int
  OBVIOUS
<1> DEFINE W == WordSize
           q == n \div W
           w == n % W
<1>1. W \in Nat \ {0} BY BlockAssumption
<1>2. Word(n) = w BY DEF Word
<1>3. q \in Int /\ w \in Int /\ n = W * q + w
  <2> HIDE DEF W
  <2> QED BY <1>1, ModuloLemma
<1> HIDE DEF q, w
<1> QED BY <1>2, <1>3

\* A difference that wrapped around is undone by an addition that does.
LEMMA DifferenceUndone ==
  \A x, y \in Int : /\ Word(Word(x - y) + y) = Word(x)
                    /\ Word(Word(x - y) + Word(y)) = Word(x)
<1> SUFFICES ASSUME NEW x \in Int, NEW y \in Int
             PROVE  /\ Word(Word(x - y) + y) = Word(x)
                    /\ Word(Word(x - y) + Word(y)) = Word(x)
  OBVIOUS
<1> DEFINE W == WordSize
           a == Word(x - y)
           b == Word(y)
<1>1. W \in Nat \ {0} BY BlockAssumption
<1>2. \A n \in Int : \E k \in Int : n = W * k + Word(n) /\ Word(n) \in Int BY Wrapped
<1> HIDE DEF W
<1>3. PICK p \in Int : x - y = W * p + a /\ a \in Int BY <1>2
<1>4. PICK q \in Int : y = W * q + b /\ b \in Int BY <1>2
<1> HIDE DEF a, b
<1>5. W * p \in Int /\ W * q \in Int /\ W * (p + q) = W * p + W * q BY <1>1, Products
<1>6. x = W * p + (a + y) /\ a + y \in Int BY <1>3, <1>5
<1>7. x = W * (p + q) + (a + b) /\ a + b \in Int /\ p + q \in Int
  <2> DEFINE P == W * p
             Q == W * q
  <2>1. P \in Int /\ Q \in Int /\ W * (p + q) = P + Q BY <1>5
  <2>2. x - y = P + a /\ y = Q + b /\ a \in Int /\ b \in Int BY <1>3, <1>4
  <2> HIDE DEF P, Q
  <2>3. x = P + Q + (a + b) BY <2>1, <2>2
  <2> QED BY <2>1, <2>2, <2>3
<1>8. Word(x) = Word(a + y) BY <1>6, SameWord DEF W
<1>9. Word(x) = Word(a + b) BY <1>7, SameWord DEF W
<1> QED BY <1>8, <1>9 DEF a, b

\* Sums of words, however large the first one is.
LEMMA SumsLemma ==
  ASSUME NEW n \in Nat, NEW s \in [1..n -> Nat]
  PROVE  Sums(Deltas(s)) \in [1..n -> Nat]
<1> DEFINE d == Deltas(s)
           Rule(f) == [i \in 1..n |-> IF i = 1 THEN d[1] ELSE Word(d[i] + f[i - 1])]
           g == [i \in 1..n |-> IF i = 1 THEN s[1] ELSE Word(s[i])]
<1>1. WordSize \in Nat \ {0} BY BlockAssumption
<1>2. \A x, y \in Int : /\ Word(Word(x - y) + y) = Word(x)
                         /\ Word(Word(x - y) + Word(y)) = Word(x)
  BY DifferenceUndone
<1>3. \A i \in 1..n : s[i] \in Nat /\ s[i] \in Int OBVIOUS
<1>4. \A i \in 1..n : i # 1 => i - 1 \in 1..n OBVIOUS
<1>5. d = [i \in 1..n |-> IF i = 1 THEN s[1] ELSE Word(s[i] - s[i - 1])] BY DEF Deltas
<1>6. DOMAIN d = 1..n BY <1>5
<1> HIDE DEF d
<1>7. g = Rule(g)
  <2>1. ASSUME NEW i \in 1..n PROVE g[i] = IF i = 1 THEN d[1] ELSE Word(d[i] + g[i - 1])
    <3>1. CASE i = 1 BY <1>5, <3>1
    <3>2. CASE i # 1
      <4>1. i - 1 \in 1..n BY <1>4, <3>2
      <4>2. d[i] = Word(s[i] - s[i - 1]) BY <1>5, <3>2
      <4>3. g[i] = Word(s[i]) BY <3>2
      <4>4. g[i - 1] = s[i - 1] \/ g[i - 1] = Word(s[i - 1]) BY <4>1
      <4> HIDE DEF g
      <4>5. s[i] \in Int /\ s[i - 1] \in Int BY <1>3, <4>1
      <4>6. Word(d[i] + g[i - 1]) = Word(s[i])
        <5> DEFINE x == s[i]
                   y == s[i - 1]
        <5>1. x \in Int /\ y \in Int BY <4>5
        <5>2. d[i] = Word(x - y) /\ (g[i - 1] = y \/ g[i - 1] = Word(y)) BY <4>2, <4>4
        <5> HIDE DEF x, y
        <5>3. Word(Word(x - y) + y) = Word(x) /\ Word(Word(x - y) + Word(y)) = Word(x) BY <1>2, <5>1
        <5>4. Word(d[i] + g[i - 1]) = Word(x) BY <5>2, <5>3
        <5> QED BY <5>4 DEF x
      <4> QED BY <3>2, <4>3, <4>6
    <3> QED BY <3>1, <3>2
  <2>2. g = [i \in 1..n |-> g[i]] OBVIOUS
  <2> HIDE DEF g
  <2> QED BY <2>1, <2>2
<1> DEFINE h == Sums(d)
<1>8. h = CHOOSE f : f = Rule(f) BY <1>6, Zenon DEF Sums
<1>9. h = Rule(h)
  <2> HIDE DEF h, Rule, g
  <2> QED BY <1>7, <1>8
<1> HIDE DEF h
<1>10. h = [i \in 1..n |-> h[i]] /\ \A i \in 1..n : h[i] = IF i = 1 THEN d[1] ELSE Word(d[i] + h[i - 1])
  BY <1>9
<1>11. \A i \in 1..n : d[i] \in Nat
  <2>1. ASSUME NEW i \in 1..n, i # 1 PROVE Word(s[i] - s[i - 1]) \in Nat
    <3>1. i - 1 \in 1..n BY <1>4, <2>1
    <3>2. s[i] - s[i - 1] \in Int BY <1>3, <3>1
    <3> QED BY <3>2, Words
  <2>2. \A i \in 1..n : i = 1 => s[1] \in Nat BY <1>3
  <2> QED BY <1>5, <2>1, <2>2
<1>12. \A i \in 1..n : h[i] \in Nat
  <2> DEFINE P == {i \in 1..n : h[i] \in Nat}
  <2>1. n >= 1 => 1 \in P
    <3>1. n >= 1 => 1 \in 1..n OBVIOUS
    <3> HIDE DEF Rule
    <3> QED BY <1>10, <1>11, <3>1
  <2>2. ASSUME NEW i \in 2..n, i - 1 \in P PROVE i \in P
    <3>1. i \in 1..n /\ i # 1 OBVIOUS
    <3>2. h[i] = Word(d[i] + h[i - 1]) BY <1>10, <3>1
    <3>3. d[i] + h[i - 1] \in Int BY <1>11, <2>2, <3>1
    <3> QED BY <3>1, <3>2, <3>3, Words
  <2> HIDE DEF P
  <2>3. \A i \in 1..n : i \in P BY <2>1, <2>2, Onward
  <2> QED BY <2>3 DEF P
<1>13. h \in [1..n -> Nat] BY <1>10, <1>12
<1> QED BY <1>13 DEF h, d
=============================================================================
