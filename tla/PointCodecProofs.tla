--------------------------- MODULE PointCodecProofs ---------------------------
(***************************************************************************)
(* The per-point codec: compressing permutes the caller's points, the      *)
(* chunks of a job tile its input, every block finds its symbols in the    *)
(* shared codebooks, and a chunk whose cells fit their words is read back  *)
(* as the points of the vector, in its order and within the bound.         *)
(***************************************************************************)
EXTENDS PointCodec, BlockQuantizerProofs

-----------------------------------------------------------------------------
(* Lists without repetition *)

\* Reordered by a list of its places, a list remains one.
LEMMA ListsReordered ==
  ASSUME NEW S, NEW s, Lists(s, S), NEW ords, Lists(ords, 1..Len(s))
  PROVE  Lists(Reordered(s, ords), S)
<1>1. ords \in Seq(1..Len(s)) BY DEF Lists
<1>2. DOMAIN ords = 1..Len(ords) BY <1>1
<1>3. Reordered(s, ords) = [i \in 1..Len(ords) |-> s[ords[i]]] BY <1>2 DEF Reordered
<1> QED BY <1>3, ListInOrder

-----------------------------------------------------------------------------
(* Cells, codes and words *)

\* The coordinates of points, and of their offset.
LEMMA OffsetsLemma ==
  ASSUME cloud \in Clouds, NEW ps \in Seq(1..Len(cloud)), NEW i \in 1..Len(ps)
  PROVE  /\ \A a \in Axes : cloud[ps[i]][a] \in Int /\ Offset(ps)[a] \in Int
         /\ <<cloud[ps[i]][1] - Offset(ps)[1], cloud[ps[i]][2] - Offset(ps)[2],
              cloud[ps[i]][3] - Offset(ps)[3]>> \in Point
<1> DEFINE n == Len(ps)
<1>1. n \in Nat /\ ps \in [1..n -> 1..Len(cloud)]
  <2>1. \A D : \A s \in Seq(D) : Len(s) \in Nat /\ s \in [1..Len(s) -> D] OBVIOUS
  <2> QED BY <2>1
<1>2. \A k \in 1..n : cloud[ps[k]] \in Point
  <2>1. cloud \in Seq(Point) BY PointAssumption
  <2>2. \A k \in 1..Len(cloud) : cloud[k] \in Point BY <2>1
  <2> QED BY <1>1, <2>2
<1>3. \A k \in 1..n : \A a \in Axes : cloud[ps[k]][a] \in Int
  <2>1. \A p \in Point : \A a \in Axes : p[a] \in Int BY DEF Point, Axes
  <2> QED BY <1>2, <2>1
<1>4. ASSUME NEW a \in Axes PROVE Offset(ps)[a] \in Int
  <2> DEFINE f == [k \in 1..n |-> -cloud[ps[k]][a]]
             S == {f[k] : k \in 1..n}
  <2>1. \A k \in 1..n : f[k] \in Int BY <1>3
  <2>2. IsFiniteSet(1..n)
    <3>1. 1 \in Int /\ n \in Int BY <1>1
    <3> HIDE DEF n
    <3> QED BY <3>1, FS_Interval
  <2>3. IsFiniteSet(S) BY <2>2, ImageLemma
  <2>4. S = {-cloud[ps[k]][a] : k \in DOMAIN ps} BY <1>1
  <2>5. S \in SUBSET Int /\ S # {} BY <2>1
  <2> HIDE DEF S
  <2>6. MaxOf(S) \in Int BY <2>3, <2>5, Greatest
  <2>7. ps # <<>>
    <3>1. i \in DOMAIN ps BY <1>1
    <3>2. DOMAIN <<>> = {} OBVIOUS
    <3> QED BY <3>1, <3>2
  <2>8. Offset(ps)[a] = -MaxOf(S) BY <2>4, <2>7 DEF Offset
  <2> QED BY <2>6, <2>8
<1> DEFINE d(a) == cloud[ps[i]][a] - Offset(ps)[a]
<1>5. \A a \in Axes : d(a) \in Int
  <2> SUFFICES ASSUME NEW a \in Axes PROVE d(a) \in Int OBVIOUS
  <2>1. cloud[ps[i]][a] \in Int /\ Offset(ps)[a] \in Int BY <1>3, <1>4
  <2>2. \A x, y \in Int : x - y \in Int OBVIOUS
  <2> QED BY <2>1, <2>2, Zenon
<1>6. d(1) \in Int /\ d(2) \in Int /\ d(3) \in Int BY <1>5 DEF Axes
<1> HIDE DEF d
<1>7. <<d(1), d(2), d(3)>> \in Point BY <1>6 DEF Point
<1> QED BY <1>3, <1>4, <1>7 DEF d

\* The points a program holds all have cells.
LEMMA CellsLemma ==
  ASSUME cloud \in Clouds, NEW ps \in Seq(1..Len(cloud))
  PROVE  CellsOf(ps) \in Seq(Cells) /\ Len(CellsOf(ps)) = Len(ps)
<1> DEFINE n == Len(ps)
           At(i) == <<cloud[ps[i]][1] - Offset(ps)[1], cloud[ps[i]][2] - Offset(ps)[2],
                      cloud[ps[i]][3] - Offset(ps)[3]>>
<1>1. n \in Nat /\ DOMAIN ps = 1..n OBVIOUS
<1>2. \A i \in 1..n : At(i) \in Point BY OffsetsLemma
<1>3. CellsOf(ps) = [i \in 1..n |-> QuantizeCell(At(i))] BY <1>1 DEF CellsOf
<1> HIDE DEF At, n
<1>4. \A i \in 1..n : QuantizeCell(At(i)) \in Cells BY <1>2, QuantizeLemma
<1>5. CellsOf(ps) \in [1..n -> Cells] BY <1>3, <1>4
<1>6. Len(CellsOf(ps)) = n BY <1>1, <1>5
<1> QED BY <1>1, <1>5, <1>6 DEF n

-----------------------------------------------------------------------------
(* The order of the entries and the nodes *)

\* However the nodes are ordered, each point is in one of them.
LEMMA NodesLemma ==
  ASSUME NEW n \in Nat, NEW cs, cs \in [1..n -> Cells], NEW grid,
         NEW ns \in SortedNodes(grid, cs)
  PROVE  /\ Len(ns) = n /\ DOMAIN ns = 1..n
         /\ \A j \in 1..n : ns[j].quad \in Nat /\ ns[j].re \in Nat
         /\ Arranged(ns, n, grid, cs)
         /\ Lists([j \in 1..n |-> ns[j].ord], 1..n)
<1>1. cs \in [1..n -> Triples] BY DEF Cells, Triples
<1>2. ns \in SetToSeqs(NodeSet(grid, cs)) BY DEF SortedNodes, NodeSet
<1>3. NodesOnce(ns, grid, cs) BY <1>2 DEF SetToSeqs, NodesOnce
<1>4. Collected(ns, n, grid, cs) BY <1>1, <1>3, NodeList
<1>5. ASSUME NEW j \in 2..n, SameBlock(ns, j) PROVE ns[j - 1].quad <= ns[j].quad
  <2> DEFINE u == [ns[j] EXCEPT !.ord = 0]
             v == [ns[j - 1] EXCEPT !.ord = 0]
  <2>1. j \in 1..n /\ j - 1 \in 1..n OBVIOUS
  <2>2. ASSUME NEW k \in 1..n PROVE DOMAIN ns[k] = {"id", "quad", "re", "ord"}
    <3>1. \A c, i : DOMAIN NodeOf(grid, c, i) = {"id", "quad", "re", "ord"} BY DEF NodeOf
    <3>2. ns[k] = NodeOf(grid, cs[ns[k].ord], ns[k].ord) BY <1>4 DEF Collected
    <3> QED BY <3>1, <3>2
  <2>3. u.id = ns[j].id /\ u.quad = ns[j].quad BY <2>1, <2>2
  <2>4. v.id = ns[j - 1].id /\ v.quad = ns[j - 1].quad BY <2>1, <2>2
  <2>5. u.id = v.id BY <1>5, <2>3, <2>4 DEF SameBlock
  <2>6. ~Before(u, v) BY <1>4 DEF Collected, SortedNodes
  <2> HIDE DEF u, v
  <2>7. ~(u.quad < v.quad) BY <2>5, <2>6 DEF Before
  <2>8. u.quad \in Nat /\ v.quad \in Nat BY <1>4, <2>1, <2>3, <2>4 DEF Collected
  <2>9. v.quad <= u.quad BY <2>7, <2>8
  <2> QED BY <2>3, <2>4, <2>9
<1>6. Arranged(ns, n, grid, cs) BY <1>4, <1>5 DEF Collected, Arranged
<1> QED BY <1>4, <1>6 DEF Collected

-----------------------------------------------------------------------------
(* Bytes and places *)

\* The places among n that a call asks for: a count of 0 asks for the rest.
Batch(n, call) ==
  {i \in 1..n : /\ call.offset <= (i - 1) * PointBytes
                /\ call.bytes = 0 \/ i * PointBytes <= call.offset + call.bytes}

\* The places before an offset.
PlacesBefore(n, offset) == {i \in 1..n : i * PointBytes <= offset}

\* Calls for whole points that follow one another from an offset to the end.
Chained(calls, from, size) ==
  /\ calls \in Seq([offset : Nat, bytes : Nat])
  /\ calls = <<>> => from = size
  /\ calls # <<>> => calls[1].offset = from
  /\ \A k \in 1..Len(calls) :
       /\ calls[k].offset % PointBytes = 0
       /\ calls[k].bytes % PointBytes = 0 /\ calls[k].bytes > 0
       /\ calls[k].offset + calls[k].bytes = IF k = Len(calls) THEN size
                                             ELSE calls[k + 1].offset

\* A multiple of the bytes of a point.
LEMMA Multiples ==
  ASSUME NEW x \in Nat, x % PointBytes = 0
  PROVE  /\ x \div PointBytes \in Nat
         /\ x = PointBytes * (x \div PointBytes)
<1>1. PointBytes \in Nat \ {0} BY PointAssumption
<1>2. x \div PointBytes \in Int /\ x = PointBytes * (x \div PointBytes) + (x % PointBytes)
  BY <1>1, ModuloLemma
<1>3. PointBytes * (x \div PointBytes) \in Int BY <1>1, <1>2, Products
<1>4. x = PointBytes * (x \div PointBytes) BY <1>2, <1>3
<1>5. 0 <= x OBVIOUS
<1>6. 0 \in Nat /\ 0 \div PointBytes \in Nat /\ x \div PointBytes \in Nat
  BY <1>1, <1>5, DivMonotone
<1> QED BY <1>4, <1>6

LEMMA Multiple ==
  ASSUME NEW q \in Nat
  PROVE  /\ PointBytes * q \in Nat /\ (PointBytes * q) % PointBytes = 0
         /\ (PointBytes * q) \div PointBytes = q
<1>1. PointBytes \in Nat \ {0} /\ 0 \in 0..(PointBytes - 1) BY PointAssumption
<1>2. PointBytes * q \in Int /\ PointBytes * q >= 0 BY <1>1, Products
<1>3. PointBytes * q = PointBytes * q + 0 BY <1>2
<1>4. q \in Int OBVIOUS
<1> QED BY <1>1, <1>2, <1>3, <1>4, DivisionUnique

\* A multiple is ordered as its factor.
LEMMA Ordered ==
  ASSUME NEW x \in Int, NEW y \in Int
  PROVE  /\ PointBytes * x \in Int
         /\ PointBytes * x <= PointBytes * y <=> x <= y
         /\ PointBytes * x < PointBytes * (y + 1) <=> x <= y
         /\ PointBytes * (y + 1) = PointBytes * y + PointBytes
<1> DEFINE P == PointBytes
<1>1. P \in Nat \ {0} BY PointAssumption
<1> HIDE DEF P
<1>2. P * x \in Int /\ P * y \in Int BY <1>1, Products
<1>3. P * (y + 1) = P * y + P BY <1>1
<1>4. ASSUME x <= y PROVE P * x <= P * y
  <2>1. P * (y - x) >= 0 BY <1>1, <1>4, Products
  <2>2. P * (y - x) = P * y - P * x BY <1>1
  <2> QED BY <1>2, <2>1, <2>2
<1>5. ASSUME ~(x <= y) PROVE P * y + P <= P * x
  <2>1. P * (x - y - 1) >= 0 BY <1>1, <1>5, Products
  <2>2. P * (x - y - 1) = P * x - P * y - P BY <1>1
  <2> QED BY <1>1, <1>2, <2>1, <2>2
<1>6. P * x <= P * y <=> x <= y BY <1>1, <1>2, <1>4, <1>5
<1>7. P * x < P * (y + 1) <=> x <= y BY <1>1, <1>2, <1>3, <1>4, <1>5
<1> QED BY <1>2, <1>3, <1>6, <1>7 DEF P

\* What remains of the file after an incomplete point.
LEMMA SizesLemma ==
  ASSUME cloud \in Clouds, rest \in 0..(PointBytes - 1)
  PROVE  /\ Len(cloud) \in Nat /\ rest \in Nat
         /\ FileSize \in Nat /\ FileSize = PointBytes * Len(cloud) + rest
         /\ AlignedSize = PointBytes * Len(cloud) /\ AlignedSize \in Nat
<1> DEFINE n == Len(cloud)
<1>1. n \in Nat
  <2>1. cloud \in Seq(Point) BY PointAssumption
  <2> QED BY <2>1
<1>2. PointBytes \in Nat \ {0} /\ rest \in Nat BY PointAssumption
<1> HIDE DEF n
<1>3. PointBytes * n \in Nat /\ n * PointBytes = PointBytes * n BY <1>1, <1>2, Multiple
<1>4. FileSize = PointBytes * n + rest /\ FileSize \in Nat BY <1>2, <1>3 DEF FileSize, n
<1>5. n \in Int /\ FileSize \in Int BY <1>1, <1>4
<1>6. FileSize % PointBytes = rest BY <1>2, <1>4, <1>5, DivisionUnique
<1>7. AlignedSize = PointBytes * n BY <1>2, <1>3, <1>4, <1>6 DEF AlignedSize
<1> QED BY <1>1, <1>2, <1>3, <1>4, <1>7 DEF n

\* A call for whole points that are there reads these points, each once.
LEMMA PlacesRead ==
  ASSUME NEW n \in Nat, NEW o \in Nat, NEW c \in Nat, c = 0 \/ o + c <= n,
         NEW call, call.offset = PointBytes * o, call.bytes = PointBytes * c,
         NEW S, S = {i \in 1..n : o < i /\ i <= o + c}
  PROVE  Lists(PointsIn(call), S)
<1> DEFINE s == PointsIn(call)
<1>1. s = [i \in 1..c |-> o + i] BY Multiple DEF PointsIn
<1> HIDE DEF s
<1>2. s \in [1..c -> S]
  <2>1. \A i \in 1..c : o + i \in S OBVIOUS
  <2> QED BY <1>1, <2>1
<1>3. s \in Seq(S) /\ Len(s) = c BY <1>2
<1>4. \A i, k \in 1..c : s[i] = s[k] => i = k BY <1>1
<1>5. ASSUME NEW x \in S PROVE \E i \in 1..c : s[i] = x
  <2>1. x - o \in 1..c /\ o + (x - o) = x OBVIOUS
  <2> QED BY <1>1, <2>1
<1> QED BY <1>3, <1>4, <1>5 DEF Lists, s

\* A call in terms of points.
LEMMA BatchOf ==
  ASSUME NEW n \in Nat, NEW o \in Nat, NEW c \in Nat,
         NEW call, call.offset = PointBytes * o, call.bytes = PointBytes * c
  PROVE  Batch(n, call) = {i \in 1..n : o < i /\ (c = 0 \/ i <= o + c)}
<1>1. ASSUME NEW i \in 1..n
      PROVE  /\ call.offset <= (i - 1) * PointBytes <=> o < i
             /\ call.bytes = 0 <=> c = 0
             /\ i * PointBytes <= call.offset + call.bytes <=> i <= o + c
  <2>1. PointBytes \in Nat \ {0} BY PointAssumption
  <2>2. i \in Int /\ i - 1 \in Int /\ o \in Int /\ c \in Int /\ o + c \in Int /\ 0 \in Int OBVIOUS
  <2>3. (i - 1) * PointBytes = PointBytes * (i - 1) /\ i * PointBytes = PointBytes * i
    BY <2>1, <2>2
  <2>4. PointBytes * o <= PointBytes * (i - 1) <=> o <= i - 1 BY <2>2, Ordered
  <2>5. PointBytes * i <= PointBytes * (o + c) <=> i <= o + c BY <2>2, Ordered
  <2>6. PointBytes * (o + c) = PointBytes * o + PointBytes * c BY <2>1, <2>2
  <2>7. PointBytes * c <= PointBytes * 0 <=> c <= 0 BY <2>2, Ordered
  <2>8. PointBytes * 0 = 0 /\ PointBytes * c \in Nat BY <2>1, Multiple
  <2>9. o <= i - 1 <=> o < i BY <2>2
  <2> QED BY <2>3, <2>4, <2>5, <2>6, <2>7, <2>8, <2>9
<1> QED BY <1>1 DEF Batch

\* A read of whole points gives the points asked for that there are.
LEMMA ChunkRead ==
  ASSUME cloud \in Clouds, rest \in 0..(PointBytes - 1),
         NEW call \in [offset : Nat, bytes : Nat], ~Misaligned(call)
  PROVE  Lists(PointsIn([call EXCEPT !.bytes = Clamped(call)]), Batch(Len(cloud), call))
<1> DEFINE n == Len(cloud)
           P == PointBytes
           o == call.offset \div P
           b == call.bytes \div P
           left == FileSize - call.offset
<1>1. /\ n \in Nat /\ rest \in Nat /\ FileSize = P * n + rest
      /\ P \in Nat \ {0} /\ rest \in 0..(P - 1)
  BY SizesLemma, PointAssumption
<1>2. /\ o \in Nat /\ b \in Nat
      /\ call.offset = P * o /\ call.bytes = P * b
  BY Multiples DEF Misaligned
<1> HIDE DEF n, o, b
<1>3. /\ P * n \in Int /\ P * o \in Int /\ P * b \in Int
      /\ \A x, y \in Int : x <= y <=> P * x <= P * y
      /\ \A x, y \in Int : x <= y <=> P * x < P * (y + 1)
      /\ \A x \in Int : P * (x + 1) = P * x + P
  <2>1. n \in Int /\ o \in Int /\ b \in Int BY <1>1, <1>2
  <2> QED BY <2>1, Ordered
<1>4. Batch(n, call) = {i \in 1..n : o < i /\ (b = 0 \/ i <= o + b)} BY <1>1, <1>2, BatchOf
<1> DEFINE clamped == Clamped(call)
           read == [call EXCEPT !.bytes = clamped]
<1>5. read.offset = P * o /\ read.bytes = clamped BY <1>2
<1> DEFINE Goal == Lists(PointsIn(read), Batch(n, call))
<1>6. \A c \in Nat : /\ clamped = P * c /\ (c = 0 \/ o + c <= n)
                     /\ Batch(n, call) = {i \in 1..n : o < i /\ i <= o + c}
                     => Goal
  <2> SUFFICES ASSUME NEW c \in Nat, clamped = P * c, c = 0 \/ o + c <= n,
                      Batch(n, call) = {i \in 1..n : o < i /\ i <= o + c}
               PROVE  Goal
    OBVIOUS
  <2>1. read.bytes = P * c BY <1>5
  <2> HIDE DEF read
  <2> QED BY <1>1, <1>2, <1>5, <2>1, PlacesRead
<1> HIDE DEF read, P, Goal
<1>7. ASSUME call.offset >= FileSize PROVE Goal
  <2>1. clamped = 0 BY <1>7 DEF Clamped
  <2>2. n <= o
    <3>1. P * n <= P * o BY <1>1, <1>2, <1>3, <1>7
    <3>2. n \in Int /\ o \in Int BY <1>1, <1>2
    <3> QED BY <1>3, <3>1, <3>2
  <2>3. clamped = P * 0 BY <1>1, <2>1
  <2>4. Batch(n, call) = {i \in 1..n : o < i /\ i <= o + 0} BY <1>1, <1>2, <1>4, <2>2
  <2> QED BY <1>6, <2>3, <2>4
<1>8. ASSUME ~(call.offset >= FileSize) PROVE Goal
  <2>1. clamped = IF call.bytes = 0 \/ call.bytes > left THEN left - (left % P) ELSE call.bytes
    BY <1>8 DEF Clamped, P
  <2> DEFINE c == n - o
  <2>2. o <= n
    <3>1. P * o < P * (n + 1) BY <1>1, <1>2, <1>3, <1>8
    <3>2. n \in Int /\ o \in Int BY <1>1, <1>2
    <3> QED BY <1>3, <3>1, <3>2
  <2>3. c \in Nat /\ c \in Int BY <1>1, <1>2, <2>2
  <2>4. P * c = P * n - P * o /\ P * c \in Int BY <1>1, <1>2, <1>3
  <2>5. left = P * c + rest /\ left \in Int BY <1>1, <1>2, <1>3, <2>4
  <2>6. left % P = rest BY <1>1, <2>3, <2>5, DivisionUnique
  <2>7. CASE call.bytes = 0 \/ call.bytes > left
    <3>1. clamped = P * c BY <1>1, <2>1, <2>4, <2>5, <2>6, <2>7
    <3>2. b = 0 \/ n <= o + b
      <4>1. CASE call.bytes = 0
        <5>1. P * b <= P * 0 BY <1>1, <1>2, <4>1
        <5>2. b \in Int /\ 0 \in Int BY <1>2
        <5>3. b <= 0 BY <1>3, <5>1, <5>2
        <5> QED BY <1>2, <5>3
      <4>2. CASE call.bytes > left
        <5>1. P * c <= P * b BY <1>1, <1>2, <1>3, <2>4, <2>5, <4>2
        <5>2. c <= b BY <1>2, <1>3, <2>3, <5>1
        <5> QED BY <1>1, <1>2, <5>2
      <4> QED BY <2>7, <4>1, <4>2
    <3>3. Batch(n, call) = {i \in 1..n : o < i /\ i <= o + c} BY <1>1, <1>2, <1>4, <3>2
    <3>4. o + c <= n BY <1>1, <1>2
    <3> HIDE DEF c
    <3> QED BY <1>6, <2>3, <3>1, <3>3, <3>4
  <2>8. CASE ~(call.bytes = 0 \/ call.bytes > left)
    <3>1. clamped = P * b BY <1>2, <2>1, <2>8
    <3>2. b # 0 BY <1>1, <1>2, <2>8
    <3>3. o + b <= n
      <4>1. P * b < P * (c + 1) BY <1>1, <1>2, <1>3, <2>3, <2>4, <2>5, <2>8
      <4>2. b <= c BY <1>2, <1>3, <2>3, <4>1
      <4> QED BY <1>1, <1>2, <4>2
    <3>4. Batch(n, call) = {i \in 1..n : o < i /\ i <= o + b} BY <1>4, <3>2
    <3> QED BY <1>2, <1>6, <3>1, <3>3, <3>4
  <2> QED BY <2>7, <2>8
<1> QED BY <1>7, <1>8 DEF Goal, read, n

\* The first call of a chain reads whole points, and the others go on after it.
LEMMA ChainHead ==
  ASSUME NEW calls, NEW from \in Nat, NEW n \in Nat, NEW size, size = PointBytes * n,
         Chained(calls, from, size), calls # <<>>, from % PointBytes = 0
  PROVE  LET call == Head(calls)
         IN /\ call \in [offset : Nat, bytes : Nat] /\ ~Misaligned(call) /\ call.bytes > 0
            /\ Lists(PointsIn(call), Batch(n, call))
            /\ Batch(n, call) # {}
            /\ call.offset = from
            /\ from + call.bytes \in Nat /\ (from + call.bytes) % PointBytes = 0
            /\ Chained(Tail(calls), from + call.bytes, size)
            /\ PlacesBefore(n, from) \cap Batch(n, call) = {}
            /\ PlacesBefore(n, from) \cup Batch(n, call) = PlacesBefore(n, from + call.bytes)
<1> DEFINE P == PointBytes
           m == Len(calls)
           call == Head(calls)
           next == from + call.bytes
           rest2 == Tail(calls)
<1>1. P \in Nat \ {0} BY PointAssumption
<1>2. calls \in Seq([offset : Nat, bytes : Nat]) BY DEF Chained
<1>a. \A i \in 1..m : calls[i] \in [offset : Nat, bytes : Nat]
  <2>1. \A D : \A s \in Seq(D) : \A i \in 1..Len(s) : s[i] \in D OBVIOUS
  <2> QED BY <1>2, <2>1
<1>3. m \in Nat /\ m # 0 /\ call = calls[1] /\ call \in [offset : Nat, bytes : Nat]
  <2>1. m \in Nat BY <1>2
  <2>2. m # 0 BY <1>2
  <2>3. call = calls[1] OBVIOUS
  <2>4. call \in [offset : Nat, bytes : Nat]
    <3>1. 1 \in 1..m BY <2>1, <2>2
    <3> QED BY <1>a, <2>3, <3>1
  <2> QED BY <2>1, <2>2, <2>3, <2>4
<1> HIDE DEF call
<1>b. \A k \in 1..m :
         /\ calls[k].offset % P = 0 /\ calls[k].bytes % P = 0 /\ calls[k].bytes > 0
         /\ calls[k].offset + calls[k].bytes = IF k = m THEN size ELSE calls[k + 1].offset
  BY DEF Chained
<1>4. /\ call.offset = from /\ call.offset % P = 0 /\ call.bytes % P = 0 /\ call.bytes > 0
      /\ next = IF m = 1 THEN size ELSE calls[2].offset
  <2>1. 1 \in 1..m /\ 1 + 1 = 2 BY <1>3
  <2>2. calls[1].offset = from BY DEF Chained
  <2> HIDE DEF m
  <2> QED BY <1>3, <1>b, <2>1, <2>2
<1> HIDE DEF m
<1>5. call.offset \in Nat /\ call.bytes \in Nat BY <1>3
<1> DEFINE o == from \div P
           c == call.bytes \div P
<1>6. o \in Nat /\ c \in Nat /\ from = P * o /\ call.bytes = P * c
  <2>1. \A x \in Nat : x % P = 0 => x \div P \in Nat /\ x = P * (x \div P) BY Multiples
  <2> QED BY <1>4, <1>5, <2>1
<1> HIDE DEF o, c
<1>7. c # 0 BY <1>1, <1>4, <1>6
<1>8. next = P * (o + c) /\ next \in Nat /\ next % P = 0
  <2>1. o + c \in Nat BY <1>6
  <2>2. P * (o + c) = P * o + P * c BY <1>1, <1>6
  <2> QED BY <1>6, <2>1, <2>2, Multiple
<1>9. /\ rest2 \in Seq([offset : Nat, bytes : Nat]) /\ Len(rest2) = m - 1
      /\ \A k \in 1..(m - 1) : rest2[k] = calls[k + 1]
  BY <1>2, <1>3 DEF m
<1>10. Chained(rest2, next, size)
  <2> HIDE DEF rest2, next
  <2>1. rest2 = <<>> => m = 1 BY <1>9
  <2>2. rest2 # <<>> => m > 1 /\ rest2[1] = calls[2]
    <3> SUFFICES ASSUME rest2 # <<>> PROVE m > 1 /\ rest2[1] = calls[2] OBVIOUS
    <3>1. Len(rest2) # 0 BY <1>9
    <3>2. 1 \in 1..(m - 1) /\ 1 + 1 = 2 /\ m > 1 BY <1>3, <1>9, <3>1
    <3> QED BY <1>9, <3>2
  <2>3. ASSUME NEW k \in 1..Len(rest2)
        PROVE  /\ rest2[k].offset % P = 0 /\ rest2[k].bytes % P = 0 /\ rest2[k].bytes > 0
               /\ rest2[k].offset + rest2[k].bytes = IF k = Len(rest2) THEN size
                                                     ELSE rest2[k + 1].offset
    <3>1. k + 1 \in 1..m /\ k \in 1..(m - 1) BY <1>3, <1>9
    <3>2. /\ calls[k + 1].offset % P = 0 /\ calls[k + 1].bytes % P = 0
          /\ calls[k + 1].bytes > 0
          /\ calls[k + 1].offset + calls[k + 1].bytes = IF k + 1 = m THEN size
                                                        ELSE calls[(k + 1) + 1].offset
      BY <1>b, <3>1
    <3>3. k = Len(rest2) <=> k + 1 = m BY <1>3, <1>9, <3>1
    <3>4. k # Len(rest2) => k + 1 \in 1..(m - 1) /\ rest2[k + 1] = calls[(k + 1) + 1]
      BY <1>3, <1>9, <3>1
    <3> QED BY <1>9, <3>1, <3>2, <3>3, <3>4
  <2> QED BY <1>4, <1>9, <2>1, <2>2, <2>3 DEF Chained
<1>11. o + c <= n
  <2>1. ASSUME NEW k \in Nat
        PROVE  k \in 1..m => calls[k].offset + calls[k].bytes <= size
    <3> DEFINE Q == {j \in Nat : m - j \in 1..m =>
                        /\ calls[m - j].offset + calls[m - j].bytes <= size
                        /\ calls[m - j].offset \in Nat /\ calls[m - j].bytes \in Nat}
    <3>1. \A i \in 1..m : /\ calls[i].offset \in Nat /\ calls[i].bytes \in Nat
                          /\ calls[i].offset + calls[i].bytes
                               = IF i = m THEN size ELSE calls[i + 1].offset
      <4>1. \A i \in 1..m : calls[i].offset \in Nat /\ calls[i].bytes \in Nat BY <1>a
      <4> QED BY <1>b, <4>1
    <3>2. size \in Nat BY <1>1, Multiple
    <3>3. 0 \in Q
      <4>1. m \in 1..m /\ m - 0 = m BY <1>3
      <4> QED BY <3>1, <3>2, <4>1
    <3>4. ASSUME NEW j \in Nat, j \in Q PROVE j + 1 \in Q
      <4> SUFFICES ASSUME m - (j + 1) \in 1..m
                   PROVE  /\ calls[m - (j + 1)].offset + calls[m - (j + 1)].bytes <= size
                          /\ calls[m - (j + 1)].offset \in Nat /\ calls[m - (j + 1)].bytes \in Nat
        OBVIOUS
      <4>1. m - j \in 1..m /\ m - (j + 1) # m /\ (m - (j + 1)) + 1 = m - j BY <1>3
      <4>2. calls[m - (j + 1)].offset + calls[m - (j + 1)].bytes = calls[m - j].offset
        BY <3>1, <4>1
      <4>3. calls[m - j].offset + calls[m - j].bytes <= size BY <3>4, <4>1
      <4>4. calls[m - j].offset \in Nat /\ calls[m - j].bytes \in Nat BY <3>1, <4>1
      <4>5. calls[m - j].offset <= size BY <3>2, <4>3, <4>4
      <4> QED BY <3>1, <4>2, <4>5
    <3> HIDE DEF Q
    <3>5. \A j \in Nat : j \in Q BY <3>3, <3>4, SimpleInduction
    <3>6. ASSUME k \in 1..m PROVE calls[k].offset + calls[k].bytes <= size
      <4>1. m - k \in Nat /\ m - (m - k) = k BY <1>3, <3>6
      <4>2. m - k \in Q BY <3>5, <4>1
      <4> QED BY <3>6, <4>1, <4>2 DEF Q
    <3> QED BY <3>6
  <2>2. next <= size
    <3>1. 1 \in Nat /\ 1 \in 1..m BY <1>3
    <3> QED BY <1>3, <1>4, <2>1, <3>1
  <2>3. P * (o + c) <= P * n BY <1>8, <2>2
  <2>4. o + c \in Int /\ n \in Int BY <1>6
  <2> QED BY <2>3, <2>4, Ordered
<1>12. Batch(n, call) = {i \in 1..n : o < i /\ i <= o + c}
  <2>1. call.offset = P * o BY <1>4, <1>6
  <2>2. Batch(n, call) = {i \in 1..n : o < i /\ (c = 0 \/ i <= o + c)}
    BY <1>6, <2>1, BatchOf
  <2> QED BY <1>7, <2>2
<1>13. \A q \in Nat : PlacesBefore(n, P * q) = {i \in 1..n : i <= q}
  <2> SUFFICES ASSUME NEW q \in Nat, NEW i \in 1..n PROVE i * P <= P * q <=> i <= q
    BY DEF PlacesBefore
  <2>1. i \in Int /\ q \in Int /\ i * P = P * i BY <1>1
  <2> QED BY <2>1, Ordered
<1>14. Lists(PointsIn(call), Batch(n, call))
  <2>1. call.offset = P * o BY <1>4, <1>6
  <2> QED BY <1>6, <1>11, <1>12, <2>1, PlacesRead
<1>15. /\ PlacesBefore(n, from) \cap Batch(n, call) = {}
       /\ PlacesBefore(n, from) \cup Batch(n, call) = PlacesBefore(n, next)
  <2>1. PlacesBefore(n, from) = {i \in 1..n : i <= o} BY <1>6, <1>13
  <2>2. o + c \in Nat BY <1>6
  <2>3. PlacesBefore(n, next) = {i \in 1..n : i <= o + c}
    <3>1. PlacesBefore(n, P * (o + c)) = {i \in 1..n : i <= o + c} BY <1>13, <2>2
    <3> QED BY <1>8, <3>1
  <2> HIDE DEF next
  <2> QED BY <1>6, <1>12, <2>1, <2>3
<1>16. Batch(n, call) # {}
  <2>1. o + 1 \in 1..n /\ o < o + 1 /\ o + 1 <= o + c BY <1>6, <1>7, <1>11
  <2> QED BY <1>12, <2>1
<1>17. ~Misaligned(call) BY <1>4 DEF Misaligned
<1> QED BY <1>3, <1>4, <1>8, <1>10, <1>14, <1>15, <1>16, <1>17 DEF call

\* The tiles of an input are a chain from its beginning to the end of its last whole
\* point, whatever multiple of the bytes of a point their size is.
LEMMA TilesLemma ==
  ASSUME cloud \in Clouds, rest \in 0..(PointBytes - 1),
         NEW u \in Nat \ {0}, NEW size, size = PointBytes * u
  PROVE  Chained(Tiles(size), 0, AlignedSize)
<1> DEFINE n == Len(cloud)
           P == PointBytes
           A == AlignedSize
           m == (A + size - 1) \div size
           At(k) == [offset |-> (k - 1) * size,
                     bytes |-> LET left == A - (k - 1) * size IN IF left < size THEN left ELSE size]
           tiles == Tiles(size)
<1>1. P \in Nat \ {0} /\ n \in Nat /\ A = P * n /\ A \in Nat
  BY SizesLemma, PointAssumption
<1>2. size \in Nat \ {0}
  <2>1. P * u \in Nat BY Multiple
  <2>2. P * 0 = 0 /\ 0 \in Int /\ u \in Int BY <1>1
  <2>3. P * u <= P * 0 <=> u <= 0 BY <2>2, Ordered
  <2> QED BY <2>1, <2>2, <2>3
<1>3. tiles = [k \in 1..m |-> At(k)] BY DEF Tiles
<1>4. size % P = 0
  <2>1. u \in Nat OBVIOUS
  <2> QED BY <2>1, Multiple
<1>5. m \in Nat /\ size * m < A + size /\ A <= size * m
  <2> HIDE DEF A
  <2> DEFINE x == A + size - 1
  <2>1. x \in Nat /\ x \in Int /\ m = x \div size BY <1>1, <1>2
  <2> HIDE DEF x, m
  <2>2. m \in Int /\ size * m <= x /\ x < size * m + size BY <1>2, <2>1, DivBounds
  <2>3. m \in Nat
    <3>1. x <= x BY <2>1
    <3> QED BY <1>2, <2>1, <3>1, DivMonotone
  <2>4. size * m \in Int BY <1>2, <2>2, Products
  <2> QED BY <1>1, <1>2, <2>1, <2>2, <2>3, <2>4 DEF x
<1> HIDE DEF m, tiles, n, A
<1>6. ASSUME NEW k \in 1..m
      PROVE  /\ (k - 1) * size \in Nat /\ (k - 1) * size < A
             /\ k * size = (k - 1) * size + size
             /\ k = m => A <= k * size
             /\ k # m => k * size < A
             /\ ((k - 1) * size) % P = 0 /\ (A - (k - 1) * size) % P = 0
  <2>1. k \in Int /\ k - 1 \in Nat /\ m \in Int BY <1>5
  <2>2. /\ (k - 1) * size = size * (k - 1) /\ k * size = size * k
        /\ size * k = size * (k - 1) + size
    BY <1>2, <2>1
  <2>3. size * (k - 1) \in Int /\ size * (k - 1) >= 0 BY <1>2, <2>1, Products
  <2>4. size * k <= size * m
    <3>1. size * (m - k) >= 0 BY <1>2, <2>1, Products
    <3>2. size * (m - k) = size * m - size * k BY <1>2, <2>1
    <3>3. size * m \in Int /\ size * k \in Int BY <1>2, <2>1, Products
    <3> QED BY <3>1, <3>2, <3>3
  <2>5. ASSUME k # m PROVE size * k + size <= size * m
    <3>1. m - k - 1 \in Int /\ m - k - 1 >= 0 BY <2>1, <2>5
    <3>2. size * (m - k - 1) >= 0 BY <1>2, <3>1, Products
    <3>3. size * (m - k - 1) = size * m - size * k - size BY <1>2, <2>1
    <3>4. size * m \in Int /\ size * k \in Int BY <1>2, <2>1, Products
    <3> QED BY <1>2, <3>2, <3>3, <3>4
  <2>6. size * m \in Int BY <1>2, <2>1, Products
  <2>7. size * (k - 1) < A BY <1>1, <1>2, <1>5, <2>2, <2>3, <2>4, <2>6
  <2>8. k # m => size * k < A BY <1>1, <1>2, <1>5, <2>2, <2>3, <2>5, <2>6
  <2>9. k = m => A <= size * k BY <1>5
  <2>10. /\ size * (k - 1) = P * (u * (k - 1)) /\ u * (k - 1) \in Nat
         /\ A - size * (k - 1) = P * (n - u * (k - 1)) /\ n - u * (k - 1) \in Nat
    <3>1. u * (k - 1) \in Int /\ u * (k - 1) >= 0 BY <2>1, Products
    <3>2. size * (k - 1) = P * (u * (k - 1)) BY <1>1, <2>1
    <3>3. A - size * (k - 1) = P * (n - u * (k - 1)) BY <1>1, <3>1, <3>2
    <3>4. P * (u * (k - 1)) <= P * n BY <1>1, <2>7, <3>2, <2>3
    <3>5. u * (k - 1) <= n
      <4>1. n \in Int BY <1>1
      <4> HIDE DEF P
      <4> QED BY <3>1, <3>4, <4>1, Ordered DEF P
    <3>6. n - u * (k - 1) \in Nat BY <1>1, <3>1, <3>5
    <3> QED BY <3>1, <3>2, <3>3, <3>6
  <2>11. (size * (k - 1)) % P = 0 /\ (A - size * (k - 1)) % P = 0
    BY <2>10, Multiple
  <2> QED BY <2>2, <2>3, <2>7, <2>8, <2>9, <2>11
<1>7. ASSUME NEW k \in 1..m
      PROVE  /\ At(k) \in [offset : Nat, bytes : Nat]
             /\ At(k).offset % P = 0 /\ At(k).bytes % P = 0 /\ At(k).bytes > 0
             /\ At(k).offset + At(k).bytes = IF k = m THEN A ELSE k * size
  <2> DEFINE x == (k - 1) * size
             y == k * size
             b == IF A - x < size THEN A - x ELSE size
  <2>1. /\ x \in Nat /\ x < A /\ y = x + size
        /\ k = m => A <= y
        /\ k # m => y < A
        /\ x % P = 0 /\ (A - x) % P = 0
    BY <1>6
  <2>2. At(k) = [offset |-> x, bytes |-> b] OBVIOUS
  <2> HIDE DEF x, y, At
  <2>3. b \in Nat /\ b > 0 /\ b % P = 0 BY <1>1, <1>2, <1>4, <2>1
  <2>4. x + b = IF k = m THEN A ELSE y
    <3>1. CASE k = m BY <1>1, <1>2, <2>1, <3>1
    <3>2. CASE k # m BY <1>1, <1>2, <2>1, <3>2
    <3> QED BY <3>1, <3>2
  <2> HIDE DEF b
  <2> QED BY <2>1, <2>2, <2>3, <2>4 DEF y
<1>8. \A k \in 1..m : k # m => k + 1 \in 1..m /\ At(k + 1).offset = k * size
  <2> SUFFICES ASSUME NEW k \in 1..m, k # m
               PROVE  k + 1 \in 1..m /\ At(k + 1).offset = k * size
    OBVIOUS
  <2>1. (k + 1) - 1 = k /\ k + 1 \in 1..m BY <1>5
  <2> QED BY <2>1
<1>9. m # 0 => At(1).offset = 0
  <2>1. (1 - 1) * size = 0 BY <1>2
  <2> QED BY <2>1
<1>10. m = 0 => A = 0
  <2> SUFFICES ASSUME m = 0 PROVE A = 0 OBVIOUS
  <2>1. size * m = 0 BY <1>2
  <2> QED BY <1>1, <1>5, <2>1
<1> HIDE DEF At
<1>11. tiles \in Seq([offset : Nat, bytes : Nat]) /\ Len(tiles) = m
  <2>1. \A D : \A s : s = [k \in 1..m |-> At(k)] /\ (\A k \in 1..m : At(k) \in D)
                      => s \in Seq(D) /\ Len(s) = m
    BY <1>5
  <2> QED BY <1>3, <1>7, <2>1
<1>12. \A k \in 1..m : tiles[k] = At(k) BY <1>3
<1>13. tiles = <<>> => m = 0 BY <1>11
<1>14. tiles # <<>> => m # 0 /\ 1 \in 1..m BY <1>5, <1>11
<1>15. Chained(tiles, 0, A)
  <2>1. tiles = <<>> => 0 = A BY <1>10, <1>13
  <2>2. tiles # <<>> => tiles[1].offset = 0 BY <1>9, <1>12, <1>14
  <2>3. ASSUME NEW k \in 1..Len(tiles)
        PROVE  /\ tiles[k].offset % P = 0 /\ tiles[k].bytes % P = 0 /\ tiles[k].bytes > 0
               /\ tiles[k].offset + tiles[k].bytes = IF k = Len(tiles) THEN A
                                                     ELSE tiles[k + 1].offset
    <3>1. k \in 1..m BY <1>11
    <3>2. k # m => tiles[k + 1].offset = k * size BY <1>8, <1>12, <3>1
    <3> QED BY <1>7, <1>11, <1>12, <3>1, <3>2
  <2> QED BY <1>11, <2>1, <2>2, <2>3 DEF Chained
<1> QED BY <1>15 DEF tiles, A

-----------------------------------------------------------------------------
(* The invariant *)

\* The places of the points the current chunk is about.
Current == IF job.kind = "file" THEN 1..Len(cloud) ELSE Batch(Len(cloud), Head(todo))

\* What a chunk of n points hands to the coders.
PackedOK(chunk, n) ==
  /\ chunk.num_points = n
  /\ IF chunk.is_direct THEN ToSet(chunk.sfc.deltas) \subseteq 0..(PatchLimit + 1)
     ELSE /\ chunk.blk # <<>> /\ Len(chunk.blk) = Len(chunk.cnt)
          /\ ToSet(chunk.repos.deltas) \subseteq 0..(PatchLimit + 1)
          /\ ToSet(chunk.quads.deltas) \subseteq 0..(PatchLimit + 1)

InputInv == cloud \in Clouds /\ rest \in 0..(PointBytes - 1) /\ job \in Jobs

\* A job of one chunk has reported nothing until it is done; the others have reported
\* what is before the calls that are left.
TodoInv ==
  IF job.kind \in {"file", "chunk"}
  THEN pc # "done" => todo = <<[offset |-> job.offset, bytes |-> job.bytes]>>
                      /\ reported = <<>>
  ELSE \E from \in Nat : /\ from % PointBytes = 0 /\ Chained(todo, from, AlignedSize)
                         /\ Lists(reported, PlacesBefore(Len(cloud), from))

\* The caller's vector has the points of the current chunk, each once.
VectorInv ==
  /\ ToSet(source) \subseteq 1..Len(cloud) /\ ToSet(points) \subseteq 1..Len(cloud)
  /\ pc \in {"read", "packed", "recovered"} =>
       todo # <<>> /\ Lists(source, Current) /\ Lists(points, Current)
  /\ pc = "done" => Lists(reported, Wanted)

\* Every symbol there can be has a code after the warm-up.
ProfileInv ==
  /\ job.kind = "shared" /\ pc \notin {"warmup", "refused"} =>
       0..(PatchLimit + 1) \subseteq profile.repos /\ 0..(PatchLimit + 1) \subseteq profile.quads
  /\ job.kind # "shared" => pc # "warmup"

CodecInv ==
  /\ pc \in {"warmup", "next", "read", "packed", "recovered", "done",
             "refused", "crashed", "threw"}
  /\ InputInv /\ TodoInv /\ VectorInv /\ ProfileInv
  /\ pc = "packed" => PackedOK(packed, Len(points))
  /\ RunsToTheEnd

-----------------------------------------------------------------------------
(* Every step keeps it *)

LEMMA JobLemma ==
  ASSUME job \in Jobs
  PROVE  /\ job.kind \in {"file", "chunk", "sweep", "blocks", "shared"}
         /\ job.offset \in Nat /\ job.bytes \in Nat
         /\ job.kind = "sweep" => job.bytes >= PointBytes
         /\ job.kind \in {"blocks", "shared"} => job.bytes > 0 /\ job.bytes % PointBytes = 0
BY PointAssumption

\* The calls of a job.
LEMMA CallsLemma ==
  ASSUME InputInv
  PROVE  IF job.kind \in {"file", "chunk"}
         THEN Calls(job) = <<[offset |-> job.offset, bytes |-> job.bytes]>>
         ELSE Chained(Calls(job), 0, AlignedSize)
<1>1. /\ job.kind \in {"file", "chunk", "sweep", "blocks", "shared"}
      /\ job.bytes \in Nat
      /\ job.kind = "sweep" => job.bytes >= PointBytes
      /\ job.kind \in {"blocks", "shared"} => job.bytes > 0 /\ job.bytes % PointBytes = 0
  BY JobLemma DEF InputInv
<1>2. cloud \in Clouds /\ rest \in 0..(PointBytes - 1) BY DEF InputInv
<1>3. CASE job.kind \in {"file", "chunk"} BY <1>3 DEF Calls
<1>4. CASE job.kind = "sweep"
  <2> DEFINE u == job.bytes \div PointBytes
             x == job.bytes % PointBytes
             size == job.bytes - x
  <2>1. PointBytes \in Nat \ {0} /\ job.bytes >= PointBytes BY <1>1, <1>4, PointAssumption
  <2>2. u \in Int /\ x \in 0..(PointBytes - 1) /\ job.bytes = PointBytes * u + x
    <3>1. job.bytes \in Int BY <1>1
    <3> QED BY <2>1, <3>1, ModuloLemma
  <2>3. Calls(job) = Tiles(size) BY <1>4 DEF Calls
  <2> HIDE DEF u, x
  <2>4. PointBytes * u \in Int BY <2>1, <2>2, Products
  <2>5. size = PointBytes * u BY <1>1, <2>2, <2>4
  <2>6. u \in Nat \ {0}
    <3>1. PointBytes * 1 = PointBytes /\ PointBytes * (u + 1) = PointBytes * u + PointBytes
      BY <2>1, <2>2
    <3>2. PointBytes * 1 < PointBytes * (u + 1) BY <2>1, <2>2, <2>4, <3>1
    <3>3. 1 \in Int BY <2>2
    <3>4. 1 <= u BY <2>2, <3>2, <3>3, Ordered
    <3> QED BY <2>2, <3>4
  <2> HIDE DEF size
  <2>7. Chained(Tiles(size), 0, AlignedSize) BY <1>2, <2>5, <2>6, TilesLemma
  <2> QED BY <1>4, <2>3, <2>7
<1>5. CASE job.kind \in {"blocks", "shared"}
  <2> DEFINE u == job.bytes \div PointBytes
  <2>1. u \in Nat /\ job.bytes = PointBytes * u BY <1>1, <1>5, Multiples
  <2> HIDE DEF u
  <2>2. u # 0
    <3>1. PointBytes \in Nat BY PointAssumption
    <3>2. PointBytes * 0 = 0 BY <3>1
    <3> QED BY <1>1, <1>5, <2>1, <3>2
  <2>3. Calls(job) = Tiles(job.bytes) BY <1>5 DEF Calls
  <2>4. Chained(Tiles(job.bytes), 0, AlignedSize) BY <1>2, <2>1, <2>2, TilesLemma
  <2> QED BY <1>5, <2>3, <2>4
<1> QED BY <1>1, <1>3, <1>4, <1>5

\* The first call that is left asks for whole points, except that of the flags.
LEMMA HeadLemma ==
  ASSUME InputInv, TodoInv, pc # "done", todo # <<>>
  PROVE  /\ Head(todo) \in [offset : Nat, bytes : Nat]
         /\ job.kind \in {"file", "chunk"} =>
              Head(todo) = [offset |-> job.offset, bytes |-> job.bytes]
         /\ job.kind \notin {"file", "chunk"} =>
              /\ ~Misaligned(Head(todo))
              /\ Lists(PointsIn(Head(todo)), Batch(Len(cloud), Head(todo)))
              /\ Batch(Len(cloud), Head(todo)) # {}
<1>1. cloud \in Clouds /\ rest \in 0..(PointBytes - 1) BY DEF InputInv
<1>2. job.offset \in Nat /\ job.bytes \in Nat BY JobLemma DEF InputInv
<1>3. CASE job.kind \in {"file", "chunk"}
  <2>1. todo = <<[offset |-> job.offset, bytes |-> job.bytes]>> BY <1>3 DEF TodoInv
  <2>2. Head(todo) = [offset |-> job.offset, bytes |-> job.bytes] BY <2>1
  <2> QED BY <1>2, <1>3, <2>2
<1>4. CASE job.kind \notin {"file", "chunk"}
  <2>1. PICK from \in Nat : from % PointBytes = 0 /\ Chained(todo, from, AlignedSize)
    BY <1>4 DEF TodoInv
  <2>2. Len(cloud) \in Nat /\ AlignedSize = PointBytes * Len(cloud) BY <1>1, SizesLemma
  <2> QED BY <1>4, <2>1, <2>2, ChainHead
<1> QED BY <1>3, <1>4

LEMMA CodecInit == Init => CodecInv
<1> SUFFICES ASSUME Init PROVE CodecInv OBVIOUS
<1> USE DEF Init
<1>1. InputInv BY DEF InputInv
<1>2. pc \in {"warmup", "next"} /\ (job.kind # "shared" => pc # "warmup")
      /\ (job.kind = "shared" => pc = "warmup")
  OBVIOUS
<1>3. ToSet(<<>>) = {}
  <2>1. DOMAIN <<>> = {} OBVIOUS
  <2> QED BY <2>1 DEF ToSet
<1>4. TodoInv
  <2>1. CASE job.kind \in {"file", "chunk"} BY <1>1, <2>1, CallsLemma DEF TodoInv
  <2>2. CASE job.kind \notin {"file", "chunk"}
    <3>1. Chained(todo, 0, AlignedSize) BY <1>1, <2>2, CallsLemma
    <3>2. PointBytes \in Nat \ {0} BY PointAssumption
    <3>3. 0 \in Nat /\ 0 % PointBytes = 0
      <4>1. PointBytes * 0 = 0 BY <3>2
      <4>2. 0 \in Nat OBVIOUS
      <4> QED BY <4>1, <4>2, Multiple
    <3>4. PlacesBefore(Len(cloud), 0) = {}
      <4> SUFFICES ASSUME NEW i \in 1..Len(cloud), i * PointBytes <= 0 PROVE FALSE
        BY DEF PlacesBefore
      <4>1. Len(cloud) \in Nat BY <1>1, SizesLemma DEF InputInv
      <4>2. i \in Int /\ i >= 1 BY <4>1
      <4>3. PointBytes * (i - 1) >= 0 BY <3>2, <4>2, Products
      <4>4. PointBytes * (i - 1) = i * PointBytes - PointBytes BY <3>2, <4>2
      <4>5. i * PointBytes \in Int BY <3>2, <4>2, Products
      <4> QED BY <3>2, <4>3, <4>4, <4>5
    <3>5. Lists(reported, PlacesBefore(Len(cloud), 0)) BY <3>4 DEF Lists
    <3> QED BY <2>2, <3>1, <3>3, <3>5 DEF TodoInv
  <2> QED BY <2>1, <2>2
<1>5. VectorInv BY <1>2, <1>3 DEF VectorInv
<1>6. ProfileInv BY <1>2 DEF ProfileInv
<1>7. RunsToTheEnd BY <1>2 DEF RunsToTheEnd
<1> QED BY <1>1, <1>2, <1>4, <1>5, <1>6, <1>7 DEF CodecInv

\* The input stays, and what is defined by it.
LEMMA SameInput ==
  ASSUME UNCHANGED input
  PROVE  /\ cloud' = cloud /\ rest' = rest /\ job' = job
         /\ AlignedSize' = AlignedSize /\ Wanted' = Wanted
         /\ InputInv => InputInv'
<1>1. cloud' = cloud /\ rest' = rest /\ job' = job BY DEF input
<1>2. AlignedSize' = AlignedSize BY <1>1 DEF AlignedSize, FileSize
<1>3. Wanted' = Wanted BY <1>1 DEF Wanted
<1> QED BY <1>1, <1>2, <1>3 DEF InputInv

\* A chunk is read.
LEMMA ReadStep ==
  ASSUME CodecInv, pc = "next", todo # <<>>, NEW ps, Read(ps), Lists(ps, Current)
  PROVE  CodecInv'
<1>1. /\ source' = ps /\ points' = ps /\ pc' = "read"
      /\ todo' = todo /\ profile' = profile /\ reported' = reported
  BY DEF Read
<1>2. UNCHANGED input BY DEF Read
<1>3. /\ cloud' = cloud /\ job' = job
      /\ AlignedSize' = AlignedSize /\ Wanted' = Wanted /\ InputInv'
  BY <1>2, SameInput DEF CodecInv
<1>4. Current' = Current BY <1>1, <1>3 DEF Current
<1>5. TodoInv' BY <1>1, <1>3 DEF CodecInv, TodoInv
<1>6. VectorInv'
  <2>1. ToSet(ps) = Current BY ListSize
  <2>2. Current \subseteq 1..Len(cloud) BY DEF Current, Batch
  <2> QED BY <1>1, <1>3, <1>4, <2>1, <2>2 DEF VectorInv
<1>7. ProfileInv' BY <1>1, <1>3 DEF CodecInv, ProfileInv
<1>8. RunsToTheEnd' BY <1>1 DEF RunsToTheEnd
<1> QED BY <1>1, <1>3, <1>5, <1>6, <1>7, <1>8 DEF CodecInv

\* The program ends.
LEMMA EndStep ==
  ASSUME CodecInv, pc # "done", NEW how \in {"refused", "crashed"}, End(how),
         how = "refused" => job.kind = "chunk" \/ AlignedSize = 0,
         how = "crashed" => Wanted = {} /\ job.kind # "shared"
  PROVE  CodecInv'
<1>1. /\ pc' = how /\ UNCHANGED input
      /\ todo' = todo /\ source' = source /\ points' = points
      /\ profile' = profile /\ reported' = reported
  BY DEF End
<1>2. /\ cloud' = cloud /\ job' = job
      /\ AlignedSize' = AlignedSize /\ Wanted' = Wanted /\ InputInv'
  BY <1>1, SameInput DEF CodecInv
<1>3. TodoInv' BY <1>1, <1>2 DEF CodecInv, TodoInv
<1>4. VectorInv' BY <1>1, <1>2 DEF CodecInv, VectorInv
<1>5. ProfileInv' BY <1>1, <1>2 DEF CodecInv, ProfileInv
<1>6. RunsToTheEnd' BY <1>1, <1>2 DEF RunsToTheEnd
<1> QED BY <1>1, <1>2, <1>3, <1>4, <1>5, <1>6 DEF CodecInv

\* A chunk is packed: the caller's vector is put in the order of a list of its places.
LEMMA PackStep ==
  ASSUME CodecInv, pc = "read", NEW chunk, NEW ords, Pack(chunk, ords),
         Lists(ords, 1..Len(points)), PackedOK(chunk, Len(ords))
  PROVE  CodecInv'
<1>1. /\ packed' = chunk /\ points' = Reordered(points, ords) /\ pc' = "packed"
      /\ UNCHANGED input
      /\ todo' = todo /\ source' = source /\ profile' = profile /\ reported' = reported
  BY DEF Pack
<1>2. /\ cloud' = cloud /\ job' = job
      /\ AlignedSize' = AlignedSize /\ Wanted' = Wanted /\ InputInv'
  BY <1>1, SameInput DEF CodecInv
<1>3. Current' = Current BY <1>1, <1>2 DEF Current
<1>4. TodoInv' BY <1>1, <1>2 DEF CodecInv, TodoInv
<1>5. /\ todo # <<>> /\ Lists(source, Current) /\ Lists(points, Current)
      /\ ToSet(source) \subseteq 1..Len(cloud)
  BY DEF CodecInv, VectorInv
<1>6. Lists(points', Current) BY <1>1, <1>5, ListsReordered
<1>7. VectorInv'
  <2>1. ToSet(points') = Current BY <1>6, ListSize
  <2>2. Current \subseteq 1..Len(cloud) BY DEF Current, Batch
  <2> QED BY <1>1, <1>2, <1>3, <1>5, <1>6, <2>1, <2>2 DEF VectorInv
<1>8. Len(points') = Len(ords)
  <2>1. ords \in Seq(1..Len(points)) BY DEF Lists
  <2>2. DOMAIN ords = 1..Len(ords) /\ Len(ords) \in Nat BY <2>1
  <2>3. points' = [i \in 1..Len(ords) |-> points[ords[i]]] BY <1>1, <2>2 DEF Reordered
  <2> QED BY <2>2, <2>3
<1>9. ProfileInv' BY <1>1, <1>2 DEF CodecInv, ProfileInv
<1>10. RunsToTheEnd' BY <1>1 DEF RunsToTheEnd
<1> QED BY <1>1, <1>2, <1>4, <1>7, <1>8, <1>9, <1>10 DEF CodecInv

\* Either kind of chunk has a place for each point.
LEMMA BlockChunkLemma ==
  ASSUME cloud \in Clouds, NEW ps \in Seq(1..Len(cloud)), NEW range, NEW offset,
         NEW ns \in SortedNodes(range, CellsOf(ps)),
         NEW ords, ords = [j \in DOMAIN ns |-> ns[j].ord]
  PROVE  /\ Lists(ords, 1..Len(ps)) /\ PackedOK(BlockChunk(ns, range, offset), Len(ords))
         /\ ToSet(PatchEncode(Repos(ns)).deltas) \subseteq 0..(PatchLimit + 1)
         /\ ToSet(PatchEncode(Quads(ns)).deltas) \subseteq 0..(PatchLimit + 1)
<1> DEFINE n == Len(ps)
           cs == CellsOf(ps)
           f == BlockChunk(ns, range, offset)
<1>1. n \in Nat /\ cs \in [1..n -> Cells]
  <2>1. n \in Nat OBVIOUS
  <2>2. cs \in Seq(Cells) /\ Len(cs) = n BY CellsLemma
  <2>3. \A s \in Seq(Cells) : s \in [1..Len(s) -> Cells] OBVIOUS
  <2> HIDE DEF cs
  <2> QED BY <2>1, <2>2, <2>3
<1> HIDE DEF cs
<1>2. ns \in SortedNodes(range, cs) BY DEF cs
<1> HIDE DEF n
<1>3. /\ Len(ns) = n /\ DOMAIN ns = 1..n
      /\ \A j \in 1..n : ns[j].quad \in Nat /\ ns[j].re \in Nat
      /\ Lists([j \in 1..n |-> ns[j].ord], 1..n)
  BY <1>1, <1>2, NodesLemma
<1>4. ords = [j \in 1..n |-> ns[j].ord] /\ Len(ords) = n BY <1>1, <1>3
<1>5. Quads(ns) \in [1..n -> Nat] /\ Repos(ns) \in [1..n -> Nat] BY <1>1, <1>3, StreamsLemma
<1>6. /\ ToSet(PatchEncode(Repos(ns)).deltas) \subseteq 0..(PatchLimit + 1)
      /\ ToSet(PatchEncode(Quads(ns)).deltas) \subseteq 0..(PatchLimit + 1)
  BY <1>1, <1>5, PatchLemma
<1>7. Deltas(Blkst(ns)) # <<>> /\ Len(Deltas(Blkst(ns))) = Len(Deltas(Blkcnt(ns)))
  <2>1. ns \in [1..n -> {ns[j] : j \in DOMAIN ns}]
    <3>1. ns \in SetToSeqs({NodeOf(range, cs[i], i) : i \in DOMAIN cs}) BY <1>2 DEF SortedNodes
    <3>2. \E D, T : ns \in [D -> T]
      <4>1. \A S : \A s \in SetToSeqs(S) : s \in [1..Cardinality(S) -> S] BY DEF SetToSeqs
      <4> QED BY <3>1, <4>1
    <3> QED BY <1>3, <3>2
  <2>2. \A D : \A s \in [1..n -> D] : s \in Seq(D) BY <1>1
  <2>3. ns \in Seq({ns[j] : j \in DOMAIN ns}) BY <2>1, <2>2
  <2> QED BY <1>1, <1>3, <2>3, TableOfBlocks
<1>8. /\ f.num_points = n /\ f.is_direct = FALSE
      /\ f.blk = Deltas(Blkst(ns)) /\ f.cnt = Deltas(Blkcnt(ns))
      /\ f.repos = PatchEncode(Repos(ns)) /\ f.quads = PatchEncode(Quads(ns))
  BY <1>3 DEF BlockChunk
<1> HIDE DEF f
<1>9. PackedOK(f, Len(ords)) BY <1>4, <1>6, <1>7, <1>8 DEF PackedOK
<1>10. Lists(ords, 1..n)
  <2>1. Lists([j \in 1..n |-> ns[j].ord], 1..n) BY <1>3
  <2> QED BY <1>4, <2>1
<1> QED BY <1>6, <1>9, <1>10 DEF f, n

LEMMA DirectChunkLemma ==
  ASSUME cloud \in Clouds, NEW ps \in Seq(1..Len(cloud)), NEW offset,
         NEW es, es = Entries(CellsOf(ps)),
         NEW ords, ords = [i \in DOMAIN es |-> es[i][2]]
  PROVE  Lists(ords, 1..Len(ps)) /\ PackedOK(DirectChunk(es, offset), Len(ords))
<1> DEFINE n == Len(ps)
           cs == CellsOf(ps)
           codes == [i \in DOMAIN es |-> es[i][1]]
           f == DirectChunk(es, offset)
<1>1. n \in Nat /\ cs \in [1..n -> Cells]
  <2>1. n \in Nat OBVIOUS
  <2>2. cs \in Seq(Cells) /\ Len(cs) = n BY CellsLemma
  <2>3. \A s \in Seq(Cells) : s \in [1..Len(s) -> Cells] OBVIOUS
  <2> HIDE DEF cs
  <2> QED BY <2>1, <2>2, <2>3
<1> HIDE DEF cs
<1>2. es = Entries(cs) BY DEF cs
<1> HIDE DEF n
<1>3. /\ Len(es) = n /\ DOMAIN es = 1..n
      /\ \A i \in 1..n : es[i][1] \in Nat
      /\ Lists([i \in 1..n |-> es[i][2]], 1..n)
  <2>1. cs \in [1..n -> Triples] BY <1>1 DEF Cells, Triples
  <2> QED BY <1>1, <1>2, <2>1, EntriesLemma
<1>4. ords = [i \in 1..n |-> es[i][2]] /\ Len(ords) = n BY <1>1, <1>3
<1>5. codes \in [1..n -> Nat] BY <1>3
<1>6. f.num_points = n /\ f.is_direct = TRUE /\ f.sfc = PatchEncode(Deltas(codes))
  BY <1>3 DEF DirectChunk
<1> HIDE DEF codes, f
<1>7. Deltas(codes) \in [1..n -> Nat] BY <1>1, <1>5, DeltasLemma
<1>8. ToSet(f.sfc.deltas) \subseteq 0..(PatchLimit + 1) BY <1>1, <1>6, <1>7, PatchLemma
<1>9. PackedOK(f, Len(ords)) BY <1>4, <1>6, <1>8 DEF PackedOK
<1>10. Lists(ords, 1..n)
  <2>1. Lists([i \in 1..n |-> es[i][2]], 1..n) BY <1>3
  <2> QED BY <1>4, <2>1
<1> QED BY <1>9, <1>10 DEF f, n

LEMMA ReadFileStep == ASSUME CodecInv, ReadFile PROVE CodecInv'
<1> DEFINE n == Len(cloud)
           ps == [i \in DOMAIN cloud |-> i]
<1>1. pc = "next" /\ job.kind = "file" /\ Read(ps) BY DEF ReadFile
<1>2. n \in Nat /\ DOMAIN cloud = 1..n
  <2>1. cloud \in Seq(Point) BY PointAssumption DEF CodecInv, InputInv
  <2> QED BY <2>1
<1>3. Lists(ps, 1..n)
  <2> HIDE DEF n
  <2>1. ps = [i \in 1..n |-> i] BY <1>2
  <2>2. ps \in Seq(1..n) /\ Len(ps) = n BY <1>2, <2>1
  <2> HIDE DEF ps
  <2> QED BY <2>1, <2>2 DEF Lists
<1>4. Current = 1..n BY <1>1 DEF Current
<1>5. todo # <<>>
  <2>1. todo = <<[offset |-> job.offset, bytes |-> job.bytes]>> BY <1>1 DEF CodecInv, TodoInv
  <2> QED BY <2>1
<1> HIDE DEF ps
<1> QED BY <1>1, <1>3, <1>4, <1>5, ReadStep

LEMMA ReadChunkStep == ASSUME CodecInv, ReadChunk PROVE CodecInv'
<1> DEFINE call == Head(todo)
           ps == PointsIn([call EXCEPT !.bytes = Clamped(call)])
<1>1. /\ pc = "next" /\ todo # <<>> /\ job.kind \in {"chunk", "sweep"}
      /\ ~Misaligned(call) /\ Read(ps)
  BY DEF ReadChunk, Reads
<1>2. InputInv /\ TodoInv BY DEF CodecInv
<1>3. call \in [offset : Nat, bytes : Nat] BY <1>1, <1>2, HeadLemma
<1> HIDE DEF call
<1>4. Lists(ps, Batch(Len(cloud), call)) BY <1>1, <1>2, <1>3, ChunkRead DEF InputInv
<1>5. Current = Batch(Len(cloud), call) BY <1>1 DEF Current, call
<1> HIDE DEF ps
<1> QED BY <1>1, <1>4, <1>5, ReadStep

LEMMA ReadBlockStep == ASSUME CodecInv, ReadBlock PROVE CodecInv'
<1> DEFINE ps == PointsIn(Head(todo))
<1>1. pc = "next" /\ todo # <<>> /\ job.kind \in {"blocks", "shared"} /\ Read(ps)
  BY DEF ReadBlock, Reads
<1>2. InputInv /\ TodoInv BY DEF CodecInv
<1>3. Lists(ps, Batch(Len(cloud), Head(todo))) BY <1>1, <1>2, HeadLemma
<1>4. Current = Batch(Len(cloud), Head(todo)) BY <1>1 DEF Current
<1> HIDE DEF ps
<1> QED BY <1>1, <1>3, <1>4, ReadStep

LEMMA RefuseChunkStep == ASSUME CodecInv, RefuseChunk PROVE CodecInv'
<1>1. /\ pc = "next" /\ todo # <<>> /\ job.kind \in {"chunk", "sweep"}
      /\ Misaligned(Head(todo)) /\ End("refused")
  BY DEF RefuseChunk, Reads
<1>2. InputInv /\ TodoInv BY DEF CodecInv
<1>3. job.kind = "chunk" BY <1>1, <1>2, HeadLemma
<1> QED BY <1>1, <1>3, EndStep

LEMMA RefuseInputStep == ASSUME CodecInv, RefuseInput PROVE CodecInv'
<1>1. pc # "done" /\ AlignedSize = 0 /\ End("refused") BY DEF RefuseInput
<1> QED BY <1>1, EndStep

LEMMA FitProfileStep == ASSUME CodecInv, FitProfile PROVE CodecInv'
<1> DEFINE ps == PointsIn(Head(todo))
           range == RangeOf(ToSet(CellsOf(ps)))
<1>1. /\ pc = "warmup" /\ todo # <<>> /\ pc' = "next" /\ UNCHANGED input
      /\ todo' = todo /\ source' = source /\ points' = points /\ reported' = reported
      /\ \E ns \in SortedNodes(range, CellsOf(ps)) :
           profile' = [repos |-> CompleteSymbols(PatchEncode(Repos(ns)).deltas),
                       quads |-> CompleteSymbols(PatchEncode(Quads(ns)).deltas)]
  BY DEF FitProfile
<1>2. /\ 0..(PatchLimit + 1) \subseteq profile'.repos
      /\ 0..(PatchLimit + 1) \subseteq profile'.quads
  BY <1>1 DEF CompleteSymbols
<1>3. /\ cloud' = cloud /\ job' = job
      /\ AlignedSize' = AlignedSize /\ Wanted' = Wanted /\ InputInv'
  BY <1>1, SameInput DEF CodecInv
<1>4. TodoInv' BY <1>1, <1>3 DEF CodecInv, TodoInv
<1>5. VectorInv' BY <1>1, <1>3 DEF CodecInv, VectorInv
<1>6. ProfileInv' BY <1>1, <1>2, <1>3 DEF CodecInv, ProfileInv
<1>7. RunsToTheEnd' BY <1>1 DEF RunsToTheEnd
<1> QED BY <1>1, <1>3, <1>4, <1>5, <1>6, <1>7 DEF CodecInv

\* The caller's vector is a sequence of places.
LEMMA VectorLemma ==
  ASSUME CodecInv, pc \in {"read", "packed", "recovered"}
  PROVE  /\ cloud \in Clouds /\ points \in Seq(1..Len(cloud))
         /\ todo # <<>> /\ Lists(points, Current)
<1>1. cloud \in Clouds /\ todo # <<>> /\ Lists(points, Current)
  BY DEF CodecInv, InputInv, VectorInv
<1>2. points \in Seq(Current) /\ Current \subseteq 1..Len(cloud)
  BY <1>1 DEF Lists, Current, Batch
<1>3. \A D, E : D \subseteq E => \A s \in Seq(D) : s \in Seq(E)
  <2> SUFFICES ASSUME NEW D, NEW E, D \subseteq E, NEW s \in Seq(D) PROVE s \in Seq(E) OBVIOUS
  <2>1. Len(s) \in Nat /\ s \in [1..Len(s) -> E] OBVIOUS
  <2> QED BY <2>1
<1> QED BY <1>1, <1>2, <1>3

LEMMA CompressDirectStep == ASSUME CodecInv, CompressDirect PROVE CodecInv'
<1> DEFINE es == Entries(CellsOf(points))
           ords == [i \in DOMAIN es |-> es[i][2]]
           chunk == DirectChunk(es, Offset(points))
<1>1. pc = "read" /\ Pack(chunk, ords) BY DEF CompressDirect
<1>2. cloud \in Clouds /\ points \in Seq(1..Len(cloud)) BY <1>1, VectorLemma
<1>3. Lists(ords, 1..Len(points)) /\ PackedOK(chunk, Len(ords)) BY <1>2, DirectChunkLemma
<1> HIDE DEF ords, chunk
<1> QED BY <1>1, <1>3, PackStep

LEMMA CompressBlocksStep ==
  ASSUME CodecInv, CompressBlocks \/ CompressWithProfile PROVE CodecInv'
<1> DEFINE range == RangeOf(ToSet(CellsOf(points)))
           Ords(ns) == [j \in DOMAIN ns |-> ns[j].ord]
           Chunk(ns) == BlockChunk(ns, range, Offset(points))
           Coded(ns) == /\ ToSet(Chunk(ns).repos.deltas) \subseteq profile.repos
                        /\ ToSet(Chunk(ns).quads.deltas) \subseteq profile.quads
<1>1. pc = "read" BY DEF CompressBlocks, CompressWithProfile
<1>2. cloud \in Clouds /\ points \in Seq(1..Len(cloud)) BY <1>1, VectorLemma
<1>3. PICK ns \in SortedNodes(range, CellsOf(points)) :
        \/ Pack(Chunk(ns), Ords(ns))
        \/ job.kind = "shared" /\ ~Coded(ns)
  BY DEF CompressBlocks, CompressWithProfile
<1> DEFINE ords == Ords(ns)
<1>4. /\ Lists(ords, 1..Len(points)) /\ PackedOK(Chunk(ns), Len(ords))
      /\ ToSet(PatchEncode(Repos(ns)).deltas) \subseteq 0..(PatchLimit + 1)
      /\ ToSet(PatchEncode(Quads(ns)).deltas) \subseteq 0..(PatchLimit + 1)
  <2> HIDE DEF range
  <2> QED BY <1>2, BlockChunkLemma
<1>5. ASSUME job.kind = "shared" PROVE Coded(ns)
  <2>1. /\ 0..(PatchLimit + 1) \subseteq profile.repos
        /\ 0..(PatchLimit + 1) \subseteq profile.quads
    BY <1>1, <1>5 DEF CodecInv, ProfileInv
  <2>2. Chunk(ns).repos = PatchEncode(Repos(ns)) /\ Chunk(ns).quads = PatchEncode(Quads(ns))
    BY DEF BlockChunk
  <2> HIDE DEF Chunk
  <2> QED BY <1>4, <2>1, <2>2
<1> DEFINE chunk == Chunk(ns)
<1>6. Pack(chunk, ords) BY <1>3, <1>5
<1>7. Lists(ords, 1..Len(points)) /\ PackedOK(chunk, Len(ords)) BY <1>4
<1> HIDE DEF ords, chunk
<1> QED BY <1>1, <1>6, <1>7, PackStep

\* The vector is empty only if no point was asked for.
LEMMA CrashStep == ASSUME CodecInv, CrashOnNothing PROVE CodecInv'
<1>1. pc = "read" /\ job.kind # "shared" /\ points = <<>> /\ End("crashed")
  BY DEF CrashOnNothing
<1>2. InputInv /\ TodoInv BY DEF CodecInv
<1>3. todo # <<>> /\ Lists(points, Current) BY <1>1, VectorLemma
<1>4. Current = {}
  <2>1. \A i \in 1..Len(<<>>) : FALSE OBVIOUS
  <2> QED BY <1>1, <1>3, <2>1 DEF Lists
<1>5. job.kind \in {"file", "chunk"} BY <1>1, <1>2, <1>3, <1>4, HeadLemma DEF Current
<1>6. Wanted = {}
  <2>1. DOMAIN cloud = 1..Len(cloud)
    <3>1. cloud \in Seq(Point) BY <1>2, PointAssumption DEF InputInv
    <3> QED BY <3>1
  <2>2. CASE job.kind = "file" BY <1>4, <2>1, <2>2 DEF Wanted, Current
  <2>3. CASE job.kind = "chunk"
    <3>1. Head(todo) = [offset |-> job.offset, bytes |-> job.bytes]
      BY <1>1, <1>2, <1>3, <2>3, HeadLemma
    <3>2. Batch(Len(cloud), [offset |-> job.offset, bytes |-> job.bytes]) = {}
      BY <1>4, <2>3, <3>1 DEF Current
    <3> QED BY <2>1, <2>3, <3>2 DEF Wanted, Batch
  <2> QED BY <1>5, <2>2, <2>3
<1> QED BY <1>1, <1>6, EndStep

LEMMA DecompressStep == ASSUME CodecInv, Decompress PROVE CodecInv'
<1>1. /\ pc = "packed" /\ pc' = "recovered" /\ UNCHANGED input
      /\ todo' = todo /\ source' = source /\ points' = points
      /\ profile' = profile /\ reported' = reported
  BY DEF Decompress
<1>2. /\ cloud' = cloud /\ job' = job
      /\ AlignedSize' = AlignedSize /\ Wanted' = Wanted /\ InputInv'
  BY <1>1, SameInput DEF CodecInv
<1>3. Current' = Current BY <1>1, <1>2 DEF Current
<1>4. TodoInv' BY <1>1, <1>2 DEF CodecInv, TodoInv
<1>5. VectorInv' BY <1>1, <1>2, <1>3 DEF CodecInv, VectorInv
<1>6. ProfileInv' BY <1>1, <1>2 DEF CodecInv, ProfileInv
<1>7. RunsToTheEnd' BY <1>1 DEF RunsToTheEnd
<1> QED BY <1>1, <1>2, <1>4, <1>5, <1>6, <1>7 DEF CodecInv

LEMMA ReportStep == ASSUME CodecInv, Report PROVE CodecInv'
<1> DEFINE n == Len(cloud)
<1>1. /\ pc = "recovered" /\ UNCHANGED input
      /\ reported' = reported \o points /\ todo' = Tail(todo)
      /\ pc' = IF todo' = <<>> THEN "done" ELSE "next"
      /\ source' = source /\ points' = points /\ profile' = profile
  BY DEF Report
<1>2. InputInv /\ TodoInv BY DEF CodecInv
<1>3. /\ cloud' = cloud /\ job' = job
      /\ AlignedSize' = AlignedSize /\ Wanted' = Wanted /\ InputInv'
  BY <1>1, <1>2, SameInput
<1>4. /\ cloud \in Clouds /\ points \in Seq(1..n)
      /\ todo # <<>> /\ Lists(points, Current)
  BY <1>1, VectorLemma
<1>5. n \in Nat /\ AlignedSize = PointBytes * n /\ DOMAIN cloud = 1..n
  <2>1. n \in Nat /\ AlignedSize = PointBytes * n BY <1>2, SizesLemma DEF InputInv
  <2>2. cloud \in Seq(Point) BY <1>4, PointAssumption
  <2> QED BY <2>1, <2>2
<1>6. TodoInv' /\ (pc' = "done" => Lists(reported', Wanted))
  <2>1. CASE job.kind \in {"file", "chunk"}
    <3>1. todo = <<[offset |-> job.offset, bytes |-> job.bytes]>> /\ reported = <<>>
      BY <1>1, <1>2, <2>1 DEF TodoInv
    <3>2. Tail(todo) = <<>> /\ Head(todo) = [offset |-> job.offset, bytes |-> job.bytes]
      BY <3>1
    <3>3. pc' = "done" BY <1>1, <3>2
    <3>4. reported' = points
      <4>1. \A D : \A s \in Seq(D) : <<>> \o s = s OBVIOUS
      <4> QED BY <1>1, <1>4, <3>1, <4>1
    <3>5. Current = Wanted
      <4>1. CASE job.kind = "file" BY <1>5, <4>1 DEF Wanted, Current
      <4>2. CASE job.kind = "chunk"
        <5>1. Current = Batch(n, [offset |-> job.offset, bytes |-> job.bytes])
          BY <3>2, <4>2 DEF Current
        <5> QED BY <1>5, <4>2, <5>1 DEF Wanted, Batch
      <4> QED BY <2>1, <4>1, <4>2
    <3>6. TodoInv' BY <1>3, <2>1, <3>3 DEF TodoInv
    <3> QED BY <1>4, <3>4, <3>5, <3>6
  <2>2. CASE job.kind \notin {"file", "chunk"}
    <3> DEFINE Past(x) == PlacesBefore(n, x)
    <3>1. PICK from \in Nat : /\ from % PointBytes = 0 /\ Chained(todo, from, AlignedSize)
                              /\ Lists(reported, Past(from))
      BY <1>2, <2>2 DEF TodoInv
    <3> DEFINE next == from + Head(todo).bytes
               batch == Batch(n, Head(todo))
    <3>2. /\ next \in Nat /\ next % PointBytes = 0
          /\ Chained(Tail(todo), next, AlignedSize)
          /\ Past(from) \cap batch = {}
          /\ Past(from) \cup batch = Past(next)
      BY <1>4, <1>5, <3>1, ChainHead
    <3>3. Current = batch BY <2>2 DEF Current
    <3>4. Lists(reported', Past(next))
      <4> HIDE DEF Past, next, batch
      <4>1. Lists(reported \o points, Past(from) \cup batch)
        BY <1>4, <3>1, <3>2, <3>3, ListsOneAfterAnother
      <4> QED BY <1>1, <3>2, <4>1
    <3>5. ASSUME pc' = "done" PROVE Lists(reported', Wanted)
      <4>1. Tail(todo) = <<>> BY <1>1, <3>5
      <4>2. next = PointBytes * n BY <1>5, <3>2, <4>1 DEF Chained
      <4>3. PointBytes \in Nat \ {0} BY PointAssumption
      <4>4. Past(next) = 1..n
        <5>1. ASSUME NEW i \in 1..n PROVE i * PointBytes <= next
          <6>1. i \in Int /\ n \in Int /\ i <= n BY <1>5
          <6>2. PointBytes * i <= PointBytes * n BY <6>1, Ordered
          <6> QED BY <4>2, <4>3, <6>1, <6>2
        <5> QED BY <5>1 DEF PlacesBefore
      <4>5. Wanted = 1..n BY <1>5, <2>2 DEF Wanted
      <4> QED BY <3>4, <4>4, <4>5
    <3>6. TodoInv'
      <4>1. /\ Chained(todo', next, AlignedSize') /\ Lists(reported', PlacesBefore(Len(cloud'), next))
            /\ job'.kind \notin {"file", "chunk"}
        BY <1>1, <1>3, <2>2, <3>2, <3>4
      <4> HIDE DEF next
      <4> QED BY <3>2, <4>1 DEF TodoInv
    <3> QED BY <3>5, <3>6
  <2> QED BY <2>1, <2>2
<1>7. VectorInv'
  <2>1. pc' \in {"next", "done"} BY <1>1
  <2> QED BY <1>1, <1>3, <1>6, <2>1 DEF CodecInv, VectorInv
<1>8. ProfileInv' BY <1>1, <1>3 DEF CodecInv, ProfileInv
<1>9. RunsToTheEnd' BY <1>1 DEF RunsToTheEnd
<1> QED BY <1>1, <1>3, <1>6, <1>7, <1>8, <1>9 DEF CodecInv

\* Nothing happens.
LEMMA CodecStutter == ASSUME CodecInv, UNCHANGED vars PROVE CodecInv'
<1>1. /\ UNCHANGED input /\ pc' = pc /\ todo' = todo /\ source' = source /\ points' = points
      /\ profile' = profile /\ packed' = packed /\ reported' = reported
  BY DEF vars, input
<1>2. /\ cloud' = cloud /\ job' = job
      /\ AlignedSize' = AlignedSize /\ Wanted' = Wanted /\ InputInv'
  BY <1>1, SameInput DEF CodecInv
<1>3. Current' = Current BY <1>1, <1>2 DEF Current
<1>4. TodoInv' BY <1>1, <1>2 DEF CodecInv, TodoInv
<1>5. VectorInv' BY <1>1, <1>2, <1>3 DEF CodecInv, VectorInv
<1>6. ProfileInv' BY <1>1, <1>2 DEF CodecInv, ProfileInv
<1>7. RunsToTheEnd' BY <1>1, <1>2 DEF CodecInv, RunsToTheEnd
<1> QED BY <1>1, <1>2, <1>4, <1>5, <1>6, <1>7 DEF CodecInv

\* The invariant of the per-point codec, for any input, chunk size, block edge, word
\* and curve.
THEOREM CodecInvariant == Spec => []CodecInv
<1>1. Init => CodecInv BY CodecInit
<1>2. CodecInv /\ [Next]_vars => CodecInv'
  <2> SUFFICES ASSUME CodecInv, [Next]_vars PROVE CodecInv' OBVIOUS
  <2>1. CASE ReadFile BY <2>1, ReadFileStep
  <2>2. CASE ReadChunk BY <2>2, ReadChunkStep
  <2>3. CASE RefuseChunk BY <2>3, RefuseChunkStep
  <2>4. CASE ReadBlock BY <2>4, ReadBlockStep
  <2>5. CASE RefuseInput BY <2>5, RefuseInputStep
  <2>6. CASE FitProfile BY <2>6, FitProfileStep
  <2>7. CASE CompressDirect BY <2>7, CompressDirectStep
  <2>8. CASE CrashOnNothing BY <2>8, CrashStep
  <2>9. CASE CompressBlocks \/ CompressWithProfile BY <2>9, CompressBlocksStep
  <2>10. CASE Decompress BY <2>10, DecompressStep
  <2>11. CASE Report BY <2>11, ReportStep
  <2>12. CASE UNCHANGED vars BY <2>12, CodecStutter
  <2> QED BY <2>1, <2>2, <2>3, <2>4, <2>5, <2>6, <2>7, <2>8, <2>9, <2>10, <2>11, <2>12 DEF Next
<1> QED BY <1>1, <1>2, PTL DEF Spec

\* Compressing leaves all the points in the caller's vector, in another order: the
\* roundtrip check compares with that vector and could not tell if one were lost.
THEOREM NoPointIsLost == Spec => []Permuted
<1>1. CodecInv => Permuted
  <2> SUFFICES ASSUME CodecInv, pc \in {"packed", "recovered"}
               PROVE  Len(points) = Len(source) /\ ToSet(points) = ToSet(source)
    BY DEF Permuted
  <2>1. Lists(source, Current) /\ Lists(points, Current) BY DEF CodecInv, VectorInv
  <2> QED BY <2>1, ListSize
<1> QED BY <1>1, CodecInvariant, PTL

\* The chunks of a sweep and the blocks of the MPI driver tile the input, and flags
\* that ask for more than there is give what there is: every point is reported once.
THEOREM ChunksTileTheInput == Spec => []EveryPointOnce
<1>1. CodecInv => EveryPointOnce
  <2> SUFFICES ASSUME CodecInv, pc = "done"
               PROVE  ToSet(reported) = Wanted /\ Len(reported) = Cardinality(Wanted)
    BY DEF EveryPointOnce
  <2>1. Lists(reported, Wanted) BY DEF CodecInv, VectorInv
  <2> QED BY <2>1, ListSize
<1> QED BY <1>1, CodecInvariant, PTL

\* Only flags no chunk of a sweep has are refused, only a program without points
\* crashes, and no block needs a symbol the shared codebooks have no code for.
THEOREM NothingThrows == Spec => []RunsToTheEnd
<1>1. CodecInv => RunsToTheEnd BY DEF CodecInv
<1> QED BY <1>1, CodecInvariant, PTL

\* Places are places of the input, and what a chunk hands to the coders fits a byte.
THEOREM CodecTypes == Spec => []TypeOK
<1>1. CodecInv => TypeOK
  <2> SUFFICES ASSUME CodecInv PROVE TypeOK OBVIOUS
  <2>1. DOMAIN cloud = 1..Len(cloud) /\ Len(cloud) \in Nat
    <3>1. cloud \in Seq(Point) BY PointAssumption DEF CodecInv, InputInv
    <3> QED BY <3>1
  <2>2. ToSet(reported) \subseteq 1..Len(cloud)
    <3>1. CASE pc = "done"
      <4>1. Lists(reported, Wanted) BY <3>1 DEF CodecInv, VectorInv
      <4>2. Wanted \subseteq 1..Len(cloud) BY <2>1 DEF Wanted
      <4> QED BY <4>1, <4>2, ListSize
    <3>2. CASE pc # "done" /\ job.kind \in {"file", "chunk"}
      <4>1. reported = <<>> BY <3>2 DEF CodecInv, TodoInv
      <4>2. DOMAIN <<>> = {} OBVIOUS
      <4> QED BY <4>1, <4>2 DEF ToSet
    <3>3. CASE job.kind \notin {"file", "chunk"}
      <4>1. PICK from \in Nat : Lists(reported, PlacesBefore(Len(cloud), from))
        BY <3>3 DEF CodecInv, TodoInv
      <4>2. PlacesBefore(Len(cloud), from) \subseteq 1..Len(cloud) BY DEF PlacesBefore
      <4> QED BY <4>1, <4>2, ListSize
    <3> QED BY <3>1, <3>2, <3>3
  <2>3. ToSet(source) \subseteq 1..Len(cloud) /\ ToSet(points) \subseteq 1..Len(cloud)
    BY DEF CodecInv, VectorInv
  <2>4. /\ pc = "packed" => PackedOK(packed, Len(points))
        /\ pc \in {"warmup", "next", "read", "packed", "recovered", "done",
                   "refused", "crashed", "threw"}
    BY DEF CodecInv
  <2> QED BY <2>1, <2>2, <2>3, <2>4 DEF TypeOK, PackedOK
<1> QED BY <1>1, CodecInvariant, PTL
-----------------------------------------------------------------------------
(* What is recovered *)

\* What fits a chunk of n points in cells C; nothing in the code checks it.  In direct
\* mode a coordinate has CoordBits bits, and a code is a word.  In blocks a coordinate
\* is an int and not negative, the numbers of the blocks are words, and there are
\* fewer points than words.
FitIn(C, n, direct) ==
  IF direct THEN \A c \in C : Codable(c) /\ MortonCode(c) < WordSize
  ELSE /\ n < WordSize
       /\ \A c \in C : \A a \in 1..3 : 0 <= c[a] /\ 2 * c[a] < IntSize
       /\ Across(RangeOf(C), 1) * Across(RangeOf(C), 2) * Across(RangeOf(C), 3) <= WordSize

Fits == FitIn(ToSet(CellsOf(points)), Len(points), packed.is_direct)

\* The cells of points, as a function.
LEMMA CellsFunction ==
  ASSUME cloud \in Clouds, NEW ps \in Seq(1..Len(cloud))
  PROVE  /\ Len(ps) \in Nat /\ CellsOf(ps) \in [1..Len(ps) -> Triples]
         /\ ToSet(CellsOf(ps)) = {CellsOf(ps)[i] : i \in 1..Len(ps)}
<1> DEFINE n == Len(ps)
           cs == CellsOf(ps)
<1>1. n \in Nat OBVIOUS
<1>2. cs \in Seq(Cells) /\ Len(cs) = n BY CellsLemma
<1>3. \A s \in Seq(Cells) : s \in [1..Len(s) -> Cells] OBVIOUS
<1> HIDE DEF cs, n
<1>4. cs \in [1..n -> Triples] BY <1>2, <1>3 DEF Cells, Triples
<1>5. ToSet(cs) = {cs[i] : i \in 1..n} BY <1>4 DEF ToSet
<1> QED BY <1>1, <1>4, <1>5 DEF cs, n

\* Points in another order have the same offset, and their cells in that order.
LEMMA CellsReordered ==
  ASSUME cloud \in Clouds, NEW ps \in Seq(1..Len(cloud)), NEW ords, Lists(ords, 1..Len(ps)),
         NEW qs, qs = Reordered(ps, ords)
  PROVE  /\ Len(qs) = Len(ps) /\ Offset(qs) = Offset(ps)
         /\ CellsOf(qs) = [i \in 1..Len(ps) |-> CellsOf(ps)[ords[i]]]
         /\ ToSet(CellsOf(qs)) = ToSet(CellsOf(ps))
<1> DEFINE n == Len(ps)
           At(r, i) == <<cloud[r[i]][1] - Offset(r)[1], cloud[r[i]][2] - Offset(r)[2],
                         cloud[r[i]][3] - Offset(r)[3]>>
<1>1. n \in Nat /\ DOMAIN ps = 1..n /\ ps \in [1..n -> 1..Len(cloud)] OBVIOUS
<1>2. Len(ords) = n /\ ords \in [1..n -> 1..n] /\ \A k \in 1..n : \E i \in 1..n : ords[i] = k
  <2>1. ords \in Seq(1..n) BY DEF Lists
  <2>2. Len(ords) = Cardinality(1..n) BY ListSize
  <2>3. \A D : \A s \in Seq(D) : s \in [1..Len(s) -> D] OBVIOUS
  <2>4. \A k \in 1..n : \E i \in 1..Len(ords) : ords[i] = k BY DEF Lists
  <2> HIDE DEF n
  <2>5. 1 \in Int /\ n \in Int BY <1>1
  <2>6. Len(ords) = n BY <1>1, <2>2, <2>5, FS_Interval
  <2> QED BY <2>1, <2>3, <2>4, <2>6
<1> HIDE DEF n
<1>3. qs = [i \in 1..n |-> ps[ords[i]]] BY <1>2 DEF Reordered
<1>4. Len(qs) = n /\ DOMAIN qs = 1..n /\ (qs = <<>> <=> n = 0) /\ (ps = <<>> <=> n = 0)
  <2>1. Len(qs) = n /\ DOMAIN qs = 1..n BY <1>1, <1>3
  <2>2. qs = <<>> <=> n = 0 BY <1>1, <1>3
  <2>3. ps = <<>> <=> n = 0 BY DEF n
  <2> QED BY <2>1, <2>2, <2>3
<1>5. ASSUME NEW a \in Axes
      PROVE  {-cloud[qs[i]][a] : i \in DOMAIN qs} = {-cloud[ps[i]][a] : i \in DOMAIN ps}
  <2> DEFINE val == [k \in 1..n |-> -cloud[ps[k]][a]]
  <2>1. {-cloud[ps[i]][a] : i \in DOMAIN ps} = {val[k] : k \in 1..n} BY <1>1
  <2> DEFINE v(i) == -cloud[qs[i]][a]
  <2>2. \A i \in 1..n : v(i) = val[ords[i]] BY <1>2, <1>3
  <2>3. {v(i) : i \in DOMAIN qs} = {val[ords[i]] : i \in 1..n}
    <3> HIDE DEF v, val
    <3> QED BY <1>4, <2>2
  <2> HIDE DEF val
  <2>4. {val[ords[i]] : i \in 1..n} = {val[k] : k \in 1..n} BY <1>2
  <2> QED BY <2>1, <2>3, <2>4
<1>6. Offset(qs) = Offset(ps) BY <1>4, <1>5 DEF Offset
<1>7. CellsOf(ps) = [i \in 1..n |-> QuantizeCell(At(ps, i))] BY <1>1 DEF CellsOf
<1>8. CellsOf(qs) = [i \in 1..n |-> QuantizeCell(At(qs, i))] BY <1>4 DEF CellsOf
<1>9. \A i \in 1..n : ords[i] \in 1..n /\ At(qs, i) = At(ps, ords[i]) BY <1>2, <1>3, <1>6
<1> HIDE DEF At
<1>10. \A i \in 1..n : QuantizeCell(At(qs, i)) = CellsOf(ps)[ords[i]] BY <1>7, <1>9
<1>11. CellsOf(qs) = [i \in 1..n |-> CellsOf(ps)[ords[i]]] BY <1>8, <1>10
<1>12. ToSet(CellsOf(qs)) = ToSet(CellsOf(ps))
  <2> DEFINE cs == CellsOf(ps)
  <2>1. DOMAIN cs = 1..n BY <1>7
  <2> HIDE DEF cs
  <2>2. CellsOf(qs) = [i \in 1..n |-> cs[ords[i]]] BY <1>11 DEF cs
  <2>3. {cs[ords[i]] : i \in 1..n} = {cs[k] : k \in 1..n} BY <1>2
  <2>4. ToSet(CellsOf(qs)) = {cs[ords[i]] : i \in 1..n} BY <2>2 DEF ToSet
  <2>5. ToSet(cs) = {cs[k] : k \in 1..n} BY <2>1 DEF ToSet
  <2> QED BY <2>3, <2>4, <2>5 DEF cs
<1> QED BY <1>4, <1>6, <1>11, <1>12 DEF n

\* A chunk holds the cells of points in the order of a list of their places.
HoldsCells(chunk, ps, ords) ==
  DecodedCells(chunk) = [i \in 1..Len(ps) |-> CellsOf(ps)[ords[i]]]

\* A direct chunk holds the cells in the order compress leaves the points in.
LEMMA DirectDecoded ==
  ASSUME cloud \in Clouds, NEW ps \in Seq(1..Len(cloud)), NEW offset,
         NEW es, es = Entries(CellsOf(ps)),
         NEW ords, ords = [i \in DOMAIN es |-> es[i][2]],
         FitIn(ToSet(CellsOf(ps)), Len(ps), TRUE)
  PROVE  HoldsCells(DirectChunk(es, offset), ps, ords)
<1> DEFINE n == Len(ps)
           cs == CellsOf(ps)
           f == DirectChunk(es, offset)
           out == Sums(PatchDecode(PatchEncode(Deltas([i \in DOMAIN es |-> es[i][1]]))))
<1>1. n \in Nat /\ cs \in [1..n -> Triples] /\ ToSet(cs) = {cs[i] : i \in 1..n} BY CellsFunction
<1>2. \A i \in 1..n : Codable(cs[i]) /\ MortonCode(cs[i]) < WordSize BY <1>1 DEF FitIn
<1>3. f.is_direct /\ f.sfc = PatchEncode(Deltas([i \in DOMAIN es |-> es[i][1]]))
  BY DEF DirectChunk
<1>4. DecodedCells(f) = [i \in DOMAIN out |-> DecodeMorton(out[i])] BY <1>3 DEF DecodedCells
<1>5. es = Entries(cs) OBVIOUS
<1> HIDE DEF out, cs, f, n
<1>6. out = Sums(PatchDecode(PatchEncode(Deltas([i \in DOMAIN es |-> es[i][1]])))) BY DEF out
<1>7. [i \in DOMAIN out |-> DecodeMorton(out[i])] = [i \in 1..n |-> cs[es[i][2]]]
  BY <1>1, <1>2, <1>5, <1>6, DirectReturns
<1>8. DOMAIN es = 1..n BY <1>1, <1>5, EntriesLemma
<1>9. \A i \in 1..n : ords[i] = es[i][2] BY <1>8
<1>10. DecodedCells(f) = [i \in 1..n |-> cs[ords[i]]] BY <1>4, <1>7, <1>9
<1> QED BY <1>10 DEF HoldsCells, cs, f, n

\* So does one of blocks.
LEMMA BlocksDecoded ==
  ASSUME cloud \in Clouds, NEW ps \in Seq(1..Len(cloud)), NEW offset,
         NEW range, range = RangeOf(ToSet(CellsOf(ps))),
         NEW ns \in SortedNodes(range, CellsOf(ps)),
         NEW ords, ords = [j \in DOMAIN ns |-> ns[j].ord],
         FitIn(ToSet(CellsOf(ps)), Len(ps), FALSE)
  PROVE  HoldsCells(BlockChunk(ns, range, offset), ps, ords)
<1> DEFINE n == Len(ps)
           cs == CellsOf(ps)
           C == {cs[i] : i \in 1..n}
           f == BlockChunk(ns, range, offset)
<1>1. n \in Nat /\ cs \in [1..n -> Triples] /\ ToSet(cs) = C BY CellsFunction
<1>2. ns \in SortedNodes(range, cs) /\ range = RangeOf(ToSet(cs)) OBVIOUS
<1>3. /\ n < WordSize
      /\ \A c \in C : \A a \in 1..3 : 0 <= c[a] /\ 2 * c[a] < IntSize
      /\ Across(range, 1) * Across(range, 2) * Across(range, 3) <= WordSize
  BY <1>1, <1>2 DEF FitIn
<1>4. /\ f.is_direct = FALSE /\ f.range = range
      /\ f.blk = Deltas(Blkst(ns)) /\ f.cnt = Deltas(Blkcnt(ns))
      /\ f.repos = PatchEncode(Repos(ns)) /\ f.quads = PatchEncode(Quads(ns))
  BY DEF BlockChunk
<1>5. DecodedCells(f) = BlockCells(range, Sums(Deltas(Blkst(ns))), Sums(Deltas(Blkcnt(ns))),
                                   PatchDecode(PatchEncode(Quads(ns))),
                                   PatchDecode(PatchEncode(Repos(ns))))
  BY <1>4 DEF DecodedCells
<1> HIDE DEF cs, f, n, C
<1>6. C \in SUBSET Triples /\ IsFiniteSet(C)
  <2>1. IsFiniteSet(1..n)
    <3>1. 1 \in Int /\ n \in Int BY <1>1
    <3> QED BY <3>1, FS_Interval
  <2>2. DOMAIN cs = 1..n /\ cs = [i \in 1..n |-> cs[i]] BY <1>1
  <2>3. IsFiniteSet({cs[i] : i \in 1..n}) BY <2>1, <2>2, ImageLemma
  <2> QED BY <1>1, <2>3 DEF C
<1>7. /\ range \in [1..3 -> Nat]
      /\ \A c \in C : \A a \in 1..3 : c[a] \in Int /\ c[a] <= range[a]
  BY <1>1, <1>2, <1>6, RangeLemma
<1>8. ASSUME NEW i \in 1..n PROVE OnGrid(cs[i], range)
  <2>1. cs[i] \in C BY DEF C
  <2>2. ASSUME NEW a \in 1..3 PROVE cs[i][a] \in 0..range[a] /\ 2 * cs[i][a] < IntSize
    <3> DEFINE x == cs[i][a]
               g == range[a]
    <3>1. x \in Int /\ x <= g /\ 0 <= x /\ 2 * x < IntSize /\ g \in Nat BY <1>3, <1>7, <2>1
    <3> HIDE DEF x, g
    <3>2. x \in 0..g BY <3>1
    <3> QED BY <3>1, <3>2 DEF x, g
  <2> QED BY <1>3, <1>7, <2>2 DEF OnGrid
<1>9. DOMAIN ns = 1..n /\ Arranged(ns, n, range, cs)
  <2>1. cs \in [1..n -> Cells] BY <1>1 DEF Cells, Triples
  <2> QED BY <1>1, <1>2, <2>1, NodesLemma
<1>10. BlockCells(range, Sums(Deltas(Blkst(ns))), Sums(Deltas(Blkcnt(ns))),
                  PatchDecode(PatchEncode(Quads(ns))), PatchDecode(PatchEncode(Repos(ns))))
         = [j \in 1..n |-> cs[ns[j].ord]]
  <2>1. FitsGrid(cs, n, range) BY <1>1, <1>3, <1>8 DEF FitsGrid
  <2> QED BY <1>1, <1>9, <2>1, BlocksReturn
<1>11. \A j \in 1..n : ords[j] = ns[j].ord BY <1>9
<1>12. DecodedCells(f) = [j \in 1..n |-> cs[ords[j]]] BY <1>5, <1>10, <1>11
<1> QED BY <1>12 DEF HoldsCells, cs, f, n

\* A chunk that fits holds the cells of the caller's points, as compress left them, and
\* their offset; what is recovered comes from the chunk.
ChunkInv ==
  /\ pc \in {"packed", "recovered"} /\ Fits =>
       DecodedCells(packed) = CellsOf(points) /\ packed.offset = Offset(points)
  /\ pc = "recovered" => recovered = Unshifted2(packed)

\* A chunk is packed.
LEMMA PackKeeps ==
  ASSUME CodecInv, pc = "read", NEW chunk, NEW ords, Pack(chunk, ords),
         Lists(ords, 1..Len(points)), chunk.offset = Offset(points),
         FitIn(ToSet(CellsOf(points)), Len(points), chunk.is_direct) =>
           HoldsCells(chunk, points, ords)
  PROVE  ChunkInv'
<1> DEFINE qs == Reordered(points, ords)
<1>1. packed' = chunk /\ points' = qs /\ pc' = "packed" /\ UNCHANGED input BY DEF Pack
<1>2. cloud' = cloud BY <1>1, SameInput
<1>3. cloud \in Clouds /\ points \in Seq(1..Len(cloud)) BY VectorLemma
<1>4. /\ Len(qs) = Len(points) /\ Offset(qs) = Offset(points)
      /\ CellsOf(qs) = [i \in 1..Len(points) |-> CellsOf(points)[ords[i]]]
      /\ ToSet(CellsOf(qs)) = ToSet(CellsOf(points))
  BY <1>3, CellsReordered
<1> HIDE DEF qs
<1>5. Offset(points)' = Offset(qs) BY <1>1, <1>2 DEF Offset
<1>6. CellsOf(points)' = CellsOf(qs) BY <1>1, <1>2 DEF CellsOf, Offset
<1>7. Fits' = FitIn(ToSet(CellsOf(qs)), Len(qs), chunk.is_direct) BY <1>1, <1>6 DEF Fits
<1>8. DecodedCells(packed)' = DecodedCells(chunk) BY <1>1
<1> QED BY <1>1, <1>4, <1>5, <1>6, <1>7, <1>8 DEF ChunkInv, HoldsCells

LEMMA DirectKeeps == ASSUME CodecInv, CompressDirect PROVE ChunkInv'
<1> DEFINE es == Entries(CellsOf(points))
           ords == [i \in DOMAIN es |-> es[i][2]]
           chunk == DirectChunk(es, Offset(points))
           n == Len(points)
<1>1. pc = "read" /\ Pack(chunk, ords) BY DEF CompressDirect
<1>2. cloud \in Clouds /\ points \in Seq(1..Len(cloud)) BY <1>1, VectorLemma
<1>3. Lists(ords, 1..n) BY <1>2, DirectChunkLemma
<1>4. chunk.is_direct = TRUE /\ chunk.offset = Offset(points) BY DEF DirectChunk
<1>5. ASSUME FitIn(ToSet(CellsOf(points)), n, TRUE)
      PROVE  HoldsCells(chunk, points, ords)
  BY <1>2, <1>5, DirectDecoded
<1> HIDE DEF ords, chunk
<1> QED BY <1>1, <1>3, <1>4, <1>5, PackKeeps

LEMMA BlocksKeep ==
  ASSUME CodecInv, CompressBlocks \/ CompressWithProfile PROVE ChunkInv'
<1> DEFINE range == RangeOf(ToSet(CellsOf(points)))
           Ords(ns) == [j \in DOMAIN ns |-> ns[j].ord]
           Chunk(ns) == BlockChunk(ns, range, Offset(points))
           n == Len(points)
<1>1. pc = "read" BY DEF CompressBlocks, CompressWithProfile
<1>2. cloud \in Clouds /\ points \in Seq(1..Len(cloud)) BY <1>1, VectorLemma
<1>3. CASE End("threw")
  <2>1. pc' = "threw" BY <1>3 DEF End
  <2> QED BY <2>1 DEF ChunkInv
<1>4. CASE \E ns \in SortedNodes(range, CellsOf(points)) : Pack(Chunk(ns), Ords(ns))
  <2>1. PICK ns \in SortedNodes(range, CellsOf(points)) : Pack(Chunk(ns), Ords(ns)) BY <1>4
  <2> DEFINE ords == Ords(ns)
             chunk == Chunk(ns)
  <2>2. Lists(ords, 1..n)
    <3> HIDE DEF range
    <3> QED BY <1>2, BlockChunkLemma
  <2>3. chunk.is_direct = FALSE /\ chunk.offset = Offset(points) BY DEF BlockChunk
  <2>4. ASSUME FitIn(ToSet(CellsOf(points)), n, FALSE)
        PROVE  HoldsCells(chunk, points, ords)
    BY <1>2, <2>4, BlocksDecoded
  <2>5. Pack(chunk, ords) BY <2>1
  <2> HIDE DEF ords, chunk
  <2> QED BY <1>1, <2>2, <2>3, <2>4, <2>5, PackKeeps
<1> QED BY <1>3, <1>4 DEF CompressBlocks, CompressWithProfile

\* What a chunk and the caller's vector are does not change.
LEMMA ChunkStays ==
  ASSUME ChunkInv, UNCHANGED <<input, points, packed>>,
         pc' \in {"packed", "recovered"} => pc \in {"packed", "recovered"},
         pc' = "recovered" => recovered' = Unshifted2(packed)
  PROVE  ChunkInv'
<1>1. cloud' = cloud /\ points' = points /\ packed' = packed BY SameInput
<1>2. Offset(points)' = Offset(points) BY <1>1 DEF Offset
<1>3. CellsOf(points)' = CellsOf(points) BY <1>1 DEF CellsOf, Offset
<1>4. Fits' = Fits BY <1>1, <1>3 DEF Fits
<1>5. DecodedCells(packed)' = DecodedCells(packed) /\ Unshifted2(packed)' = Unshifted2(packed)
  BY <1>1
<1> QED BY <1>1, <1>2, <1>3, <1>4, <1>5 DEF ChunkInv

LEMMA ChunkNext == ASSUME CodecInv, ChunkInv, [Next]_vars PROVE ChunkInv'
<1>1. CASE ReadFile \/ ReadChunk \/ ReadBlock
  <2>1. pc' = "read" BY <1>1 DEF ReadFile, ReadChunk, ReadBlock, Read
  <2> QED BY <2>1 DEF ChunkInv
<1>2. CASE RefuseChunk \/ RefuseInput \/ CrashOnNothing
  <2>1. pc' \in {"refused", "crashed"} BY <1>2 DEF RefuseChunk, RefuseInput, CrashOnNothing, End
  <2> QED BY <2>1 DEF ChunkInv
<1>3. CASE FitProfile \/ Report
  <2>1. pc' \in {"next", "done"} BY <1>3 DEF FitProfile, Report
  <2> QED BY <2>1 DEF ChunkInv
<1>4. CASE CompressDirect BY <1>4, DirectKeeps
<1>5. CASE CompressBlocks \/ CompressWithProfile BY <1>5, BlocksKeep
<1>6. CASE Decompress
  <2>1. /\ pc = "packed" /\ recovered' = Unshifted2(packed)
        /\ UNCHANGED <<input, points, packed>>
    BY <1>6 DEF Decompress
  <2> QED BY <2>1, ChunkStays
<1>7. CASE UNCHANGED vars
  <2>1. /\ pc' = pc /\ recovered' = recovered /\ UNCHANGED <<input, points, packed>>
    BY <1>7 DEF vars, input
  <2>2. pc' = "recovered" => recovered' = Unshifted2(packed) BY <2>1 DEF ChunkInv
  <2> QED BY <2>1, <2>2, ChunkStays
<1> QED BY <1>1, <1>2, <1>3, <1>4, <1>5, <1>6, <1>7 DEF Next

THEOREM ChunksHoldTheirPoints == Spec => []ChunkInv
<1>1. Init => ChunkInv
  <2> SUFFICES ASSUME Init PROVE ChunkInv OBVIOUS
  <2>1. pc \in {"warmup", "next"} BY DEF Init
  <2> QED BY <2>1 DEF ChunkInv
<1>2. CodecInv /\ ChunkInv /\ [Next]_vars => ChunkInv' BY ChunkNext
<1> QED BY <1>1, <1>2, CodecInvariant, PTL DEF Spec

\* A recovered point has coordinates that are integers.
LEMMA CentreLemma ==
  ASSUME NEW c \in Cells
  PROVE  \A a \in Axes : RecoverCell2(c)[a] \in Int
<1>1. c[1] \in Int /\ c[2] \in Int /\ c[3] \in Int BY DEF Cells
<1>2. Pitch \in Int /\ 2 * Pitch \in Int BY QuantizerAssumption
<1>3. \A k, x, y, z \in Int : \A a \in Axes : Scale(k, <<x, y, z>>)[a] \in Int
  <2> SUFFICES ASSUME NEW k \in Int, NEW x \in Int, NEW y \in Int, NEW z \in Int,
                      NEW a \in Axes
               PROVE  Scale(k, <<x, y, z>>)[a] \in Int
    OBVIOUS
  <2>1. k * x \in Int /\ k * y \in Int /\ k * z \in Int BY Products
  <2>2. Scale(k, <<x, y, z>>) = <<k * x, k * y, k * z>> BY DEF Scale
  <2>3. a = 1 \/ a = 2 \/ a = 3 BY DEF Axes
  <2> QED BY <2>1, <2>2, <2>3
<1>4. CASE Quantizer = "cube"
  <2>1. 2 * c[1] + 1 \in Int /\ 2 * c[2] + 1 \in Int /\ 2 * c[3] + 1 \in Int BY <1>1
  <2>2. RecoverCell2(c) = Scale(Pitch, <<2 * c[1] + 1, 2 * c[2] + 1, 2 * c[3] + 1>>)
    BY <1>4 DEF RecoverCell2, CubeCentre2
  <2> QED BY <1>2, <1>3, <2>1, <2>2
<1>5. CASE Quantizer # "cube"
  <2>1. RecoverCell2(c) = Scale(2 * Pitch, UnpackNode(c)) BY <1>5 DEF RecoverCell2, ToCentre2
  <2>2. PICK x, y \in Int : UnpackNode(c) = <<x, y, c[3]>>
    <3>1. 2 * c[1] - 1 \in Int /\ 2 * c[2] - 1 \in Int /\ 2 * c[1] \in Int /\ 2 * c[2] \in Int
      BY <1>1
    <3> QED BY <3>1 DEF UnpackNode
  <2> QED BY <1>1, <1>2, <1>3, <2>1, <2>2
<1> QED BY <1>4, <1>5

\* Moving a point and its recovered centre by the offset changes no distance.
LEMMA Moved ==
  ASSUME NEW p, NEW o, NEW r, \A a \in Axes : p[a] \in Int /\ o[a] \in Int /\ r[a] \in Int
  PROVE  SqDist(Scale(2, p), <<r[1] + 2 * o[1], r[2] + 2 * o[2], r[3] + 2 * o[3]>>)
           = SqDist(Scale(2, <<p[1] - o[1], p[2] - o[2], p[3] - o[3]>>), r)
<1> DEFINE d(a) == 2 * p[a] - (r[a] + 2 * o[a])
           e(a) == 2 * (p[a] - o[a]) - r[a]
<1>1. \A a \in Axes : d(a) = e(a) OBVIOUS
<1>2. d(1) = e(1) /\ d(2) = e(2) /\ d(3) = e(3) BY <1>1 DEF Axes
<1>3. SqDist(Scale(2, p), <<r[1] + 2 * o[1], r[2] + 2 * o[2], r[3] + 2 * o[3]>>)
        = d(1) * d(1) + d(2) * d(2) + d(3) * d(3)
  BY DEF SqDist, Scale
<1>4. SqDist(Scale(2, <<p[1] - o[1], p[2] - o[2], p[3] - o[3]>>), r)
        = e(1) * e(1) + e(2) * e(2) + e(3) * e(3)
  BY DEF SqDist, Scale
<1> HIDE DEF d, e
<1> QED BY <1>2, <1>3, <1>4

\* The i-th recovered point is within the bound of the i-th point of the caller's vector
\* as compress left it, whenever the chunk fits: in either mode, with either codebook and
\* either quantizer, with several points in a cell in any order.
THEOREM PointsLineUp == Spec => [](Fits => LinesUp)
<1>1. CodecInv /\ ChunkInv => (Fits => LinesUp)
  <2> SUFFICES ASSUME CodecInv, ChunkInv, Fits, pc = "recovered"
               PROVE  /\ Len(recovered) = Len(points)
                      /\ \A i \in DOMAIN points :
                           SqDist(Scale(2, cloud[points[i]]), recovered[i]) <= Bound2Sq
    BY DEF LinesUp
  <2> DEFINE n == Len(points)
             o == Offset(points)
             cs == CellsOf(points)
             p(i) == cloud[points[i]]
             At(i) == <<p(i)[1] - o[1], p(i)[2] - o[2], p(i)[3] - o[3]>>
             r(i) == RecoverCell2(cs[i])
             v(i) == <<r(i)[1] + 2 * o[1], r(i)[2] + 2 * o[2], r(i)[3] + 2 * o[3]>>
  <2>1. cloud \in Clouds /\ points \in Seq(1..Len(cloud)) BY VectorLemma
  <2>2. n \in Nat /\ DOMAIN points = 1..n BY <2>1
  <2>3. cs = [i \in 1..n |-> QuantizeCell(At(i))] BY <2>2 DEF CellsOf
  <2>4. recovered = [i \in 1..n |-> v(i)]
    <3>1. recovered = Unshifted2(packed) /\ DecodedCells(packed) = cs /\ packed.offset = o
      BY DEF ChunkInv
    <3>2. DOMAIN cs = 1..n BY <2>3
    <3> HIDE DEF cs, o, n
    <3> QED BY <3>1, <3>2 DEF Unshifted2
  <2>5. ASSUME NEW i \in 1..n
        PROVE  /\ \A a \in Axes : p(i)[a] \in Int /\ o[a] \in Int
               /\ At(i) \in Point
    BY <2>1, OffsetsLemma
  <2>6. ASSUME NEW i \in 1..n PROVE SqDist(Scale(2, p(i)), v(i)) <= Bound2Sq
    <3>1. \A a \in Axes : p(i)[a] \in Int /\ o[a] \in Int BY <2>5
    <3>2. At(i) \in Point /\ cs[i] = QuantizeCell(At(i)) BY <2>3, <2>5
    <3>3. cs[i] \in Cells /\ SqDist(Scale(2, At(i)), r(i)) <= Bound2Sq
      <4> HIDE DEF At, cs
      <4> QED BY <3>2, QuantizeLemma, ErrorBound DEF WithinBound
    <3>4. \A a \in Axes : r(i)[a] \in Int BY <3>3, CentreLemma
    <3>5. SqDist(Scale(2, p(i)), v(i)) = SqDist(Scale(2, At(i)), r(i))
      <4> DEFINE pp == p(i)
                 rr == r(i)
      <4>1. \A a \in Axes : pp[a] \in Int /\ o[a] \in Int /\ rr[a] \in Int BY <3>1, <3>4
      <4> HIDE DEF p, r, o
      <4> QED BY <4>1, Moved
    <3> QED BY <3>3, <3>5
  <2> HIDE DEF v, p, n
  <2>7. Len(recovered) = n BY <2>2, <2>4
  <2>8. \A i \in 1..n : recovered[i] = v(i) BY <2>4
  <2> QED BY <2>2, <2>6, <2>7, <2>8 DEF p, n
<1> QED BY <1>1, CodecInvariant, ChunksHoldTheirPoints, PTL

-----------------------------------------------------------------------------
(* Clouds that fit *)

\* The offset is a coordinate of one of the points, and of none more than that.
LEMMA OffsetReached ==
  ASSUME cloud \in Clouds, NEW ps \in Seq(1..Len(cloud)), ps # <<>>, NEW a \in Axes
  PROVE  /\ \E k \in 1..Len(ps) : Offset(ps)[a] = cloud[ps[k]][a]
         /\ \A k \in 1..Len(ps) : Offset(ps)[a] <= cloud[ps[k]][a]
<1> DEFINE n == Len(ps)
           f == [k \in 1..n |-> -cloud[ps[k]][a]]
           S == {f[k] : k \in 1..n}
<1>1. n \in Nat /\ DOMAIN ps = 1..n OBVIOUS
<1>2. \A k \in 1..n : cloud[ps[k]][a] \in Int BY OffsetsLemma
<1>3. \A k \in 1..n : f[k] = -cloud[ps[k]][a] /\ f[k] \in Int BY <1>2
<1>4. f = [k \in 1..n |-> f[k]] /\ DOMAIN f = 1..n OBVIOUS
<1>5. IsFiniteSet(1..n)
  <2>1. 1 \in Int /\ n \in Int BY <1>1
  <2> HIDE DEF n
  <2> QED BY <2>1, FS_Interval
<1>6. S = {-cloud[ps[k]][a] : k \in DOMAIN ps} BY <1>1
<1> HIDE DEF f
<1>7. IsFiniteSet(S) BY <1>4, <1>5, ImageLemma
<1>8. 1 \in 1..n
  <2>1. n # 0 OBVIOUS
  <2> QED BY <1>1, <2>1
<1>9. S \in SUBSET Int /\ S # {} BY <1>3, <1>8
<1>10. Offset(ps)[a] = -MaxOf(S) BY <1>6 DEF Offset
<1>11. MaxOf(S) \in S /\ \A y \in S : y <= MaxOf(S)
  <2> HIDE DEF S
  <2> QED BY <1>7, <1>9, Greatest
<1>12. PICK k \in 1..n : MaxOf(S) = f[k] BY <1>11
<1>13. Offset(ps)[a] = cloud[ps[k]][a] BY <1>2, <1>3, <1>10, <1>12
<1>14. ASSUME NEW i \in 1..n PROVE Offset(ps)[a] <= cloud[ps[i]][a]
  <2>1. f[i] <= f[k] BY <1>11, <1>12
  <2> QED BY <1>2, <1>3, <1>13, <2>1
<1> QED BY <1>13, <1>14

\* Clouds of cubes that fit whatever part of them is compressed, in either mode: each is
\* less than w cubes wide along every axis, and has fewer points than there are words.
\* With the numbers of the code (words of 64 bits, coordinates of 21, blocks of 64) all
\* that is left of the first four conjuncts is that w is at most 2^21.
Narrow(w) ==
  /\ Quantizer = "cube"
  /\ w <= Pow2[CoordBits] /\ Pow2[3 * CoordBits] <= WordSize
  /\ 2 * w <= IntSize
  /\ BlocksFit(w)
  /\ \A c \in Clouds :
       /\ Len(c) < WordSize
       /\ \A i, k \in 1..Len(c) : \A a \in Axes : c[i][a] - c[k][a] < w * Pitch

\* The cells of such a cloud have coordinates from 0 to w - 1.
LEMMA NarrowCells ==
  ASSUME NEW w \in Nat \ {0}, Narrow(w), cloud \in Clouds, NEW ps \in Seq(1..Len(cloud)),
         NEW c \in ToSet(CellsOf(ps)), NEW a \in 1..3
  PROVE  c[a] \in 0..(w - 1)
<1> DEFINE n == Len(ps)
           At(i) == <<cloud[ps[i]][1] - Offset(ps)[1], cloud[ps[i]][2] - Offset(ps)[2],
                      cloud[ps[i]][3] - Offset(ps)[3]>>
<1>1. n \in Nat /\ DOMAIN ps = 1..n /\ \A i \in 1..n : ps[i] \in 1..Len(cloud) OBVIOUS
<1>2. CellsOf(ps) = [i \in 1..n |-> QuantizeCell(At(i))] BY <1>1 DEF CellsOf
<1>3. PICK i \in 1..n : c = QuantizeCell(At(i)) BY <1>2 DEF ToSet
<1>4. ps # <<>> BY <1>1
<1> DEFINE d == cloud[ps[i]][a] - Offset(ps)[a]
<1>5. /\ cloud[ps[i]][a] \in Int /\ Offset(ps)[a] \in Int BY OffsetsLemma DEF Axes
<1>6. d \in Int /\ d >= 0 /\ d < w * Pitch
  <2>1. a \in Axes BY DEF Axes
  <2>2. Offset(ps)[a] <= cloud[ps[i]][a] BY <1>4, <2>1, OffsetReached
  <2>3. PICK k \in 1..n : Offset(ps)[a] = cloud[ps[k]][a] BY <1>4, <2>1, OffsetReached
  <2>4. cloud[ps[i]][a] - cloud[ps[k]][a] < w * Pitch
    <3>1. ps[i] \in 1..Len(cloud) /\ ps[k] \in 1..Len(cloud) BY <1>1
    <3> QED BY <2>1, <3>1 DEF Narrow
  <2> QED BY <1>5, <2>2, <2>3, <2>4
<1>7. c[a] = d \div Pitch
  <2>1. c = <<At(i)[1] \div Pitch, At(i)[2] \div Pitch, At(i)[3] \div Pitch>>
    BY <1>3 DEF Narrow, QuantizeCell, CubeCell
  <2>2. a = 1 \/ a = 2 \/ a = 3 OBVIOUS
  <2> QED BY <2>1, <2>2
<1> HIDE DEF d
<1> DEFINE q == d \div Pitch
<1>8. Pitch \in Nat \ {0} BY QuantizerAssumption
<1>9. q \in Int /\ Pitch * q <= d /\ d < Pitch * q + Pitch /\ Pitch * q \in Int
  BY <1>6, <1>8, DivBounds, Products
<1> HIDE DEF q
<1>10. q >= 0
  <2> SUFFICES ASSUME q <= -1 PROVE FALSE BY <1>9
  <2>1. Pitch * (-1 - q) >= 0 BY <1>8, <1>9, Products
  <2>2. Pitch * (-1 - q) = -Pitch - Pitch * q BY <1>8, <1>9
  <2> QED BY <1>6, <1>8, <1>9, <2>1, <2>2
<1>11. q < w
  <2> SUFFICES ASSUME w <= q PROVE FALSE BY <1>9
  <2>1. Pitch * (q - w) >= 0 BY <1>8, <1>9, Products
  <2>2. Pitch * (q - w) = Pitch * q - w * Pitch BY <1>8, <1>9
  <2>3. w * Pitch \in Int BY <1>8, Products
  <2> QED BY <1>6, <1>8, <1>9, <2>1, <2>2, <2>3
<1> QED BY <1>7, <1>9, <1>10, <1>11 DEF q

\* A list of some of the points of a narrow cloud fits, in either mode.
LEMMA NarrowFits ==
  ASSUME NEW w \in Nat \ {0}, Narrow(w), cloud \in Clouds, NEW ps \in Seq(1..Len(cloud)),
         Len(ps) <= Len(cloud), NEW direct
  PROVE  FitIn(ToSet(CellsOf(ps)), Len(ps), direct)
<1> DEFINE C == ToSet(CellsOf(ps))
           n == Len(ps)
<1>1. /\ n \in Nat /\ CellsOf(ps) \in [1..n -> Triples]
      /\ C = {CellsOf(ps)[i] : i \in 1..n}
  BY CellsFunction
<1>2. C \in SUBSET Triples BY <1>1
<1>3. IsFiniteSet(C)
  <2> DEFINE cs == CellsOf(ps)
  <2>1. cs = [i \in 1..n |-> cs[i]] /\ DOMAIN cs = 1..n BY <1>1
  <2>2. IsFiniteSet(1..n)
    <3>1. 1 \in Int /\ n \in Int BY <1>1
    <3> HIDE DEF n
    <3> QED BY <3>1, FS_Interval
  <2> HIDE DEF cs, n
  <2>3. IsFiniteSet({cs[i] : i \in 1..n}) BY <2>1, <2>2, ImageLemma
  <2> QED BY <1>1, <2>3 DEF cs
<1>4. \A c \in C : \A a \in 1..3 : c[a] \in 0..(w - 1) BY NarrowCells
<1> HIDE DEF C
<1>5. CoordBits \in Nat /\ IntSize \in Nat /\ WordSize \in Nat /\ Edge \in Nat \ {0}
  BY BlockAssumption
<1>6. ASSUME NEW c \in C PROVE Codable(c) /\ MortonCode(c) < WordSize
  <2>1. Pow2[CoordBits] \in Nat /\ Pow2[3 * CoordBits] \in Nat
    <3>1. 3 * CoordBits \in Nat BY <1>5
    <3> QED BY <1>5, <3>1, Powers
  <2>2. w <= Pow2[CoordBits] /\ Pow2[3 * CoordBits] <= WordSize BY DEF Narrow
  <2>3. \A a \in 1..3 : c[a] \in 0..(Pow2[CoordBits] - 1) BY <1>4, <2>1, <2>2
  <2>4. c \in Triples BY <1>2
  <2>5. MortonCode(c) \in Nat /\ MortonCode(c) < Pow2[3 * CoordBits]
    BY <2>4, CodeSize, CodeLemma
  <2> QED BY <1>5, <2>1, <2>2, <2>3, <2>5 DEF Codable
<1>7. n < WordSize
  <2>1. Len(cloud) < WordSize BY DEF Narrow
  <2>2. Len(cloud) \in Nat
    <3>1. cloud \in Seq(Point) BY PointAssumption
    <3> QED BY <3>1
  <2> QED BY <1>1, <1>5, <2>1, <2>2
<1>8. \A c \in C : \A a \in 1..3 : 0 <= c[a] /\ 2 * c[a] < IntSize
  <2>1. 2 * w <= IntSize BY DEF Narrow
  <2> QED BY <1>4, <1>5, <2>1
<1>9. Across(RangeOf(C), 1) * Across(RangeOf(C), 2) * Across(RangeOf(C), 3) <= WordSize
  <2>1. \A c \in C : \A a \in 1..3 : c[a] <= w BY <1>4
  <2>2. \A a \in 1..3 : RangeOf(C)[a] \in 0..w BY <1>2, <1>3, <2>1, RangeBelow
  <2>3. BlocksFit(w) BY DEF Narrow
  <2> QED BY <2>2, <2>3, BlocksBelow
<1> QED BY <1>6, <1>7, <1>8, <1>9 DEF FitIn, C

\* Of clouds that are not too wide for their cubes, every point comes back within the
\* bound, at its place in the caller's vector, whatever is read, in either mode, with
\* either codebook.
THEOREM NarrowCloudsLineUp ==
  ASSUME NEW w \in Nat \ {0}, Narrow(w)
  PROVE  Spec => []LinesUp
<1>1. CodecInv /\ (Fits => LinesUp) => LinesUp
  <2> SUFFICES ASSUME CodecInv, Fits => LinesUp PROVE LinesUp OBVIOUS
  <2>1. CASE pc # "recovered" BY <2>1 DEF LinesUp
  <2>2. CASE pc = "recovered"
    <3>1. /\ cloud \in Clouds /\ points \in Seq(1..Len(cloud)) /\ Lists(points, Current)
      <4>1. pc \in {"read", "packed", "recovered"} BY <2>2
      <4> QED BY <4>1, VectorLemma
    <3>2. Len(points) <= Len(cloud)
      <4>1. Current \subseteq 1..Len(cloud) BY <3>1 DEF Lists, Current, Batch
      <4>2. Len(points) = Cardinality(Current) BY <3>1, ListSize
      <4>3. cloud \in Seq(Point) BY <3>1, PointAssumption
      <4>4. Len(cloud) \in Nat BY <4>3
      <4> DEFINE m == Len(cloud)
      <4> HIDE DEF m
      <4>5. 1 \in Int /\ m \in Nat BY <4>4 DEF m
      <4>6. IsFiniteSet(1..m) /\ Cardinality(1..m) = m BY <4>5, FS_Interval
      <4>7. Cardinality(Current) <= Cardinality(1..m) BY <4>1, <4>6, FS_Subset DEF m
      <4> QED BY <4>2, <4>6, <4>7 DEF m
    <3>3. FitIn(ToSet(CellsOf(points)), Len(points), packed.is_direct)
      BY <3>1, <3>2, NarrowFits
    <3> QED BY <3>3 DEF Fits
  <2> QED BY <2>1, <2>2
<1> QED BY <1>1, CodecInvariant, PointsLineUp, PTL
=============================================================================
