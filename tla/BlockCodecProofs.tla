-------------------------- MODULE BlockCodecProofs --------------------------
(***************************************************************************)
(* A chunk of a table holds its cells in the order of its streams, each    *)
(* with its own count, in either mode and from either entry point.  What   *)
(* is read back is the table whenever its cells fit the words of the       *)
(* chunk; nothing in the code checks that they do.                         *)
(***************************************************************************)
EXTENDS BlockCodec, BlockQuantizerProofs

-----------------------------------------------------------------------------
(* The invariant *)

\* What fits a chunk.  In direct mode a coordinate has CoordBits bits, and a code is a
\* word.  In blocks a coordinate is an int and not negative, and the numbers of the
\* blocks are words.
FitIn(C, grid, direct) ==
  IF direct THEN \A c \in C : Codable(c) /\ MortonCode(c) < WordSize
  ELSE /\ \A c \in C : \A a \in 1..3 : 0 <= c[a] /\ 2 * c[a] < IntSize
       /\ Across(grid, 1) * Across(grid, 2) * Across(grid, 3) <= WordSize

\* The cells that are read from a chunk.
CellsIn(f, grid) ==
  IF f.is_direct
  THEN [i \in DOMAIN Sums(PatchDecode(f.sfc)) |-> DecodeMorton(Sums(PatchDecode(f.sfc))[i])]
  ELSE BlockCells(grid, Sums(f.blk), Sums(f.cnt), PatchDecode(f.quads), PatchDecode(f.repos))

\* The counts of cells, and a chunk of them in this order.
CountsOf(s, t) == [i \in 1..Len(s) |-> t[s[i]]]
Stores(f, s, t, grid, direct) ==
  /\ f.num_points = Len(s) /\ f.counts = CountsOf(s, t) /\ f.is_direct = direct
  /\ ~direct => /\ f.blk # <<>> /\ Len(f.blk) = Len(f.cnt)
                /\ DOMAIN f.quads.deltas = 1..Len(s)
                /\ PatchDecode(f.quads) \in [1..Len(s) -> 0..7]
  /\ CellsIn(f, grid) \in [1..Len(s) -> Triples]
  /\ FitIn(DOMAIN t, grid, direct) => CellsIn(f, grid) = s

\* What is read from a chunk.
Reads(r, f, grid) ==
  /\ r.cells = CellsIn(f, grid) /\ r.counts = f.counts
  /\ r.points = FlattenSeq([i \in DOMAIN CellsIn(f, grid) |->
                              [k \in 1..f.counts[i] |-> CellsIn(f, grid)[i]]])

\* The range reaches every cell.
TableInv ==
  /\ table \in Tables /\ range \in [1..3 -> Nat]
  /\ \A c \in DOMAIN table : \A a \in 1..3 : c[a] <= range[a]

CodecInv ==
  /\ TableInv
  /\ pc \in {"start", "poured", "encoded", "decoded", "crashed"}
  /\ pc = "crashed" => entry = "compress" /\ DOMAIN table = {}
  /\ pc = "poured" => cells \in SetToSeqs(DOMAIN table) /\ counts = CountsOf(cells, table)
  /\ pc \in {"encoded", "decoded"} =>
       \E s \in SetToSeqs(DOMAIN table) : Stores(file, s, table, range, IsDirect)
  /\ pc # "decoded" => result.cells = <<>>
  /\ pc = "decoded" => Reads(result, file, range)

-----------------------------------------------------------------------------
(* Tables and lists of their cells *)

LEMMA TableLemma ==
  ASSUME NEW t \in Tables
  PROVE  /\ IsFiniteSet(DOMAIN t) /\ Cardinality(DOMAIN t) \in Nat
         /\ Cardinality(DOMAIN t) < WordSize
         /\ DOMAIN t \subseteq Triples
         /\ \A c \in DOMAIN t : t[c] \in Nat /\ t[c] # 0
BY CodecAssumption, FS_CardinalityType DEF Triples

LEMMA Listed ==
  ASSUME NEW S, IsFiniteSet(S), NEW s
  PROVE  s \in SetToSeqs(S) <=> Lists(s, S)
<1> DEFINE m == Cardinality(S)
<1>1. m \in Nat BY FS_CardinalityType
<1>2. SetToSeqs(S) = {f \in [1..m -> S] : \A i, j \in 1..m : i # j => f[i] # f[j]}
  BY DEF SetToSeqs
<1> HIDE DEF m
<1>3. ASSUME s \in SetToSeqs(S) PROVE Lists(s, S)
  <2>1. s \in [1..m -> S] /\ \A i, j \in 1..m : i # j => s[i] # s[j] BY <1>2, <1>3
  <2>2. \A x \in S : \E i \in 1..m : s[i] = x BY <2>1, ListedOnto DEF m
  <2>3. s \in Seq(S) /\ Len(s) = m BY <1>1, <2>1
  <2> QED BY <2>1, <2>2, <2>3 DEF Lists
<1>4. ASSUME Lists(s, S) PROVE s \in SetToSeqs(S)
  <2>1. Len(s) = m BY <1>4, ListSize DEF m
  <2>2. s \in Seq(S) /\ \A i, k \in 1..Len(s) : s[i] = s[k] => i = k BY <1>4 DEF Lists
  <2>3. s \in [1..m -> S] BY <2>1, <2>2
  <2> QED BY <1>2, <2>1, <2>2, <2>3
<1> QED BY <1>3, <1>4

\* The length and the elements of such a list.
LEMMA ListOf ==
  ASSUME NEW t \in Tables, NEW s \in SetToSeqs(DOMAIN t)
  PROVE  /\ Len(s) \in Nat /\ Len(s) = Cardinality(DOMAIN t) /\ Len(s) < WordSize
         /\ s \in [1..Len(s) -> DOMAIN t] /\ s \in [1..Len(s) -> Triples]
         /\ Lists(s, DOMAIN t)
<1>1. /\ IsFiniteSet(DOMAIN t) /\ Cardinality(DOMAIN t) \in Nat
      /\ Cardinality(DOMAIN t) < WordSize /\ DOMAIN t \subseteq Triples
  BY TableLemma
<1>2. Lists(s, DOMAIN t) BY <1>1, Listed
<1>3. Len(s) = Cardinality(DOMAIN t) BY <1>2, ListSize
<1>4. s \in Seq(DOMAIN t) BY <1>2 DEF Lists
<1>5. s \in [1..Len(s) -> DOMAIN t] BY <1>4
<1> QED BY <1>1, <1>2, <1>3, <1>5

\* Cells and counts are put in the same order.
LEMMA Arranging ==
  ASSUME NEW t \in Tables, NEW cs \in SetToSeqs(DOMAIN t),
         NEW ords, Lists(ords, 1..Len(cs)),
         NEW s, s = [i \in 1..Len(cs) |-> cs[ords[i]]]
  PROVE  /\ s \in SetToSeqs(DOMAIN t) /\ Len(s) = Len(cs)
         /\ Reordered(CountsOf(cs, t), ords) = CountsOf(s, t)
<1> DEFINE n == Len(cs)
<1>1. n \in Nat /\ Lists(cs, DOMAIN t) BY ListOf
<1>2. Len(ords) = n /\ ords \in [1..n -> 1..n]
  <2>1. ords \in Seq(1..n) BY DEF Lists
  <2>2. Len(ords) = Cardinality(1..n) BY ListSize
  <2>3. \A D : \A o \in Seq(D) : o \in [1..Len(o) -> D] OBVIOUS
  <2> HIDE DEF n
  <2>4. 1 \in Int /\ n \in Int BY <1>1
  <2>5. Len(ords) = n BY <1>1, <2>2, <2>4, FS_Interval
  <2> QED BY <2>1, <2>3, <2>5
<1>3. Lists(s, DOMAIN t)
  <2>1. s = [i \in 1..Len(ords) |-> cs[ords[i]]] BY <1>2
  <2> QED BY <1>1, <2>1, ListInOrder
<1>4. s \in SetToSeqs(DOMAIN t) BY <1>3, Listed, TableLemma
<1>5. Len(s) = n BY <1>1
<1>6. CountsOf(cs, t) = [i \in 1..n |-> t[cs[i]]] BY DEF CountsOf
<1>7. CountsOf(s, t) = [i \in 1..n |-> t[cs[ords[i]]]] BY <1>5 DEF CountsOf
<1> HIDE DEF n
<1>8. Reordered(CountsOf(cs, t), ords) = [i \in 1..n |-> t[cs[ords[i]]]]
  BY <1>2, <1>6 DEF Reordered
<1> QED BY <1>4, <1>5, <1>7, <1>8 DEF n

-----------------------------------------------------------------------------
(* Chunks *)

\* A direct chunk of a list of cells.
IsDirectFile(f, cs, t) ==
  /\ f.is_direct /\ f.num_points = Len(cs)
  /\ f.sfc = PatchEncode(Deltas([i \in DOMAIN Entries(cs) |-> Entries(cs)[i][1]]))
  /\ f.counts = Reordered(CountsOf(cs, t), [i \in DOMAIN Entries(cs) |-> Entries(cs)[i][2]])

\* Whatever is decoded is one cell for each code, be it the right one or not.
LEMMA DirectCells ==
  ASSUME NEW n \in Nat, NEW codes \in [1..n -> Nat],
         NEW out, out = Sums(PatchDecode(PatchEncode(Deltas(codes))))
  PROVE  [i \in DOMAIN out |-> DecodeMorton(out[i])] \in [1..n -> Triples]
<1>1. Deltas(codes) \in [1..n -> Nat] BY DeltasLemma
<1>2. PatchDecode(PatchEncode(Deltas(codes))) = Deltas(codes) BY <1>1, PatchesReturn
<1>3. out \in [1..n -> Nat] BY <1>2, SumsLemma
<1>4. ASSUME NEW m \in Nat PROVE DecodeMorton(m) \in Triples
  <2>1. m \div 2 \in Nat /\ m \div 4 \in Nat OBVIOUS
  <2>2. \A k \in Nat : Compact[k] \in Int
    <3>1. \A k \in Nat : Compact[k] \in Nat BY Compacting, Zenon
    <3> QED BY <3>1
  <2>3. Compact[m] \in Int /\ Compact[m \div 2] \in Int /\ Compact[m \div 4] \in Int
    BY <2>1, <2>2
  <2> QED BY <2>3 DEF DecodeMorton, Triples
<1> QED BY <1>3, <1>4

LEMMA DirectStores ==
  ASSUME NEW t \in Tables, NEW cs \in SetToSeqs(DOMAIN t), NEW grid,
         NEW f, IsDirectFile(f, cs, t)
  PROVE  \E s \in SetToSeqs(DOMAIN t) : Stores(f, s, t, grid, TRUE)
<1> DEFINE n == Len(cs)
           es == Entries(cs)
           codes == [i \in DOMAIN es |-> es[i][1]]
           ords == [i \in 1..n |-> es[i][2]]
           s == [i \in 1..n |-> cs[ords[i]]]
           out == Sums(PatchDecode(PatchEncode(Deltas(codes))))
<1>1. n \in Nat /\ cs \in [1..n -> DOMAIN t] /\ cs \in [1..n -> Triples] BY ListOf
<1>2. /\ DOMAIN es = 1..n
      /\ \A i \in 1..n : es[i][1] \in Nat /\ es[i][2] \in 1..n
      /\ Lists(ords, 1..n)
  BY <1>1, EntriesLemma
<1>3. /\ f.is_direct /\ f.num_points = n /\ f.sfc = PatchEncode(Deltas(codes))
      /\ f.counts = Reordered(CountsOf(cs, t), ords)
  BY <1>2 DEF IsDirectFile
<1>4. s \in SetToSeqs(DOMAIN t) /\ Len(s) = n /\ f.counts = CountsOf(s, t)
  <2> HIDE DEF ords
  <2> QED BY <1>2, <1>3, Arranging
<1>5. CellsIn(f, grid) = [i \in DOMAIN out |-> DecodeMorton(out[i])] BY <1>3 DEF CellsIn
<1>6. CellsIn(f, grid) \in [1..n -> Triples]
  <2>1. codes \in [1..n -> Nat] BY <1>2
  <2> HIDE DEF codes
  <2> QED BY <1>1, <1>5, <2>1, DirectCells
<1>7. ASSUME FitIn(DOMAIN t, grid, TRUE) PROVE CellsIn(f, grid) = s
  <2>1. \A i \in 1..n : Codable(cs[i]) /\ MortonCode(cs[i]) < WordSize BY <1>1, <1>7 DEF FitIn
  <2>2. es = Entries(cs) /\ out = Sums(PatchDecode(PatchEncode(Deltas([i \in DOMAIN es |-> es[i][1]]))))
    OBVIOUS
  <2> HIDE DEF out, es, n
  <2>3. [i \in DOMAIN out |-> DecodeMorton(out[i])] = [i \in 1..n |-> cs[es[i][2]]]
    BY <1>1, <2>1, <2>2, DirectReturns
  <2> QED BY <1>5, <2>3
<1> HIDE DEF s, ords, es, n
<1>8. Stores(f, s, t, grid, TRUE) BY <1>3, <1>4, <1>6, <1>7 DEF Stores
<1> QED BY <1>4, <1>8

\* A chunk of blocks.
IsBlockFile(f, cs, t, grid) ==
  LET ns == Nodes(grid, cs) IN
  /\ f.is_direct = FALSE /\ f.num_points = Len(cs)
  /\ f.blk = Deltas(Blkst(ns)) /\ f.cnt = Deltas(Blkcnt(ns))
  /\ f.repos = PatchEncode(Repos(ns)) /\ f.quads = PatchEncode(Quads(ns))
  /\ f.counts = Reordered(CountsOf(cs, t), [j \in DOMAIN ns |-> ns[j].ord])

LEMMA BlocksStore ==
  ASSUME NEW t \in Tables, NEW cs \in SetToSeqs(DOMAIN t), NEW grid \in [1..3 -> Nat],
         \A c \in DOMAIN t : \A a \in 1..3 : c[a] <= grid[a],
         NEW f, IsBlockFile(f, cs, t, grid)
  PROVE  \E s \in SetToSeqs(DOMAIN t) : Stores(f, s, t, grid, FALSE)
<1> DEFINE n == Len(cs)
           ns == Nodes(grid, cs)
           ords == [j \in 1..n |-> ns[j].ord]
           s == [j \in 1..n |-> cs[ords[j]]]
           At(j) == CellAt(grid, ns[j].id, ns[j].quad, ns[j].re)
<1>1. /\ n \in Nat /\ n < WordSize
      /\ cs \in [1..n -> DOMAIN t] /\ cs \in [1..n -> Triples]
  BY ListOf
<1>2. Collected(ns, n, grid, cs) /\ Arranged(ns, n, grid, cs) BY <1>1, NodesSorted
<1>3. /\ f.is_direct = FALSE /\ f.num_points = n
      /\ f.blk = Deltas(Blkst(ns)) /\ f.cnt = Deltas(Blkcnt(ns))
      /\ f.repos = PatchEncode(Repos(ns)) /\ f.quads = PatchEncode(Quads(ns))
      /\ f.counts = Reordered(CountsOf(cs, t), [j \in DOMAIN ns |-> ns[j].ord])
  BY DEF IsBlockFile
<1> HIDE DEF ns, n
<1>4. /\ Len(ns) = n /\ DOMAIN ns = 1..n /\ ns \in Seq({ns[j] : j \in 1..n})
      /\ Lists(ords, 1..n)
  BY <1>2 DEF Collected
<1>5. s \in SetToSeqs(DOMAIN t) /\ Len(s) = n /\ f.counts = CountsOf(s, t)
  <2>1. f.counts = Reordered(CountsOf(cs, t), ords) BY <1>3, <1>4
  <2>2. Lists(ords, 1..Len(cs)) /\ s = [j \in 1..Len(cs) |-> cs[ords[j]]] BY <1>4 DEF n
  <2> HIDE DEF ords, s
  <2> QED BY <2>1, <2>2, Arranging DEF n
<1>6. Walkable(ns, n) /\ \A j \in 1..n : At(j) \in Triples BY <1>1, <1>2, ArrangedWalkable
<1>7. CellsIn(f, grid) = BlockCells(grid, Sums(Deltas(Blkst(ns))), Sums(Deltas(Blkcnt(ns))),
                                    PatchDecode(PatchEncode(Quads(ns))),
                                    PatchDecode(PatchEncode(Repos(ns))))
  BY <1>3 DEF CellsIn
<1>8. CellsIn(f, grid) = [j \in 1..n |-> At(j)] BY <1>1, <1>6, <1>7, BlocksWalked
<1>9. CellsIn(f, grid) \in [1..n -> Triples]
  <2> HIDE DEF At
  <2> QED BY <1>6, <1>8
<1>10. f.blk # <<>> /\ Len(f.blk) = Len(f.cnt)
  <2>1. ns \in Seq({ns[j] : j \in DOMAIN ns}) BY <1>4
  <2> QED BY <1>1, <1>3, <1>4, <2>1, TableOfBlocks
<1>11. DOMAIN f.quads.deltas = 1..n /\ PatchDecode(f.quads) \in [1..n -> 0..7]
  <2>1. Quads(ns) \in [1..n -> 0..7] BY <1>1, <1>6, QuadsLemma
  <2>2. Quads(ns) \in [1..n -> Nat] BY <2>1
  <2>3. PatchDecode(f.quads) = Quads(ns) BY <1>1, <1>3, <2>2, PatchesReturn
  <2>4. DOMAIN f.quads.deltas = 1..n BY <1>3, <2>2 DEF PatchEncode
  <2> QED BY <2>1, <2>3, <2>4
<1>12. ASSUME FitIn(DOMAIN t, grid, FALSE) PROVE CellsIn(f, grid) = s
  <2>1. ASSUME NEW i \in 1..n PROVE OnGrid(cs[i], grid)
    <3>1. ASSUME NEW a \in 1..3 PROVE cs[i][a] \in 0..grid[a] /\ 2 * cs[i][a] < IntSize
      <4> DEFINE x == cs[i][a]
                 g == grid[a]
      <4>1. x \in Int BY <1>1 DEF Triples
      <4>2. x <= g /\ 0 <= x /\ 2 * x < IntSize /\ g \in Nat BY <1>1, <1>12 DEF FitIn
      <4> HIDE DEF x, g
      <4>3. x \in 0..g BY <4>1, <4>2
      <4> QED BY <4>2, <4>3 DEF x, g
    <3> QED BY <1>12, <3>1 DEF OnGrid, FitIn
  <2>2. FitsGrid(cs, n, grid) BY <1>1, <2>1 DEF FitsGrid
  <2>3. CellsIn(f, grid) = [j \in 1..n |-> cs[ns[j].ord]]
    BY <1>1, <1>2, <1>7, <2>2, BlocksReturn
  <2> QED BY <2>3
<1> HIDE DEF s, ords
<1>13. Stores(f, s, t, grid, FALSE) BY <1>3, <1>5, <1>9, <1>10, <1>11, <1>12 DEF Stores
<1> QED BY <1>5, <1>13

-----------------------------------------------------------------------------
(* Every step keeps the invariant *)

LEMMA InitLemma == Init => CodecInv
<1> SUFFICES ASSUME Init PROVE CodecInv OBVIOUS
<1> DEFINE C == DOMAIN table
           r == RangeOf(C)
<1>1. /\ table \in Tables /\ pc = "start" /\ result.cells = <<>>
      /\ entry \in {"compress", "encode_cells_with_counts"}
      /\ IF entry = "compress" THEN range = r
         ELSE \E m \in GlobalRanges : m >= MaxOf({r[a] : a \in 1..3}) /\ range = [a \in 1..3 |-> m]
  BY DEF Init
<1>2. C \in SUBSET Triples /\ IsFiniteSet(C) BY <1>1, TableLemma
<1> HIDE DEF C, r
<1>3. r \in [1..3 -> Nat] /\ \A c \in C : \A a \in 1..3 : c[a] \in Int /\ c[a] <= r[a]
  BY <1>2, RangeLemma DEF r
<1>4. CASE entry = "compress" BY <1>1, <1>3, <1>4 DEF CodecInv, TableInv, C
<1>5. CASE entry # "compress"
  <2>1. PICK m \in GlobalRanges : m >= MaxOf({r[a] : a \in 1..3}) /\ range = [a \in 1..3 |-> m]
    BY <1>1, <1>5
  <2>2. m \in Nat BY CodecAssumption
  <2> DEFINE R == {r[1], r[2], r[3]}
  <2>3. R = {r[a] : a \in 1..3} OBVIOUS
  <2>4. R \in SUBSET Int /\ R # {} /\ IsFiniteSet(R)
    <3>1. \A a, b \in Int : IsFiniteSet(a..b) BY FS_Interval
    <3>2. r = [a \in 1..3 |-> r[a]] /\ DOMAIN r = 1..3 BY <1>3
    <3>3. IsFiniteSet({r[a] : a \in 1..3})
      <4>1. 1 \in Int /\ 3 \in Int OBVIOUS
      <4>2. IsFiniteSet(1..3) BY <3>1, <4>1, Zenon
      <4> QED BY <3>2, <4>2, ImageLemma
    <3> QED BY <1>3, <2>3, <3>3
  <2>5. r[1] \in R /\ r[2] \in R /\ r[3] \in R OBVIOUS
  <2> HIDE DEF R
  <2>6. MaxOf(R) \in R /\ \A y \in R : y <= MaxOf(R) BY <2>4, Greatest
  <2>7. MaxOf(R) \in Int /\ m >= MaxOf(R) BY <2>1, <2>3, <2>4, <2>6
  <2>8. \A a \in 1..3 : r[a] \in Nat /\ r[a] <= MaxOf(R) BY <1>3, <2>5, <2>6
  <2>9. \A c \in C : \A a \in 1..3 : c[a] <= m
    <3> SUFFICES ASSUME NEW c \in C, NEW a \in 1..3 PROVE c[a] <= m OBVIOUS
    <3> DEFINE x == c[a]
               y == r[a]
               z == MaxOf(R)
    <3>1. x \in Int /\ y \in Int /\ z \in Int /\ x <= y /\ y <= z /\ m >= z
      BY <1>3, <2>7, <2>8
    <3> HIDE DEF x, y, z
    <3>2. x <= m BY <2>2, <3>1
    <3> QED BY <3>2 DEF x
  <2>10. range \in [1..3 -> Nat] /\ \A c \in C : \A a \in 1..3 : c[a] <= range[a]
    BY <2>1, <2>2, <2>9
  <2> QED BY <1>1, <2>10 DEF CodecInv, TableInv, C
<1> QED BY <1>4, <1>5

\* No step changes the table, the entry point or the range.
LEMMA Kept ==
  ASSUME TableInv, UNCHANGED <<table, entry, range>>
  PROVE  /\ TableInv' /\ IsDirect' = IsDirect
         /\ table' = table /\ range' = range
BY DEF TableInv, IsDirect

LEMMA PourStep == ASSUME CodecInv, Pour PROVE CodecInv'
<1>1. PICK s \in SetToSeqs(DOMAIN table) :
        cells' = s /\ counts' = [i \in DOMAIN s |-> table[s[i]]]
  BY DEF Pour
<1>2. pc = "start" /\ pc' = "poured" /\ result' = result /\ UNCHANGED <<table, entry, range>>
  BY DEF Pour
<1>3. TableInv' /\ table' = table BY <1>2, Kept DEF CodecInv
<1>4. DOMAIN s = 1..Len(s)
  <2>1. table \in Tables BY DEF CodecInv, TableInv
  <2> QED BY <2>1, ListOf
<1>5. counts' = CountsOf(cells', table') BY <1>1, <1>3, <1>4 DEF CountsOf
<1> QED BY <1>1, <1>2, <1>3, <1>5 DEF CodecInv

LEMMA EncodeDirectStep == ASSUME CodecInv, EncodeDirect PROVE CodecInv'
<1>1. /\ pc = "poured" /\ IsDirect /\ file' = DirectFile /\ pc' = "encoded" /\ result' = result
      /\ UNCHANGED <<table, entry, range>>
  BY DEF EncodeDirect
<1>2. TableInv' /\ table' = table /\ range' = range /\ IsDirect' = IsDirect
  BY <1>1, Kept DEF CodecInv
<1>3. /\ table \in Tables /\ cells \in SetToSeqs(DOMAIN table)
      /\ counts = CountsOf(cells, table)
  BY <1>1 DEF CodecInv, TableInv
<1>4. IsDirectFile(file', cells, table) BY <1>1, <1>3 DEF DirectFile, IsDirectFile
<1>5. PICK s \in SetToSeqs(DOMAIN table) : Stores(file', s, table, range, TRUE)
  BY <1>3, <1>4, DirectStores
<1>6. IsDirect = TRUE BY <1>1 DEF IsDirect
<1>7. Stores(file', s, table', range', IsDirect') BY <1>2, <1>5, <1>6
<1> QED BY <1>1, <1>2, <1>7 DEF CodecInv

LEMMA CrashStep == ASSUME CodecInv, CrashOnNothing PROVE CodecInv'
<1>1. /\ pc = "poured" /\ IsDirect /\ cells = <<>> /\ pc' = "crashed" /\ result' = result
      /\ UNCHANGED <<table, entry, range>>
  BY DEF CrashOnNothing
<1>2. TableInv' /\ table' = table BY <1>1, Kept DEF CodecInv
<1>3. table \in Tables /\ cells \in SetToSeqs(DOMAIN table) BY <1>1 DEF CodecInv, TableInv
<1>4. entry = "compress" BY <1>1 DEF IsDirect
<1>5. DOMAIN table = {}
  <2>1. IsFiniteSet(DOMAIN table) /\ Len(cells) = Cardinality(DOMAIN table)
    BY <1>3, TableLemma, ListOf
  <2>2. Len(cells) = 0 BY <1>1
  <2> QED BY <2>1, <2>2, FS_EmptySet
<1> QED BY <1>1, <1>2, <1>4, <1>5 DEF CodecInv

LEMMA EncodeBlocksStep == ASSUME CodecInv, EncodeBlocks PROVE CodecInv'
<1>1. /\ pc = "poured" /\ ~IsDirect /\ file' = BlockFile /\ pc' = "encoded" /\ result' = result
      /\ UNCHANGED <<table, entry, range>>
  BY DEF EncodeBlocks
<1>2. TableInv' /\ table' = table /\ range' = range /\ IsDirect' = IsDirect
  BY <1>1, Kept DEF CodecInv
<1>3. /\ table \in Tables /\ cells \in SetToSeqs(DOMAIN table)
      /\ counts = CountsOf(cells, table)
      /\ range \in [1..3 -> Nat] /\ \A c \in DOMAIN table : \A a \in 1..3 : c[a] <= range[a]
  BY <1>1 DEF CodecInv, TableInv
<1>4. IsBlockFile(file', cells, table, range) BY <1>1, <1>3 DEF BlockFile, IsBlockFile
<1>5. PICK s \in SetToSeqs(DOMAIN table) : Stores(file', s, table, range, FALSE)
  BY <1>3, <1>4, BlocksStore
<1>6. IsDirect = FALSE BY <1>1 DEF IsDirect
<1>7. Stores(file', s, table', range', IsDirect') BY <1>2, <1>5, <1>6
<1> QED BY <1>1, <1>2, <1>7 DEF CodecInv

LEMMA DecodeStep == ASSUME CodecInv, Decode PROVE CodecInv'
<1>1. /\ pc = "encoded" /\ pc' = "decoded" /\ file' = file
      /\ UNCHANGED <<table, entry, range>>
      /\ result' = [cells |-> DecodedCells(file), counts |-> file.counts,
                    points |-> FlattenSeq([i \in DOMAIN DecodedCells(file) |->
                                 [k \in 1..file.counts[i] |-> DecodedCells(file)[i]]])]
  BY DEF Decode
<1>2. TableInv' /\ table' = table /\ range' = range /\ IsDirect' = IsDirect
  BY <1>1, Kept DEF CodecInv
<1>3. DecodedCells(file) = CellsIn(file, range) BY DEF DecodedCells, CellsIn
<1>4. Reads(result', file', range') BY <1>1, <1>2, <1>3 DEF Reads
<1>5. \E s \in SetToSeqs(DOMAIN table') : Stores(file', s, table', range', IsDirect')
  BY <1>1, <1>2 DEF CodecInv
<1> QED BY <1>1, <1>2, <1>4, <1>5 DEF CodecInv

\* The invariant of the codec: the table and its counts are poured into parallel vectors,
\* a chunk has the cells of the table in the order of its streams, each with its own
\* count, and what is read comes from the chunk.
THEOREM CodecInvariant == Spec => []CodecInv
<1>1. CodecInv /\ [Next]_vars => CodecInv'
  <2> SUFFICES ASSUME CodecInv, [Next]_vars PROVE CodecInv' OBVIOUS
  <2>1. CASE Pour BY <2>1, PourStep
  <2>2. CASE EncodeDirect \/ CrashOnNothing BY <2>2, EncodeDirectStep, CrashStep
  <2>3. CASE EncodeBlocks BY <2>3, EncodeBlocksStep
  <2>4. CASE Decode BY <2>4, DecodeStep
  <2>5. CASE UNCHANGED vars
    <3>1. /\ UNCHANGED <<table, entry, range>> /\ pc' = pc /\ cells' = cells /\ counts' = counts
          /\ file' = file /\ result' = result
      BY <2>5 DEF vars
    <3>2. TableInv' /\ table' = table /\ range' = range /\ IsDirect' = IsDirect
      BY <3>1, Kept DEF CodecInv
    <3> QED BY <3>1, <3>2 DEF CodecInv
  <2> QED BY <2>1, <2>2, <2>3, <2>4, <2>5 DEF Next
<1> QED BY <1>1, InitLemma, PTL DEF Spec

-----------------------------------------------------------------------------
(* What it says of chunks and of what is read *)

\* The chunk and the list of cells it holds.
LEMMA StoredLemma ==
  ASSUME CodecInv, pc \in {"encoded", "decoded"}
  PROVE  \E s \in SetToSeqs(DOMAIN table) :
           /\ Stores(file, s, table, range, IsDirect)
           /\ Len(s) \in Nat /\ Len(s) = Cardinality(DOMAIN table)
           /\ s \in [1..Len(s) -> DOMAIN table] /\ Lists(s, DOMAIN table)
           /\ CountsOf(s, table) \in [1..Len(s) -> Nat]
<1>1. table \in Tables BY DEF CodecInv, TableInv
<1>2. PICK s \in SetToSeqs(DOMAIN table) : Stores(file, s, table, range, IsDirect) BY DEF CodecInv
<1>3. /\ Len(s) \in Nat /\ Len(s) = Cardinality(DOMAIN table)
      /\ s \in [1..Len(s) -> DOMAIN table] /\ Lists(s, DOMAIN table)
  BY <1>1, ListOf
<1>4. \A c \in DOMAIN table : table[c] \in Nat BY <1>1, TableLemma
<1>5. CountsOf(s, table) \in [1..Len(s) -> Nat] BY <1>3, <1>4 DEF CountsOf
<1> QED BY <1>2, <1>3, <1>5

\* The vectors are parallel, in memory and in the chunk; a chunk has a place for each
\* cell of the table, and of blocks at least one, so that the BitPacker never throws; and
\* what is read are cells, whether they fit or not.
THEOREM CodecTypes == Spec => []TypeOK
<1>1. CodecInv => TypeOK
  <2> SUFFICES ASSUME CodecInv PROVE TypeOK OBVIOUS
  <2>1. /\ table \in Tables /\ pc \in {"start", "poured", "encoded", "decoded", "crashed"}
        /\ pc = "crashed" => entry = "compress" /\ DOMAIN table = {}
    BY DEF CodecInv, TableInv
  <2>2. ASSUME pc = "poured" PROVE Len(cells) = Len(counts)
    <3>1. cells \in SetToSeqs(DOMAIN table) /\ counts = CountsOf(cells, table)
      BY <2>2 DEF CodecInv
    <3>2. Len(cells) \in Nat BY <2>1, <3>1, ListOf
    <3> QED BY <3>1, <3>2 DEF CountsOf
  <2>3. ASSUME pc \in {"encoded", "decoded"}
        PROVE  /\ file.num_points = Len(file.counts)
               /\ file.num_points = Cardinality(DOMAIN table)
               /\ ~file.is_direct => file.blk # <<>> /\ Len(file.blk) = Len(file.cnt)
    <3>1. PICK s \in SetToSeqs(DOMAIN table) :
            /\ Stores(file, s, table, range, IsDirect)
            /\ Len(s) \in Nat /\ Len(s) = Cardinality(DOMAIN table)
            /\ CountsOf(s, table) \in [1..Len(s) -> Nat]
      BY <2>3, StoredLemma
    <3>2. Len(CountsOf(s, table)) = Len(s) BY <3>1
    <3> QED BY <3>1, <3>2 DEF Stores
  <2>4. ASSUME NEW i \in DOMAIN result.cells PROVE IsCell(result.cells[i])
    <3>1. pc = "decoded" BY <2>4 DEF CodecInv
    <3>2. PICK s \in SetToSeqs(DOMAIN table) : Stores(file, s, table, range, IsDirect)
      BY <3>1, StoredLemma
    <3>3. result.cells = CellsIn(file, range) BY <3>1 DEF CodecInv, Reads
    <3>4. result.cells \in [1..Len(s) -> Triples] BY <3>2, <3>3 DEF Stores
    <3>5. result.cells[i] \in Triples BY <2>4, <3>4
    <3> QED BY <3>5 DEF Triples, IsCell
  <2> QED BY <2>1, <2>2, <2>3, <2>4 DEF TypeOK
<1> QED BY <1>1, CodecInvariant, PTL

\* In every chunk of blocks the differences of quadrants are from 0 to 7: the quadrants of
\* a block ascend, of any table in any order, whether its cells fit or not.
THEOREM QuadrantsAscend == Spec => []QuadsAscend
<1>1. CodecInv => QuadsAscend
  <2> SUFFICES ASSUME CodecInv, pc \in {"encoded", "decoded"}, ~file.is_direct,
                      NEW j \in DOMAIN file.quads.deltas
               PROVE  PatchDecode(file.quads)[j] \in 0..7
    BY DEF QuadsAscend
  <2>1. PICK s \in SetToSeqs(DOMAIN table) : Stores(file, s, table, range, IsDirect)
    BY StoredLemma
  <2>2. /\ DOMAIN file.quads.deltas = 1..Len(s)
        /\ PatchDecode(file.quads) \in [1..Len(s) -> 0..7]
    BY <2>1 DEF Stores
  <2> QED BY <2>2
<1> QED BY <1>1, CodecInvariant, PTL

\* What fits the words of a chunk.
Fits == FitIn(DOMAIN table, range, IsDirect)

\* What is read of such a chunk.
LEMMA FittingRead ==
  ASSUME CodecInv, Fits, pc = "decoded"
  PROVE  \E s \in SetToSeqs(DOMAIN table) :
           /\ Len(s) \in Nat /\ Len(s) = Cardinality(DOMAIN table)
           /\ s \in [1..Len(s) -> DOMAIN table] /\ Lists(s, DOMAIN table)
           /\ CountsOf(s, table) \in [1..Len(s) -> Nat]
           /\ result.cells = s /\ result.counts = CountsOf(s, table)
           /\ result.points = FlattenSeq(Runs(Len(s), s, CountsOf(s, table)))
<1>1. PICK s \in SetToSeqs(DOMAIN table) :
        /\ Stores(file, s, table, range, IsDirect)
        /\ Len(s) \in Nat /\ Len(s) = Cardinality(DOMAIN table)
        /\ s \in [1..Len(s) -> DOMAIN table] /\ Lists(s, DOMAIN table)
        /\ CountsOf(s, table) \in [1..Len(s) -> Nat]
  BY StoredLemma
<1>2. CellsIn(file, range) = s /\ file.counts = CountsOf(s, table) BY <1>1 DEF Stores, Fits
<1>3. Reads(result, file, range) BY DEF CodecInv
<1>4. /\ result.cells = s /\ result.counts = CountsOf(s, table)
      /\ result.points = FlattenSeq([i \in DOMAIN s |->
                           [k \in 1..CountsOf(s, table)[i] |-> s[i]]])
  BY <1>2, <1>3 DEF Reads
<1>5. DOMAIN s = 1..Len(s) BY <1>1
<1>6. result.points = FlattenSeq(Runs(Len(s), s, CountsOf(s, table))) BY <1>4, <1>5 DEF Runs
<1> QED BY <1>1, <1>4, <1>6

\* A table whose cells fit is read back: every cell once, with its own count, and as many
\* points of it; in either mode, from either entry point, whatever the order the table is
\* poured out in and whatever range mapreduce agreed on.
THEOREM TablesRoundTrip == Spec => [](Fits => RoundTrips)
<1>1. CodecInv => (Fits => RoundTrips)
  <2> SUFFICES ASSUME CodecInv, Fits, pc = "decoded"
               PROVE  /\ Len(result.cells) = Cardinality(DOMAIN table)
                      /\ {<<result.cells[i], result.counts[i]>> : i \in DOMAIN result.cells}
                           = {<<c, table[c]>> : c \in DOMAIN table}
                      /\ \A c \in DOMAIN table :
                           Cardinality({k \in DOMAIN result.points : result.points[k] = c})
                             = table[c]
    BY DEF RoundTrips
  <2> DEFINE C == DOMAIN table
  <2>1. PICK s \in SetToSeqs(C) :
          /\ Len(s) \in Nat /\ Len(s) = Cardinality(C)
          /\ s \in [1..Len(s) -> C] /\ Lists(s, C)
          /\ CountsOf(s, table) \in [1..Len(s) -> Nat]
          /\ result.cells = s /\ result.counts = CountsOf(s, table)
          /\ result.points = FlattenSeq(Runs(Len(s), s, CountsOf(s, table)))
    BY FittingRead
  <2> DEFINE n == Len(s)
             m == CountsOf(s, table)
             ps == result.points
  <2>2. n \in Nat /\ s \in [1..n -> C] /\ m \in [1..n -> Nat] BY <2>1
  <2>3. \A c \in C : \E i \in 1..n : s[i] = c BY <2>1 DEF Lists
  <2>4. \A i \in 1..n : m[i] = table[s[i]] BY DEF CountsOf
  <2>5. ps = FlattenSeq(Runs(n, s, m)) BY <2>1
  <2>6. result.cells = s /\ result.counts = m /\ n = Cardinality(C) BY <2>1
  <2> HIDE DEF n, m, ps, C
  <2>7. {<<s[i], m[i]>> : i \in 1..n} = {<<c, table[c]>> : c \in C} BY <2>2, <2>3, <2>4
  <2>8. /\ ps \in Seq(C)
        /\ \A i \in 1..n : Cardinality(Places(ps, s[i])) = m[i]
    <3>1. \A i, k \in 1..n : s[i] = s[k] => i = k BY <2>1 DEF Lists, n
    <3>2. /\ FlattenSeq(Runs(n, s, m)) \in Seq(C)
          /\ \A i \in 1..n : Cardinality(Places(FlattenSeq(Runs(n, s, m)), s[i])) = m[i]
      BY <2>2, <3>1, Repeating, SMTT(60)
    <3> QED BY <2>5, <3>2
  <2>9. \A c \in C : {k \in DOMAIN ps : ps[k] = c} = Places(ps, c)
    <3>1. DOMAIN ps = 1..Len(ps) BY <2>8
    <3> QED BY <3>1 DEF Places
  <2>10. \A c \in C : Cardinality({k \in DOMAIN ps : ps[k] = c}) = table[c]
    <3> SUFFICES ASSUME NEW c \in C
                 PROVE  Cardinality({k \in DOMAIN ps : ps[k] = c}) = table[c]
      OBVIOUS
    <3>1. PICK i \in 1..n : s[i] = c BY <2>3
    <3>2. Cardinality(Places(ps, c)) = m[i] /\ m[i] = table[c] BY <2>4, <2>8, <3>1
    <3> QED BY <2>9, <3>2
  <2>11. DOMAIN s = 1..n /\ Len(s) = n BY <2>2
  <2> QED BY <2>6, <2>7, <2>10, <2>11 DEF C, ps
<1> QED BY <1>1, CodecInvariant, PTL

-----------------------------------------------------------------------------
(* Tables that fit *)

\* Tables that fit in either mode and from either entry point: no coordinate is
\* negative or above w, nor is a maximum that mapreduce agrees on, and where the
\* direct mode may be taken coordinates have no more than CoordBits bits.  With the
\* numbers of the code (words of 64 bits, ints of 32, coordinates of 21, blocks of 64,
\* and the default threshold) all that is left of the conjuncts about w is that it is
\* at most about 2^28.
Narrow(w) ==
  /\ DirectThreshold <= Pow2[CoordBits] \/ w < Pow2[CoordBits]
  /\ Pow2[3 * CoordBits] <= WordSize
  /\ 2 * w < IntSize /\ BlocksFit(w)
  /\ GlobalRanges \subseteq 0..w
  /\ \A t \in Tables : \A c \in DOMAIN t : \A a \in 1..3 : c[a] \in 0..w

\* The range stays below, too.
LEMMA RangesBelow ==
  ASSUME NEW w \in Nat, Narrow(w)
  PROVE  Spec => [](\A a \in 1..3 : range[a] \in 0..w)
<1> DEFINE Inv == \A a \in 1..3 : range[a] \in 0..w
<1>1. Init => Inv
  <2> SUFFICES ASSUME Init PROVE Inv OBVIOUS
  <2>1. CASE entry = "compress"
    <3> DEFINE C == DOMAIN table
    <3>1. table \in Tables /\ range = RangeOf(C) BY <2>1 DEF Init
    <3>2. C \in SUBSET Triples /\ IsFiniteSet(C) BY <3>1, TableLemma
    <3>3. \A c \in C : \A a \in 1..3 : c[a] <= w BY <3>1 DEF Narrow
    <3> HIDE DEF C
    <3>4. \A a \in 1..3 : RangeOf(C)[a] \in 0..w BY <3>2, <3>3, RangeBelow
    <3> QED BY <3>1, <3>4
  <2>2. CASE entry # "compress"
    <3>1. PICK m \in GlobalRanges : range = [a \in 1..3 |-> m] BY <2>2 DEF Init
    <3>2. m \in 0..w BY DEF Narrow
    <3> QED BY <3>1, <3>2
  <2> QED BY <2>1, <2>2
<1>2. Inv /\ [Next]_vars => Inv'
  BY DEF Next, Pour, EncodeDirect, CrashOnNothing, EncodeBlocks, Decode, vars
<1> QED BY <1>1, <1>2, PTL DEF Spec

LEMMA NarrowFits ==
  ASSUME NEW w \in Nat, Narrow(w), CodecInv, \A a \in 1..3 : range[a] \in 0..w
  PROVE  Fits
<1> DEFINE C == DOMAIN table
<1>1. /\ table \in Tables /\ range \in [1..3 -> Nat]
      /\ \A c \in C : \A a \in 1..3 : c[a] <= range[a]
  BY DEF CodecInv, TableInv
<1>2. C \subseteq Triples BY <1>1, TableLemma
<1>3. \A c \in C : \A a \in 1..3 : c[a] \in 0..w BY <1>1 DEF Narrow
<1>4. CoordBits \in Nat /\ IntSize \in Nat /\ WordSize \in Nat BY BlockAssumption
<1>5. Pow2[CoordBits] \in Nat /\ Pow2[3 * CoordBits] \in Nat
  <2>1. 3 * CoordBits \in Nat BY <1>4
  <2> QED BY <1>4, <2>1, Powers
<1> HIDE DEF C
<1>6. CASE IsDirect
  <2>1. ASSUME NEW c \in C, NEW a \in 1..3 PROVE c[a] \in 0..(Pow2[CoordBits] - 1)
    <3>1. c[a] \in 0..w BY <1>3
    <3>2. CASE w < Pow2[CoordBits] BY <1>5, <3>1, <3>2
    <3>3. CASE DirectThreshold <= Pow2[CoordBits]
      <4> DEFINE R == {range[b] : b \in 1..3}
                 x == c[a]
                 y == range[a]
                 z == MaxOf(R)
      <4>1. R \in SUBSET Int /\ R # {} /\ IsFiniteSet(R) /\ y \in R
        <5>1. 1 \in Int /\ 3 \in Int OBVIOUS
        <5>2. \A i, k \in Int : IsFiniteSet(i..k) BY FS_Interval
        <5>3. IsFiniteSet(1..3) BY <5>1, <5>2, Zenon
        <5>4. range = [b \in 1..3 |-> range[b]] /\ DOMAIN range = 1..3 BY <1>1
        <5>5. IsFiniteSet(R) BY <5>3, <5>4, ImageLemma
        <5> QED BY <1>1, <5>5
      <4>2. z \in R /\ \A v \in R : v <= z
        <5> HIDE DEF R
        <5> QED BY <4>1, Greatest
      <4>3. z < DirectThreshold BY <1>6 DEF IsDirect
      <4>4. x \in 0..w /\ x <= y /\ y \in Int /\ z \in Int /\ y <= z
        BY <1>1, <3>1, <4>1, <4>2
      <4>5. DirectThreshold \in Int BY CodecAssumption
      <4> HIDE DEF R, x, y, z
      <4>6. x \in 0..(Pow2[CoordBits] - 1) BY <1>5, <3>3, <4>3, <4>4, <4>5
      <4> QED BY <4>6 DEF x
    <3> QED BY <3>2, <3>3 DEF Narrow
  <2>2. ASSUME NEW c \in C PROVE Codable(c) /\ MortonCode(c) < WordSize
    <3>1. Codable(c) BY <2>1 DEF Codable
    <3>2. MortonCode(c) \in Nat /\ MortonCode(c) < Pow2[3 * CoordBits]
      BY <1>2, CodeSize, CodeLemma
    <3>3. Pow2[3 * CoordBits] <= WordSize BY DEF Narrow
    <3> QED BY <1>4, <1>5, <3>1, <3>2, <3>3
  <2> QED BY <1>6, <2>2 DEF Fits, FitIn, C
<1>7. CASE ~IsDirect
  <2>1. \A c \in C : \A a \in 1..3 : 0 <= c[a] /\ 2 * c[a] < IntSize
    <3>1. 2 * w < IntSize BY DEF Narrow
    <3> QED BY <1>3, <1>4, <3>1
  <2>2. BlocksFit(w) BY DEF Narrow
  <2>3. Across(range, 1) * Across(range, 2) * Across(range, 3) <= WordSize BY <2>2, BlocksBelow
  <2> QED BY <1>7, <2>1, <2>3 DEF Fits, FitIn, C
<1> QED BY <1>6, <1>7

\* Tables of that kind are always read back, whole: whatever the threshold decides, and
\* whatever maximum the ranks of a job agree on.
THEOREM NarrowTablesRoundTrip ==
  ASSUME NEW w \in Nat, Narrow(w)
  PROVE  Spec => []RoundTrips
<1> DEFINE Below == \A a \in 1..3 : range[a] \in 0..w
<1>1. CodecInv /\ Below => Fits BY NarrowFits
<1>2. Spec => []Below BY RangesBelow
<1> HIDE DEF Below
<1> QED BY <1>1, <1>2, CodecInvariant, TablesRoundTrip, PTL
=============================================================================
