------------------------------ MODULE MapReduce ------------------------------
(***************************************************************************)
(* run_mapreduce of src/source/mpi_driver.cpp: every rank scans its blocks *)
(* for the global minimum, quantizes them into a local cell table, learns  *)
(* the extent of all tables, (samplesort) agrees on splitters, sends each  *)
(* cell to the rank that owns it, adds up what it received and writes one  *)
(* part file.  An action is what a rank does between two collectives: it   *)
(* leaves the collective it was blocked in, computes, and enters the next. *)
(* An operator commented as a fault is a wrong version of the one after    *)
(* it, kept to confirm that the properties notice; nothing else uses it.   *)
(* Collectives that follow each other with nothing computed in between     *)
(* (the two bbox reductions, the three range reductions, Allgather and     *)
(* Allgatherv, Alltoall and Alltoallv) are one call here.                  *)
(***************************************************************************)
EXTENDS Quantizers, MpiComm, FiniteSets, FiniteSetsExt

CONSTANTS NRanks, NumBlocks,
          Input,           \* the shared input file: block -> sequence of points
          Mode,            \* XNYZIP_MR_PARTITION, the same on every rank
          SamplesPerRank,  \* 1024 in the code
          MaxInt,          \* INT32_MAX in the code
          CoordBits,       \* bits of a coordinate in a Morton code, 21 in the code
          FloatMax,        \* the numeric_limits sentinel of the bbox scan
          IntOverflow      \* what the build makes of a double too large for an int

Ranks  == 0..(NRanks - 1)
Blocks == 0..(NumBlocks - 1)
Modes  == {"samplesort", "morton-range", "hash", "morton"}

ASSUME MapReduceAssumption ==
  /\ NRanks \in Nat \ {0} /\ NumBlocks \in Nat \ {0}
  /\ SamplesPerRank \in Nat \ {0} /\ MaxInt \in Nat \ {0}
  /\ CoordBits \in Nat \ {0} /\ FloatMax \in Int
  /\ IntOverflow \in Int
  /\ Mode \in Modes

ASSUME InputAssumption == Input \in [Blocks -> Seq(Point)]

\* No coordinate is an infinity.
ASSUME FloatAssumption ==
  \A b \in Blocks : \A i \in DOMAIN Input[b] : \A a \in Axes : Input[b][i][a] <= FloatMax

VARIABLES pc,         \* where each rank is: the collective it is blocked in, or a local phase
          calls,      \* the collectives each rank has entered (MpiComm)
          offset,     \* global_offset as each rank knows it
          table,      \* local_table
          extent,     \* global_max_q_pre, global_morton_min, global_morton_max
          splitters,  \* samplesort splitters
          owned,      \* owned_table
          part        \* the rank's part file, NoPart until it is written

vars == <<pc, calls, offset, table, extent, splitters, owned, part>>

-----------------------------------------------------------------------------
(* Data *)

NoTable == [c \in {} |-> 0]
NoPart  == [written |-> FALSE]
NoExtent == [maxq |-> 0, lo |-> 0, hi |-> 0]

\* A point of the cloud is known by its block and its place in the block.
PointIds == UNION {{b} \X DOMAIN Input[b] : b \in Blocks}
\* Fault: the stride loop ends one block early.
PointsButLastBlock(r) == {p \in PointIds : p[1] % NRanks = r /\ p[1] < NumBlocks - 1}
PointsOf(r) == {p \in PointIds : p[1] % NRanks = r}
At(p) == Input[p[1]][p[2]]
Shifted(p, off) == <<At(p)[1] - off[1], At(p)[2] - off[2], At(p)[3] - off[3]>>

\* The cell of each point of P, and how many points each cell has.
Placed(P, off) == {<<p, QuantizeCell(Shifted(p, off))>> : p \in P}
Histogram(placed) == [c \in {x[2] : x \in placed} |->
                        Cardinality({x \in placed : x[2] = c})]

\* Faults: the cut-off at INT32_MAX is missing; the cast is done without it.
Unbounded(n) == n
Wrapped(n) == n % (MaxInt + 1)
Sat(n) == IF n > MaxInt THEN MaxInt ELSE n

\* The low k bits of n, three places apart; CoordBits bits of a coordinate count.
Spread[k \in Nat] ==
  [n \in Int |-> IF k = 0 THEN 0 ELSE (n % 2) + 8 * Spread[k - 1][n \div 2]]
SplitBy3(x) == Spread[CoordBits][x]
MortonCode(c) == SplitBy3(c[1]) + 2 * SplitBy3(c[2]) + 4 * SplitBy3(c[3])
Codes(cells) == {MortonCode(c) : c \in cells}

-----------------------------------------------------------------------------
(* Phases A and B: the bounding box and the local table *)

MinPoint(S) == <<Min({q[1] : q \in S}), Min({q[2] : q \in S}), Min({q[3] : q \in S})>>
LocalMin(r) == MinPoint({<<FloatMax, FloatMax, FloatMax>>} \cup {At(p) : p \in PointsOf(r)})
GlobalOffset(col) == MinPoint({col[s] : s \in Ranks})

LocalTable(r, off) == Histogram(Placed(PointsOf(r), off))

LocalExtent(tab) ==
  [maxq |-> Max({0} \cup UNION {{c[a] : a \in Axes} : c \in DOMAIN tab}),
   lo   |-> IF DOMAIN tab = {} THEN 0 ELSE Min(Codes(DOMAIN tab)),
   hi   |-> IF DOMAIN tab = {} THEN 0 ELSE Max(Codes(DOMAIN tab))]

GlobalExtent(col) == [maxq |-> Max({col[s].maxq : s \in Ranks}),
                      lo   |-> Min({col[s].lo : s \in Ranks}),
                      hi   |-> Max({col[s].hi : s \in Ranks})]

-----------------------------------------------------------------------------
(* Phase C: which rank owns a cell *)

\* All cells if they are few, else any SamplesPerRank of them: reservoir
\* sampling over an unordered_map whose order is unspecified.
SampleChoices(cells) ==
  IF Cardinality(cells) <= SamplesPerRank THEN {cells}
  ELSE kSubset(SamplesPerRank, cells)

\* The samples of all ranks; a code sampled by two ranks is there twice.
AllSamples(col) == UNION {{<<s, c, col[s][c]>> : c \in DOMAIN col[s]} : s \in Ranks}

\* The idx-th sample (from 0) in sorted order.
SortedSample(all, idx) ==
  CHOOSE v \in {x[3] : x \in all} :
    /\ Cardinality({x \in all : x[3] < v}) <= idx
    /\ Cardinality({x \in all : x[3] <= v}) > idx

Splitters(col) ==
  LET all == AllSamples(col)
      total == Cardinality(all)
  IN IF total = 0 \/ NRanks = 1 THEN <<>>
     ELSE [i \in 1..(NRanks - 1) |-> SortedSample(all, (total * i) \div NRanks)]

\* std::upper_bound: how many elements come before the first one above code.
UpperBound(seq, code) == Min({i \in 1..Len(seq) : seq[i] > code} \cup {Len(seq) + 1}) - 1

\* The bit length of maxq, at least 1; and how many codes n bits per axis have.
AxisBits[maxq \in Nat] == IF maxq <= 1 THEN 1 ELSE 1 + AxisBits[maxq \div 2]
CurveLength[n \in Nat] == IF n = 0 THEN 1 ELSE 8 * CurveLength[n - 1]

\* Fault: a number beyond the last rank is not clamped.
Unclamped(n) == n
ClampRank(n) == IF n < 0 THEN 0 ELSE IF n >= NRanks THEN NRanks - 1 ELSE n

\* static_cast<int> of a double: undefined if there is no such int, and then whatever
\* the build's conversion gives, INT32_MIN on x86-64, INT32_MAX on AArch64.
ToInt(n) == IF n <= MaxInt THEN n ELSE IntOverflow

\* How far along the curve a cell is, in units of a rank's share.  The curve is as long
\* as the largest coordinate takes: the code of a cell with z = -1 may be far beyond it.
Position(c, ext) ==
  (MortonCode(c) * NRanks) \div CurveLength[Min({AxisBits[ext.maxq], CoordBits})]

\* The 64-bit multiply-and-xor mix is a linear mix of 8 bits here.
CellHash(c) == (c[1] * 73 + c[2] * 19 + c[3] * 83) % 256

OwnerRank(c, ext, spl) ==
  CASE Mode = "hash" -> CellHash(c) % NRanks
    [] Mode = "samplesort" -> ClampRank(UpperBound(spl, MortonCode(c)))
    [] Mode = "morton-range" ->
         IF ext.hi <= ext.lo THEN 0
         ELSE LET code == MortonCode(c)
                  off == IF code > ext.lo THEN code - ext.lo ELSE 0
              IN ClampRank((off * NRanks) \div (ext.hi - ext.lo + 1))
    [] Mode = "morton" -> ClampRank(ToInt(Position(c, ext)))

SendBuckets(tab, ext, spl) ==
  [t \in Ranks |-> [c \in {d \in DOMAIN tab : OwnerRank(d, ext, spl) = t} |-> Sat(tab[c])]]

-----------------------------------------------------------------------------
(* Phases D, E and F *)

\* Fault: an entry replaces the one another rank sent for the same cell.
OverwriteReceived(r, col) ==
  [c \in UNION {DOMAIN col[s][r] : s \in Ranks} |->
     LET last == Max({s \in Ranks : c \in DOMAIN col[s][r]}) IN col[last][r][c]]

\* Entries for the same cell from several ranks add up.
ReduceReceived(r, col) ==
  [c \in UNION {DOMAIN col[s][r] : s \in Ranks} |->
     SumFunction([s \in {t \in Ranks : c \in DOMAIN col[t][r]} |-> col[s][r][c]])]

\* Fault: the file carries the minimum of the rank's own blocks as its offset.
PartWithLocalOffset(r) ==
  [written |-> TRUE, offset |-> LocalMin(r), range |-> extent[r].maxq,
   cells |-> [c \in DOMAIN owned[r] |-> Sat(owned[r][c])]]
PartOf(r) == [written |-> TRUE, offset |-> offset[r], range |-> extent[r].maxq,
              cells |-> [c \in DOMAIN owned[r] |-> Sat(owned[r][c])]]

-----------------------------------------------------------------------------
Init ==
  /\ pc = [r \in Ranks |-> "start"]
  /\ calls = [r \in Ranks |-> <<>>]
  /\ offset = [r \in Ranks |-> <<0, 0, 0>>]
  /\ table = [r \in Ranks |-> NoTable]
  /\ extent = [r \in Ranks |-> NoExtent]
  /\ splitters = [r \in Ranks |-> <<>>]
  /\ owned = [r \in Ranks |-> NoTable]
  /\ part = [r \in Ranks |-> NoPart]

Goto(r, to) == pc' = [pc EXCEPT ![r] = to]
Released(r) == AllEntered(calls, Len(calls[r]))
Received(r) == Column(calls, Len(calls[r]))

\* Phase A: scan the blocks b = rank, rank + nranks, ... and enter Allreduce.
ScanBbox(r) ==
  /\ pc[r] = "start"
  /\ calls' = Post(calls, r, "Allreduce bbox", LocalMin(r))
  /\ Goto(r, "bbox")
  /\ UNCHANGED <<offset, table, extent, splitters, owned, part>>

\* Fault: shift_points() is used, which subtracts the minimum of the rank's own points.
MapWithLocalOffset(r) ==
  /\ pc[r] = "bbox" /\ Released(r)
  /\ LET tab == LocalTable(r, LocalMin(r)) IN
       /\ offset' = [offset EXCEPT ![r] = GlobalOffset(Received(r))]
       /\ table' = [table EXCEPT ![r] = tab]
       /\ calls' = Post(calls, r, "Allreduce ranges", LocalExtent(tab))
  /\ Goto(r, "ranges")
  /\ UNCHANGED <<extent, splitters, owned, part>>

\* Phase B: quantize with the global offset, then enter the range reductions.
MapQuantize(r) ==
  /\ pc[r] = "bbox" /\ Released(r)
  /\ LET off == GlobalOffset(Received(r))
         tab == LocalTable(r, off) IN
       /\ offset' = [offset EXCEPT ![r] = off]
       /\ table' = [table EXCEPT ![r] = tab]
       /\ calls' = Post(calls, r, "Allreduce ranges", LocalExtent(tab))
  /\ Goto(r, "ranges")
  /\ UNCHANGED <<extent, splitters, owned, part>>

\* The map phase throws: MPI_Abort(8).
MapFails(r) ==
  /\ pc[r] = "bbox" /\ Released(r)
  /\ Goto(r, "aborted")
  /\ UNCHANGED <<calls, offset, table, extent, splitters, owned, part>>

\* Samplesort only: contribute samples of the local cells.
ChooseSamples(r) ==
  /\ pc[r] = "ranges" /\ Released(r) /\ Mode = "samplesort"
  /\ extent' = [extent EXCEPT ![r] = GlobalExtent(Received(r))]
  /\ \E cells \in SampleChoices(DOMAIN table[r]) :
       calls' = Post(calls, r, "Allgather samples", [c \in cells |-> MortonCode(c)])
  /\ Goto(r, "samples")
  /\ UNCHANGED <<offset, table, splitters, owned, part>>

\* Fill the send buckets, free the local table and enter the exchange.
Shuffle(r) ==
  /\ calls' = Post(calls, r, "Alltoallv cells",
                   SendBuckets(table[r], extent'[r], splitters'[r]))
  /\ table' = [table EXCEPT ![r] = NoTable]
  /\ Goto(r, "shuffle")
  /\ UNCHANGED <<offset, owned, part>>

\* Fault: splitters are picked before the samples of the other ranks are merged in.
ShuffleByOwnSamples(r) ==
  /\ pc[r] = "samples" /\ Released(r)
  /\ splitters' = [splitters EXCEPT ![r] =
                     Splitters([s \in Ranks |-> IF s = r THEN Received(r)[r] ELSE NoTable])]
  /\ extent' = extent
  /\ Shuffle(r)

ShuffleBySamples(r) ==
  /\ pc[r] = "samples" /\ Released(r)
  /\ splitters' = [splitters EXCEPT ![r] = Splitters(Received(r))]
  /\ extent' = extent
  /\ Shuffle(r)

\* Faults: a rank without cells goes straight to the exchange in every mode; the
\* partition range is the rank's own instead of the reduced one; a rank without cells
\* has nothing to send and stays out of the exchange.
ShuffleIfEmpty(r) ==
  /\ pc[r] = "ranges" /\ Released(r)
  /\ Mode # "samplesort" \/ DOMAIN table[r] = {}
  /\ extent' = [extent EXCEPT ![r] = GlobalExtent(Received(r))]
  /\ splitters' = splitters
  /\ Shuffle(r)

ShuffleByOwnRange(r) ==
  /\ pc[r] = "ranges" /\ Released(r) /\ Mode # "samplesort"
  /\ extent' = [extent EXCEPT ![r] = Received(r)[r]]
  /\ splitters' = splitters
  /\ Shuffle(r)

ShuffleIfAny(r) ==
  /\ pc[r] = "ranges" /\ Released(r) /\ Mode # "samplesort" /\ DOMAIN table[r] # {}
  /\ extent' = [extent EXCEPT ![r] = GlobalExtent(Received(r))]
  /\ splitters' = splitters
  /\ Shuffle(r)

ShuffleByCode(r) ==
  /\ pc[r] = "ranges" /\ Released(r) /\ Mode # "samplesort"
  /\ extent' = [extent EXCEPT ![r] = GlobalExtent(Received(r))]
  /\ splitters' = splitters
  /\ Shuffle(r)

\* Phase D.
Reduce(r) ==
  /\ pc[r] = "shuffle" /\ Released(r)
  /\ owned' = [owned EXCEPT ![r] = ReduceReceived(r, Received(r))]
  /\ Goto(r, "encode")
  /\ UNCHANGED <<calls, offset, table, extent, splitters, part>>

\* Phases E and F: encode the owned cells, write and flush the part file.
EncodeAndWrite(r) ==
  /\ pc[r] = "encode"
  /\ part' = [part EXCEPT ![r] = PartOf(r)]
  /\ owned' = [owned EXCEPT ![r] = NoTable]
  /\ Goto(r, "meta")
  /\ UNCHANGED <<calls, offset, table, extent, splitters>>

\* The end of phase F: write and flush the manifest line, which is MpiDriver's matter,
\* and return.
WriteManifest(r) ==
  /\ pc[r] = "meta"
  /\ Goto(r, "done")
  /\ UNCHANGED <<calls, offset, table, extent, splitters, owned, part>>

\* The encoder throws: MPI_Abort(9).
EncodeFails(r) ==
  /\ pc[r] = "encode"
  /\ Goto(r, "aborted")
  /\ UNCHANGED <<calls, offset, table, extent, splitters, owned, part>>

\* MPI_Abort of one rank brings down the others, each at some later point.
Killed(r) ==
  /\ \E s \in Ranks : pc[s] = "aborted"
  /\ pc[r] \notin {"done", "aborted", "killed"}
  /\ Goto(r, "killed")
  /\ UNCHANGED <<calls, offset, table, extent, splitters, owned, part>>

Step(r) == \/ ScanBbox(r) \/ MapQuantize(r) \/ MapFails(r) \/ ChooseSamples(r)
           \/ ShuffleBySamples(r) \/ ShuffleByCode(r) \/ Reduce(r)
           \/ EncodeAndWrite(r) \/ WriteManifest(r) \/ EncodeFails(r) \/ Killed(r)

Next == \E r \in Ranks : Step(r)

Spec == Init /\ [][Next]_vars
FairSpec == Spec /\ \A r \in Ranks : WF_vars(Step(r))
-----------------------------------------------------------------------------
(* Properties *)

IsTable(t) == DOMAIN t \subseteq Cells /\ \A c \in DOMAIN t : t[c] \in Nat
PcValues == {"start", "bbox", "ranges", "samples", "shuffle", "encode",
             "meta", "done", "aborted", "killed"}

\* The variables have their types, and the counts that go to disk fit an int.
TypeOK ==
  /\ pc \in [Ranks -> PcValues]
  /\ DOMAIN calls = Ranks
  /\ \A r \in Ranks : /\ offset[r] \in Point
                      /\ IsTable(table[r]) /\ IsTable(owned[r])
                      /\ part[r] # NoPart => /\ IsTable(part[r].cells)
                                             /\ \A c \in DOMAIN part[r].cells :
                                                  part[r].cells[c] \in 1..MaxInt

\* Ranks enter the same collectives in the same order: otherwise they would
\* exchange one routine's buffers for another's, or block for ever.
CollectivesMatch == CallsMatch(calls)

Written == {r \in Ranks : part[r].written}
CellsHeld(r) == DOMAIN owned[r] \cup (IF part[r].written THEN DOMAIN part[r].cells ELSE {})

\* Global deduplication: after the shuffle no cell is on two ranks, so no cell
\* is encoded twice, although every rank computes owners on its own.
OneOwner ==
  \A r, s \in Ranks : r # s => CellsHeld(r) \cap CellsHeld(s) = {}

\* The census of the input: true counts, cut off at INT32_MAX as the file format is.
CloudMin == MinPoint({At(p) : p \in PointIds})
TrueCensus == LET hist == Histogram(Placed(PointIds, CloudMin))
              IN [c \in DOMAIN hist |-> Min({hist[c], MaxInt})]
Published ==
  [c \in UNION {DOMAIN part[r].cells : r \in Written} |->
     part[CHOOSE r \in Written : c \in DOMAIN part[r].cells].cells[c]]

Census == INSTANCE CellCensus WITH counts <- TrueCensus, published <- Published

\* The job publishes the census: a cell that appears on disk appears once, at
\* once with the number of points of the whole input that fall in it, and stays.
PublishesCensus == Census!Spec

\* When every rank has returned, nothing is missing.
CompleteWhenDone == (\A r \in Ranks : pc[r] = "done") => Published = TrueCensus

\* A cell read back from a part file, with that file's own offset, is within
\* the bound of as many input points as its count says.
PartsWithinBound ==
  \A r \in Written : \A c \in DOMAIN part[r].cells :
    Cardinality({p \in PointIds : WithinBound(Shifted(p, part[r].offset), c)})
      >= part[r].cells[c]

\* The conversion to a rank stays within int.  Only the partition by prefixes can
\* leave it: the others convert a fraction below NRanks, or a number of splitters.
HasPosition(c, ext) == Mode = "morton" => Position(c, ext) <= MaxInt

\* Along a partition that follows the curve, everything a rank owns comes before
\* everything the next rank owns, so concatenated parts follow the curve.  Partition by
\* prefixes breaks this for cells whose position does not fit an int (z = -1): they are
\* at the far end of the curve, and on x86-64 on rank 0, but all of them on one rank.
PartsFollowCurve ==
  Mode # "hash" =>
    \A r, s \in Ranks : r < s =>
      \A c \in CellsHeld(r), d \in CellsHeld(s) :
        /\ HasPosition(c, extent[r]) \/ HasPosition(d, extent[s])
        /\ HasPosition(c, extent[r]) /\ HasPosition(d, extent[s]) => MortonCode(c) < MortonCode(d)

\* No rank is left blocked in a collective: all finish, or an abort ends them.
Terminates == <>(\A r \in Ranks : pc[r] \in {"done", "aborted", "killed"})
=============================================================================
