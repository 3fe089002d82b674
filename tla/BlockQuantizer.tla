--------------------------- MODULE BlockQuantizer ---------------------------
(***************************************************************************)
(* What both codecs do to a sequence of cells: block_quantize and          *)
(* recover_from_lcp_meta, Morton codes, differences and PForDelta.         *)
(* A machine word is one of WordSize numbers and unsigned, so that a cell  *)
(* coordinate of -1 becomes the largest word.  Left out: in the direct     *)
(* mode curve -h converts the Morton code of a cell to a Hilbert code and  *)
(* back, one-to-one on the codes of cells without negative coordinates;    *)
(* Morton codes stand for both.  And block_quantize knows that there is no *)
(* block before the first by the number 2^64 - 1, which no block has       *)
(* whose number has not wrapped around.                                    *)
(* An operator commented as a fault is a wrong version of the one after    *)
(* it, kept to confirm that the properties notice; nothing else uses it.   *)
(***************************************************************************)
EXTENDS Integers, Sequences, FiniteSets, SequencesExt

CONSTANTS Edge,             \* block edge, 64 in the code
          WordSize,         \* values of a machine word, 2^64 in the code
          IntSize,          \* values of an int, 2^32 in the code
          CoordBits,        \* bits of a coordinate in a Morton code, 21 in the code
          PatchLimit,       \* lim of PForDeltaEncoder, 254 in the code
          Along             \* the curve through a block, local position -> code

Local == (0..(Edge - 1)) \X (0..(Edge - 1)) \X (0..(Edge - 1))

ASSUME BlockAssumption ==
  /\ Edge \in Nat \ {0} /\ PatchLimit \in Nat /\ CoordBits \in Nat
  /\ IntSize \in Nat \ {0} /\ IntSize % 2 = 0
  /\ WordSize \in Nat /\ WordSize >= 256 /\ WordSize % IntSize = 0
  /\ Along \in [Local -> 0..(WordSize - 1)] /\ \A p, q \in Local : Along[p] = Along[q] => p = q

-----------------------------------------------------------------------------
(* Words and sequences *)

Word(n) == n % WordSize
IntOf(w) == LET m == w % IntSize IN IF 2 * m < IntSize THEN m ELSE m - IntSize

Deltas(s) == [i \in DOMAIN s |-> IF i = 1 THEN s[1] ELSE Word(s[i] - s[i - 1])]
Sums(s) == LET sum[i \in DOMAIN s] == IF i = 1 THEN s[1] ELSE Word(s[i] + sum[i - 1])
           IN sum

\* The elements of a set in an order.
Sorted(S, Less(_, _)) ==
  CHOOSE s \in [1..Cardinality(S) -> S] : \A i, j \in DOMAIN s : i < j => Less(s[i], s[j])

\* The numbers above a limit, in their order.
Above(s, limit) == LET at == Sorted({i \in DOMAIN s : s[i] > limit}, <)
                   IN [k \in DOMAIN at |-> s[at[k]]]
\* Fault: the limit is one too high, and the number after it has no room in a byte.
PatchEncodeLate(s) ==
  [patches |-> Above(s, PatchLimit + 1),
   deltas |-> [i \in DOMAIN s |-> IF s[i] > PatchLimit + 1 THEN 0 ELSE s[i] + 1]]
\* Numbers above the limit move to the patches and leave a 0.
PatchEncode(s) == [patches |-> Above(s, PatchLimit),
                   deltas |-> [i \in DOMAIN s |-> IF s[i] > PatchLimit THEN 0 ELSE s[i] + 1]]
PatchDecode(d) ==
  [i \in DOMAIN d.deltas |->
     IF d.deltas[i] = 0 THEN d.patches[Cardinality({k \in 1..i : d.deltas[k] = 0})]
     ELSE d.deltas[i] - 1]

MaxOf(S) == CHOOSE x \in S : \A y \in S : y <= x
RangeOf(S) == [a \in 1..3 |-> MaxOf({0} \cup {c[a] : c \in S})]

-----------------------------------------------------------------------------
(* Blocks: block_quantize and recover_from_lcp_meta *)

Across(grid, a) == grid[a] \div (2 * Edge) + 1
Part(c, a) == Word(c[a]) \div Edge
LocalOf(c) == [a \in 1..3 |-> Word(c[a]) % Edge]

\* The pair of blocks a cell is in, which of the two along each axis, and where
\* in it.
NodeOf(grid, c, i) ==
  [id |-> Word((Part(c, 1) \div 2) + (Part(c, 2) \div 2) * Across(grid, 1)
               + (Part(c, 3) \div 2) * Across(grid, 1) * Across(grid, 2)),
   quad |-> (Part(c, 1) % 2) + 2 * (Part(c, 2) % 2) + 4 * (Part(c, 3) % 2),
   re |-> Along[<<LocalOf(c)[1], LocalOf(c)[2], LocalOf(c)[3]>>],
   ord |-> i]

\* Fault: within a block the order is that of the code alone.
BeforeByCode(u, v) ==
  \/ u.id < v.id
  \/ u.id = v.id /\ u.re < v.re
  \/ u.id = v.id /\ u.re = v.re /\ u.quad < v.quad
Before(u, v) ==
  \/ u.id < v.id
  \/ u.id = v.id /\ u.quad < v.quad
  \/ u.id = v.id /\ u.quad = v.quad /\ u.re < v.re
  \/ u.id = v.id /\ u.quad = v.quad /\ u.re = v.re /\ u.ord < v.ord

Nodes(grid, cs) == Sorted({NodeOf(grid, cs[i], i) : i \in DOMAIN cs}, Before)

SameBlock(ns, j) == j > 1 /\ ns[j].id = ns[j - 1].id

SameQuad(ns, j) == SameBlock(ns, j) /\ ns[j].quad = ns[j - 1].quad

Quads(ns) == [j \in DOMAIN ns |-> IF SameBlock(ns, j) THEN (ns[j].quad - ns[j - 1].quad) % 256
                                  ELSE ns[j].quad]
Repos(ns) == [j \in DOMAIN ns |-> IF SameQuad(ns, j) THEN Word(ns[j].re - ns[j - 1].re)
                                  ELSE ns[j].re]

\* Where the blocks begin.
Starts(ns) == Sorted({j \in DOMAIN ns : ~SameBlock(ns, j)}, <)
\* Fault: an empty table has no block.
BlkstIfAny(ns) == [i \in DOMAIN Starts(ns) |-> ns[Starts(ns)[i]].id]
\* Numbers and sizes of the blocks; an empty table has one empty block 0.
Blkst(ns) == IF ns = <<>> THEN <<0>> ELSE [i \in DOMAIN Starts(ns) |-> ns[Starts(ns)[i]].id]
Blkcnt(ns) == IF ns = <<>> THEN <<0>>
              ELSE [i \in DOMAIN Starts(ns) |->
                      (Append(Starts(ns), Len(ns) + 1))[i + 1] - Starts(ns)[i]]

\* The corner of a pair of blocks.
Corner(grid, id) == <<(id % Across(grid, 1)) * 2 * Edge, ((id \div Across(grid, 1)) % Across(grid, 2)) * 2 * Edge,
                ((id \div Across(grid, 1)) \div Across(grid, 2)) * 2 * Edge>>
FromCurve(code) == CHOOSE p \in Local : Along[p] = code

\* The block of the j-th cell, and whether it is the first one in it.
BlockOf(blkcnt, j) == CHOOSE i \in DOMAIN blkcnt : j <= Sums(blkcnt)[i] /\ j > Sums(blkcnt)[i] - blkcnt[i]
FirstIn(blkcnt, j) == \E i \in DOMAIN blkcnt : j = Sums(blkcnt)[i] - blkcnt[i] + 1 /\ blkcnt[i] > 0

\* Quadrant and code of each cell, from their differences.
Walk(blkcnt, quads, repos) ==
  LET at[j \in DOMAIN repos] ==
        LET prev == IF FirstIn(blkcnt, j) THEN [quad |-> 0, re |-> 0] ELSE at[j - 1]
        IN [quad |-> Word(quads[j] + prev.quad),
            re |-> Word(repos[j] + (IF quads[j] # 0 THEN 0 ELSE prev.re))]
  IN at

BlockCells(grid, blkst, blkcnt, quads, repos) ==
  [j \in DOMAIN repos |->
     LET at == Walk(blkcnt, quads, repos)[j]
         corner == Corner(grid, blkst[BlockOf(blkcnt, j)])
         p == FromCurve(at.re)
     IN <<IntOf(Word(corner[1] + (at.quad % 2) * Edge + p[1])),
          IntOf(Word(corner[2] + ((at.quad \div 2) % 2) * Edge + p[2])),
          IntOf(Word(corner[3] + ((at.quad \div 4) % 2) * Edge + p[3]))>>]

-----------------------------------------------------------------------------
(* Direct mode: one Morton code for the whole cell *)

\* The low k bits of n, three places apart, and back.
Spread[k \in Nat] ==
  [n \in Int |-> IF k = 0 THEN 0 ELSE (n % 2) + 8 * Spread[k - 1][n \div 2]]
Compact[n \in Nat] == IF n = 0 THEN 0 ELSE (n % 2) + 2 * Compact[n \div 8]
SplitBy3(x) == Spread[CoordBits][x]
MortonCode(c) == SplitBy3(c[1]) + 2 * SplitBy3(c[2]) + 4 * SplitBy3(c[3])
DecodeMorton(m) == <<Compact[m], Compact[m \div 2], Compact[m \div 4]>>

Entries(cs) == Sorted({<<MortonCode(cs[i]), i>> : i \in DOMAIN cs},
                      LAMBDA u, v : u[1] < v[1] \/ (u[1] = v[1] /\ u[2] < v[2]))
=============================================================================
