------------------------------ MODULE BlockCodec ------------------------------
(***************************************************************************)
(* How a table of cells and counts becomes the bytes of a chunk and is     *)
(* read back: BlockCompressorRLE (compress and encode_cells_with_counts)   *)
(* and BlockDecompressorRLE.  The streams of numbers of a chunk are what   *)
(* the entropy coders are given and give back (StreamCoders); a chunk is a *)
(* record of sequences here.                                               *)
(* An operator commented as a fault is a wrong version of the one after    *)
(* it, kept to confirm that the properties notice; nothing else uses it.   *)
(***************************************************************************)
EXTENDS BlockQuantizer

CONSTANTS Tables,           \* the tables to encode: cell -> count
          GlobalRanges,     \* maximal coordinates that mapreduce may have agreed on
          DirectThreshold   \* direct_threshold

\* Tables are unordered_maps of cells to how often they occur, and their sizes are words.
ASSUME CodecAssumption ==
  /\ DirectThreshold \in Int /\ GlobalRanges \subseteq Nat
  /\ \A t \in Tables :
       /\ IsFiniteSet(DOMAIN t) /\ Cardinality(DOMAIN t) < WordSize
       /\ \A c \in DOMAIN t : c \in Int \X Int \X Int /\ t[c] \in Nat \ {0}

VARIABLES table,   \* unique_map, or the owned table of a mapreduce rank
          entry,   \* which of the two entry points is called
          range,   \* range_x, range_y, range_z
          pc,
          cells, counts,   \* the vectors the table is poured into
          file,    \* the chunk
          result   \* what reading the chunk gives: cells, counts, and a cell per point

vars == <<table, entry, range, pc, cells, counts, file, result>>

-----------------------------------------------------------------------------
(* Chunks *)

\* Fault: counts stay in the order the table was poured out.
KeepCounts(cnts, ords) == cnts
Reordered(cnts, ords) == [i \in DOMAIN cnts |-> cnts[ords[i]]]

\* The direct mode is taken when no coordinate is too large; not by mapreduce.
IsDirect == entry = "compress" /\ MaxOf({range[a] : a \in 1..3}) < DirectThreshold

DirectFile ==
  LET es == Entries(cells) IN
  [is_direct |-> TRUE, num_points |-> Len(cells),
   sfc |-> PatchEncode(Deltas([i \in DOMAIN es |-> es[i][1]])),
   counts |-> Reordered(counts, [i \in DOMAIN es |-> es[i][2]])]

BlockFile ==
  LET ns == Nodes(range, cells) IN
  [is_direct |-> FALSE, num_points |-> Len(cells),
   blk |-> Deltas(Blkst(ns)), cnt |-> Deltas(Blkcnt(ns)),
   repos |-> PatchEncode(Repos(ns)), quads |-> PatchEncode(Quads(ns)),
   counts |-> Reordered(counts, [j \in DOMAIN ns |-> ns[j].ord])]

DecodedCells(f) ==
  IF f.is_direct
  THEN LET codes == Sums(PatchDecode(f.sfc)) IN [i \in DOMAIN codes |-> DecodeMorton(codes[i])]
  ELSE BlockCells(range, Sums(f.blk), Sums(f.cnt), PatchDecode(f.quads), PatchDecode(f.repos))

-----------------------------------------------------------------------------
NoFile == [is_direct |-> FALSE, num_points |-> 0]

Init ==
  /\ table \in Tables
  /\ entry \in {"compress", "encode_cells_with_counts"}
  /\ IF entry = "compress" THEN range = RangeOf(DOMAIN table)
     ELSE \E m \in GlobalRanges : /\ m >= MaxOf({RangeOf(DOMAIN table)[a] : a \in 1..3})
                                  /\ range = [a \in 1..3 |-> m]
  /\ pc = "start"
  /\ cells = <<>> /\ counts = <<>>
  /\ file = NoFile
  /\ result = [cells |-> <<>>, counts |-> <<>>, points |-> <<>>]

\* The table's entries in the unspecified order of an unordered_map.
Pour ==
  /\ pc = "start"
  /\ \E s \in SetToSeqs(DOMAIN table) :
       /\ cells' = s
       /\ counts' = [i \in DOMAIN s |-> table[s[i]]]
  /\ pc' = "poured"
  /\ UNCHANGED <<table, entry, range, file, result>>

EncodeDirect ==
  /\ pc = "poured" /\ IsDirect /\ cells # <<>>
  /\ file' = DirectFile
  /\ counts' = file'.counts
  /\ cells' = <<>>
  /\ pc' = "encoded"
  /\ UNCHANGED <<table, entry, range, result>>

\* The direct mode writes the first difference of no cells: past the end.
CrashOnNothing ==
  /\ pc = "poured" /\ IsDirect /\ cells = <<>>
  /\ pc' = "crashed"
  /\ UNCHANGED <<table, entry, range, cells, counts, file, result>>

EncodeBlocks ==
  /\ pc = "poured" /\ ~IsDirect
  /\ file' = BlockFile
  /\ counts' = file'.counts
  /\ cells' = <<>>
  /\ pc' = "encoded"
  /\ UNCHANGED <<table, entry, range, result>>

\* decompress, or decompress_to_cells and expand_cells_to_points: as many copies
\* of a cell as are counted, to be turned into points.
Decode ==
  /\ pc = "encoded"
  /\ LET cs == DecodedCells(file) IN
       result' = [cells |-> cs, counts |-> file.counts,
                  points |-> FlattenSeq([i \in DOMAIN cs |->
                               [k \in 1..file.counts[i] |-> cs[i]]])]
  /\ pc' = "decoded"
  /\ UNCHANGED <<table, entry, range, cells, counts, file>>

Next == Pour \/ EncodeDirect \/ CrashOnNothing \/ EncodeBlocks \/ Decode

Spec == Init /\ [][Next]_vars
-----------------------------------------------------------------------------
(* Properties *)

IsCell(c) == DOMAIN c = 1..3 /\ \A a \in 1..3 : c[a] \in Int

\* The vectors are parallel, in memory and in the chunk, and the two that go to
\* the BitPacker are never empty: it would throw.
TypeOK ==
  /\ pc \in {"start", "poured", "encoded", "decoded", "crashed"}
  /\ pc = "crashed" => entry = "compress" /\ DOMAIN table = {}
  /\ pc = "poured" => Len(cells) = Len(counts)
  /\ pc \in {"encoded", "decoded"} => /\ file.num_points = Len(file.counts)
                                      /\ file.num_points = Cardinality(DOMAIN table)
                                      /\ ~file.is_direct => /\ file.blk # <<>>
                                                            /\ Len(file.blk) = Len(file.cnt)
  /\ \A i \in DOMAIN result.cells : IsCell(result.cells[i])

\* What is read back is the table: every cell once with its own count, and as
\* many points of it.
RoundTrips ==
  pc = "decoded" =>
    /\ Len(result.cells) = Cardinality(DOMAIN table)
    /\ {<<result.cells[i], result.counts[i]>> : i \in DOMAIN result.cells}
         = {<<c, table[c]>> : c \in DOMAIN table}
    /\ \A c \in DOMAIN table :
         Cardinality({k \in DOMAIN result.points : result.points[k] = c}) = table[c]

\* The quadrants of a block ascend, so that no difference of two of them wraps
\* around in its uint8_t, and the codebook for them stays small.
QuadsAscend ==
  pc \in {"encoded", "decoded"} /\ ~file.is_direct =>
    \A j \in DOMAIN file.quads.deltas : PatchDecode(file.quads)[j] \in 0..7
=============================================================================
