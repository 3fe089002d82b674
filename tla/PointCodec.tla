----------------------------- MODULE PointCodec -----------------------------
(***************************************************************************)
(* The per-point codec (-normal): BlockCompressor and BlockDecompressor,   *)
(* with the programs that call them.  A job is one of                      *)
(*   "file"    XnYZip on a whole file                                      *)
(*   "chunk"   XnYZip with --offset and --count                            *)
(*   "sweep"   chunk_sweep.py, one XnYZip for every chunk of a file        *)
(*   "blocks"  the block loop of XnYZip_mpi, on one rank                   *)
(*   "shared"  the same with --shared-codebook                             *)
(* A point is known by its place in the input; the caller's vector, which  *)
(* compress reorders in place, is a sequence of places.  The streams of a  *)
(* chunk are what the entropy coders are given and give back               *)
(* (StreamCoders).  An operator commented as a fault is a wrong version of *)
(* the one after it, kept to confirm that the properties notice.           *)
(***************************************************************************)
EXTENDS BlockQuantizer, Quantizers

CONSTANTS Clouds,            \* the points of the inputs, in sequence
          PointBytes,        \* 12 in the code
          Jobs               \* [kind, offset, bytes, direct_threshold]: bytes of a
                             \* chunk, 0 for the rest

ASSUME PointAssumption ==
  /\ PointBytes \in Nat \ {0} /\ \A c \in Clouds : c \in Seq(Point)
  /\ \A j \in Jobs : /\ j.kind \in {"file", "chunk", "sweep", "blocks", "shared"}
                     /\ j.offset \in Nat /\ j.bytes \in Nat /\ j.direct_threshold \in Int
                     /\ j.kind = "sweep" => j.bytes >= PointBytes
                     /\ j.kind \in {"blocks", "shared"} =>
                          j.bytes > 0 /\ j.bytes % PointBytes = 0

VARIABLES cloud, rest,   \* the input: its points, and bytes of an incomplete one
          job,
          todo,          \* the reads that are left: offset and bytes
          pc,
          source,        \* what was read for the current chunk
          points,        \* the caller's vector
          profile,       \* the symbols that have codes, in the shared codebooks
          packed,        \* the chunk
          recovered,     \* twice the recovered coordinates
          reported       \* the points compared with a recovered one so far

vars == <<cloud, rest, job, todo, pc, source, points, profile, packed, recovered, reported>>
input == <<cloud, rest, job>>

-----------------------------------------------------------------------------
(* Reading *)

FileSize == Len(cloud) * PointBytes + rest
AlignedSize == FileSize - (FileSize % PointBytes)

\* chunk_byte_offsets, and the blocks of the MPI driver.
Tiles(size) ==
  [i \in 1..((AlignedSize + size - 1) \div size) |->
     [offset |-> (i - 1) * size,
      bytes |-> LET left == AlignedSize - (i - 1) * size IN IF left < size THEN left ELSE size]]

Calls(j) == CASE j.kind \in {"file", "chunk"} -> <<[offset |-> j.offset, bytes |-> j.bytes]>>
              [] j.kind = "sweep" -> Tiles(j.bytes - (j.bytes % PointBytes))
              [] j.kind \in {"blocks", "shared"} -> Tiles(j.bytes)

PointsIn(call) == [i \in 1..(call.bytes \div PointBytes) |-> (call.offset \div PointBytes) + i]

\* Fault: a count of 0 is no points.
ClampedOnly(call) ==
  IF call.offset >= FileSize THEN 0
  ELSE LET left == FileSize - call.offset
       IN IF call.bytes > left THEN left - (left % PointBytes) ELSE call.bytes
\* What read_file_chunk reads.
Clamped(call) ==
  IF call.offset >= FileSize THEN 0
  ELSE LET left == FileSize - call.offset
       IN IF call.bytes = 0 \/ call.bytes > left THEN left - (left % PointBytes) ELSE call.bytes

Misaligned(call) == call.offset % PointBytes # 0 \/ call.bytes % PointBytes # 0

-----------------------------------------------------------------------------
(* Compression and decompression *)

\* Left uninitialized for no points, none of which needs it.
Offset(ps) == [a \in Axes |-> IF ps = <<>> THEN 0
                              ELSE -MaxOf({-cloud[ps[i]][a] : i \in DOMAIN ps})]
CellsOf(ps) ==
  [i \in DOMAIN ps |-> QuantizeCell(<<cloud[ps[i]][1] - Offset(ps)[1],
                                      cloud[ps[i]][2] - Offset(ps)[2],
                                      cloud[ps[i]][3] - Offset(ps)[3]>>)]

\* Empty clouds have the range 0.
InDirectMode(ps) == \A a \in Axes : RangeOf(ToSet(CellsOf(ps)))[a] < job.direct_threshold

\* Fault: the vector is overwritten while it is being read.
ReorderedInPlace(ps, ords) ==
  LET after[i \in 0..Len(ords)] == IF i = 0 THEN ps
                                   ELSE [after[i - 1] EXCEPT ![i] = after[i - 1][ords[i]]]
  IN after[Len(ords)]
\* Fault: the vector stays as it was.
NotReordered(ps, ords) == ps
\* From a copy of the vector.
Reordered(ps, ords) == [i \in DOMAIN ords |-> ps[ords[i]]]

\* The nodes in a sorted order: the sort within a block is not stable, so points of
\* the same cell come in any order.
SortedNodes(range, cs) ==
  {ns \in SetToSeqs({NodeOf(range, cs[i], i) : i \in DOMAIN cs}) :
     \A j \in 2..Len(ns) : ~Before([ns[j] EXCEPT !.ord = 0], [ns[j - 1] EXCEPT !.ord = 0])}

DirectChunk(es, offset) ==
  [is_direct |-> TRUE, num_points |-> Len(es), offset |-> offset,
   sfc |-> PatchEncode(Deltas([i \in DOMAIN es |-> es[i][1]]))]

BlockChunk(ns, range, offset) ==
  [is_direct |-> FALSE, num_points |-> Len(ns), offset |-> offset, range |-> range,
   blk |-> Deltas(Blkst(ns)), cnt |-> Deltas(Blkcnt(ns)),
   repos |-> PatchEncode(Repos(ns)), quads |-> PatchEncode(Quads(ns))]

DecodedCells(f) ==
  IF f.is_direct
  THEN LET codes == Sums(PatchDecode(f.sfc)) IN [i \in DOMAIN codes |-> DecodeMorton(codes[i])]
  ELSE BlockCells(f.range, Sums(f.blk), Sums(f.cnt), PatchDecode(f.quads), PatchDecode(f.repos))

\* Recovered and shifted back.
Unshifted2(f) ==
  LET cs == DecodedCells(f)
  IN [i \in DOMAIN cs |-> LET p == RecoverCell2(cs[i])
                          IN <<p[1] + 2 * f.offset[1], p[2] + 2 * f.offset[2],
                               p[3] + 2 * f.offset[3]>>]

\* Fault: only the symbols of the warm-up block have codes.
OwnSymbols(deltas) == ToSet(deltas)
\* build_complete: every symbol there can be.
CompleteSymbols(deltas) == ToSet(deltas) \cup 0..(PatchLimit + 1)

-----------------------------------------------------------------------------
NoProfile == [repos |-> {}, quads |-> {}]
NoChunk == [num_points |-> 0]

Init ==
  /\ cloud \in Clouds /\ rest \in 0..(PointBytes - 1)
  /\ job \in Jobs
  /\ todo = Calls(job)
  /\ pc = IF job.kind = "shared" THEN "warmup" ELSE "next"
  /\ source = <<>> /\ points = <<>>
  /\ profile = NoProfile
  /\ packed = NoChunk
  /\ recovered = <<>>
  /\ reported = <<>>

Read(ps) ==
  /\ source' = ps /\ points' = ps
  /\ pc' = "read"
  /\ UNCHANGED <<input, todo, profile, packed, recovered, reported>>

End(how) ==
  /\ pc' = how
  /\ UNCHANGED <<input, todo, source, points, profile, packed, recovered, reported>>

\* read_file.
ReadFile ==
  /\ pc = "next" /\ job.kind = "file"
  /\ Read([i \in DOMAIN cloud |-> i])

Reads(kinds) == pc = "next" /\ todo # <<>> /\ job.kind \in kinds

\* read_file_chunk.
ReadChunk ==
  /\ Reads({"chunk", "sweep"}) /\ ~Misaligned(Head(todo))
  /\ Read(PointsIn([Head(todo) EXCEPT !.bytes = Clamped(Head(todo))]))

\* It throws, and nobody catches.
RefuseChunk ==
  /\ Reads({"chunk", "sweep"}) /\ Misaligned(Head(todo))
  /\ End("refused")

\* MPI_File_read_at.
ReadBlock ==
  /\ Reads({"blocks", "shared"})
  /\ Read(PointsIn(Head(todo)))

\* An input without a whole point: MPI_Abort(1).
RefuseInput ==
  /\ job.kind \in {"blocks", "shared"} /\ AlignedSize = 0 /\ pc \in {"warmup", "next"}
  /\ End("refused")

\* fit_profile on the first block; the chunk it returns is discarded.
FitProfile ==
  /\ pc = "warmup" /\ todo # <<>>
  /\ LET ps == PointsIn(Head(todo))
         range == RangeOf(ToSet(CellsOf(ps)))
     IN \E ns \in SortedNodes(range, CellsOf(ps)) :
          profile' = [repos |-> CompleteSymbols(PatchEncode(Repos(ns)).deltas),
                      quads |-> CompleteSymbols(PatchEncode(Quads(ns)).deltas)]
  /\ pc' = "next"
  /\ UNCHANGED <<input, todo, source, points, packed, recovered, reported>>

Pack(chunk, ords) ==
  /\ packed' = chunk
  /\ points' = Reordered(points, ords)
  /\ pc' = "packed"
  /\ UNCHANGED <<input, todo, source, profile, recovered, reported>>

CompressDirect ==
  /\ pc = "read" /\ job.kind # "shared"
  /\ points # <<>> /\ InDirectMode(points)
  /\ LET es == Entries(CellsOf(points))
     IN Pack(DirectChunk(es, Offset(points)), [i \in DOMAIN es |-> es[i][2]])

\* The direct mode writes the first difference of no points: past the end.
CrashOnNothing ==
  /\ pc = "read" /\ job.kind # "shared"
  /\ points = <<>> /\ InDirectMode(points)
  /\ End("crashed")

CompressBlocks ==
  /\ pc = "read" /\ job.kind # "shared" /\ ~InDirectMode(points)
  /\ LET range == RangeOf(ToSet(CellsOf(points)))
     IN \E ns \in SortedNodes(range, CellsOf(points)) :
          Pack(BlockChunk(ns, range, Offset(points)), [j \in DOMAIN ns |-> ns[j].ord])

\* compress_with_profile: in blocks whatever the range is.  The encoder throws at a
\* symbol without a code.
CompressWithProfile ==
  /\ pc = "read" /\ job.kind = "shared"
  /\ LET range == RangeOf(ToSet(CellsOf(points)))
     IN \E ns \in SortedNodes(range, CellsOf(points)) :
          LET chunk == BlockChunk(ns, range, Offset(points))
          IN IF ToSet(chunk.repos.deltas) \subseteq profile.repos
                /\ ToSet(chunk.quads.deltas) \subseteq profile.quads
             THEN Pack(chunk, [j \in DOMAIN ns |-> ns[j].ord])
             ELSE End("threw")

Decompress ==
  /\ pc = "packed"
  /\ recovered' = Unshifted2(packed)
  /\ pc' = "recovered"
  /\ UNCHANGED <<input, todo, source, points, profile, packed, reported>>

\* The caller compares its vector with what was recovered, index by index, and goes
\* on to the next chunk.
Report ==
  /\ pc = "recovered"
  /\ reported' = reported \o points
  /\ todo' = Tail(todo)
  /\ pc' = IF todo' = <<>> THEN "done" ELSE "next"
  /\ UNCHANGED <<input, source, points, profile, packed, recovered>>

Next == \/ ReadFile \/ ReadChunk \/ RefuseChunk \/ ReadBlock \/ RefuseInput
        \/ FitProfile
        \/ CompressDirect \/ CrashOnNothing \/ CompressBlocks \/ CompressWithProfile
        \/ Decompress \/ Report

Spec == Init /\ [][Next]_vars
-----------------------------------------------------------------------------
(* Properties *)

\* Places are places, and what the coders are given of a stream fits a byte.
TypeOK ==
  /\ pc \in {"warmup", "next", "read", "packed", "recovered", "done",
             "refused", "crashed", "threw"}
  /\ ToSet(source) \cup ToSet(points) \cup ToSet(reported) \subseteq DOMAIN cloud
  /\ pc = "packed" =>
       /\ packed.num_points = Len(points)
       /\ IF packed.is_direct THEN ToSet(packed.sfc.deltas) \subseteq 0..(PatchLimit + 1)
          ELSE /\ packed.blk # <<>> /\ Len(packed.blk) = Len(packed.cnt)
               /\ ToSet(packed.repos.deltas) \cup ToSet(packed.quads.deltas)
                    \subseteq 0..(PatchLimit + 1)

\* compress leaves all the points in the caller's vector.  The roundtrip check could
\* not tell: it compares with that vector.
Permuted ==
  pc \in {"packed", "recovered"} =>
    Len(points) = Len(source) /\ ToSet(points) = ToSet(source)

\* The i-th recovered point is within the bound of the i-th point of the vector as
\* compress left it, in either mode, with either codebook, with several points in a
\* cell in any order: what the tool's report and the roundtrip check rely on.
LinesUp ==
  pc = "recovered" =>
    /\ Len(recovered) = Len(points)
    /\ \A i \in DOMAIN points :
         SqDist(Scale(2, cloud[points[i]]), recovered[i]) <= Bound2Sq

\* The points a job is about.
Wanted ==
  IF job.kind # "chunk" THEN DOMAIN cloud
  ELSE {i \in DOMAIN cloud :
          /\ job.offset <= (i - 1) * PointBytes
          /\ job.bytes = 0 \/ i * PointBytes <= job.offset + job.bytes}

\* The chunks of a sweep and the blocks of a job tile the input, and flags that ask
\* for more than there is give what there is: every point is reported once.
EveryPointOnce ==
  pc = "done" => ToSet(reported) = Wanted /\ Len(reported) = Cardinality(Wanted)

\* Only flags that no chunk of a sweep has are refused, and only a program that was
\* given no point crashes; a shared codebook has a code for what every block needs.
RunsToTheEnd ==
  /\ pc = "refused" => job.kind = "chunk" \/ AlignedSize = 0
  /\ pc = "crashed" => Wanted = {}
  /\ pc # "threw"
=============================================================================
