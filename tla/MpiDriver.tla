------------------------------ MODULE MpiDriver ------------------------------
(***************************************************************************)
(* main() of src/source/mpi_driver.cpp: every rank of the job checks the   *)
(* arguments, learns the size of the input, opens its part file and its    *)
(* manifest, (--shared-codebook) takes over the codebook rank 0 fitted,    *)
(* compresses the blocks rank, rank + nranks, ..., flushes, and rank 0     *)
(* gathers the totals and writes summary.json and manifest_index.jsonl.    *)
(* What a block's bytes are is left to the codecs: a compressed block is a *)
(* chunk with a size.  run_mapreduce is one chunk here (see MapReduce).    *)
(* Files are buffered: what a rank wrote but did not flush may be lost     *)
(* when it dies, a suffix of each file independently of the other.  What   *)
(* it flushed is with the operating system and survives the process; that  *)
(* a node goes down before its disk has it is not modelled.  The output    *)
(* directory may hold the files of an earlier job, which is what the       *)
(* batch scripts leave there for the next one.                             *)
(* An operator commented as a fault is a wrong version of the one after    *)
(* it, kept to confirm that the properties notice; nothing else uses it.   *)
(***************************************************************************)
EXTENDS MpiComm, Integers, FiniteSets, FiniteSetsExt, SequencesExt

CONSTANTS NRanks,
          PointBytes,    \* POINT_BYTES, 12 in the code
          ArgChoices,    \* the command lines: records of the options that matter here
          InputSizes,    \* sizes of the input file; NoFile if it cannot be opened
          ChunkSizes,    \* sizes a compressed block may have
          DiskMayFail    \* whether a write to a part file may fail

Ranks == 0..(NRanks - 1)
NoFile == -1
ModeNames == {"-normal", "-rle", "mapreduce"}

ASSUME DriverAssumption ==
  /\ NRanks \in Nat \ {0} /\ PointBytes \in Nat \ {0}
  /\ InputSizes \subseteq Nat \cup {NoFile} /\ ChunkSizes \subseteq Nat \ {0}
  /\ DiskMayFail \in BOOLEAN
  /\ \A a \in ArgChoices : /\ a.block_size \in Nat
                           /\ a.shared_codebook \in BOOLEAN

VARIABLES args,         \* the command line, the same on every rank
          input_size,   \* size of the input file
          pc,           \* where each rank is: the collective it is blocked in, or a local phase
          calls,        \* the collectives each rank has entered (MpiComm)
          profile,      \* shared_profile
          next,         \* b, the next block of each rank
          part, meta,   \* the rank's two output files
          totals,       \* local_input_bytes, local_compressed_bytes, local_blocks
          summary,      \* summary.json in the output directory
          index,        \* manifest_index.jsonl there: none, an earlier job's, torn or whole
          stale         \* the ranks whose two files there are still an earlier job's

vars == <<args, input_size, pc, calls, profile, next, part, meta, totals,
          summary, index, stale>>

-----------------------------------------------------------------------------
(* Data *)

\* The shared profile is known by the block it was fitted on.
NoProfile == -1
FirstBlock == 0
NoSummary == [kind |-> "none"]
EarlierSummary == [kind |-> "earlier"]
TornSummary == [kind |-> "torn"]
NoTotals == [input |-> 0, compressed |-> 0, blocks |-> 0]

\* An ofstream: what was written in order, how much of it is flushed, where the
\* put pointer is, and whether all writes succeeded.
NewFile == [data |-> <<>>, saved |-> 0, pos |-> 0, ok |-> TRUE]

\* tellp() of a stream that failed is -1, the offset 2^64 - 1 in the manifest.
Tellp(f) == IF f.ok THEN f.pos ELSE -1

\* The stream after writing x of the given size: nothing reports a failure.
AfterWrite(f, x, size) ==
  IF f.ok
  THEN {[f EXCEPT !.data = Append(@, x), !.pos = @ + size]}
       \cup (IF DiskMayFail THEN {[f EXCEPT !.ok = FALSE]} ELSE {})
  ELSE {f}

\* Fault: the buffers are left to the destructor.
Unflushed(f) == f
Flushed(f) == [f EXCEPT !.saved = Len(f.data)]
Saved(f) == {f.data[i] : i \in 1..f.saved}

AlignedSize == input_size - (input_size % PointBytes)
NumBlocks == (AlignedSize + args.block_size - 1) \div args.block_size
HasBlocks == args.block_size # 0 /\ NumBlocks # 0

\* The bytes of the input in block b.
InputOffset(b) == b * args.block_size
InputSize(b) == Min({args.block_size, AlignedSize - InputOffset(b)})

\* The blocks of a rank.
Owned(r) == {b \in 0..(NumBlocks - 1) : b % NRanks = r}
OwnedBytes(r) == SumFunction([b \in Owned(r) |-> InputSize(b)])

\* parse_args accepts the command line.
ArgsAccepted ==
  /\ args.block_size % PointBytes = 0
  /\ args.mode \in ModeNames
  /\ args.shared_codebook => args.mode \notin {"-rle", "mapreduce"}
  /\ args.mode = "mapreduce" => args.quantizer # "adaptive"

-----------------------------------------------------------------------------
\* The output directory holds a finished job's files, or nothing: what a job that
\* died leaves there has no summary.json a reader can parse, unless it is an
\* earlier one.  Parts of ranks this job does not have are MrArchive's matter.
Init ==
  /\ args \in ArgChoices
  /\ input_size \in InputSizes
  /\ pc = [r \in Ranks |-> "start"]
  /\ calls = [r \in Ranks |-> <<>>]
  /\ profile = [r \in Ranks |-> NoProfile]
  /\ next = [r \in Ranks |-> r]
  /\ part = [r \in Ranks |-> NewFile]
  /\ meta = [r \in Ranks |-> NewFile]
  /\ totals = [r \in Ranks |-> NoTotals]
  /\ \/ summary = NoSummary /\ index = "none" /\ stale = {}
     \/ summary = EarlierSummary /\ index = "earlier" /\ stale = Ranks

Goto(r, to) == pc' = [pc EXCEPT ![r] = to]
Enter(r, op, val, to) == calls' = Post(calls, r, op, val) /\ Goto(r, to)

\* Everyone has come to the collective r is in; or at least its root has.
Released(r) == AllEntered(calls, Len(calls[r]))
RootEntered(r) == Len(calls[0]) >= Len(calls[r])
\* Fault: the receive buffer is not the one that is read.
OwnBuffer(r) == calls[r][Len(calls[r])].val
FromRoot(r) == calls[0][Len(calls[r])].val

files == <<part, meta, totals, next>>
results == <<summary, index, stale>>
job == <<args, input_size>>

\* parse_args, and on rank 0 get_file_size.
Start(r) ==
  /\ pc[r] = "start" /\ ArgsAccepted
  /\ r = 0 => input_size # NoFile
  /\ Enter(r, "Bcast size", IF r = 0 THEN input_size ELSE 0, "size")
  /\ UNCHANGED <<job, profile, files, results>>

\* arg error, or no input file: MPI_Abort(1).
StartFails(r) ==
  /\ pc[r] = "start"
  /\ ~ArgsAccepted \/ (r = 0 /\ input_size = NoFile)
  /\ Goto(r, "aborted")
  /\ UNCHANGED <<job, calls, profile, files, results>>

\* Knowing the size: open the shared input (collective).
OpenInput(r) ==
  /\ pc[r] = "size" /\ RootEntered(r)
  /\ HasBlocks
  /\ Enter(r, "File_open", 0, "input")
  /\ UNCHANGED <<job, profile, files, results>>

\* Input too small: MPI_Abort(1).  A block size of 0 passes parse_args, and the
\* integer division by it ends the process.
SizeFails(r) ==
  /\ pc[r] = "size" /\ RootEntered(r)
  /\ ~HasBlocks
  /\ Goto(r, "aborted")
  /\ UNCHANGED <<job, calls, profile, files, results>>

\* Create the two output files, truncating what was there, and enter a barrier;
\* an earlier job's summary.json and manifest_index.jsonl stay.
\* The barrier that ends the warm-up and the one before the block loop have
\* nothing but local counting between them and are one here.
OpenOutputs(r) ==
  /\ pc[r] = "input" /\ Released(r)
  /\ part' = [part EXCEPT ![r] = NewFile]
  /\ meta' = [meta EXCEPT ![r] = NewFile]
  /\ stale' = stale \ {r}
  /\ IF args.shared_codebook THEN Enter(r, "Barrier warmup", 0, "warmup")
                             ELSE Enter(r, "Barrier start", 0, "ready")
  /\ UNCHANGED <<job, profile, totals, next, summary, index>>

\* MPI_File_open or an output file fails, the other perhaps truncated:
\* MPI_Abort(1).
OpenFails(r) ==
  /\ pc[r] = "input" /\ Released(r)
  /\ Goto(r, "aborted")
  /\ stale' \in {stale, stale \ {r}}
  /\ UNCHANGED <<job, calls, profile, files, summary, index>>

\* Fault: rank 0, which has the profile, skips the broadcast.
FitWithoutBcast(r) ==
  /\ pc[r] = "warmup" /\ Released(r)
  /\ IF r = 0 THEN Enter(r, "Barrier start", 0, "ready")
              ELSE Enter(r, "Bcast profile", NoProfile, "profile")
  /\ UNCHANGED <<job, profile, files, results>>

\* Rank 0 fits the codebooks on block 0; the others wait for the broadcast.
FitProfile(r) ==
  /\ pc[r] = "warmup" /\ Released(r)
  /\ Enter(r, "Bcast profile", IF r = 0 THEN FirstBlock ELSE NoProfile, "profile")
  /\ UNCHANGED <<job, profile, files, results>>

\* The warm-up throws: MPI_Abort(3).
FitFails(r) ==
  /\ pc[r] = "warmup" /\ Released(r) /\ r = 0
  /\ Goto(r, "aborted")
  /\ UNCHANGED <<job, calls, profile, files, results>>

\* Take the profile from the broadcast and enter the barrier.
TakeProfile(r) ==
  /\ pc[r] = "profile" /\ RootEntered(r)
  /\ profile' = [profile EXCEPT ![r] = FromRoot(r)]
  /\ Enter(r, "Barrier start", 0, "ready")
  /\ UNCHANGED <<job, files, results>>

\* The profile that arrived is not valid(): MPI_Abort(4).
ProfileInvalid(r) ==
  /\ pc[r] = "profile" /\ RootEntered(r)
  /\ Goto(r, "aborted")
  /\ UNCHANGED <<job, calls, profile, files, results>>

\* Past the barrier: the block loop, or run_mapreduce with its own collectives.
Begin(r) ==
  /\ pc[r] = "ready" /\ Released(r)
  /\ IF args.mode = "mapreduce" THEN Enter(r, "run_mapreduce", 0, "mapreduce")
                                ELSE Goto(r, "blocks") /\ calls' = calls
  /\ UNCHANGED <<job, profile, files, results>>

\* A chunk of the part file, with the offset at which it really is.
ChunkOf(r, size) ==
  [block |-> next[r], at |-> part[r].pos, size |-> size, codebook |-> profile[r]]

\* The manifest line of the block.
EntryOf(r, size) ==
  [block |-> next[r], from |-> InputOffset(next[r]), bytes |-> InputSize(next[r]),
   part_offset |-> Tellp(part[r]), size |-> size]

WithLine(f, entry) == [f EXCEPT !.data = Append(@, entry), !.pos = @ + 1]

Count(r, entry, blocks) ==
  totals' = [totals EXCEPT ![r] = [input |-> @.input + entry.bytes,
                                   compressed |-> @.compressed + entry.size,
                                   blocks |-> @.blocks + blocks]]

Write(r, chunk, entry) ==
  /\ \E f \in AfterWrite(part[r], chunk, chunk.size) : part' = [part EXCEPT ![r] = f]
  /\ meta' = [meta EXCEPT ![r] = WithLine(@, entry)]
  /\ Count(r, entry, 1)

\* Fault: the loop goes on to the next block of the file, not of the rank.
CompressContiguous(r) ==
  /\ pc[r] = "blocks" /\ next[r] < NumBlocks
  /\ \E size \in ChunkSizes : Write(r, ChunkOf(r, size), EntryOf(r, size))
  /\ next' = [next EXCEPT ![r] = @ + 1]
  /\ UNCHANGED <<job, pc, calls, profile, results>>

\* One turn of the block loop: read, compress, check the roundtrip, append the
\* chunk to the part file and a line to the manifest.
CompressBlock(r) ==
  /\ pc[r] = "blocks" /\ next[r] < NumBlocks
  /\ \E size \in ChunkSizes : Write(r, ChunkOf(r, size), EntryOf(r, size))
  /\ next' = [next EXCEPT ![r] = @ + NRanks]
  /\ UNCHANGED <<job, pc, calls, profile, results>>

\* A process ends before it has flushed its files: some suffix of each is lost.
LoseBuffers(r) ==
  \E i \in part[r].saved..Len(part[r].data), j \in meta[r].saved..Len(meta[r].data) :
    /\ part' = [part EXCEPT ![r].saved = i]
    /\ meta' = [meta EXCEPT ![r].saved = j]

\* The codec throws, or the roundtrip check fails: MPI_Abort(2), (5), (6), (7).
BlockFails(r) ==
  /\ pc[r] = "blocks" /\ next[r] < NumBlocks
  /\ Goto(r, "aborted") /\ LoseBuffers(r)
  /\ UNCHANGED <<job, calls, profile, totals, next, results>>

\* run_mapreduce has written and flushed one chunk and one manifest line, and
\* returns; the blocks the rank has read count as its own.  No roundtrip check.
LeaveMapReduce(r) ==
  /\ pc[r] = "mapreduce" /\ Released(r)
  /\ \E size \in ChunkSizes :
       LET entry == [EntryOf(r, size) EXCEPT !.bytes = OwnedBytes(r)] IN
         /\ \E f \in AfterWrite(part[r], ChunkOf(r, size), size) :
              part' = [part EXCEPT ![r] = Flushed(f)]
         /\ meta' = [meta EXCEPT ![r] = Flushed(WithLine(@, entry))]
         /\ Count(r, entry, Cardinality(Owned(r)))
  /\ next' = [next EXCEPT ![r] = NumBlocks + r]
  /\ Goto(r, "blocks")
  /\ UNCHANGED <<job, calls, profile, results>>

\* The map or the encode phase throws: MPI_Abort(8), (9).
MapReduceFails(r) ==
  /\ pc[r] = "mapreduce"
  /\ Goto(r, "aborted") /\ LoseBuffers(r)
  /\ UNCHANGED <<job, calls, profile, totals, next, results>>

\* Flush both files, close the input (collective) and enter the barrier.
CloseFiles(r) ==
  /\ pc[r] = "blocks" /\ next[r] >= NumBlocks
  /\ part' = [part EXCEPT ![r] = Flushed(@)]
  /\ meta' = [meta EXCEPT ![r] = Flushed(@)]
  /\ Enter(r, "Barrier end", 0, "closed")
  /\ UNCHANGED <<job, profile, totals, next, results>>

\* Fault: a rank without blocks returns before the last barrier.
ReportIfBusy(r) ==
  /\ pc[r] = "closed" /\ Released(r) /\ Owned(r) # {}
  /\ Enter(r, "Reduce and Gather", totals[r], IF r = 0 THEN "gather" ELSE "done")
  /\ UNCHANGED <<job, profile, files, results>>

\* Send the totals to rank 0; only the root of a reduction has to wait.
Report(r) ==
  /\ pc[r] = "closed" /\ Released(r)
  /\ Enter(r, "Reduce and Gather", totals[r], IF r = 0 THEN "gather" ELSE "done")
  /\ UNCHANGED <<job, profile, files, results>>

\* Fault: the root's receive buffer holds its own totals only.
OwnTotals(r) == [s \in Ranks |-> IF s = r THEN totals[r] ELSE NoTotals]
Gathered(r) == Column(calls, Len(calls[r]))

TotalsSummary(all) ==
  [kind |-> "whole",
   num_blocks |-> SumFunction([s \in Ranks |-> all[s].blocks]),
   input_bytes |-> SumFunction([s \in Ranks |-> all[s].input]),
   compressed_bytes |-> SumFunction([s \in Ranks |-> all[s].compressed])]

\* Rank 0 has everyone's totals and creates summary.json, truncating an earlier
\* job's; until it is closed it may hold any part of the new text.
CreateSummary(r) ==
  /\ r = 0 /\ pc[r] = "gather" /\ Released(r)
  /\ summary' = TornSummary
  /\ Goto(r, "summary")
  /\ UNCHANGED <<job, calls, profile, files, index, stale>>

CloseSummary(r) ==
  /\ r = 0 /\ pc[r] = "summary"
  /\ summary' = TotalsSummary(Gathered(r))
  /\ Goto(r, "index")
  /\ UNCHANGED <<job, calls, profile, files, index, stale>>

\* The same for manifest_index.jsonl.
CreateIndex(r) ==
  /\ r = 0 /\ pc[r] = "index"
  /\ index' = "torn"
  /\ Goto(r, "merged")
  /\ UNCHANGED <<job, calls, profile, files, summary, stale>>

CloseIndex(r) ==
  /\ r = 0 /\ pc[r] = "merged"
  /\ index' = "whole"
  /\ Goto(r, "done")
  /\ UNCHANGED <<job, calls, profile, files, summary, stale>>

Dead == {"aborted", "killed"}

\* A process is killed, by a signal or by the time limit of the batch system.
ProcessDies(r) ==
  /\ pc[r] \notin Dead \cup {"done"}
  /\ Goto(r, "killed") /\ LoseBuffers(r)
  /\ UNCHANGED <<job, calls, profile, totals, next, results>>

\* One rank's end brings down the others, each at some later point.
Killed(r) ==
  /\ \E s \in Ranks : pc[s] \in Dead
  /\ pc[r] \notin Dead \cup {"done"}
  /\ Goto(r, "killed") /\ LoseBuffers(r)
  /\ UNCHANGED <<job, calls, profile, totals, next, results>>

Step(r) == \/ Start(r) \/ StartFails(r) \/ OpenInput(r) \/ SizeFails(r)
           \/ OpenOutputs(r) \/ OpenFails(r) \/ FitProfile(r) \/ FitFails(r)
           \/ TakeProfile(r) \/ ProfileInvalid(r) \/ Begin(r) \/ CompressBlock(r)
           \/ BlockFails(r) \/ LeaveMapReduce(r) \/ MapReduceFails(r) \/ CloseFiles(r) \/ Report(r)
           \/ CreateSummary(r) \/ CloseSummary(r) \/ CreateIndex(r) \/ CloseIndex(r)
           \/ Killed(r)

Next == \E r \in Ranks : Step(r) \/ ProcessDies(r)

Spec == Init /\ [][Next]_vars
FairSpec == Spec /\ \A r \in Ranks : WF_vars(Step(r))
-----------------------------------------------------------------------------
(* Properties *)

PcValues == {"start", "size", "input", "warmup", "profile", "ready", "blocks", "mapreduce",
             "closed", "gather", "summary", "index", "merged", "done", "aborted", "killed"}

\* The variables have their types; a rank stays on its own blocks, and no more of
\* a file is flushed than was written.
TypeOK ==
  /\ args \in ArgChoices /\ input_size \in InputSizes
  /\ pc \in [Ranks -> PcValues] /\ DOMAIN calls = Ranks /\ DOMAIN profile = Ranks
  /\ \A r \in Ranks : /\ next[r] \in Nat
                      /\ args.mode # "mapreduce" => next[r] % NRanks = r
                      /\ part[r].saved \in 0..Len(part[r].data)
                      /\ meta[r].saved \in 0..Len(meta[r].data)
                      /\ totals[r] \in [input : Nat, compressed : Nat, blocks : Nat]
  /\ summary.kind \in {"none", "earlier", "torn", "whole"}
  /\ index \in {"none", "earlier", "torn", "whole"} /\ stale \subseteq Ranks

\* Ranks enter the same collectives in the same order, whatever the options are.
CollectivesMatch == CallsMatch(calls)

\* Manifest lines on disk, and those whose chunk is on disk where they say.
Lines == {<<r, e>> : r \in Ranks, e \in UNION {Saved(meta[s]) : s \in Ranks}}
Manifest == {x \in Lines : x[2] \in Saved(meta[x[1]])}
Located(x) == \E c \in Saved(part[x[1]]) :
                c.at = x[2].part_offset /\ c.size = x[2].size /\ c.block = x[2].block

Points == 0..((AlignedSize \div PointBytes) - 1)
Covers(x, p) == /\ x[2].from <= p * PointBytes
                /\ (p + 1) * PointBytes <= x[2].from + x[2].bytes
CoveredOnce(p) == \E x \in Manifest : /\ Covers(x, p) /\ Located(x)
                                      /\ \A y \in Manifest : Covers(y, p) => y = x

\* This job's summary.json is there and whole.
Published == summary.kind = "whole"

Items == IF args.mode = "mapreduce" THEN Ranks ELSE Points
Recoverable ==
  IF ~Published THEN {}
  ELSE IF args.mode = "mapreduce" THEN {x[1] : x \in {y \in Manifest : Located(y)}}
  ELSE {p \in Points : CoveredOnce(p)}

Archive == INSTANCE AllOrNothing WITH items <- Items, recoverable <- Recoverable

\* Once the summary.json of this job is there and whole, the manifests locate every
\* point of the input (every rank's part, for mapreduce) exactly once, in bytes that
\* are on disk.  A job that dies before leaves none, a torn one or an earlier job's.
PublishesAll == Archive!Spec

\* This job's summary.json counts what is on disk: all blocks, all bytes of whole points, and
\* the sizes of all chunks in all part files.
SummaryMatchesDisk ==
  Published =>
    /\ summary.num_blocks = NumBlocks
    /\ summary.input_bytes = AlignedSize
    /\ summary.compressed_bytes =
         SumFunction([r \in Ranks |-> SumFunction([c \in Saved(part[r]) |-> c.size])])

\* With --shared-codebook every chunk on disk was encoded with the codebook that
\* was fitted on block 0, whichever rank wrote it.
OneCodebook ==
  args.shared_codebook =>
    \A r \in Ranks : \A c \in Saved(part[r]) : c.codebook = FirstBlock

\* No rank is left blocked in a collective: all finish, or one's end ends them.
Terminates == <>(\A r \in Ranks : pc[r] \in {"done", "aborted", "killed"})

\* "the manifest records (block_id, ..., part_offset, compressed_size) so a
\* downstream tool can reconstruct global input order": lines are usable.
ManifestLocates == Published => \A x \in Manifest : Located(x)

\* "For each (N, M) we read summary.json (written by XnYZip_mpi rank 0)", of the
\* output directory: when the job is over, a summary.json that was there before it
\* still has the part files it describes.
Over == \A r \in Ranks : pc[r] \in Dead \cup {"done"}
=============================================================================
