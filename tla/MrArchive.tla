------------------------------ MODULE MrArchive ------------------------------
(***************************************************************************)
(* The output directory of `XnYZip_mpi --mode mapreduce` over several jobs *)
(* that write into it (src/source/mpi_driver.cpp), and the utility that    *)
(* reads it back (src/source/mr_decompress.cpp).  A job truncates the part *)
(* files of its own ranks, writes one table of cells into each, and ends   *)
(* with summary.json and manifest_index.jsonl; it may be killed anywhere.  *)
(* Nothing removes what an earlier job left behind.  How a table is coded  *)
(* is in BlockCodec: a part is a sequence of cells with their counts here. *)
(* An operator commented as a fault is a wrong version of the one after    *)
(* it, kept to confirm that the properties notice; nothing else uses it.   *)
(***************************************************************************)
EXTENDS Integers, FiniteSets, SequencesExt

CONSTANTS MaxRanks,      \* the largest job
          Censuses       \* per job, the points of its input in each cell: cell -> count

ASSUME ArchiveAssumption ==
  /\ MaxRanks \in Nat \ {0}
  /\ Len(Censuses) \in Nat /\ DOMAIN Censuses = 1..Len(Censuses)
  /\ \A j \in DOMAIN Censuses :
       /\ IsFiniteSet(DOMAIN Censuses[j])
       /\ \A c \in DOMAIN Censuses[j] : c \in Nat /\ Censuses[j][c] \in Nat \ {0}

VARIABLES dir,           \* the part files by rank
          index,         \* manifest_index.jsonl: the job that wrote it and its ranks
          job, nranks,   \* the last job started, and its size
          owner,         \* the rank that owns each of its cells
          pc,            \* where its ranks are
          reader,        \* mr_decompress: "idle", "reading", "done" (exit 0) or "failed"
          todo,          \* the ranks whose parts it has still to decode
          out            \* the points it has written, each known by its cell

vars == <<dir, index, job, nranks, owner, pc, reader, todo, out>>

MaxJobs == Len(Censuses)
AllRanks == 0..(MaxRanks - 1)
Running == 0..(nranks - 1)

Absent == [kind |-> "absent"]
Empty(j) == [kind |-> "empty", job |-> j]
Torn(j) == [kind |-> "torn", job |-> j]
Table(j, cells) == [kind |-> "table", job |-> j, cells |-> cells]
NoIndex == [job |-> 0, ranks |-> {}]

InCurveOrder(cells) ==
  CHOOSE s \in [1..Cardinality(cells) -> cells] : \A i, k \in DOMAIN s : i < k => s[i] < s[k]

\* The cells of a rank; a rank without cells has the empty table, which is a header
\* and not an empty file.
CellsOf(r) == InCurveOrder({c \in DOMAIN owner : owner[c] = r})
PartOf(r) == Table(job, [i \in DOMAIN CellsOf(r) |->
                           [cell |-> CellsOf(r)[i], count |-> Censuses[job][CellsOf(r)[i]]]])

Init ==
  /\ dir = [r \in AllRanks |-> Absent]
  /\ index = NoIndex
  /\ job = 0 /\ nranks = 0
  /\ owner = [c \in {} |-> 0]
  /\ pc = [r \in AllRanks |-> "ended"]
  /\ reader = "idle" /\ todo = {} /\ out = <<>>

Ended == \A r \in AllRanks : pc[r] = "ended"
reading == <<reader, todo, out>>

\* The next job, on any number of ranks, shares its cells among them in any way.
StartJob ==
  /\ Ended /\ reader = "idle" /\ job < MaxJobs
  /\ job' = job + 1
  /\ \E n \in 1..MaxRanks :
       /\ nranks' = n
       /\ owner' \in [DOMAIN Censuses[job + 1] -> 0..(n - 1)]
       /\ pc' = [r \in AllRanks |-> IF r < n THEN "start" ELSE "ended"]
  /\ UNCHANGED <<dir, index, reading>>

\* Creating the part file truncates what an earlier job wrote.
Open(r) ==
  /\ pc[r] = "start"
  /\ dir' = [dir EXCEPT ![r] = Empty(job)]
  /\ pc' = [pc EXCEPT ![r] = "opened"]
  /\ UNCHANGED <<index, job, nranks, owner, reading>>

\* Fault: nothing holds a rank back.
NoBarrier == TRUE
\* Past the collectives of run_mapreduce everyone has opened its file.
AllOpened == \A s \in Running : pc[s] # "start"

WritePart(r) ==
  /\ pc[r] = "opened" /\ AllOpened
  /\ dir' = [dir EXCEPT ![r] = PartOf(r)]
  /\ pc' = [pc EXCEPT ![r] = "written"]
  /\ UNCHANGED <<index, job, nranks, owner, reading>>

\* Behind the last barrier rank 0 lists the files that compose the dataset.
EndJob ==
  /\ ~Ended /\ \A r \in Running : pc[r] = "written"
  /\ index' = [job |-> job, ranks |-> Running]
  /\ pc' = [r \in AllRanks |-> "ended"]
  /\ UNCHANGED <<dir, job, nranks, owner, reading>>

\* What is on disk of a rank that is killed.
Leftovers(r) ==
  IF pc[r] = "opened" /\ AllOpened THEN {dir[r], Torn(job), PartOf(r)} ELSE {dir[r]}

\* MPI_Abort, a process that is killed, or the time limit end the job on all ranks.
Die ==
  /\ ~Ended
  /\ dir' \in {d \in [AllRanks -> UNION {Leftovers(r) : r \in AllRanks}] :
                 \A r \in AllRanks : d[r] \in Leftovers(r)}
  /\ pc' = [r \in AllRanks |-> "ended"]
  /\ UNCHANGED <<index, job, nranks, owner, reading>>

PartFiles == {r \in AllRanks : dir[r] # Absent}

\* List the part files and create the output; without any, exit 2.
StartReader ==
  /\ Ended /\ reader = "idle"
  /\ todo' = PartFiles
  /\ reader' = IF PartFiles = {} THEN "failed" ELSE "reading"
  /\ UNCHANGED <<dir, index, job, nranks, owner, pc, out>>

\* Fault: the files come in the order the directory lists them.
AsListed(r) == TRUE
\* The parts are sorted by rank.
First(r) == \A s \in todo : r <= s

\* Each cell as many times as its count says.
Expanded(cells) ==
  FlattenSeq([i \in DOMAIN cells |-> [k \in 1..cells[i].count |-> cells[i].cell]])

\* Fault: a part without cells ends the output.
DecodeUntilEmpty(r) ==
  /\ reader = "reading" /\ r \in todo /\ First(r)
  /\ dir[r].kind # "torn"
  /\ IF dir[r].kind = "table" /\ dir[r].cells # <<>>
     THEN /\ out' = out \o Expanded(dir[r].cells)
          /\ todo' = todo \ {r}
     ELSE out' = out /\ todo' = {}
  /\ UNCHANGED <<dir, index, job, nranks, owner, pc, reader>>

\* The next part: an empty file and a table without cells add nothing.  The message
\* is that the rank had no cells, which is true of the table only: the file is empty
\* when its rank died before writing.
DecodePart(r) ==
  /\ reader = "reading" /\ r \in todo /\ First(r)
  /\ dir[r].kind # "torn"
  /\ out' = IF dir[r].kind = "table" THEN out \o Expanded(dir[r].cells) ELSE out
  /\ todo' = todo \ {r}
  /\ UNCHANGED <<dir, index, job, nranks, owner, pc, reader>>

\* Fault: the exception is caught and the part skipped.
SkipTorn(r) ==
  /\ reader = "reading" /\ r \in todo /\ First(r)
  /\ dir[r].kind = "torn"
  /\ todo' = todo \ {r}
  /\ UNCHANGED <<dir, index, job, nranks, owner, pc, reader, out>>

\* A torn file is not a whole zstd frame: the exception nobody catches ends the
\* process, and what its output buffer holds is lost.
DecodeTorn(r) ==
  /\ reader = "reading" /\ r \in todo /\ First(r)
  /\ dir[r].kind = "torn"
  /\ reader' = "failed" /\ todo' = {}
  /\ \E n \in 0..Len(out) : out' = SubSeq(out, 1, n)
  /\ UNCHANGED <<dir, index, job, nranks, owner, pc>>

EndReader ==
  /\ reader = "reading" /\ todo = {}
  /\ reader' = "done"
  /\ UNCHANGED <<dir, index, job, nranks, owner, pc, todo, out>>

Next == \/ StartJob \/ EndJob \/ Die
        \/ \E r \in AllRanks : Open(r) \/ WritePart(r) \/ DecodePart(r) \/ DecodeTorn(r)
        \/ StartReader \/ EndReader

Spec == Init /\ [][Next]_vars
-----------------------------------------------------------------------------
(* Properties *)

\* The variables have their types; only the running job's ranks are busy, and none
\* has written its part before all have opened theirs.
TypeOK ==
  /\ \A r \in AllRanks : dir[r].kind \in {"absent", "empty", "torn", "table"}
  /\ job \in 0..MaxJobs /\ nranks \in 0..MaxRanks
  /\ index.job \in 0..job /\ index.ranks \subseteq AllRanks
  /\ \A r \in AllRanks : /\ pc[r] \in {"start", "opened", "written", "ended"}
                         /\ r >= nranks => pc[r] = "ended"
                         /\ pc[r] = "written" => \A s \in AllRanks : pc[s] # "start"
  /\ reader \in {"idle", "reading", "done", "failed"}

Times(c) == Cardinality({i \in DOMAIN out : out[i] = c})
OneJob == \A r \in AllRanks : dir[r] # Absent => dir[r].job = job
Complete == reader = "done" /\ index.job = job /\ job > 0

\* If the last job ended and the directory holds no part of an earlier one, the
\* reader returns each cell as many times as the input has points there, however
\* many ranks the job had, which of them had no cells, and however many jobs died
\* in that directory before.
RecoversLastJob ==
  Complete /\ OneJob =>
    \A c \in DOMAIN owner \cup {out[i] : i \in DOMAIN out} :
      c \in DOMAIN owner /\ Times(c) = Censuses[job][c]

\* "Recovered points are emitted in part-file order (i.e., by rank), with each
\* rank's cells in the order the encoder used".
InRankOrder ==
  Complete /\ OneJob =>
    \A i, k \in DOMAIN out :
      i < k => \/ owner[out[i]] < owner[out[k]]
               \/ owner[out[i]] = owner[out[k]] /\ out[i] <= out[k]

\* The reader does not end with success over a part that was written half.
NoTornSuccess == reader = "done" => \A r \in AllRanks : dir[r].kind # "torn"

\* "which rank-files compose the dataset": the reader returns the points of the
\* parts manifest_index.jsonl lists, and no others.
PartPoints(r) == IF dir[r].kind = "table" THEN Expanded(dir[r].cells) ELSE <<>>
ReadsTheIndexed ==
  Complete =>
    out = FlattenSeq([i \in 1..Cardinality(index.ranks) |-> PartPoints(i - 1)])
=============================================================================
