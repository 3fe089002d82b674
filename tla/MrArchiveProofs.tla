--------------------------- MODULE MrArchiveProofs ---------------------------
(***************************************************************************)
(* For every number of ranks and jobs: the types, that what the index lists *)
(* of the last job is whole, that no torn part is passed over, and that the *)
(* reader of a directory with the parts of one job gets back every point,   *)
(* in the order of the ranks and of the curve.                              *)
(***************************************************************************)
EXTENDS MrArchive, Foundations

DomainInv == DOMAIN dir = AllRanks /\ DOMAIN pc = AllRanks

\* A rank that is done has its table on disk, and so has, once the index of the
\* last job is out, each of its ranks.
DiskInv ==
  /\ \A r \in AllRanks : pc[r] = "written" => dir[r] = PartOf(r)
  /\ job > 0 /\ index.job = job => Ended /\ index.ranks = Running
                                  /\ \A r \in Running : dir[r] = PartOf(r)

\* The reader starts when nothing runs, and has every torn part still before it.
ReaderInv ==
  /\ reader # "idle" => Ended
  /\ reader \in {"reading", "done"} =>
       \A r \in AllRanks : dir[r].kind = "torn" => r \in todo
  /\ reader = "done" => todo = {}

IInv == TypeOK /\ DomainInv /\ DiskInv /\ ReaderInv

-----------------------------------------------------------------------------
LEMMA Jobs == MaxJobs \in Nat /\ AllRanks \subseteq Nat
  BY ArchiveAssumption DEF MaxJobs, AllRanks

\* A part is a table, and stays the one it is while the job does.
LEMMA PartKind == \A r \in AllRanks : PartOf(r).kind = "table"
  BY DEF PartOf, Table

LEMMA PartStays ==
  ASSUME job' = job, owner' = owner
  PROVE  \A r \in AllRanks : PartOf(r)' = PartOf(r)
  BY DEF PartOf, CellsOf

\* The ranks of the running job are ranks.
LEMMA RunningRanks == TypeOK => Running \subseteq AllRanks
  BY ArchiveAssumption DEF TypeOK, Running, AllRanks

-----------------------------------------------------------------------------
LEMMA Start == Init => IInv
<1> SUFFICES ASSUME Init PROVE IInv OBVIOUS
<1>1. TypeOK BY Jobs, ArchiveAssumption DEF Init, TypeOK, NoIndex, Absent
<1>2. DomainInv BY DEF Init, DomainInv
<1>3. DiskInv BY DEF Init, DiskInv
<1>4. ReaderInv BY DEF Init, ReaderInv
<1> QED BY <1>1, <1>2, <1>3, <1>4 DEF IInv

\* What the steps of a job that runs have in common: no reader, and the index is of
\* an earlier job.
LEMMA WhileRunning ==
  ASSUME IInv, ~Ended
  PROVE  reader = "idle" /\ (job > 0 => index.job # job)
  BY DEF IInv, TypeOK, DiskInv, ReaderInv

LEMMA StepStartJob == IInv /\ StartJob => IInv'
<1> SUFFICES ASSUME IInv, StartJob PROVE IInv' OBVIOUS
<1> USE DEF IInv, StartJob
<1>1. PICK n \in 1..MaxRanks :
        /\ nranks' = n
        /\ pc' = [r \in AllRanks |-> IF r < n THEN "start" ELSE "ended"]
  OBVIOUS
<1>2. TypeOK'
  <2>1. job' \in 0..MaxJobs /\ index'.job \in 0..job' /\ index'.ranks \subseteq AllRanks
    BY Jobs DEF TypeOK
  <2>2. nranks' \in 0..MaxRanks BY <1>1, ArchiveAssumption
  <2>3. \A r \in AllRanks : /\ pc'[r] \in {"start", "ended"}
                             /\ r >= nranks' => pc'[r] = "ended"
    BY <1>1, Jobs
  <2> QED BY <2>1, <2>2, <2>3 DEF TypeOK, reading
<1>3. DomainInv' BY <1>1 DEF DomainInv
<1>4. DiskInv'
  <2>1. \A r \in AllRanks : pc'[r] # "written" BY <1>1
  <2>2. index'.job # job' BY Jobs DEF TypeOK
  <2> QED BY <2>1, <2>2 DEF DiskInv
<1>5. ReaderInv' BY DEF ReaderInv, reading
<1> QED BY <1>2, <1>3, <1>4, <1>5

LEMMA StepOpen == \A r \in AllRanks : IInv /\ Open(r) => IInv'
<1> SUFFICES ASSUME NEW r \in AllRanks, IInv, Open(r) PROVE IInv' OBVIOUS
<1> USE DEF IInv, Open
<1>0. ~Ended BY DEF Ended
<1>1. reader = "idle" /\ (job > 0 => index.job # job) BY <1>0, WhileRunning
<1>2. TypeOK' BY Jobs DEF TypeOK, DomainInv, Empty, reading
<1>3. DomainInv' BY DEF DomainInv
<1>4. DiskInv' BY <1>1, PartStays DEF DiskInv, DomainInv
<1>5. ReaderInv' BY <1>1 DEF ReaderInv, reading
<1> QED BY <1>2, <1>3, <1>4, <1>5

LEMMA StepWritePart == \A r \in AllRanks : IInv /\ WritePart(r) => IInv'
<1> SUFFICES ASSUME NEW r \in AllRanks, IInv, WritePart(r) PROVE IInv' OBVIOUS
<1> USE DEF IInv, WritePart
<1>0. ~Ended BY DEF Ended
<1>1. reader = "idle" /\ (job > 0 => index.job # job) BY <1>0, WhileRunning
<1>2. TypeOK'
  <2>1. \A s \in AllRanks : pc[s] # "start"
    BY RunningRanks, Jobs DEF AllOpened, TypeOK, Running, AllRanks
  <2> QED BY <2>1, PartKind DEF TypeOK, DomainInv, reading
<1>3. DomainInv' BY DEF DomainInv
<1>4. DiskInv' BY <1>1, PartStays DEF DiskInv, DomainInv
<1>5. ReaderInv' BY <1>1 DEF ReaderInv, reading
<1> QED BY <1>2, <1>3, <1>4, <1>5

LEMMA StepEndJob == IInv /\ EndJob => IInv'
<1> SUFFICES ASSUME IInv, EndJob PROVE IInv' OBVIOUS
<1> USE DEF IInv, EndJob
<1>1. reader = "idle" BY WhileRunning
<1>2. TypeOK' BY Jobs, RunningRanks DEF TypeOK, Running, reading
<1>3. DomainInv' BY DEF DomainInv
<1>4. Ended' BY DEF Ended
<1>5. Running' = Running BY DEF Running
<1>6. \A r \in Running : dir[r] = PartOf(r) BY RunningRanks DEF DiskInv
<1>7. DiskInv' BY <1>4, <1>5, <1>6, PartStays, RunningRanks DEF DiskInv
<1>8. ReaderInv' BY <1>1 DEF ReaderInv, reading
<1> QED BY <1>2, <1>3, <1>7, <1>8

LEMMA StepDie == IInv /\ Die => IInv'
<1> SUFFICES ASSUME IInv, Die PROVE IInv' OBVIOUS
<1> USE DEF IInv, Die
<1>1. reader = "idle" /\ (job > 0 => index.job # job) BY WhileRunning
<1>2. DOMAIN dir' = AllRanks /\ \A r \in AllRanks : dir'[r] \in Leftovers(r) OBVIOUS
<1>3. TypeOK'
  <2>1. \A r \in AllRanks : dir'[r].kind \in {"absent", "empty", "torn", "table"}
    BY <1>2, PartKind DEF TypeOK, Leftovers, Torn
  <2> QED BY <2>1 DEF TypeOK, reading
<1>4. DomainInv' BY <1>2 DEF DomainInv
<1>5. DiskInv' BY <1>1 DEF DiskInv
<1>6. ReaderInv' BY <1>1 DEF ReaderInv, reading
<1> QED BY <1>3, <1>4, <1>5, <1>6

-----------------------------------------------------------------------------
\* The steps of the reader leave the directory and the job alone.
LEMMA StepReader ==
  ASSUME IInv, UNCHANGED <<dir, index, job, nranks, owner, pc>>, ReaderInv',
         reader' \in {"idle", "reading", "done", "failed"}
  PROVE  IInv'
<1> USE DEF IInv
<1>1. TypeOK' BY DEF TypeOK
<1>2. DomainInv' BY DEF DomainInv
<1>3. Running' = Running /\ Ended' = Ended BY DEF Running, Ended
<1>4. DiskInv' BY <1>3, PartStays, RunningRanks DEF DiskInv
<1> QED BY <1>1, <1>2, <1>4

LEMMA StepStartReader == IInv /\ StartReader => IInv'
<1> SUFFICES ASSUME IInv, StartReader PROVE IInv' OBVIOUS
<1> USE DEF StartReader
<1>1. Ended' BY DEF Ended
<1>2. reader' \in {"reading", "failed"} OBVIOUS
<1>3. \A r \in AllRanks : dir'[r].kind = "torn" => r \in todo'
  BY DEF PartFiles, Absent
<1>4. ReaderInv' BY <1>1, <1>2, <1>3 DEF ReaderInv
<1> QED BY <1>2, <1>4, StepReader

LEMMA StepDecodePart == \A r \in AllRanks : IInv /\ DecodePart(r) => IInv'
<1> SUFFICES ASSUME NEW r \in AllRanks, IInv, DecodePart(r) PROVE IInv' OBVIOUS
<1> USE DEF DecodePart
<1>1. Ended' BY DEF Ended, IInv, ReaderInv
<1>2. ReaderInv' BY <1>1 DEF IInv, ReaderInv
<1> QED BY <1>2, StepReader

LEMMA StepDecodeTorn == \A r \in AllRanks : IInv /\ DecodeTorn(r) => IInv'
<1> SUFFICES ASSUME NEW r \in AllRanks, IInv, DecodeTorn(r) PROVE IInv' OBVIOUS
<1> USE DEF DecodeTorn
<1>1. Ended' BY DEF Ended, IInv, ReaderInv
<1>2. ReaderInv' BY <1>1 DEF ReaderInv
<1> QED BY <1>2, StepReader

LEMMA StepEndReader == IInv /\ EndReader => IInv'
<1> SUFFICES ASSUME IInv, EndReader PROVE IInv' OBVIOUS
<1> USE DEF EndReader
<1>1. Ended' BY DEF Ended, IInv, ReaderInv
<1>2. ReaderInv' BY <1>1 DEF IInv, ReaderInv
<1> QED BY <1>2, StepReader

LEMMA Steps == IInv /\ [Next]_vars => IInv'
<1>1. IInv /\ UNCHANGED vars => IInv'
  <2> SUFFICES ASSUME IInv, UNCHANGED vars PROVE IInv' OBVIOUS
  <2>1. Ended' = Ended BY DEF vars, Ended
  <2>2. ReaderInv' BY <2>1 DEF IInv, ReaderInv, vars
  <2>3. reader' \in {"idle", "reading", "done", "failed"} BY DEF IInv, TypeOK, vars
  <2> QED BY <2>2, <2>3, StepReader DEF vars
<1> QED BY <1>1, StepStartJob, StepOpen, StepWritePart, StepEndJob, StepDie,
           StepStartReader, StepDecodePart, StepDecodeTorn, StepEndReader DEF Next

\* The invariant of the directory, its jobs and its reader.
THEOREM ArchiveInvariant == Spec => []IInv
  BY Start, Steps, PTL DEF Spec

\* The variables have their types, and no rank writes before all have opened.
THEOREM Types == Spec => []TypeOK
<1>1. IInv => TypeOK BY DEF IInv
<1> QED BY <1>1, ArchiveInvariant, PTL

\* What manifest_index.jsonl lists of the last job is on disk and whole, however
\* many jobs died there before.
IndexedAreWhole ==
  job > 0 /\ index.job = job => \A r \in index.ranks : dir[r] = PartOf(r)

THEOREM IndexIsTrue == Spec => []IndexedAreWhole
<1>1. IInv => IndexedAreWhole BY DEF IInv, DiskInv, IndexedAreWhole
<1> QED BY <1>1, ArchiveInvariant, PTL

\* mr_decompress does not end with success over a part that was written half.
THEOREM TornIsNoticed == Spec => []NoTornSuccess
<1>1. IInv => NoTornSuccess BY DEF IInv, ReaderInv, NoTornSuccess
<1> QED BY <1>1, ArchiveInvariant, PTL
-----------------------------------------------------------------------------
(* What is in a part *)

\* e has m[i] times s[i], in ascending order, and nothing else.
Repeats(n, s, m, e) ==
  /\ e \in Seq(Int)
  /\ \A j \in 1..Len(e) : \E i \in 1..n : e[j] = s[i]
  /\ \A j, l \in 1..Len(e) : j < l => e[j] <= e[l]
  /\ \A i \in 1..n : Cardinality(Places(e, s[i])) = m[i]

\* A table of ascending cells is expanded to as many of each cell as its count says,
\* in the order of the cells.
LEMMA Expansion ==
  ASSUME NEW n \in Nat, NEW s \in [1..n -> Int], \A i, k \in 1..n : i < k => s[i] < s[k],
         NEW m \in [1..n -> Nat],
         NEW cells, cells = [i \in 1..n |-> [cell |-> s[i], count |-> m[i]]]
  PROVE  Repeats(n, s, m, Expanded(cells))
<1> DEFINE runs == [i \in 1..n |-> [k \in 1..m[i] |-> s[i]]]
<1>1. Expanded(cells) = FlattenSeq(runs)
  <2>1. DOMAIN cells = 1..n /\ \A i \in 1..n : cells[i].cell = s[i] /\ cells[i].count = m[i]
    OBVIOUS
  <2>2. [i \in DOMAIN cells |-> [k \in 1..cells[i].count |-> cells[i].cell]] = runs BY <2>1
  <2> QED BY <2>2 DEF Expanded
<1>2. \A i \in 1..n : /\ runs[i] \in Seq(Int) /\ Len(runs[i]) = m[i]
                       /\ \A k \in 1..m[i] : runs[i][k] = s[i]
  OBVIOUS
<1>3. runs \in [1..n -> Seq(Int)] BY <1>2
<1> HIDE DEF runs
<1>4. PICK f \in [0..n -> Seq(Int)] :
        /\ f[0] = <<>>
        /\ \A i \in 1..n : f[i] = f[i - 1] \o runs[i]
        /\ FlattenSeq(runs) = f[n]
  BY <1>3, Flattening
<1> DEFINE Right(k, e) == /\ \A j \in 1..Len(e) : \E i \in 1..k : e[j] = s[i]
                          /\ \A j, l \in 1..Len(e) : j < l => e[j] <= e[l]
                          /\ \A i \in 1..n : Cardinality(Places(e, s[i])) = IF i <= k THEN m[i] ELSE 0
           P == {k \in Nat : k <= n => Right(k, f[k])}
<1>5. 0 \in P
  <2>1. Len(<<>>) = 0 OBVIOUS
  <2>2. \A i \in 1..n : Cardinality(Places(<<>>, s[i])) = 0
    <3>1. \A x : Places(<<>>, x) = {} BY <2>1 DEF Places
    <3> QED BY <3>1, FS_EmptySet
  <2>3. \A i \in 1..n : ~(i <= 0) OBVIOUS
  <2>4. Right(0, <<>>) BY <2>1, <2>2, <2>3
  <2> HIDE DEF Right
  <2> QED BY <1>4, <2>4
<1>6. ASSUME NEW k \in Nat, k \in P PROVE k + 1 \in P
  <2> SUFFICES ASSUME k + 1 <= n PROVE Right(k + 1, f[k + 1]) OBVIOUS
  <2> DEFINE e == f[k]
             t == runs[k + 1]
             x == s[k + 1]
             u == f[k + 1]
  <2>1. k + 1 \in 1..n /\ k \in 0..n /\ (k + 1) - 1 = k /\ k <= n OBVIOUS
  <2>2. u = e \o t BY <1>4, <2>1
  <2>3. e \in Seq(Int) /\ Right(k, e) BY <1>4, <1>6, <2>1
  <2>4. /\ t \in Seq(Int) /\ Len(t) = m[k + 1] /\ m[k + 1] \in Nat
        /\ \A j \in 1..Len(t) : t[j] = x
    BY <1>2, <2>1
  <2>5. /\ x \in Int /\ \A i \in 1..n : i <= k => s[i] < x
        /\ \A i \in 1..n : s[i] = x => i = k + 1
    <3>1. \A i \in 1..n : s[i] \in Int /\ i \in Int OBVIOUS
    <3> QED BY <2>1, <3>1
  <2> HIDE DEF e, t, u, x, Right
  <2>6. /\ Len(u) = Len(e) + Len(t) /\ Len(e) \in Nat /\ Len(t) \in Nat
        /\ \A j \in 1..Len(u) : u[j] = IF j <= Len(e) THEN e[j] ELSE t[j - Len(e)]
    <3>1. e \in Seq(Int) /\ t \in Seq(Int) BY <2>3, <2>4
    <3>2. /\ Len(e \o t) = Len(e) + Len(t) /\ Len(e) \in Nat /\ Len(t) \in Nat
          /\ \A j \in 1..(Len(e) + Len(t)) :
               (e \o t)[j] = IF j <= Len(e) THEN e[j] ELSE t[j - Len(e)]
      BY <3>1
    <3> QED BY <2>2, <3>2, Zenon
  <2>7. ASSUME NEW j \in 1..Len(u)
        PROVE  \/ j \in 1..Len(e) /\ u[j] = e[j] /\ \E i \in 1..k : u[j] = s[i]
               \/ ~(j <= Len(e)) /\ u[j] = x
    <3>1. CASE j <= Len(e)
      <4>1. j \in 1..Len(e) BY <2>6, <3>1
      <4> QED BY <2>3, <2>6, <3>1, <4>1 DEF Right
    <3>2. CASE ~(j <= Len(e))
      <4>1. j - Len(e) \in 1..Len(t) BY <2>6, <3>2
      <4> QED BY <2>4, <2>6, <3>2, <4>1
    <3> QED BY <3>1, <3>2
  <2>8. \A j \in 1..Len(u) : \E i \in 1..(k + 1) : u[j] = s[i]
    <3>1. \A i \in 1..k : i \in 1..(k + 1) OBVIOUS
    <3>2. k + 1 \in 1..(k + 1) OBVIOUS
    <3> QED BY <2>7, <3>1, <3>2 DEF x
  <2>9. ASSUME NEW j \in 1..Len(u), NEW l \in 1..Len(u), j < l PROVE u[j] <= u[l]
    <3>1. CASE l \in 1..Len(e) /\ u[l] = e[l]
      <4>1. j \in 1..Len(e) BY <2>6, <2>9, <3>1
      <4>2. j <= Len(e) BY <2>6, <4>1
      <4>3. u[j] = e[j] BY <2>7, <4>2
      <4> QED BY <2>3, <2>9, <3>1, <4>1, <4>3 DEF Right
    <3>2. CASE ~(l <= Len(e)) /\ u[l] = x
      <4>1. CASE u[j] = x BY <2>5, <3>2, <4>1
      <4>2. ASSUME NEW i \in 1..k, u[j] = s[i] PROVE u[j] <= u[l]
        <5>1. i \in 1..n /\ i <= k BY <2>1
        <5>2. s[i] < x /\ s[i] \in Int BY <2>5, <5>1
        <5> QED BY <2>5, <3>2, <4>2, <5>2
      <4> QED BY <2>7, <4>1, <4>2
    <3> QED BY <2>7, <3>1, <3>2
  <2>10. ASSUME NEW i \in 1..n
         PROVE  Cardinality(Places(u, s[i])) = IF i <= k + 1 THEN m[i] ELSE 0
    <3>1. Cardinality(Places(u, s[i])) = Cardinality(Places(e, s[i])) + Cardinality(Places(t, s[i]))
      BY <2>2, <2>3, <2>4, PlacesOf
    <3>2. Cardinality(Places(e, s[i])) = IF i <= k THEN m[i] ELSE 0 BY <2>3 DEF Right
    <3>3. Cardinality(Places(t, s[i])) = IF i = k + 1 THEN m[i] ELSE 0
      <4>1. CASE i = k + 1
        <5>1. Places(t, s[i]) = 1..m[i] BY <2>4, <4>1 DEF Places, x
        <5>2. 1 \in Int /\ m[i] \in Int /\ m[i] \in Nat BY <2>4, <4>1
        <5>3. Cardinality(1..m[i]) = IF 1 > m[i] THEN 0 ELSE m[i] - 1 + 1 BY <5>2, FS_Interval
        <5> QED BY <4>1, <5>1, <5>2, <5>3
      <4>2. CASE i # k + 1
        <5>1. s[i] # x BY <2>5, <4>2
        <5>2. Places(t, s[i]) = {} BY <2>4, <5>1 DEF Places
        <5> QED BY <4>2, <5>2, FS_EmptySet
      <4> QED BY <4>1, <4>2
    <3>4. m[i] \in Nat /\ i \in Int OBVIOUS
    <3> QED BY <3>1, <3>2, <3>3, <3>4
  <2>11. Right(k + 1, u) BY <2>8, <2>9, <2>10 DEF Right
  <2> QED BY <2>11 DEF u
<1> HIDE DEF P
<1>7. \A k \in Nat : k \in P BY <1>5, <1>6, SimpleInduction
<1> DEFINE e == f[n]
<1>8. Right(n, e) /\ e \in Seq(Int)
  <2>1. n \in P /\ n <= n /\ n \in 0..n BY <1>7
  <2> HIDE DEF Right
  <2> QED BY <1>4, <2>1 DEF P
<1>9. Expanded(cells) = e BY <1>1, <1>4
<1> HIDE DEF e
<1>10. \A i \in 1..n : i <= n OBVIOUS
<1> QED BY <1>8, <1>9, <1>10 DEF Repeats

-----------------------------------------------------------------------------
(* What the reader has read *)

\* The cells of the last job are its ranks', and the parts in the directory are of
\* jobs that have been, those of the last one of its own ranks.
JobInv ==
  /\ job = 0 => nranks = 0
  /\ job > 0 => owner \in [DOMAIN Censuses[job] -> Running]
  /\ \A r \in AllRanks : dir[r] # Absent => /\ dir[r].job \in 1..job
                                            /\ dir[r].job = job => r \in Running

\* The directory holds the last job and nothing else.
Intact == job > 0 /\ index.job = job /\ OneJob

InOrder(a, b) == owner[a] < owner[b] \/ (owner[a] = owner[b] /\ a <= b)

\* Of such a directory the reader has read the parts of the first ranks, and has the
\* cells of these with all their points, rank by rank.
HasRead ==
  /\ out \in Seq(Int) /\ todo \subseteq Running
  /\ \A r \in Running \ todo : \A s \in todo : r < s
  /\ \A i \in 1..Len(out) : out[i] \in DOMAIN owner /\ owner[out[i]] \in Running \ todo
  /\ \A c \in DOMAIN owner : owner[c] \notin todo => Cardinality(Places(out, c)) = Censuses[job][c]
  /\ \A i, k \in 1..Len(out) : i < k => InOrder(out[i], out[k])

OutInv == /\ reader = "idle" => out = <<>>
          /\ reader \in {"reading", "done"} /\ Intact => HasRead

ReadInv == JobInv /\ OutInv

\* The cells of a part are listed in ascending order, each once.
LEMMA CurveOrder ==
  ASSUME NEW C \in SUBSET Int, IsFiniteSet(C)
  PROVE  /\ InCurveOrder(C) \in [1..Cardinality(C) -> C]
         /\ \A i, k \in 1..Cardinality(C) : i < k => InCurveOrder(C)[i] < InCurveOrder(C)[k]
         /\ \A c \in C : \E i \in 1..Cardinality(C) : InCurveOrder(C)[i] = c
<1> DEFINE s == InCurveOrder(C)
           N == 1..Cardinality(C)
<1>1. \E t \in [N -> C] : \A i, k \in DOMAIN t : i < k => t[i] < t[k] BY Ascending
<1>2. s \in [N -> C] /\ \A i, k \in DOMAIN s : i < k => s[i] < s[k]
  <2> HIDE DEF N
  <2> QED BY <1>1, Zenon DEF InCurveOrder, N
<1>3. DOMAIN s = N BY <1>2
<1> HIDE DEF s
<1>4. \A c \in C : \E i \in N : s[i] = c BY <1>2, <1>3, AscendingOnto
<1> QED BY <1>2, <1>3, <1>4 DEF s

\* What the reader makes of the part of a rank: the rank's cells in the order of the
\* curve, each as often as the input has points there.
LEMMA PartLemma ==
  ASSUME IInv, JobInv, job > 0, NEW r \in Running
  PROVE  LET e == Expanded(PartOf(r).cells) IN
           /\ e \in Seq(Int)
           /\ \A j \in 1..Len(e) : e[j] \in DOMAIN owner /\ owner[e[j]] = r
           /\ \A j, l \in 1..Len(e) : j < l => e[j] <= e[l]
           /\ \A c \in DOMAIN owner : owner[c] = r => Cardinality(Places(e, c)) = Censuses[job][c]
<1> DEFINE C == {c \in DOMAIN owner : owner[c] = r}
           n == Cardinality(C)
           s == CellsOf(r)
           m == [i \in 1..n |-> Censuses[job][s[i]]]
           cells == [i \in 1..n |-> [cell |-> s[i], count |-> m[i]]]
           e == Expanded(cells)
<1>1. /\ job \in DOMAIN Censuses /\ owner \in [DOMAIN Censuses[job] -> Running]
  BY ArchiveAssumption, Jobs DEF IInv, TypeOK, JobInv, MaxJobs
<1>2. C \in SUBSET Int /\ IsFiniteSet(C) /\ \A c \in C : Censuses[job][c] \in Nat
  <2>1. /\ IsFiniteSet(DOMAIN Censuses[job]) /\ DOMAIN owner = DOMAIN Censuses[job]
        /\ \A c \in DOMAIN Censuses[job] : c \in Nat /\ Censuses[job][c] \in Nat
    BY <1>1, ArchiveAssumption
  <2>2. C \in SUBSET (DOMAIN Censuses[job]) BY <2>1
  <2> HIDE DEF C
  <2> QED BY <2>1, <2>2, FS_Subset
<1>3. s = InCurveOrder(C) BY DEF CellsOf
<1> HIDE DEF C
<1>4. n \in Nat BY <1>2, FS_CardinalityType
<1>5. /\ s \in [1..n -> C]
      /\ \A i, k \in 1..n : i < k => s[i] < s[k]
      /\ \A c \in C : \E i \in 1..n : s[i] = c
  BY <1>2, <1>3, CurveOrder
<1>6. PartOf(r).cells = cells
  <2>1. DOMAIN s = 1..n BY <1>5
  <2>2. PartOf(r).cells = [i \in DOMAIN s |-> [cell |-> s[i], count |-> Censuses[job][s[i]]]]
    BY DEF PartOf, Table
  <2> HIDE DEF s, n
  <2> QED BY <2>1, <2>2
<1> HIDE DEF s, n
<1>7. s \in [1..n -> Int] /\ m \in [1..n -> Nat] BY <1>2, <1>5
<1>8. \A i \in 1..n : m[i] = Censuses[job][s[i]] OBVIOUS
<1>9. cells = [i \in 1..n |-> [cell |-> s[i], count |-> m[i]]] OBVIOUS
<1> HIDE DEF m, cells
<1>10. /\ e \in Seq(Int)
       /\ \A j \in 1..Len(e) : \E i \in 1..n : e[j] = s[i]
       /\ \A j, l \in 1..Len(e) : j < l => e[j] <= e[l]
       /\ \A i \in 1..n : Cardinality(Places(e, s[i])) = m[i]
  <2> HIDE DEF e
  <2>1. \A i, k \in 1..n : i < k => s[i] < s[k] BY <1>5
  <2>2. s \in [1..n -> Int] BY <1>7
  <2>3. m \in [1..n -> Nat] BY <1>7
  <2>4. Repeats(n, s, m, Expanded(cells)) BY <1>4, <1>9, <2>1, <2>2, <2>3, Expansion
  <2> QED BY <2>4 DEF e, Repeats
<1>11. e = Expanded(PartOf(r).cells) BY <1>6
<1> HIDE DEF e
<1>12. \A j \in 1..Len(e) : e[j] \in DOMAIN owner /\ owner[e[j]] = r
  <2>1. \A j \in 1..Len(e) : e[j] \in C BY <1>5, <1>10
  <2> QED BY <2>1 DEF C
<1>13. ASSUME NEW c \in DOMAIN owner, owner[c] = r
       PROVE  Cardinality(Places(e, c)) = Censuses[job][c]
  <2>1. c \in C BY <1>13 DEF C
  <2>2. PICK i \in 1..n : s[i] = c BY <1>5, <2>1
  <2> QED BY <1>8, <1>10, <2>2
<1> QED BY <1>10, <1>11, <1>12, <1>13

-----------------------------------------------------------------------------
LEMMA StartReadInv == Init => ReadInv
<1> SUFFICES ASSUME Init PROVE ReadInv OBVIOUS
<1>1. JobInv BY DEF Init, JobInv
<1>2. OutInv BY DEF Init, OutInv
<1> QED BY <1>1, <1>2 DEF ReadInv

\* A rank that runs is one of the job's.
LEMMA Busy ==
  ASSUME IInv, JobInv, NEW r \in AllRanks, pc[r] # "ended"
  PROVE  r \in Running /\ job \in 1..MaxJobs
<1>1. ~(r >= nranks) /\ nranks \in Nat /\ r \in Nat /\ job \in 0..MaxJobs
  BY Jobs DEF IInv, TypeOK
<1>2. r \in Running BY <1>1 DEF Running
<1>3. job # 0 BY <1>1 DEF JobInv
<1> QED BY <1>1, <1>2, <1>3, Jobs

\* Steps that leave the job and its cells alone, and put into the directory what is
\* of this job and of one of its ranks.
LEMMA SameJobInv ==
  ASSUME IInv, JobInv, UNCHANGED <<job, nranks, owner>>,
         \A r \in AllRanks : dir'[r] = dir[r] \/ (pc[r] # "ended" /\ dir'[r].job = job)
  PROVE  JobInv'
<1>1. Running' = Running BY DEF Running
<1>2. ASSUME NEW r \in AllRanks, dir'[r] # Absent
      PROVE  dir'[r].job \in 1..job /\ (dir'[r].job = job => r \in Running)
  <2>1. CASE dir'[r] = dir[r] BY <1>2, <2>1 DEF JobInv
  <2>2. CASE pc[r] # "ended" /\ dir'[r].job = job
    <3>1. r \in Running /\ job \in 1..MaxJobs BY <2>2, Busy
    <3> QED BY <2>2, <3>1, Jobs
  <2> QED BY <2>1, <2>2
<1> QED BY <1>1, <1>2 DEF JobInv

LEMMA StepJobInv == IInv /\ JobInv /\ [Next]_vars => JobInv'
<1> SUFFICES ASSUME IInv, JobInv, [Next]_vars PROVE JobInv' OBVIOUS
<1>1. CASE StartJob
  <2>1. job' = job + 1 /\ job \in 0..MaxJobs /\ dir' = dir BY <1>1 DEF StartJob, IInv, TypeOK
  <2>2. PICK n \in 1..MaxRanks :
          nranks' = n /\ owner' \in [DOMAIN Censuses[job + 1] -> 0..(n - 1)]
    BY <1>1 DEF StartJob
  <2>3. Running' = 0..(n - 1) BY <2>2 DEF Running
  <2>4. \A r \in AllRanks : dir[r] # Absent => dir[r].job \in 1..job BY DEF JobInv
  <2>5. \A i \in 1..job : i \in 1..job' /\ i # job' BY <2>1, Jobs
  <2>6. job' # 0 BY <2>1, Jobs
  <2> QED BY <2>1, <2>2, <2>3, <2>4, <2>5, <2>6 DEF JobInv
<1>2. ASSUME NEW r \in AllRanks, Open(r) \/ WritePart(r) PROVE JobInv'
  <2>1. UNCHANGED <<job, nranks, owner>> /\ pc[r] # "ended" BY <1>2 DEF Open, WritePart
  <2>2. /\ \A s \in AllRanks : s # r => dir'[s] = dir[s]
        /\ dir'[r].job = job
    BY <1>2 DEF Open, WritePart, IInv, DomainInv, Empty, PartOf, Table
  <2> QED BY <2>1, <2>2, SameJobInv
<1>3. CASE Die
  <2>1. UNCHANGED <<job, nranks, owner>> /\ \A r \in AllRanks : dir'[r] \in Leftovers(r)
    BY <1>3 DEF Die
  <2>2. ASSUME NEW r \in AllRanks
        PROVE  dir'[r] = dir[r] \/ (pc[r] # "ended" /\ dir'[r].job = job)
    <3>1. CASE pc[r] = "opened"
      <4>1. dir'[r] = dir[r] \/ dir'[r] = Torn(job) \/ dir'[r] = PartOf(r)
        BY <2>1 DEF Leftovers
      <4>2. Torn(job).job = job /\ PartOf(r).job = job BY DEF Torn, PartOf, Table
      <4>3. pc[r] # "ended" BY <3>1
      <4> QED BY <4>1, <4>2, <4>3, Zenon
    <3>2. CASE pc[r] # "opened" BY <2>1, <3>2 DEF Leftovers
    <3> QED BY <3>1, <3>2
  <2> QED BY <2>1, <2>2, SameJobInv
<1>4. CASE UNCHANGED <<dir, job, nranks, owner>> BY <1>4, SameJobInv
<1>5. ASSUME NEW r \in AllRanks, DecodePart(r) \/ DecodeTorn(r) PROVE JobInv'
  BY <1>4, <1>5 DEF DecodePart, DecodeTorn
<1>6. CASE EndJob \/ StartReader \/ EndReader BY <1>4, <1>6 DEF EndJob, StartReader, EndReader
<1> QED BY <1>1, <1>2, <1>3, <1>4, <1>5, <1>6 DEF Next, vars

\* Where nothing but the reader moves, the same things are in order.
LEMMA SameDirectory ==
  ASSUME UNCHANGED <<dir, index, job, nranks, owner>>
  PROVE  /\ Intact' = Intact /\ Running' = Running
         /\ \A a, b : InOrder(a, b)' = InOrder(a, b)
  BY DEF Intact, OneJob, Running, InOrder

\* In a directory with the last job alone, the parts are those of its ranks.
LEMMA IntactParts ==
  ASSUME IInv, JobInv, Intact
  PROVE  PartFiles = Running /\ \A r \in Running : dir[r] = PartOf(r)
<1>1. \A r \in Running : dir[r] = PartOf(r) BY DEF IInv, DiskInv, Intact
<1>2. Running \subseteq AllRanks BY RunningRanks DEF IInv
<1>3. \A r \in Running : dir[r] # Absent BY <1>1, <1>2, PartKind DEF Absent
<1>4. \A r \in AllRanks : dir[r] # Absent => r \in Running BY DEF JobInv, Intact, OneJob
<1> QED BY <1>1, <1>2, <1>3, <1>4 DEF PartFiles

LEMMA StartReading ==
  ASSUME IInv, ReadInv, StartReader
  PROVE  OutInv'
<1>1. out = <<>> /\ out' = out /\ todo' = PartFiles /\ reader' # "idle"
  BY DEF StartReader, ReadInv, OutInv
<1>2. Intact' = Intact /\ Running' = Running BY SameDirectory DEF StartReader
<1>3. ASSUME Intact PROVE HasRead'
  <2>1. todo' = Running BY <1>1, <1>3, IntactParts DEF ReadInv
  <2>2. <<>> \in Seq(Int) /\ Len(<<>>) = 0 /\ 1..0 = {} OBVIOUS
  <2>3. owner' = owner /\ job' = job BY DEF StartReader
  <2>4. \A c \in DOMAIN owner : owner[c] \in Running BY <1>3 DEF ReadInv, JobInv, Intact
  <2> QED BY <1>1, <1>2, <2>1, <2>2, <2>3, <2>4 DEF HasRead
<1> QED BY <1>1, <1>2, <1>3 DEF OutInv

\* One part more: the ranks before it are read, those after it are not, so its cells
\* are new and go to the end.
LEMMA ReadingPart ==
  ASSUME IInv, ReadInv, NEW r \in AllRanks, DecodePart(r)
  PROVE  OutInv'
<1> DEFINE e == Expanded(PartOf(r).cells)
<1>1. /\ reader = "reading" /\ reader' = reader /\ r \in todo /\ First(r)
      /\ todo' = todo \ {r} /\ UNCHANGED <<dir, index, job, nranks, owner>>
  BY DEF DecodePart
<1>2. Intact' = Intact /\ Running' = Running /\ \A a, b : InOrder(a, b)' = InOrder(a, b)
  BY <1>1, SameDirectory
<1> SUFFICES ASSUME Intact PROVE HasRead' BY <1>1, <1>2 DEF OutInv
<1>3. HasRead BY <1>1 DEF ReadInv, OutInv
<1>4. r \in Running /\ job > 0 BY <1>1, <1>3 DEF HasRead, Intact
<1>5. out' = out \o e
  <2>1. dir[r] = PartOf(r) /\ PartOf(r).kind = "table"
    BY <1>4, IntactParts, PartKind DEF ReadInv
  <2> QED BY <2>1 DEF DecodePart
<1>6. /\ e \in Seq(Int)
      /\ \A j \in 1..Len(e) : e[j] \in DOMAIN owner /\ owner[e[j]] = r
      /\ \A j, l \in 1..Len(e) : j < l => e[j] <= e[l]
      /\ \A c \in DOMAIN owner : owner[c] = r => Cardinality(Places(e, c)) = Censuses[job][c]
  BY <1>4, PartLemma DEF ReadInv
<1>7. out \in Seq(Int) /\ Running \subseteq Int /\ todo \subseteq Running
  BY <1>3 DEF HasRead, Running
<1> HIDE DEF e
<1>8. ASSUME NEW j \in 1..Len(out')
      PROVE  \/ j \in 1..Len(out) /\ out'[j] = out[j]
             \/ j > Len(out) /\ j - Len(out) \in 1..Len(e) /\ out'[j] = e[j - Len(out)]
  BY <1>5, <1>6, <1>7
<1>9. out' \in Seq(Int) /\ todo' \subseteq Running BY <1>1, <1>5, <1>6, <1>7
<1>10. Running \ todo' = (Running \ todo) \cup {r} BY <1>1, <1>4
<1>11. ASSUME NEW q \in Running \ todo', NEW s \in todo' PROVE q < s
  <2>1. s \in todo /\ s # r /\ s \in Int /\ r \in Int BY <1>1, <1>4, <1>7
  <2>2. CASE q = r BY <1>1, <2>1, <2>2 DEF First
  <2>3. CASE q \in Running \ todo BY <1>3, <2>1, <2>3 DEF HasRead
  <2> QED BY <1>10, <2>2, <2>3
<1>12. ASSUME NEW j \in 1..Len(out')
       PROVE  out'[j] \in DOMAIN owner /\ owner[out'[j]] \in Running \ todo'
  <2>1. CASE j \in 1..Len(out) /\ out'[j] = out[j] BY <1>3, <1>10, <2>1 DEF HasRead
  <2>2. CASE j - Len(out) \in 1..Len(e) /\ out'[j] = e[j - Len(out)] BY <1>6, <1>10, <2>2
  <2> QED BY <1>8, <2>1, <2>2
<1>13. ASSUME NEW c \in DOMAIN owner, owner[c] \notin todo'
       PROVE  Cardinality(Places(out', c)) = Censuses[job][c]
  <2>1. c \in Nat /\ Censuses[job][c] \in Nat
    <3>1. job \in DOMAIN Censuses BY ArchiveAssumption, <1>4, Jobs DEF IInv, TypeOK, MaxJobs
    <3>2. c \in DOMAIN Censuses[job] BY <1>4 DEF ReadInv, JobInv
    <3> QED BY <3>1, <3>2, ArchiveAssumption
  <2>2. Cardinality(Places(out', c)) = Cardinality(Places(out, c)) + Cardinality(Places(e, c))
    BY <1>5, <1>6, <1>7, PlacesOf
  <2>3. CASE owner[c] = r
    <3>1. Places(out, c) = {} BY <1>1, <1>3, <2>3 DEF HasRead, Places
    <3>2. Cardinality(Places(out, c)) = 0 BY <3>1, FS_EmptySet
    <3> QED BY <1>6, <2>1, <2>2, <2>3, <3>2
  <2>4. CASE owner[c] # r
    <3>1. Places(e, c) = {} BY <1>6, <2>4 DEF Places
    <3>2. Cardinality(Places(e, c)) = 0 BY <3>1, FS_EmptySet
    <3>3. Cardinality(Places(out, c)) = Censuses[job][c] BY <1>1, <1>3, <1>13, <2>4 DEF HasRead
    <3> QED BY <2>1, <2>2, <3>2, <3>3
  <2> QED BY <2>3, <2>4
<1>14. ASSUME NEW i \in 1..Len(out'), NEW k \in 1..Len(out'), i < k
       PROVE  InOrder(out'[i], out'[k])
  <2>1. CASE k \in 1..Len(out) /\ out'[k] = out[k]
    <3>1. i \in 1..Len(out) /\ out'[i] = out[i] BY <1>7, <1>8, <1>14, <2>1
    <3> QED BY <1>3, <1>14, <2>1, <3>1 DEF HasRead
  <2>2. CASE k > Len(out) /\ k - Len(out) \in 1..Len(e) /\ out'[k] = e[k - Len(out)]
    <3>1. owner[out'[k]] = r BY <1>6, <2>2
    <3>2. CASE i \in 1..Len(out) /\ out'[i] = out[i]
      <4>1. owner[out'[i]] \in Running \ todo BY <1>3, <3>2 DEF HasRead
      <4>2. owner[out'[i]] < r BY <1>1, <1>3, <4>1 DEF HasRead
      <4> QED BY <3>1, <4>2 DEF InOrder
    <3>3. CASE i > Len(out) /\ i - Len(out) \in 1..Len(e) /\ out'[i] = e[i - Len(out)]
      <4>1. owner[out'[i]] = r BY <1>6, <3>3
      <4>2. i - Len(out) < k - Len(out) BY <1>7, <1>14
      <4>3. out'[i] <= out'[k] BY <1>6, <2>2, <3>3, <4>2
      <4> QED BY <3>1, <4>1, <4>3 DEF InOrder
    <3> QED BY <1>8, <3>2, <3>3
  <2> QED BY <1>8, <2>1, <2>2
<1>15. owner' = owner /\ job' = job BY <1>1
<1> QED BY <1>2, <1>9, <1>11, <1>12, <1>13, <1>14, <1>15 DEF HasRead

\* Only the reader's own steps touch what it has read, and it is idle while a job runs.
LEMMA StepOutInv == IInv /\ ReadInv /\ [Next]_vars => OutInv'
<1> SUFFICES ASSUME IInv, ReadInv, [Next]_vars PROVE OutInv' OBVIOUS
<1>1. ASSUME reader = "idle", UNCHANGED reading PROVE OutInv'
  <2>1. out = <<>> BY <1>1 DEF ReadInv, OutInv
  <2> QED BY <1>1, <2>1 DEF OutInv, reading
<1>2. CASE StartJob BY <1>1, <1>2 DEF StartJob
<1>3. ASSUME NEW r \in AllRanks, Open(r) \/ WritePart(r) PROVE OutInv'
  <2>1. pc[r] # "ended" /\ UNCHANGED reading BY <1>3 DEF Open, WritePart
  <2>2. reader = "idle" BY <2>1, WhileRunning DEF Ended
  <2> QED BY <1>1, <2>1, <2>2
<1>4. CASE EndJob \/ Die
  <2>1. ~Ended /\ UNCHANGED reading BY <1>4 DEF EndJob, Die
  <2> QED BY <1>1, <2>1, WhileRunning
<1>5. ASSUME NEW r \in AllRanks, DecodePart(r) PROVE OutInv' BY <1>5, ReadingPart
<1>6. ASSUME NEW r \in AllRanks, DecodeTorn(r) PROVE OutInv' BY <1>6 DEF DecodeTorn, OutInv
<1>7. CASE StartReader BY <1>7, StartReading
<1>8. ASSUME UNCHANGED <<dir, index, job, nranks, owner, todo, out>>,
             reader' = reader \/ (reader = "reading" /\ reader' = "done")
      PROVE  OutInv'
  <2>1. Intact' = Intact /\ Running' = Running /\ \A a, b : InOrder(a, b)' = InOrder(a, b)
    BY <1>8, SameDirectory
  <2>2. HasRead => HasRead' BY <1>8, <2>1 DEF HasRead
  <2> QED BY <1>8, <2>1, <2>2 DEF ReadInv, OutInv
<1>9. CASE EndReader BY <1>8, <1>9 DEF EndReader
<1>10. CASE UNCHANGED vars BY <1>8, <1>10 DEF vars
<1> QED BY <1>2, <1>3, <1>4, <1>5, <1>6, <1>7, <1>9, <1>10 DEF Next

THEOREM ReadingInvariant == Spec => [](IInv /\ ReadInv)
<1>1. Init => IInv /\ ReadInv BY Start, StartReadInv
<1>2. IInv /\ ReadInv /\ [Next]_vars => (IInv /\ ReadInv)'
  BY Steps, StepJobInv, StepOutInv DEF ReadInv
<1> QED BY <1>1, <1>2, PTL DEF Spec

\* At the end of a complete reading no part is left.
LEMMA AllRead ==
  ASSUME IInv, ReadInv, Complete, OneJob
  PROVE  HasRead /\ todo = {} /\ job \in DOMAIN Censuses
<1>1. HasRead BY DEF Complete, Intact, ReadInv, OutInv
<1>2. todo = {} BY DEF IInv, ReaderInv, Complete
<1>3. job \in DOMAIN Censuses BY ArchiveAssumption, Jobs DEF IInv, TypeOK, MaxJobs, Complete
<1> QED BY <1>1, <1>2, <1>3

\* After a job that ended, in a directory that holds no part of another, the reader
\* returns each cell as many times as the input has points there, and nothing else.
THEOREM PointsComeBack == Spec => []RecoversLastJob
<1>1. ASSUME IInv, ReadInv PROVE RecoversLastJob
  <2> SUFFICES ASSUME Complete, OneJob,
                      NEW c \in DOMAIN owner \cup {out[i] : i \in DOMAIN out}
               PROVE  c \in DOMAIN owner /\ Times(c) = Censuses[job][c]
    BY DEF RecoversLastJob
  <2>1. HasRead /\ todo = {} BY <1>1, AllRead
  <2>2. DOMAIN out = 1..Len(out) BY <2>1 DEF HasRead
  <2>3. c \in DOMAIN owner BY <2>1, <2>2 DEF HasRead
  <2>4. Times(c) = Cardinality(Places(out, c)) BY <2>2 DEF Times, Places
  <2> QED BY <2>1, <2>3, <2>4 DEF HasRead
<1> QED BY <1>1, ReadingInvariant, PTL

\* They come in the order of the ranks, and of the curve within a rank.
THEOREM PointsComeInOrder == Spec => []InRankOrder
<1>1. ASSUME IInv, ReadInv PROVE InRankOrder
  <2> SUFFICES ASSUME Complete, OneJob, NEW i \in DOMAIN out, NEW k \in DOMAIN out, i < k
               PROVE  InOrder(out[i], out[k])
    BY DEF InRankOrder, InOrder
  <2>1. HasRead BY <1>1, AllRead
  <2>2. DOMAIN out = 1..Len(out) BY <2>1 DEF HasRead
  <2> QED BY <2>1, <2>2 DEF HasRead
<1> QED BY <1>1, ReadingInvariant, PTL
=============================================================================
