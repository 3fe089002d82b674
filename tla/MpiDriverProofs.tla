--------------------------- MODULE MpiDriverProofs ---------------------------
(***************************************************************************)
(* What main() promises for any number of ranks, any command line and any  *)
(* input: which collectives a rank has entered follows from where it is    *)
(* and from the options, the codebook all ranks take over is the one that  *)
(* was fitted on block 0, and what a rank has put into its part file was   *)
(* encoded with that codebook.  From this follows, in the second half,     *)
(* that the files, the totals and the summary agree as long as no write    *)
(* fails.  The output directory may hold the results of an earlier job.    *)
(***************************************************************************)
EXTENDS MpiDriver, Foundations

Shared == args.shared_codebook
IsMapReduce == args.mode = "mapreduce"

\* The collectives that the two options add.
Extra == IF Shared THEN 2 ELSE 0
ExtraMR == IF IsMapReduce THEN 1 ELSE 0

\* The k-th collective of a rank.
OpOf(k) ==
  IF k = 1 THEN "Bcast size"
  ELSE IF k = 2 THEN "File_open"
  ELSE IF Shared /\ k = 3 THEN "Barrier warmup"
  ELSE IF Shared /\ k = 4 THEN "Bcast profile"
  ELSE IF k = 3 + Extra THEN "Barrier start"
  ELSE IF IsMapReduce /\ k = 4 + Extra THEN "run_mapreduce"
  ELSE IF k = 4 + Extra + ExtraMR THEN "Barrier end"
  ELSE "Reduce and Gather"

\* How many collectives a rank has entered, by where it is.
Entered(p, n) ==
  /\ p = "start" => n = 0
  /\ p = "size" => n = 1
  /\ p = "input" => n = 2
  /\ p = "warmup" => n = 3
  /\ p = "profile" => n = 4
  /\ p = "ready" => n = 3 + Extra
  /\ p = "mapreduce" => n = 4 + Extra
  /\ p = "blocks" => n = 3 + Extra + ExtraMR
  /\ p = "closed" => n = 4 + Extra + ExtraMR
  /\ p \in {"gather", "summary", "index", "merged", "done"} => n = 5 + Extra + ExtraMR

PcInv ==
  /\ args \in ArgChoices
  /\ pc \in [Ranks -> PcValues]
  /\ \A r \in Ranks : /\ pc[r] \in {"warmup", "profile"} => Shared
                      /\ pc[r] = "mapreduce" => IsMapReduce

LogTyped == \E S : calls \in [Ranks -> Seq(S)]

LogInv ==
  \A r \in Ranks : /\ Entered(pc[r], Len(calls[r]))
                   /\ \A k \in 1..Len(calls[r]) : calls[r][k].op = OpOf(k)

\* Where a rank has taken over the profile.
HasProfile == {"ready", "blocks", "mapreduce", "closed", "gather", "summary", "index", "merged", "done"}

ProfileInv ==
  /\ DOMAIN profile = Ranks
  /\ Shared => /\ Len(calls[0]) >= 4 => calls[0][4].val = FirstBlock
               /\ \A r \in Ranks : pc[r] \in HasProfile => profile[r] = FirstBlock

\* A chunk that may be in a part file.
Sound(c) == Shared => c.codebook = FirstBlock

SoundFile(f) ==
  /\ f = [data |-> f.data, saved |-> f.saved, pos |-> f.pos, ok |-> f.ok]
  /\ \E S : f.data \in Seq(S)
  /\ f.saved \in 0..Len(f.data)
  /\ \A i \in 1..Len(f.data) : Sound(f.data[i])

FileInv == DOMAIN part = Ranks /\ \A r \in Ranks : SoundFile(part[r])

IInv == PcInv /\ LogTyped /\ LogInv /\ ProfileInv /\ FileInv

-----------------------------------------------------------------------------
(* The parts of a step *)

\* The options are Booleans, so that each adds its collectives or none.
LEMMA ExtraCalls ==
  ASSUME args \in ArgChoices
  PROVE  /\ Shared \in BOOLEAN
         /\ Shared => Extra = 2
         /\ ~Shared => Extra = 0
         /\ IsMapReduce => ExtraMR = 1
         /\ ~IsMapReduce => ExtraMR = 0
         /\ Extra \in {0, 2} /\ ExtraMR \in {0, 1}
BY DriverAssumption DEF Shared, Extra, ExtraMR

\* The protocol does not change.
LEMMA SameProtocol ==
  ASSUME args' = args
  PROVE  /\ Shared' = Shared /\ IsMapReduce' = IsMapReduce
         /\ Extra' = Extra /\ ExtraMR' = ExtraMR
         /\ \A k : OpOf(k)' = OpOf(k)
         /\ \A p, n : Entered(p, n)' = Entered(p, n)
<1>1. /\ Shared' = Shared /\ IsMapReduce' = IsMapReduce
      /\ Extra' = Extra /\ ExtraMR' = ExtraMR
  <2>1. Shared' = Shared /\ IsMapReduce' = IsMapReduce BY DEF Shared, IsMapReduce
  <2> QED BY <2>1 DEF Extra, ExtraMR
<1>2. \A k : OpOf(k)' = OpOf(k) BY <1>1, Zenon DEF OpOf
<1>3. ASSUME NEW p, NEW n PROVE Entered(p, n)' = Entered(p, n)
  <2>1. Extra' = Extra /\ ExtraMR' = ExtraMR BY <1>1
  <2> QED BY <2>1, ZenonT(60) DEF Entered
<1> QED BY <1>1, <1>2, <1>3

\* A rank that enters the collective which is next for it keeps to the protocol.
LEMMA EnterStep ==
  ASSUME IInv, NEW r \in Ranks, NEW val, NEW to \in PcValues,
         args' = args, Enter(r, OpOf(Len(calls[r]) + 1), val, to),
         to \in {"warmup", "profile"} => Shared,
         to = "mapreduce" => IsMapReduce,
         Entered(to, Len(calls[r]) + 1)
  PROVE  /\ PcInv' /\ LogTyped' /\ LogInv'
         /\ \A s \in Ranks \ {r} : pc'[s] = pc[s] /\ calls'[s] = calls[s]
         /\ pc'[r] = to
         /\ Len(calls'[r]) = Len(calls[r]) + 1
         /\ \A k \in 1..Len(calls[r]) : calls'[r][k] = calls[r][k]
         /\ calls'[r][Len(calls[r]) + 1].val = val
<1> DEFINE op == OpOf(Len(calls[r]) + 1)
<1>1. PICK S : calls \in [Ranks -> Seq(S)] BY DEF IInv, LogTyped
<1>2. /\ \E T : calls' \in [Ranks -> Seq(T)]
      /\ \A s \in Ranks \ {r} : calls'[s] = calls[s]
      /\ Len(calls'[r]) = Len(calls[r]) + 1
      /\ \A k \in 1..Len(calls[r]) : calls'[r][k] = calls[r][k]
      /\ calls'[r][Len(calls[r]) + 1] = MpiCall(op, val)
  BY <1>1, PostLemma DEF Enter
<1>3. /\ pc' \in [Ranks -> PcValues]
      /\ pc'[r] = to
      /\ \A s \in Ranks \ {r} : pc'[s] = pc[s]
  BY DEF Enter, Goto, IInv, PcInv
<1>4. PcInv' BY <1>3 DEF IInv, PcInv, Shared, IsMapReduce
<1>5. LogTyped' BY <1>2 DEF LogTyped
<1>6. /\ \A k : OpOf(k)' = OpOf(k)
      /\ \A p, n : Entered(p, n)' = Entered(p, n)
  BY SameProtocol
<1>7. LogInv'
  <2> SUFFICES ASSUME NEW s \in Ranks
               PROVE  /\ Entered(pc'[s], Len(calls'[s]))
                      /\ \A k \in 1..Len(calls'[s]) : calls'[s][k].op = OpOf(k)
    BY <1>6 DEF LogInv
  <2>1. CASE s # r BY <2>1, <1>2, <1>3 DEF IInv, LogInv
  <2>2. CASE s = r
    <3>1. Len(calls[r]) \in Nat BY <1>1
    <3>2. Entered(pc'[r], Len(calls'[r])) BY <1>2, <1>3
    <3>3. ASSUME NEW k \in 1..Len(calls'[r]) PROVE calls'[r][k].op = OpOf(k)
      <4>1. CASE k \in 1..Len(calls[r]) BY <4>1, <1>2 DEF IInv, LogInv
      <4>2. CASE k = Len(calls[r]) + 1 BY <4>2, <1>2 DEF MpiCall
      <4> QED BY <4>1, <4>2, <3>1, <1>2
    <3> QED BY <2>2, <3>2, <3>3
  <2> QED BY <2>1, <2>2
<1>8. calls'[r][Len(calls[r]) + 1].val = val BY <1>2 DEF MpiCall
<1> QED BY <1>2, <1>3, <1>4, <1>5, <1>7, <1>8

\* The profile rank 0 announces is the only one there is, and nobody drops it.
LEMMA EnterKeepsProfile ==
  ASSUME IInv, NEW r \in Ranks, NEW to, args' = args, profile' = profile,
         LogTyped',
         \A s \in Ranks \ {r} : pc'[s] = pc[s] /\ calls'[s] = calls[s],
         pc'[r] = to,
         Len(calls'[r]) = Len(calls[r]) + 1,
         \A k \in 1..Len(calls[r]) : calls'[r][k] = calls[r][k],
         Shared /\ r = 0 /\ Len(calls[r]) = 3 => calls'[r][4].val = FirstBlock,
         Shared /\ to \in HasProfile => pc[r] \in HasProfile
  PROVE  ProfileInv'
<1>1. PICK S : calls \in [Ranks -> Seq(S)] BY DEF IInv, LogTyped
<1>2. Shared' = Shared BY DEF Shared
<1>3. 0 \in Ranks /\ Len(calls[0]) \in Nat BY <1>1, DriverAssumption DEF Ranks
<1>4. ASSUME Shared, Len(calls'[0]) >= 4 PROVE calls'[0][4].val = FirstBlock
  <2>1. CASE r # 0 BY <2>1, <1>3, <1>4 DEF IInv, ProfileInv
  <2>2. CASE r = 0 /\ Len(calls[0]) = 3 BY <2>2, <1>4
  <2>3. CASE r = 0 /\ Len(calls[0]) >= 4
    <3>1. 4 \in 1..Len(calls[0]) BY <2>3, <1>3
    <3>2. calls'[0][4] = calls[0][4] BY <2>3, <3>1
    <3> QED BY <2>3, <3>2, <1>4 DEF IInv, ProfileInv
  <2>4. ASSUME r = 0 PROVE Len(calls[0]) = 3 \/ Len(calls[0]) >= 4
    <3>1. Len(calls'[0]) = Len(calls[0]) + 1 BY <2>4
    <3>2. \A n \in Nat : \A m : m = n + 1 /\ m >= 4 => n = 3 \/ n >= 4 OBVIOUS
    <3> QED BY ONLY <3>1, <3>2, <1>3, <1>4, Zenon
  <2> QED BY <2>1, <2>2, <2>3, <2>4
<1>5. ASSUME Shared, NEW s \in Ranks, pc'[s] \in HasProfile PROVE profile[s] = FirstBlock
  BY <1>5 DEF IInv, ProfileInv
<1> QED BY <1>2, <1>4, <1>5 DEF IInv, ProfileInv, FirstBlock

\* A rank that goes on, or ends, without entering a collective keeps to the protocol.
LEMMA MoveStep ==
  ASSUME IInv, NEW r \in Ranks, NEW to \in PcValues, Goto(r, to),
         args' = args, calls' = calls, profile' = profile,
         to \in {"warmup", "profile"} => Shared,
         to = "mapreduce" => IsMapReduce,
         Shared /\ to \in HasProfile => pc[r] \in HasProfile,
         Entered(to, Len(calls[r]))
  PROVE  PcInv' /\ LogTyped' /\ LogInv' /\ ProfileInv'
<1>1. Shared' = Shared /\ IsMapReduce' = IsMapReduce /\ Extra' = Extra /\ ExtraMR' = ExtraMR
  BY DEF Shared, IsMapReduce, Extra, ExtraMR
<1>2. /\ pc' \in [Ranks -> PcValues]
      /\ pc'[r] = to
      /\ \A s \in Ranks \ {r} : pc'[s] = pc[s]
  BY DEF Goto, IInv, PcInv
<1>3. PcInv' BY <1>1, <1>2 DEF IInv, PcInv
<1>4. LogTyped' BY DEF IInv, LogTyped
<1>5. /\ \A k : OpOf(k)' = OpOf(k)
      /\ \A p, n : Entered(p, n)' = Entered(p, n)
  BY SameProtocol
<1>6. \A s \in Ranks : Entered(pc'[s], Len(calls[s])) BY <1>2 DEF IInv, LogInv
<1>7. LogInv' BY <1>5, <1>6 DEF IInv, LogInv
<1>8. ProfileInv' BY <1>1, <1>2 DEF IInv, ProfileInv, FirstBlock
<1> QED BY <1>3, <1>4, <1>7, <1>8

\* A rank that dies or is killed.
LEMMA StopStep ==
  ASSUME IInv, NEW r \in Ranks, NEW to \in Dead, Goto(r, to),
         args' = args, calls' = calls, profile' = profile
  PROVE  PcInv' /\ LogTyped' /\ LogInv' /\ ProfileInv'
<1>1. /\ to \in PcValues /\ to \notin {"warmup", "profile", "mapreduce"}
      /\ to \notin HasProfile /\ Entered(to, Len(calls[r]))
  BY DEF Dead, PcValues, HasProfile, Entered
<1> QED BY <1>1, MoveStep

-----------------------------------------------------------------------------
(* Part files *)

\* The options, and with them what may be in a file, stay.
LEMMA SameFiles ==
  ASSUME args' = args
  PROVE  \A f : SoundFile(f)' = SoundFile(f)
<1>1. \A c : Sound(c)' = Sound(c) BY DEF Sound, Shared, FirstBlock
<1> QED BY <1>1, Zenon DEF SoundFile

\* Writing a sound chunk, whether the disk takes it or not.
LEMMA WriteFile ==
  ASSUME NEW f, NEW x, NEW size, SoundFile(f), Sound(x), NEW g \in AfterWrite(f, x, size)
  PROVE  SoundFile(g)
<1>1. PICK S : f.data \in Seq(S) BY DEF SoundFile
<1>2. Len(f.data) \in Nat /\ f.data \in [1..Len(f.data) -> S \cup {x}] BY <1>1
<1>3. f.data \in Seq(S \cup {x}) BY <1>2
<1>4. /\ Append(f.data, x) \in Seq(S \cup {x})
      /\ Len(Append(f.data, x)) = Len(f.data) + 1
      /\ \A i \in 1..Len(f.data) : Append(f.data, x)[i] = f.data[i]
      /\ Append(f.data, x)[Len(f.data) + 1] = x
  BY <1>3
<1>5. CASE g = f BY <1>5
<1>6. CASE g = [f EXCEPT !.ok = FALSE] BY <1>6 DEF SoundFile
<1>7. CASE g = [f EXCEPT !.data = Append(@, x), !.pos = @ + size]
  <2>1. f = [data |-> f.data, saved |-> f.saved, pos |-> f.pos, ok |-> f.ok]
    BY DEF SoundFile
  <2>2. g = [data |-> Append(f.data, x), saved |-> f.saved, pos |-> f.pos + size, ok |-> f.ok]
    BY <2>1, <1>7
  <2>3. \A i \in 1..Len(g.data) : Sound(g.data[i])
    <3> SUFFICES ASSUME NEW i \in 1..Len(g.data) PROVE Sound(g.data[i]) OBVIOUS
    <3>1. CASE i \in 1..Len(f.data) BY <3>1, <2>2, <1>4 DEF SoundFile
    <3>2. CASE i = Len(f.data) + 1 BY <3>2, <2>2, <1>4
    <3> QED BY <3>1, <3>2, <2>2, <1>2, <1>4
  <2>4. g.saved \in 0..Len(g.data) BY <2>2, <1>2, <1>4 DEF SoundFile
  <2>5. g.data \in Seq(S \cup {x}) BY <2>2, <1>4
  <2> QED BY <2>2, <2>3, <2>4, <2>5 DEF SoundFile
<1> QED BY <1>5, <1>6, <1>7 DEF AfterWrite

\* Flushing, and losing what was not flushed, change only how much is on disk.
LEMMA SaveFile ==
  ASSUME NEW f, SoundFile(f), NEW i \in f.saved..Len(f.data)
  PROVE  SoundFile([f EXCEPT !.saved = i])
<1>1. PICK S : f.data \in Seq(S) BY DEF SoundFile
<1>2. Len(f.data) \in Nat BY <1>1
<1>3. f = [data |-> f.data, saved |-> f.saved, pos |-> f.pos, ok |-> f.ok] BY DEF SoundFile
<1>4. [f EXCEPT !.saved = i] = [data |-> f.data, saved |-> i, pos |-> f.pos, ok |-> f.ok]
  BY <1>3
<1>5. i \in 0..Len(f.data) BY <1>2 DEF SoundFile
<1> QED BY <1>4, <1>5 DEF SoundFile

LEMMA FlushFile ==
  ASSUME NEW f, SoundFile(f)
  PROVE  SoundFile(Flushed(f))
<1>1. Len(f.data) \in Nat /\ f.saved \in 0..Len(f.data) BY DEF SoundFile
<1>2. Len(f.data) \in f.saved..Len(f.data) BY <1>1
<1> QED BY <1>2, SaveFile DEF Flushed

\* A rank changes no file but its own.
LEMMA FileStep ==
  ASSUME IInv, args' = args, NEW r \in Ranks, NEW f, part' = [part EXCEPT ![r] = f],
         SoundFile(f)
  PROVE  FileInv'
<1>1. \A g : SoundFile(g)' = SoundFile(g) BY SameFiles
<1>2. /\ DOMAIN part' = Ranks
      /\ \A s \in Ranks : SoundFile(part'[s])
  BY DEF IInv, FileInv
<1> QED BY <1>1, <1>2 DEF FileInv

LEMMA KeepFiles ==
  ASSUME IInv, args' = args, part' = part
  PROVE  FileInv'
<1>1. \A g : SoundFile(g)' = SoundFile(g) BY SameFiles
<1> QED BY <1>1 DEF IInv, FileInv

LEMMA LoseFiles ==
  ASSUME IInv, args' = args, NEW r \in Ranks, LoseBuffers(r)
  PROVE  FileInv'
<1>1. PICK i \in part[r].saved..Len(part[r].data) : part' = [part EXCEPT ![r].saved = i]
  BY DEF LoseBuffers
<1>2. part' = [part EXCEPT ![r] = [part[r] EXCEPT !.saved = i]] BY <1>1
<1>3. SoundFile([part[r] EXCEPT !.saved = i]) BY SaveFile DEF IInv, FileInv
<1> QED BY <1>2, <1>3, FileStep

-----------------------------------------------------------------------------
(* The actions *)

\* Where a rank is in the protocol.
LEMMA Here ==
  ASSUME IInv, NEW r \in Ranks
  PROVE  /\ Len(calls[r]) \in Nat
         /\ Entered(pc[r], Len(calls[r]))
         /\ Shared \in BOOLEAN
         /\ Shared => Extra = 2
         /\ ~Shared => Extra = 0
         /\ IsMapReduce => ExtraMR = 1
         /\ ~IsMapReduce => ExtraMR = 0
<1>1. PICK S : calls \in [Ranks -> Seq(S)] BY DEF IInv, LogTyped
<1>2. Len(calls[r]) \in Nat BY <1>1
<1>3. args \in ArgChoices BY DEF IInv, PcInv
<1> QED BY <1>2, <1>3, ExtraCalls DEF IInv, LogInv

\* A rank that enters its next collective and changes neither its profile nor
\* anything its part file must not hold.
LEMMA EnterNext ==
  ASSUME IInv, NEW r \in Ranks, NEW val, NEW to \in PcValues,
         args' = args, profile' = profile, FileInv',
         Enter(r, OpOf(Len(calls[r]) + 1), val, to),
         to \in {"warmup", "profile"} => Shared,
         to = "mapreduce" => IsMapReduce,
         Entered(to, Len(calls[r]) + 1),
         Shared /\ r = 0 /\ Len(calls[r]) = 3 => val = FirstBlock,
         Shared /\ to \in HasProfile => pc[r] \in HasProfile
  PROVE  IInv'
<1>1. /\ PcInv' /\ LogTyped' /\ LogInv'
      /\ \A s \in Ranks \ {r} : pc'[s] = pc[s] /\ calls'[s] = calls[s]
      /\ pc'[r] = to
      /\ Len(calls'[r]) = Len(calls[r]) + 1
      /\ \A k \in 1..Len(calls[r]) : calls'[r][k] = calls[r][k]
      /\ calls'[r][Len(calls[r]) + 1].val = val
  BY EnterStep, Zenon
<1>2. ASSUME Shared, r = 0, Len(calls[r]) = 3 PROVE calls'[r][4].val = FirstBlock
  BY <1>1, <1>2
<1>3. ProfileInv' BY <1>1, <1>2, EnterKeepsProfile, Zenon
<1> QED BY <1>1, <1>3 DEF IInv

LEMMA StartStep ==
  ASSUME IInv, NEW r \in Ranks, Start(r)
  PROVE  IInv'
<1>1. FileInv' BY KeepFiles DEF Start, files, job
<1>2. Len(calls[r]) = 0 BY Here DEF Start, Entered
<1>3. /\ "size" \in PcValues /\ "size" \notin {"warmup", "profile", "mapreduce"}
      /\ "size" \notin HasProfile
      /\ OpOf(Len(calls[r]) + 1) = "Bcast size"
      /\ Entered("size", Len(calls[r]) + 1)
      /\ Len(calls[r]) # 3
  BY <1>2 DEF PcValues, HasProfile, OpOf, Entered
<1>4. Enter(r, OpOf(Len(calls[r]) + 1), IF r = 0 THEN input_size ELSE 0, "size")
  BY <1>3 DEF Start
<1> QED BY <1>1, <1>3, <1>4, EnterNext, Zenon DEF Start, job

LEMMA OpenInputStep ==
  ASSUME IInv, NEW r \in Ranks, OpenInput(r)
  PROVE  IInv'
<1>1. FileInv' BY KeepFiles DEF OpenInput, files, job
<1>2. Len(calls[r]) = 1 BY Here DEF OpenInput, Entered
<1>3. /\ "input" \in PcValues /\ "input" \notin {"warmup", "profile", "mapreduce"}
      /\ "input" \notin HasProfile
      /\ OpOf(Len(calls[r]) + 1) = "File_open"
      /\ Entered("input", Len(calls[r]) + 1)
      /\ Len(calls[r]) # 3
  BY <1>2 DEF PcValues, HasProfile, OpOf, Entered
<1>4. Enter(r, OpOf(Len(calls[r]) + 1), 0, "input") BY <1>3 DEF OpenInput
<1> QED BY <1>1, <1>3, <1>4, EnterNext, Zenon DEF OpenInput, job

LEMMA OpenOutputsStep ==
  ASSUME IInv, NEW r \in Ranks, OpenOutputs(r)
  PROVE  IInv'
<1>1. SoundFile(NewFile)
  <2>1. NewFile = [data |-> <<>>, saved |-> 0, pos |-> 0, ok |-> TRUE] BY DEF NewFile
  <2>2. NewFile.data \in Seq({}) /\ Len(NewFile.data) = 0 BY <2>1
  <2> QED BY <2>1, <2>2 DEF SoundFile
<1>2. FileInv' BY <1>1, FileStep DEF OpenOutputs, job
<1>3. Len(calls[r]) = 2 /\ Len(calls[r]) # 3
  <2>1. Entered("input", Len(calls[r])) BY Here DEF OpenOutputs
  <2> QED BY <2>1 DEF Entered
<1>4. args' = args /\ profile' = profile BY DEF OpenOutputs, job
<1>5. CASE Shared
  <2>1. /\ "warmup" \in PcValues /\ "warmup" # "mapreduce" /\ "warmup" \notin HasProfile
        /\ OpOf(Len(calls[r]) + 1) = "Barrier warmup"
        /\ Entered("warmup", Len(calls[r]) + 1)
    BY <1>3, <1>5 DEF PcValues, HasProfile, OpOf, Entered
  <2>2. Enter(r, OpOf(Len(calls[r]) + 1), 0, "warmup") BY <2>1, <1>5 DEF OpenOutputs, Shared
  <2> QED BY <1>2, <1>3, <1>4, <1>5, <2>1, <2>2, EnterNext, Zenon
<1>6. CASE ~Shared
  <2>1. /\ "ready" \in PcValues /\ "ready" \notin {"warmup", "profile", "mapreduce"}
        /\ OpOf(Len(calls[r]) + 1) = "Barrier start"
        /\ Entered("ready", Len(calls[r]) + 1)
    BY <1>3, <1>6, Here DEF PcValues, OpOf, Entered
  <2>2. Enter(r, OpOf(Len(calls[r]) + 1), 0, "ready") BY <2>1, <1>6 DEF OpenOutputs, Shared
  <2> QED BY <1>2, <1>3, <1>4, <1>6, <2>1, <2>2, EnterNext, Zenon
<1> QED BY <1>5, <1>6

LEMMA FitProfileStep ==
  ASSUME IInv, NEW r \in Ranks, FitProfile(r)
  PROVE  IInv'
<1>1. FileInv' BY KeepFiles DEF FitProfile, files, job
<1>2. args' = args /\ profile' = profile BY DEF FitProfile, job
<1>3. Shared /\ Len(calls[r]) = 3 BY Here DEF FitProfile, Entered, IInv, PcInv
<1>4. /\ "profile" \in PcValues /\ "profile" # "mapreduce" /\ "profile" \notin HasProfile
      /\ OpOf(Len(calls[r]) + 1) = "Bcast profile"
      /\ Entered("profile", Len(calls[r]) + 1)
  BY <1>3 DEF PcValues, HasProfile, OpOf, Entered
<1> DEFINE val == IF r = 0 THEN FirstBlock ELSE NoProfile
<1>5. Enter(r, OpOf(Len(calls[r]) + 1), val, "profile") BY <1>4 DEF FitProfile
<1>6. r = 0 => val = FirstBlock OBVIOUS
<1> HIDE DEF val
<1> QED BY <1>1, <1>2, <1>3, <1>4, <1>5, <1>6, EnterNext, Zenon

\* The profile that arrives is rank 0's, which has entered the broadcast.
LEMMA TakeProfileStep ==
  ASSUME IInv, NEW r \in Ranks, TakeProfile(r)
  PROVE  IInv'
<1>1. FileInv' BY KeepFiles DEF TakeProfile, files, job
<1>2. args' = args BY DEF TakeProfile, job
<1>3. Shared /\ Len(calls[r]) = 4 /\ 0 \in Ranks
  <2>1. Entered("profile", Len(calls[r])) BY Here DEF TakeProfile
  <2>2. Shared BY DEF TakeProfile, IInv, PcInv
  <2>3. 0 \in Ranks BY DriverAssumption DEF Ranks
  <2> QED BY <2>1, <2>2, <2>3 DEF Entered
<1>4. /\ "ready" \in PcValues /\ "ready" \notin {"warmup", "profile", "mapreduce"}
      /\ OpOf(Len(calls[r]) + 1) = "Barrier start"
      /\ Entered("ready", Len(calls[r]) + 1)
  BY <1>3, Here DEF PcValues, OpOf, Entered
<1>5. Enter(r, OpOf(Len(calls[r]) + 1), 0, "ready") BY <1>4 DEF TakeProfile
<1>6. /\ PcInv' /\ LogTyped' /\ LogInv'
      /\ \A s \in Ranks \ {r} : pc'[s] = pc[s] /\ calls'[s] = calls[s]
      /\ Len(calls'[r]) = Len(calls[r]) + 1
      /\ \A k \in 1..Len(calls[r]) : calls'[r][k] = calls[r][k]
  BY <1>2, <1>4, <1>5, EnterStep, Zenon
<1>7. Len(calls[0]) \in Nat /\ Len(calls[0]) >= 4 /\ calls[0][4].val = FirstBlock
  <2>1. Len(calls[0]) \in Nat BY <1>3, Here
  <2>2. Len(calls[0]) >= 4 BY <1>3 DEF TakeProfile, RootEntered
  <2> QED BY <2>1, <2>2, <1>3 DEF IInv, ProfileInv
<1>8. calls'[0][4].val = FirstBlock
  <2>1. CASE r = 0 BY <2>1, <1>3, <1>6, <1>7
  <2>2. CASE r # 0 BY <2>2, <1>3, <1>6, <1>7
  <2> QED BY <2>1, <2>2
<1>9. profile' = [profile EXCEPT ![r] = FirstBlock]
  BY <1>3, <1>7 DEF TakeProfile, FromRoot
<1>10. ProfileInv'
  <2>1. DOMAIN profile' = Ranks BY <1>9 DEF IInv, ProfileInv
  <2>2. ASSUME NEW s \in Ranks, pc'[s] \in HasProfile PROVE profile'[s] = FirstBlock
    <3>1. CASE s = r BY <3>1, <1>9 DEF IInv, ProfileInv
    <3>2. CASE s # r BY <3>2, <2>2, <1>3, <1>6, <1>9 DEF IInv, ProfileInv
    <3> QED BY <3>1, <3>2
  <2> QED BY <2>1, <2>2, <1>8 DEF ProfileInv, FirstBlock
<1> QED BY <1>1, <1>6, <1>10 DEF IInv

LEMMA BeginStep ==
  ASSUME IInv, NEW r \in Ranks, Begin(r)
  PROVE  IInv'
<1>1. FileInv' BY KeepFiles DEF Begin, files, job
<1>2. args' = args /\ profile' = profile /\ pc[r] = "ready" BY DEF Begin, job
<1>3. /\ pc[r] \in HasProfile
      /\ Entered("ready", Len(calls[r]))
  BY <1>2, Here DEF HasProfile
<1>4. /\ Len(calls[r]) = 3 + Extra /\ Extra \in {0, 2}
      /\ Shared => Len(calls[r]) # 3
  <2>1. Len(calls[r]) = 3 + Extra BY <1>3 DEF Entered
  <2>2. CASE Shared BY <2>1, <2>2, Here
  <2>3. CASE ~Shared BY <2>1, <2>3, Here
  <2> QED BY <2>2, <2>3
<1>5. CASE IsMapReduce
  <2>1. /\ "mapreduce" \in PcValues /\ "mapreduce" \notin {"warmup", "profile"}
        /\ OpOf(Len(calls[r]) + 1) = "run_mapreduce"
        /\ Entered("mapreduce", Len(calls[r]) + 1)
    BY <1>4, <1>5, Here DEF PcValues, OpOf, Entered
  <2>2. Enter(r, OpOf(Len(calls[r]) + 1), 0, "mapreduce")
    BY <2>1, <1>5 DEF Begin, IsMapReduce
  <2> QED BY <1>1, <1>2, <1>3, <1>4, <1>5, <2>1, <2>2, EnterNext, Zenon
<1>6. CASE ~IsMapReduce
  <2>1. /\ "blocks" \in PcValues /\ "blocks" \notin {"warmup", "profile", "mapreduce"}
        /\ Entered("blocks", Len(calls[r]))
    BY <1>4, <1>6, Here DEF PcValues, Entered
  <2>2. Goto(r, "blocks") /\ calls' = calls BY <1>6 DEF Begin, IsMapReduce
  <2> QED BY <1>1, <1>2, <1>3, <2>1, <2>2, MoveStep, Zenon DEF IInv
<1> QED BY <1>5, <1>6

\* The chunk of a block is sound: the rank has the codebook by then.
LEMMA CompressBlockStep ==
  ASSUME IInv, NEW r \in Ranks, CompressBlock(r)
  PROVE  IInv'
<1>1. PICK size \in ChunkSizes :
        Write(r, ChunkOf(r, size), EntryOf(r, size))
  BY DEF CompressBlock
<1>2. Sound(ChunkOf(r, size))
  <2>1. ChunkOf(r, size).codebook = profile[r] BY DEF ChunkOf
  <2>2. Shared => profile[r] = FirstBlock
    BY DEF CompressBlock, IInv, ProfileInv, HasProfile
  <2> QED BY <2>1, <2>2 DEF Sound
<1>3. PICK f \in AfterWrite(part[r], ChunkOf(r, size), ChunkOf(r, size).size) :
        part' = [part EXCEPT ![r] = f]
  BY <1>1 DEF Write
<1>4. SoundFile(part[r]) BY DEF IInv, FileInv
<1>5. SoundFile(f) BY <1>2, <1>4, WriteFile
<1>6. args' = args /\ pc' = pc /\ calls' = calls /\ profile' = profile
  BY DEF CompressBlock, job
<1>7. FileInv' BY <1>3, <1>5, <1>6, FileStep
<1>8. /\ Shared' = Shared /\ IsMapReduce' = IsMapReduce /\ Extra' = Extra /\ ExtraMR' = ExtraMR
  BY <1>6 DEF Shared, IsMapReduce, Extra, ExtraMR
<1>9. /\ \A k : OpOf(k)' = OpOf(k)
      /\ \A p, n : Entered(p, n)' = Entered(p, n)
  BY <1>6, SameProtocol
<1>10. PcInv' /\ LogTyped' /\ LogInv' /\ ProfileInv'
  BY <1>6, <1>8, <1>9 DEF IInv, PcInv, LogTyped, LogInv, ProfileInv, FirstBlock
<1> QED BY <1>7, <1>10 DEF IInv

LEMMA LeaveMapReduceStep ==
  ASSUME IInv, NEW r \in Ranks, LeaveMapReduce(r)
  PROVE  IInv'
<1>1. PICK size \in ChunkSizes :
        \E f \in AfterWrite(part[r], ChunkOf(r, size), size) :
          part' = [part EXCEPT ![r] = Flushed(f)]
  BY DEF LeaveMapReduce
<1>2. PICK f \in AfterWrite(part[r], ChunkOf(r, size), size) :
        part' = [part EXCEPT ![r] = Flushed(f)]
  BY <1>1
<1>3. pc[r] = "mapreduce" /\ IsMapReduce BY DEF LeaveMapReduce, IInv, PcInv
<1>4. Sound(ChunkOf(r, size))
  <2>1. ChunkOf(r, size).codebook = profile[r] BY DEF ChunkOf
  <2>2. Shared => profile[r] = FirstBlock BY <1>3 DEF IInv, ProfileInv, HasProfile
  <2> QED BY <2>1, <2>2 DEF Sound
<1>5. SoundFile(part[r]) BY DEF IInv, FileInv
<1>6. SoundFile(Flushed(f)) BY <1>4, <1>5, WriteFile, FlushFile
<1>7. args' = args /\ calls' = calls /\ profile' = profile /\ Goto(r, "blocks")
  BY DEF LeaveMapReduce, job
<1>8. FileInv' BY <1>2, <1>6, <1>7, FileStep
<1>9. Entered("mapreduce", Len(calls[r])) BY <1>3, Here
<1>10. /\ "blocks" \in PcValues /\ "blocks" \notin {"warmup", "profile", "mapreduce"}
       /\ pc[r] \in HasProfile
       /\ Entered("blocks", Len(calls[r]))
  <2>1. Len(calls[r]) = 4 + Extra /\ ExtraMR = 1 BY <1>3, <1>9, Here DEF Entered
  <2>2. Extra \in Nat BY ExtraCalls DEF IInv, PcInv
  <2> QED BY <1>3, <2>1, <2>2 DEF PcValues, HasProfile, Entered
<1> QED BY <1>7, <1>8, <1>10, MoveStep, Zenon DEF IInv

LEMMA CloseFilesStep ==
  ASSUME IInv, NEW r \in Ranks, CloseFiles(r)
  PROVE  IInv'
<1>1. args' = args /\ profile' = profile /\ pc[r] = "blocks" BY DEF CloseFiles, job
<1>2. FileInv'
  <2>1. SoundFile(part[r]) BY DEF IInv, FileInv
  <2>2. SoundFile(Flushed(part[r])) BY <2>1, FlushFile
  <2>3. part' = [part EXCEPT ![r] = Flushed(part[r])] BY DEF CloseFiles
  <2> QED BY <1>1, <2>2, <2>3, FileStep
<1>3. Entered("blocks", Len(calls[r])) BY <1>1, Here
<1>4. Extra \in {0, 2} /\ ExtraMR \in {0, 1} /\ (Shared => Extra = 2) /\ (IsMapReduce => ExtraMR = 1)
  BY ExtraCalls DEF IInv, PcInv
<1>5. /\ "closed" \in PcValues /\ "closed" \notin {"warmup", "profile", "mapreduce"}
      /\ pc[r] \in HasProfile
      /\ OpOf(Len(calls[r]) + 1) = "Barrier end"
      /\ Entered("closed", Len(calls[r]) + 1)
      /\ Shared => Len(calls[r]) # 3
  <2>1. Len(calls[r]) = 3 + Extra + ExtraMR BY <1>3 DEF Entered
  <2>2. OpOf(Len(calls[r]) + 1) = "Barrier end" BY <2>1, <1>4 DEF OpOf
  <2>3. Len(calls[r]) + 1 = 4 + Extra + ExtraMR BY <1>4, <2>1
  <2>4. Entered("closed", Len(calls[r]) + 1) BY <2>3 DEF Entered
  <2>5. Shared => Len(calls[r]) # 3 BY <1>4, <2>1
  <2> QED BY <1>1, <2>2, <2>4, <2>5 DEF PcValues, HasProfile
<1>6. Enter(r, OpOf(Len(calls[r]) + 1), 0, "closed") BY <1>5 DEF CloseFiles
<1> QED BY <1>1, <1>2, <1>5, <1>6, EnterNext, Zenon

LEMMA ReportStep ==
  ASSUME IInv, NEW r \in Ranks, Report(r)
  PROVE  IInv'
<1>1. args' = args /\ profile' = profile /\ pc[r] = "closed" BY DEF Report, job
<1>2. FileInv' BY KeepFiles DEF Report, files, job
<1>3. Entered("closed", Len(calls[r])) BY <1>1, Here
<1>4. Extra \in {0, 2} /\ ExtraMR \in {0, 1} /\ (Shared => Extra = 2)
  BY ExtraCalls DEF IInv, PcInv
<1> DEFINE to == IF r = 0 THEN "gather" ELSE "done"
<1>5. /\ to \in PcValues /\ to \notin {"warmup", "profile", "mapreduce"}
      /\ pc[r] \in HasProfile
      /\ OpOf(Len(calls[r]) + 1) = "Reduce and Gather"
      /\ Entered(to, Len(calls[r]) + 1)
      /\ Shared => Len(calls[r]) # 3
  <2>1. Len(calls[r]) = 4 + Extra + ExtraMR BY <1>3 DEF Entered
  <2>2. OpOf(Len(calls[r]) + 1) = "Reduce and Gather" BY <2>1, <1>4 DEF OpOf
  <2>3. to \in {"gather", "done"} OBVIOUS
  <2> HIDE DEF to
  <2>4. Len(calls[r]) + 1 = 5 + Extra + ExtraMR BY <1>4, <2>1
  <2>5. Entered(to, Len(calls[r]) + 1) BY <2>3, <2>4 DEF Entered
  <2>6. Shared => Len(calls[r]) # 3 BY <1>4, <2>1
  <2> QED BY <1>1, <2>2, <2>3, <2>5, <2>6 DEF PcValues, HasProfile
<1>6. Enter(r, OpOf(Len(calls[r]) + 1), totals[r], to) BY <1>5 DEF Report
<1> HIDE DEF to
<1> QED BY <1>1, <1>2, <1>5, <1>6, EnterNext, Zenon

\* Rank 0 alone goes on to write the summary and the index.
WriteResults(r) == CreateSummary(r) \/ CloseSummary(r) \/ CreateIndex(r) \/ CloseIndex(r)

LEMMA WriteResultsStep ==
  ASSUME IInv, NEW r \in Ranks, WriteResults(r)
  PROVE  IInv'
<1>1. /\ args' = args /\ calls' = calls /\ profile' = profile /\ part' = part
      /\ pc[r] \in {"gather", "summary", "index", "merged"}
  BY DEF WriteResults, CreateSummary, CloseSummary, CreateIndex, CloseIndex, job, files
<1>2. FileInv' BY <1>1, KeepFiles
<1>3. PICK to \in {"summary", "index", "merged", "done"} : Goto(r, to)
  BY DEF WriteResults, CreateSummary, CloseSummary, CreateIndex, CloseIndex
<1>4. Entered(pc[r], Len(calls[r])) BY Here
<1>5. /\ to \in PcValues /\ to \notin {"warmup", "profile", "mapreduce"}
      /\ pc[r] \in HasProfile
      /\ Entered(to, Len(calls[r]))
  BY <1>1, <1>4 DEF PcValues, HasProfile, Entered
<1> QED BY <1>1, <1>2, <1>3, <1>5, MoveStep, Zenon DEF IInv

\* Whatever ends a rank, its files keep a part of what they had.
LEMMA FailStep ==
  ASSUME IInv, NEW r \in Ranks, NEW to \in Dead, Goto(r, to),
         args' = args, calls' = calls, profile' = profile,
         part' = part \/ LoseBuffers(r)
  PROVE  IInv'
<1>1. FileInv' BY KeepFiles, LoseFiles
<1> QED BY <1>1, StopStep DEF IInv

LEMMA InitIInv == Init => IInv
<1> SUFFICES ASSUME Init PROVE IInv OBVIOUS
<1>1. /\ args \in ArgChoices
      /\ pc = [r \in Ranks |-> "start"]
      /\ calls = [r \in Ranks |-> <<>>]
      /\ profile = [r \in Ranks |-> NoProfile]
      /\ part = [r \in Ranks |-> NewFile]
  BY DEF Init
<1>2. 0 \in Ranks BY DriverAssumption DEF Ranks
<1>3. PcInv BY <1>1 DEF PcInv, PcValues
<1>4. LogTyped
  <2>1. calls \in [Ranks -> Seq({})] BY <1>1
  <2> QED BY <2>1 DEF LogTyped
<1>5. LogInv BY <1>1 DEF LogInv, Entered
<1>6. ProfileInv BY <1>1, <1>2 DEF ProfileInv, HasProfile
<1>7. SoundFile(NewFile)
  <2>1. NewFile = [data |-> <<>>, saved |-> 0, pos |-> 0, ok |-> TRUE] BY DEF NewFile
  <2>2. NewFile.data \in Seq({}) /\ Len(NewFile.data) = 0 BY <2>1
  <2> QED BY <2>1, <2>2 DEF SoundFile
<1>8. FileInv BY <1>1, <1>7 DEF FileInv
<1> QED BY <1>3, <1>4, <1>5, <1>6, <1>8 DEF IInv

LEMMA NextIInv == IInv /\ [Next]_vars => IInv'
<1> SUFFICES ASSUME IInv, [Next]_vars PROVE IInv' OBVIOUS
<1>1. CASE UNCHANGED vars
  <2>1. args' = args /\ pc' = pc /\ calls' = calls /\ profile' = profile /\ part' = part
    BY <1>1 DEF vars
  <2>2. /\ Shared' = Shared /\ IsMapReduce' = IsMapReduce /\ Extra' = Extra /\ ExtraMR' = ExtraMR
    BY <2>1 DEF Shared, IsMapReduce, Extra, ExtraMR
  <2>3. /\ \A k : OpOf(k)' = OpOf(k)
        /\ \A p, n : Entered(p, n)' = Entered(p, n)
    BY <2>1, SameProtocol
  <2>4. PcInv' /\ LogTyped' /\ LogInv' /\ ProfileInv'
    BY <2>1, <2>2, <2>3 DEF IInv, PcInv, LogTyped, LogInv, ProfileInv, FirstBlock
  <2> QED BY <2>1, <2>4, KeepFiles DEF IInv
<1>2. ASSUME NEW r \in Ranks, Step(r) \/ ProcessDies(r) PROVE IInv'
  <2>1. CASE Start(r) BY <2>1, StartStep
  <2>2. CASE StartFails(r) BY <2>2, FailStep DEF StartFails, Dead, job, files
  <2>3. CASE OpenInput(r) BY <2>3, OpenInputStep
  <2>4. CASE SizeFails(r) BY <2>4, FailStep DEF SizeFails, Dead, job, files
  <2>5. CASE OpenOutputs(r) BY <2>5, OpenOutputsStep
  <2>6. CASE OpenFails(r) BY <2>6, FailStep DEF OpenFails, Dead, job, files
  <2>7. CASE FitProfile(r) BY <2>7, FitProfileStep
  <2>8. CASE FitFails(r) BY <2>8, FailStep DEF FitFails, Dead, job, files
  <2>9. CASE TakeProfile(r) BY <2>9, TakeProfileStep
  <2>10. CASE ProfileInvalid(r) BY <2>10, FailStep DEF ProfileInvalid, Dead, job, files
  <2>11. CASE Begin(r) BY <2>11, BeginStep
  <2>12. CASE CompressBlock(r) BY <2>12, CompressBlockStep
  <2>13. CASE BlockFails(r) BY <2>13, FailStep DEF BlockFails, Dead, job
  <2>14. CASE LeaveMapReduce(r) BY <2>14, LeaveMapReduceStep
  <2>15. CASE MapReduceFails(r) BY <2>15, FailStep DEF MapReduceFails, Dead, job
  <2>16. CASE CloseFiles(r) BY <2>16, CloseFilesStep
  <2>17. CASE Report(r) BY <2>17, ReportStep
  <2>18. CASE WriteResults(r) BY <2>18, WriteResultsStep
  <2>19. CASE Killed(r) BY <2>19, FailStep DEF Killed, Dead, job
  <2>20. CASE ProcessDies(r) BY <2>20, FailStep DEF ProcessDies, Dead, job
  <2> QED BY <1>2, <2>1, <2>2, <2>3, <2>4, <2>5, <2>6, <2>7, <2>8, <2>9, <2>10, <2>11, <2>12,
             <2>13, <2>14, <2>15, <2>16, <2>17, <2>18, <2>19, <2>20 DEF Step, WriteResults
<1> QED BY <1>1, <1>2 DEF Next

\* The inductive invariant of main().
THEOREM DriverInvariant == Spec => []IInv
<1> QED BY InitIInv, NextIInv, PTL DEF Spec

-----------------------------------------------------------------------------
(* Consequences *)

\* For any number of ranks and any options, the k-th collective of one rank is the
\* k-th collective of every other, ranks without blocks included.
THEOREM DriverCollectives == Spec => []CollectivesMatch
<1>1. ASSUME IInv PROVE CollectivesMatch
  <2>1. PICK S : calls \in [Ranks -> Seq(S)] BY <1>1 DEF IInv, LogTyped
  <2>2. DOMAIN calls = Ranks /\ \A r \in Ranks : DOMAIN calls[r] = 1..Len(calls[r])
    BY <2>1
  <2>3. \A r \in Ranks : \A k \in DOMAIN calls[r] : calls[r][k].op = OpOf(k)
    BY <1>1, <2>2 DEF IInv, LogInv
  <2> QED BY <2>2, <2>3 DEF CollectivesMatch, CallsMatch
<1> QED BY <1>1, DriverInvariant, PTL

\* What is saved of a sound file is sound.
LEMMA SavedSound ==
  ASSUME IInv, NEW r \in Ranks, NEW c \in Saved(part[r])
  PROVE  Sound(c)
<1>1. SoundFile(part[r]) BY DEF IInv, FileInv
<1>2. PICK S : part[r].data \in Seq(S) BY <1>1 DEF SoundFile
<1>3. PICK i \in 1..part[r].saved : c = part[r].data[i] BY DEF Saved
<1>4. i \in 1..Len(part[r].data) BY <1>1, <1>2, <1>3 DEF SoundFile
<1> QED BY <1>1, <1>3, <1>4 DEF SoundFile

\* No chunk is ever on disk that was encoded with another codebook than the shared
\* one, however many ranks there are and whichever of them die.
THEOREM SharedCodebook == Spec => []OneCodebook
<1>1. IInv => OneCodebook BY SavedSound DEF OneCodebook, Sound, Shared
<1> QED BY <1>1, DriverInvariant, PTL

-----------------------------------------------------------------------------
(* The archive, and what summary.json says of it *)

(***************************************************************************)
(* What a reader of this job's summary.json can rely on.  The protocol     *)
(* says who has entered which collective; here it is said what a rank has  *)
(* put into its two files and its totals by then, so that rank 0 adds up   *)
(* final numbers when it writes the summary.  A part file is claimed to be *)
(* right only as long as no write to it has failed: that nobody looks is a *)
(* finding of the run driver_disk; and only the summary this job writes is *)
(* claimed to describe the files: an earlier job's, which stays until rank *)
(* 0 truncates it, is the finding of the run driver_rerun.                 *)
(***************************************************************************)

\* The positions of the last two collectives of a rank.
EndCall == 4 + Extra + ExtraMR
ReportCall == 5 + Extra + ExtraMR

\* The blocks a rank has compressed, and the bytes of the input it has read.
DoneTo(r, n) == {b \in Owned(r) : b < n}
Done(r) == IF next[r] = r THEN {} ELSE DoneTo(r, next[r])
BytesOf(B) == {i \in 0..(AlignedSize - 1) : i \div args.block_size \in B}

\* What is in a part file.
Chunks(f) == {f.data[i] : i \in 1..Len(f.data)}
ChunkBytes(S) == SumFunction([c \in S |-> c.size])

\* No write of any rank to its part file has failed.
NoWriteFailed == \A r \in Ranks : part[r].ok

\* What a rank knows when it has entered its first and second collective.
ArgsInv ==
  /\ input_size \in InputSizes
  /\ \A r \in Ranks : Len(calls[r]) >= 1 => ArgsAccepted /\ (r = 0 => input_size # NoFile)
  /\ \A r \in Ranks : Len(calls[r]) >= 2 => HasBlocks /\ Len(calls[0]) >= 1

\* A rank goes from one of its own blocks to the next; run_mapreduce reads them all.
NextInv ==
  /\ DOMAIN next = Ranks
  /\ \A r \in Ranks :
       /\ next[r] \in Nat
       /\ IF IsMapReduce THEN next[r] \in {r, NumBlocks + r} ELSE next[r] % NRanks = r
       /\ pc[r] \in PcValues \ ({"blocks", "closed", "gather", "summary", "index", "merged", "done"} \cup Dead) =>
            next[r] = r
       /\ IsMapReduce /\ pc[r] = "blocks" => next[r] = NumBlocks + r
       /\ next[r] # r => Len(calls[r]) >= 2

IsFile(f) == /\ f = [data |-> f.data, saved |-> f.saved, pos |-> f.pos, ok |-> f.ok]
             /\ \E S : f.data \in Seq(S)
             /\ f.saved \in 0..Len(f.data)

\* The manifest has one line for each block done, and it says where the block is in
\* the input; a mapreduce run has one line.
LinesOf(f, r) ==
  IF IsMapReduce
  THEN Len(f.data) = IF next[r] = r THEN 0 ELSE 1
  ELSE /\ \A i \in 1..Len(f.data) : /\ f.data[i].block \in Done(r)
                                    /\ f.data[i].from = InputOffset(f.data[i].block)
                                    /\ f.data[i].bytes = InputSize(f.data[i].block)
       /\ \A i, j \in 1..Len(f.data) : f.data[i].block = f.data[j].block => i = j
       /\ \A b \in Done(r) : \E i \in 1..Len(f.data) : f.data[i].block = b

MetaInv == /\ DOMAIN meta = Ranks
           /\ \A r \in Ranks : IsFile(meta[r]) /\ LinesOf(meta[r], r)

\* Line by line, the manifest says where the chunks of the part file are.
Describes(m, f) ==
  /\ Len(f.data) = Len(m.data)
  /\ \A i \in 1..Len(f.data) : /\ f.data[i].at = m.data[i].part_offset
                               /\ f.data[i].size = m.data[i].size
                               /\ f.data[i].block = m.data[i].block
                               /\ f.data[i].size \in Nat

PartInv == \A r \in Ranks : part[r].ok => Describes(meta[r], part[r])

\* The totals count the blocks done, and what they have become.
TotalsOf(r) ==
  /\ totals[r] \in [input : Nat, compressed : Nat, blocks : Nat]
  /\ totals[r].input = Cardinality(BytesOf(Done(r)))
  /\ totals[r].blocks = Cardinality(Done(r))
  /\ part[r].ok => totals[r].compressed = ChunkBytes(Chunks(part[r]))
  /\ next[r] = r => totals[r].compressed = 0

TotalsInv == DOMAIN totals = Ranks /\ \A r \in Ranks : TotalsOf(r)

\* Past the block loop a rank has done all its blocks, and its files are on disk.
ClosedInv ==
  \A r \in Ranks : Len(calls[r]) >= EndCall =>
    /\ next[r] >= NumBlocks
    /\ IsMapReduce => next[r] = NumBlocks + r
    /\ part[r].saved = Len(part[r].data) /\ meta[r].saved = Len(meta[r].data)

\* What a rank reports, it does not change.
ReportInv ==
  \A r \in Ranks : Len(calls[r]) >= ReportCall => calls[r][ReportCall].val = totals[r]

\* All have reported when rank 0 creates summary.json; what it is closed with are
\* the totals.
SummaryInv ==
  /\ summary.kind \in {"torn", "whole"} => AllEntered(calls, ReportCall)
  /\ Published => summary = TotalsSummary(totals)

WorkInv == /\ ArgsInv /\ NextInv /\ MetaInv /\ PartInv /\ TotalsInv
           /\ ClosedInv /\ ReportInv /\ SummaryInv

\* What is in the directory besides the ranks' files, and where rank 0 is with it.
DirInv ==
  /\ summary.kind \in {"none", "earlier", "torn", "whole"}
  /\ index \in {"none", "earlier", "torn", "whole"} /\ stale \subseteq Ranks
  /\ pc[0] = "gather" => ~Published
  /\ pc[0] = "summary" => summary.kind = "torn"

-----------------------------------------------------------------------------
(* Blocks and bytes *)

\* The input is there, and has at least one block.
Sized == /\ args \in ArgChoices /\ input_size \in InputSizes /\ input_size # NoFile
         /\ HasBlocks

LEMMA SizesLemma ==
  ASSUME Sized
  PROVE  /\ args.block_size \in Nat \ {0} /\ AlignedSize \in Nat /\ NumBlocks \in Nat \ {0}
         /\ \A b \in Int : InputOffset(b) \in Int /\ InputSize(b) \in Int
         /\ \A b \in 0..(NumBlocks - 1) :
              /\ 0 <= InputOffset(b) /\ InputOffset(b) < AlignedSize
              /\ 0 < InputSize(b) /\ InputSize(b) <= args.block_size
              /\ InputOffset(b) + InputSize(b) <= AlignedSize
              /\ \/ InputSize(b) = args.block_size
                 \/ InputOffset(b) + InputSize(b) = AlignedSize
         /\ \A i \in 0..(AlignedSize - 1) : i \div args.block_size \in 0..(NumBlocks - 1)
<1> DEFINE bs == args.block_size
           A == AlignedSize
           N == NumBlocks
<1>1. bs \in Nat \ {0} BY DriverAssumption DEF Sized, HasBlocks
<1>2. A \in Nat
  <2>1. input_size \in Nat /\ PointBytes \in Nat \ {0} BY DriverAssumption DEF Sized
  <2>2. \A m \in Nat, n \in Nat \ {0} : m - (m % n) \in Nat OBVIOUS
  <2> QED BY <2>1, <2>2 DEF AlignedSize
<1>3. N # 0 /\ N = (A + bs - 1) \div bs BY DEF Sized, HasBlocks, NumBlocks
<1>4. \A b : InputOffset(b) = b * bs BY DEF InputOffset
<1>5. \A b : InputSize(b) = Min({bs, A - InputOffset(b)}) BY DEF InputSize
<1> HIDE DEF bs, A, N
<1>6. A + bs - 1 \in Nat BY <1>1, <1>2
<1>7. N \in Int /\ bs * N <= A + bs - 1 /\ A + bs - 1 < bs * N + bs
  <2> DEFINE x == A + bs - 1
  <2>1. x \in Int BY <1>6
  <2>2. N = x \div bs BY <1>3
  <2> HIDE DEF x
  <2>3. N \in Int /\ bs * N <= x /\ x < bs * N + bs BY <1>1, <2>1, <2>2, DivBounds
  <2> QED BY <2>3 DEF x
<1>8. N \in Nat \ {0}
  <2>1. N \in Nat BY <1>1, <1>3, <1>6, DivMonotone
  <2> QED BY <1>3, <2>1
<1>9. \A b \in Int : b * bs \in Int BY <1>1, Products
<1>10. \A x, y \in Int : Min({x, y}) = IF x <= y THEN x ELSE y
  <2> SUFFICES ASSUME NEW x \in Int, NEW y \in Int PROVE Min({x, y}) = IF x <= y THEN x ELSE y
    OBVIOUS
  <2> DEFINE m == IF x <= y THEN x ELSE y
  <2>1. m \in {x, y} /\ \A z \in {x, y} : m <= z OBVIOUS
  <2>2. {x, y} = {x} \cup {y} OBVIOUS
  <2>3. IsFiniteSet({x}) /\ IsFiniteSet({y}) BY FS_Singleton
  <2>4. IsFiniteSet({x} \cup {y}) BY <2>3, FS_Union
  <2> HIDE DEF m
  <2>5. Min({x, y}) = m BY <2>1, <2>2, <2>4, LeastLemma
  <2> QED BY <2>5 DEF m
<1>11. \A b \in Int : /\ InputOffset(b) \in Int
                      /\ InputSize(b) = IF bs <= A - InputOffset(b) THEN bs ELSE A - InputOffset(b)
                      /\ InputSize(b) \in Int
  <2> SUFFICES ASSUME NEW b \in Int
               PROVE  /\ InputOffset(b) \in Int
                      /\ InputSize(b) = IF bs <= A - InputOffset(b) THEN bs ELSE A - InputOffset(b)
                      /\ InputSize(b) \in Int
    OBVIOUS
  <2> DEFINE x == A - InputOffset(b)
  <2>1. InputOffset(b) \in Int BY <1>4, <1>9
  <2>2. bs \in Int /\ x \in Int BY <1>1, <1>2, <2>1
  <2>3. InputSize(b) = Min({bs, x}) BY <1>5
  <2> HIDE DEF x
  <2>4. InputSize(b) = IF bs <= x THEN bs ELSE x BY <1>10, <2>2, <2>3
  <2>5. InputSize(b) \in Int BY <2>2, <2>4
  <2> QED BY <2>1, <2>4, <2>5 DEF x
<1>12. ASSUME NEW b \in 0..(N - 1) PROVE 0 <= b * bs /\ b * bs < A
  <2>1. 0 <= b * bs BY <1>1, Products
  <2>2. bs * (N - 1 - b) >= 0 BY <1>1, <1>8, Products
  <2>3. bs * (N - 1 - b) = bs * N - bs - b * bs BY <1>1, <1>8
  <2>4. b * bs \in Int /\ bs * N \in Int BY <1>1, <1>8, Products
  <2> QED BY <1>1, <1>2, <1>7, <2>1, <2>2, <2>3, <2>4
<1>13. ASSUME NEW b \in 0..(N - 1)
       PROVE  /\ 0 <= InputOffset(b) /\ InputOffset(b) < A
              /\ 0 < InputSize(b) /\ InputSize(b) <= bs
              /\ InputOffset(b) + InputSize(b) <= A
              /\ InputSize(b) = bs \/ InputOffset(b) + InputSize(b) = A
  <2>1. b \in Int BY <1>8
  <2>2. 0 <= InputOffset(b) /\ InputOffset(b) < A /\ InputOffset(b) \in Int
    BY <1>4, <1>11, <1>12, <2>1
  <2>3. InputSize(b) = IF bs <= A - InputOffset(b) THEN bs ELSE A - InputOffset(b)
    BY <1>11, <2>1
  <2> QED BY <1>1, <1>2, <2>2, <2>3
<1>14. ASSUME NEW i \in 0..(A - 1) PROVE i \div bs \in 0..(N - 1)
  <2> DEFINE q == i \div bs
  <2>1. i \in Nat /\ i < A BY <1>2
  <2>2. q \in Int /\ bs * q <= i /\ i < bs * q + bs BY <1>1, <2>1, DivBounds
  <2>3. q \in Nat BY <1>1, <2>1, DivMonotone
  <2> HIDE DEF q
  <2>4. q < N
    <3> SUFFICES ASSUME N <= q PROVE FALSE BY <1>8, <2>3
    <3>1. bs * (q - N) >= 0 BY <1>1, <1>8, <2>3, Products
    <3>2. bs * (q - N) = bs * q - bs * N BY <1>1, <1>8, <2>3
    <3>3. bs * q \in Int /\ bs * N \in Int BY <1>1, <1>8, <2>3, Products
    <3> QED BY <1>1, <1>2, <1>7, <2>1, <2>2, <3>1, <3>2, <3>3
  <2> QED BY <1>8, <2>3, <2>4 DEF q
<1> QED BY <1>1, <1>2, <1>8, <1>11, <1>13, <1>14 DEF bs, A, N

\* A byte is in one block: the one whose range it is in.
LEMMA BlockOfByte ==
  ASSUME Sized, NEW i \in Int, NEW b \in Int,
         InputOffset(b) <= i, i < InputOffset(b) + args.block_size
  PROVE  i \div args.block_size = b
<1> DEFINE bs == args.block_size
           q == i \div bs
<1>1. bs \in Nat \ {0} BY SizesLemma
<1>2. b * bs <= i /\ i < b * bs + bs BY DEF InputOffset
<1> HIDE DEF bs
<1>3. q \in Int /\ bs * q <= i /\ i < bs * q + bs BY <1>1, DivBounds
<1> HIDE DEF q
<1>4. bs * q \in Int /\ b * bs \in Int BY <1>1, <1>3, Products
<1>5. q <= b
  <2> SUFFICES ASSUME b + 1 <= q PROVE FALSE BY <1>3
  <2>1. bs * (q - b - 1) >= 0 BY <1>1, <1>3, Products
  <2>2. bs * (q - b - 1) = bs * q - b * bs - bs BY <1>1, <1>3
  <2> QED BY <1>1, <1>2, <1>3, <1>4, <2>1, <2>2
<1>6. b <= q
  <2> SUFFICES ASSUME q + 1 <= b PROVE FALSE BY <1>3
  <2>1. bs * (b - q - 1) >= 0 BY <1>1, <1>3, Products
  <2>2. bs * (b - q - 1) = b * bs - bs * q - bs BY <1>1, <1>3
  <2> QED BY <1>1, <1>2, <1>3, <1>4, <2>1, <2>2
<1> QED BY <1>3, <1>5, <1>6 DEF q, bs

\* A block has as many bytes as InputSize says.
LEMMA BlockBytes ==
  ASSUME Sized, NEW b \in 0..(NumBlocks - 1)
  PROVE  IsFiniteSet(BytesOf({b})) /\ Cardinality(BytesOf({b})) = InputSize(b)
<1> DEFINE lo == InputOffset(b)
           hi == lo + InputSize(b) - 1
<1>1. /\ args.block_size \in Nat \ {0} /\ AlignedSize \in Nat /\ NumBlocks \in Nat \ {0}
      /\ b \in Int /\ lo \in Int /\ InputSize(b) \in Int
      /\ 0 <= lo /\ lo < AlignedSize
      /\ 0 < InputSize(b) /\ InputSize(b) <= args.block_size
      /\ lo + InputSize(b) <= AlignedSize
      /\ InputSize(b) = args.block_size \/ lo + InputSize(b) = AlignedSize
  BY SizesLemma
<1>2. ASSUME NEW i \in lo..hi PROVE i \in BytesOf({b})
  <2>1. i \in 0..(AlignedSize - 1) /\ lo <= i /\ i < lo + args.block_size BY <1>1
  <2>2. i \div args.block_size = b BY <1>1, <2>1, BlockOfByte
  <2> QED BY <2>1, <2>2 DEF BytesOf
<1>3. ASSUME NEW i \in BytesOf({b}) PROVE i \in lo..hi
  <2>1. i \in 0..(AlignedSize - 1) /\ i \div args.block_size = b BY DEF BytesOf
  <2>2. i \in Int /\ i < AlignedSize BY <1>1, <2>1
  <2>3. args.block_size * b <= i /\ i < args.block_size * b + args.block_size
    BY <1>1, <2>1, <2>2, DivBounds
  <2>4. args.block_size * b = lo BY <1>1 DEF InputOffset
  <2> QED BY <1>1, <2>2, <2>3, <2>4
<1>4. BytesOf({b}) = lo..hi BY <1>2, <1>3
<1>5. IsFiniteSet(lo..hi) /\ Cardinality(lo..hi) = IF lo > hi THEN 0 ELSE hi - lo + 1
  <2>1. lo \in Int /\ hi \in Int BY <1>1
  <2> HIDE DEF lo, hi
  <2> QED BY <2>1, FS_Interval
<1>6. ~(lo > hi) /\ hi - lo + 1 = InputSize(b) BY <1>1
<1> QED BY <1>4, <1>5, <1>6

LEMMA BytesFinite ==
  ASSUME Sized, NEW B
  PROVE  IsFiniteSet(BytesOf(B)) /\ Cardinality(BytesOf(B)) \in Nat
<1>1. AlignedSize - 1 \in Int BY SizesLemma
<1>2. IsFiniteSet(0..(AlignedSize - 1)) BY <1>1, FS_Interval
<1>3. BytesOf(B) \in SUBSET (0..(AlignedSize - 1)) BY DEF BytesOf
<1> QED BY <1>2, <1>3, FS_Subset, FS_CardinalityType

\* One block more has its bytes more.
LEMMA OneMoreBlock ==
  ASSUME Sized, NEW B, NEW b \in 0..(NumBlocks - 1), b \notin B
  PROVE  Cardinality(BytesOf(B \cup {b})) = Cardinality(BytesOf(B)) + InputSize(b)
<1>1. BytesOf(B \cup {b}) = BytesOf(B) \cup BytesOf({b}) BY DEF BytesOf
<1>2. BytesOf(B) \cap BytesOf({b}) = {} BY DEF BytesOf
<1>3. Cardinality(BytesOf(B) \cap BytesOf({b})) = 0 BY <1>2, FS_EmptySet
<1>4. IsFiniteSet(BytesOf(B)) /\ Cardinality(BytesOf(B)) \in Nat BY BytesFinite
<1>5. IsFiniteSet(BytesOf({b})) /\ Cardinality(BytesOf({b})) = InputSize(b) BY BlockBytes
<1>6. InputSize(b) \in Nat BY <1>5, FS_CardinalityType
<1>7. Cardinality(BytesOf(B) \cup BytesOf({b}))
        = Cardinality(BytesOf(B)) + Cardinality(BytesOf({b})) - Cardinality(BytesOf(B) \cap BytesOf({b}))
  BY <1>4, <1>5, FS_Union
<1>8. Cardinality(BytesOf(B \cup {b})) = Cardinality(BytesOf(B)) + InputSize(b) - 0
  BY <1>1, <1>3, <1>5, <1>7, Zenon
<1> QED BY <1>4, <1>6, <1>8

LEMMA OwnedFinite ==
  ASSUME Sized, NEW r
  PROVE  /\ IsFiniteSet(Owned(r)) /\ Owned(r) \in SUBSET (0..(NumBlocks - 1))
         /\ \A n : /\ IsFiniteSet(DoneTo(r, n))
                   /\ Cardinality(DoneTo(r, n)) \in Nat
<1>1. NumBlocks - 1 \in Int BY SizesLemma
<1>2. IsFiniteSet(0..(NumBlocks - 1)) BY <1>1, FS_Interval
<1>3. Owned(r) \in SUBSET (0..(NumBlocks - 1)) BY DEF Owned
<1>4. IsFiniteSet(Owned(r)) BY <1>2, <1>3, FS_Subset
<1>5. \A n : DoneTo(r, n) \in SUBSET Owned(r) BY DEF DoneTo
<1> QED BY <1>3, <1>4, <1>5, FS_Subset, FS_CardinalityType

\* What run_mapreduce counts as read are the bytes of the rank's blocks.
LEMMA OwnedBytesLemma ==
  ASSUME Sized, NEW r
  PROVE  OwnedBytes(r) = Cardinality(BytesOf(Owned(r)))
<1> DEFINE f == [b \in Owned(r) |-> InputSize(b)]
           h == [b \in Owned(r) |-> BytesOf({b})]
<1>1. DOMAIN f = Owned(r) /\ IsFiniteSet(Owned(r)) BY OwnedFinite
<1>2. \A b \in Owned(r) : IsFiniteSet(h[b]) /\ f[b] = Cardinality(h[b])
  BY OwnedFinite, BlockBytes
<1>3. \A b, c \in Owned(r) : b # c => h[b] \cap h[c] = {} BY DEF BytesOf
<1>4. UNION {h[b] : b \in Owned(r)} = BytesOf(Owned(r)) BY DEF BytesOf
<1>5. IsFiniteSet(BytesOf(Owned(r))) BY BytesFinite
<1>6. OwnedBytes(r) = SumFunction(f) BY DEF OwnedBytes
<1> HIDE DEF f, h
<1>7. SumFunction(f) = Cardinality(UNION {h[b] : b \in Owned(r)})
  BY <1>1, <1>2, <1>3, <1>4, <1>5, DisjointSum
<1> QED BY <1>4, <1>6, <1>7

\* The stride of the block loop: past n, the rank's next block is n + NRanks.
LEMMA StrideLemma ==
  ASSUME NEW r \in Ranks, NEW n \in Nat, n % NRanks = r, NumBlocks \in Nat
  PROVE  /\ n >= r
         /\ (n + NRanks) % NRanks = r
         /\ n \notin DoneTo(r, n)
         /\ n < NumBlocks => n \in Owned(r) /\ DoneTo(r, n + NRanks) = DoneTo(r, n) \cup {n}
<1>1. NRanks \in Nat \ {0} /\ r \in 0..(NRanks - 1) BY DriverAssumption DEF Ranks
<1>2. ASSUME NEW a \in Int
      PROVE  a % NRanks = a - NRanks * (a \div NRanks) /\ a % NRanks \in 0..(NRanks - 1)
             /\ a \div NRanks \in Int
  BY <1>1, ModuloLemma
<1>3. (n + NRanks) % NRanks = r
  <2>1. n \in Int OBVIOUS
  <2> QED BY <1>1, <2>1, SameRemainder
<1>4. n >= r
  <2>1. n \div NRanks \in Nat BY <1>1, DivMonotone
  <2>2. NRanks * (n \div NRanks) >= 0 /\ NRanks * (n \div NRanks) \in Int
    BY <1>1, <2>1, Products
  <2>3. r = n - NRanks * (n \div NRanks) BY <1>2
  <2> QED BY <2>2, <2>3
<1>5. n \notin DoneTo(r, n) BY DEF DoneTo
<1>6. ASSUME n < NumBlocks PROVE n \in Owned(r) BY <1>6 DEF Owned
<1>7. ASSUME n < NumBlocks PROVE DoneTo(r, n + NRanks) = DoneTo(r, n) \cup {n}
  <2>1. ASSUME NEW b \in Owned(r), b < n + NRanks PROVE b < n \/ b = n
    <3>1. b \in Int /\ b % NRanks = r BY DEF Owned
    <3>2. n \in Int /\ b % NRanks = n % NRanks BY <3>1
    <3>3. b <= n BY <1>1, <2>1, <3>1, <3>2, NextInClass
    <3> QED BY <3>1, <3>2, <3>3
  <2>2. n < n + NRanks BY <1>1
  <2>3. \A b \in Owned(r) : b < n => b < n + NRanks
    <3> SUFFICES ASSUME NEW b \in Owned(r), b < n PROVE b < n + NRanks OBVIOUS
    <3>1. b \in Int BY DEF Owned
    <3> QED BY <1>1, <3>1
  <2> QED BY <1>6, <1>7, <2>1, <2>2, <2>3 DEF DoneTo
<1> QED BY <1>3, <1>4, <1>5, <1>6, <1>7

\* Before its first block a rank has done nothing, past its last one all of them.
LEMMA DoneLemma ==
  ASSUME Sized, NEW r \in Ranks
  PROVE  /\ DoneTo(r, r) = {} /\ BytesOf({}) = {}
         /\ \A n \in Nat : n >= NumBlocks => DoneTo(r, n) = Owned(r)
         /\ Done(r) = DoneTo(r, next[r])
<1>1. NRanks \in Nat \ {0} /\ r \in 0..(NRanks - 1) BY DriverAssumption DEF Ranks
<1>2. NumBlocks \in Nat BY SizesLemma
<1>3. ASSUME NEW b \in DoneTo(r, r) PROVE FALSE
  <2>1. b \in Nat /\ b % NRanks = r /\ b < r BY <1>2 DEF DoneTo, Owned
  <2>2. b >= r BY <1>2, <2>1, StrideLemma
  <2> QED BY <1>1, <2>1, <2>2
<1>4. ASSUME NEW n \in Nat, n >= NumBlocks PROVE DoneTo(r, n) = Owned(r)
  <2>1. \A b \in Owned(r) : b < n BY <1>2, <1>4 DEF Owned
  <2> QED BY <2>1 DEF DoneTo
<1>5. DoneTo(r, r) = {} BY <1>3
<1> QED BY <1>4, <1>5 DEF BytesOf, Done

-----------------------------------------------------------------------------
(* What a step keeps *)

\* The options and the input stay, and with them the blocks and the protocol.
LEMMA SameJob ==
  ASSUME args' = args, input_size' = input_size
  PROVE  /\ AlignedSize' = AlignedSize /\ NumBlocks' = NumBlocks
         /\ HasBlocks' = HasBlocks /\ ArgsAccepted' = ArgsAccepted /\ Sized' = Sized
         /\ EndCall' = EndCall /\ ReportCall' = ReportCall
         /\ Shared' = Shared /\ IsMapReduce' = IsMapReduce
         /\ \A b : InputOffset(b)' = InputOffset(b) /\ InputSize(b)' = InputSize(b)
         /\ \A r : Owned(r)' = Owned(r)
         /\ \A r, n : DoneTo(r, n)' = DoneTo(r, n)
         /\ \A B : BytesOf(B)' = BytesOf(B)
<1>1. AlignedSize' = AlignedSize BY DEF AlignedSize
<1>2. NumBlocks' = NumBlocks BY <1>1 DEF NumBlocks
<1>3. HasBlocks' = HasBlocks BY <1>2 DEF HasBlocks
<1>4. ArgsAccepted' = ArgsAccepted BY DEF ArgsAccepted
<1>5. Sized' = Sized BY <1>3 DEF Sized
<1>6. /\ Shared' = Shared /\ IsMapReduce' = IsMapReduce /\ Extra' = Extra /\ ExtraMR' = ExtraMR
  BY SameProtocol
<1>7. EndCall' = EndCall /\ ReportCall' = ReportCall BY <1>6 DEF EndCall, ReportCall
<1>8. \A b : InputOffset(b)' = InputOffset(b) BY DEF InputOffset
<1>9. \A b : InputSize(b)' = InputSize(b) BY <1>1, <1>8, Zenon DEF InputSize
<1>10. \A r : Owned(r)' = Owned(r) BY <1>2, Zenon DEF Owned
<1>11. \A r, n : DoneTo(r, n)' = DoneTo(r, n) BY <1>10, Zenon DEF DoneTo
<1>12. \A B : BytesOf(B)' = BytesOf(B) BY <1>1, Zenon DEF BytesOf
<1> QED BY <1>1, <1>2, <1>3, <1>4, <1>5, <1>6, <1>7, <1>8, <1>9, <1>10, <1>11, <1>12

\* The two positions are those of the protocol.
LEMMA Positions ==
  ASSUME IInv
  PROVE  /\ EndCall \in Nat /\ ReportCall = EndCall + 1 /\ EndCall >= 4
         /\ ReportCall \in Nat
         /\ \A r \in Ranks : /\ Len(calls[r]) \in Nat
                             /\ pc[r] \in {"warmup", "ready", "blocks", "mapreduce"} =>
                                  Len(calls[r]) >= 2
                             /\ pc[r] \in {"start", "size", "input", "warmup", "profile",
                                           "ready", "blocks", "mapreduce"} =>
                                  Len(calls[r]) < EndCall
                             /\ pc[r] = "blocks" => Len(calls[r]) + 1 = EndCall
                             /\ pc[r] = "closed" => Len(calls[r]) = EndCall
                             /\ pc[r] \in {"gather", "summary", "index", "merged", "done"} =>
                                  Len(calls[r]) = ReportCall
<1>1. Extra \in {0, 2} /\ ExtraMR \in {0, 1} /\ (Shared => Extra = 2) /\ (IsMapReduce => ExtraMR = 1)
  BY ExtraCalls DEF IInv, PcInv
<1>2. EndCall \in Nat /\ ReportCall = EndCall + 1 /\ EndCall >= 4 /\ ReportCall \in Nat
  BY <1>1 DEF EndCall, ReportCall
<1>3. ASSUME NEW r \in Ranks
      PROVE  /\ Len(calls[r]) \in Nat
             /\ pc[r] \in {"warmup", "ready", "blocks", "mapreduce"} => Len(calls[r]) >= 2
             /\ pc[r] \in {"start", "size", "input", "warmup", "profile",
                           "ready", "blocks", "mapreduce"} => Len(calls[r]) < EndCall
             /\ pc[r] = "blocks" => Len(calls[r]) + 1 = EndCall
             /\ pc[r] = "closed" => Len(calls[r]) = EndCall
             /\ pc[r] \in {"gather", "summary", "index", "merged", "done"} => Len(calls[r]) = ReportCall
  <2>1. Len(calls[r]) \in Nat /\ Entered(pc[r], Len(calls[r])) BY Here
  <2>2. /\ pc[r] \in {"warmup", "profile"} => Shared
        /\ pc[r] = "mapreduce" => IsMapReduce
    BY DEF IInv, PcInv
  <2> DEFINE n == Len(calls[r])
  <2>3. /\ pc[r] = "start" => n = 0
        /\ pc[r] = "size" => n = 1
        /\ pc[r] = "input" => n = 2
        /\ pc[r] = "warmup" => n = 3
        /\ pc[r] = "profile" => n = 4 /\ Extra = 2
        /\ pc[r] = "ready" => n = 3 + Extra
        /\ pc[r] = "mapreduce" => n = 4 + Extra /\ ExtraMR = 1
        /\ pc[r] = "blocks" => n = 3 + Extra + ExtraMR
        /\ pc[r] = "closed" => n = 4 + Extra + ExtraMR
        /\ pc[r] \in {"gather", "summary", "index", "merged", "done"} => n = 5 + Extra + ExtraMR
    BY <1>1, <2>1, <2>2, Zenon DEF Entered
  <2> DEFINE p == pc[r]
  <2> HIDE DEF n, p
  <2>4. EndCall = 4 + Extra + ExtraMR /\ ReportCall = 5 + Extra + ExtraMR BY DEF EndCall, ReportCall
  <2>5. /\ p \in {"warmup", "ready", "blocks", "mapreduce"} => n >= 2
        /\ p \in {"start", "size", "input", "warmup", "profile",
                      "ready", "blocks", "mapreduce"} => n < EndCall
    BY <1>1, <2>3, <2>4 DEF p
  <2>6. /\ p = "blocks" => n + 1 = EndCall
        /\ p = "closed" => n = EndCall
        /\ p \in {"gather", "summary", "index", "merged", "done"} => n = ReportCall
    BY <1>1, <2>3, <2>4 DEF p
  <2> QED BY <2>1, <2>5, <2>6 DEF n, p
<1> QED BY <1>2, <1>3

\* A rank that has opened the input knows that it is there and has blocks.
LEMMA SizedLemma ==
  ASSUME IInv, ArgsInv, NEW r \in Ranks, Len(calls[r]) >= 2
  PROVE  Sized
<1>1. 0 \in Ranks BY DriverAssumption DEF Ranks
<1>2. HasBlocks /\ Len(calls[0]) >= 1 BY DEF ArgsInv
<1>3. input_size # NoFile BY <1>1, <1>2 DEF ArgsInv
<1> QED BY <1>2, <1>3 DEF Sized, ArgsInv, IInv, PcInv

\* The logs of the collectives grow.
Longer == \A s \in Ranks : /\ Len(calls'[s]) >= Len(calls[s])
                           /\ \A k \in 1..Len(calls[s]) : calls'[s][k] = calls[s][k]


\* Nothing is written to a file; what was not flushed may be lost.
KeptFile(f, g) == /\ g.data = f.data /\ g.ok = f.ok
                  /\ g.saved \in f.saved..Len(f.data)
                  /\ IsFile(f) => IsFile(g)
KeptFiles == /\ DOMAIN meta' = DOMAIN meta
             /\ \A s \in Ranks : KeptFile(meta[s], meta'[s]) /\ KeptFile(part[s], part'[s])

LEMMA KeepArgs ==
  ASSUME ArgsInv, UNCHANGED job, LogTyped, LogTyped', Longer,
         \A s \in Ranks : Len(calls'[s]) >= 1 =>
            Len(calls[s]) >= 1 \/ (ArgsAccepted /\ (s = 0 => input_size # NoFile)),
         \A s \in Ranks : Len(calls'[s]) >= 2 =>
            Len(calls[s]) >= 2 \/ (HasBlocks /\ Len(calls[0]) >= 1)
  PROVE  ArgsInv'
<1>1. args' = args /\ input_size' = input_size BY DEF job
<1>2. HasBlocks' = HasBlocks /\ ArgsAccepted' = ArgsAccepted BY <1>1, SameJob
<1>3. 0 \in Ranks BY DriverAssumption DEF Ranks
<1>4. Len(calls[0]) \in Nat /\ Len(calls'[0]) \in Nat
  <2>1. PICK S : calls \in [Ranks -> Seq(S)] BY DEF LogTyped
  <2>2. PICK T : calls' \in [Ranks -> Seq(T)] BY DEF LogTyped
  <2> QED BY <1>3, <2>1, <2>2
<1>5. Len(calls[0]) >= 1 => Len(calls'[0]) >= 1 BY <1>3, <1>4 DEF Longer
<1>6. \A s \in Ranks : Len(calls'[s]) >= 1 => ArgsAccepted /\ (s = 0 => input_size # NoFile)
  BY DEF ArgsInv
<1>7. \A s \in Ranks : Len(calls'[s]) >= 2 => HasBlocks /\ Len(calls'[0]) >= 1
  BY <1>5 DEF ArgsInv
<1> QED BY <1>1, <1>2, <1>6, <1>7 DEF ArgsInv, NoFile

\* A rank that moves on without a block done.
Early == PcValues \ ({"blocks", "closed", "gather", "summary", "index", "merged", "done"} \cup Dead)

LEMMA KeepNext ==
  ASSUME IInv, IInv', NextInv, UNCHANGED job, next' = next, Longer, NEW r \in Ranks, NEW to,
         Goto(r, to), to \in Early => pc[r] \in Early, to = "blocks" => ~IsMapReduce
  PROVE  NextInv'
<1>1. /\ NumBlocks' = NumBlocks /\ IsMapReduce' = IsMapReduce
  BY SameJob DEF job
<1>2. pc'[r] = to /\ \A s \in Ranks \ {r} : pc'[s] = pc[s] BY DEF IInv, PcInv, Goto
<1>3. \A s \in Ranks : Len(calls[s]) \in Nat BY Here
<1>4. \A s \in Ranks : Len(calls'[s]) \in Nat
  <2>1. PICK T : calls' \in [Ranks -> Seq(T)] BY DEF IInv, LogTyped
  <2> QED BY <2>1
<1>5. \A s \in Ranks : Len(calls[s]) >= 2 => Len(calls'[s]) >= 2 BY <1>3, <1>4 DEF Longer
<1>6. ASSUME NEW s \in Ranks
      PROVE  /\ pc'[s] \in Early => next[s] = s
             /\ IsMapReduce /\ pc'[s] = "blocks" => next[s] = NumBlocks + s
  BY <1>2 DEF NextInv, Early
<1> QED BY <1>1, <1>5, <1>6 DEF NextInv, Early, PcValues, Dead

\* What the files and the totals say of the blocks done stays true.
LEMMA KeepData ==
  ASSUME MetaInv, PartInv, TotalsInv, UNCHANGED job, next' = next, totals' = totals, KeptFiles
  PROVE  MetaInv' /\ PartInv' /\ TotalsInv'
<1>1. /\ IsMapReduce' = IsMapReduce
      /\ \A b : InputOffset(b)' = InputOffset(b) /\ InputSize(b)' = InputSize(b)
      /\ \A r, n : DoneTo(r, n)' = DoneTo(r, n)
      /\ \A B : BytesOf(B)' = BytesOf(B)
  BY SameJob DEF job
<1>2. \A s \in Ranks : Done(s)' = Done(s) BY <1>1, Zenon DEF Done
<1>3. \A s \in Ranks : /\ IsFile(meta'[s]) /\ meta'[s].data = meta[s].data
                       /\ part'[s].data = part[s].data /\ part'[s].ok = part[s].ok
  BY DEF KeptFiles, KeptFile, MetaInv
<1>4. DOMAIN meta' = Ranks BY DEF KeptFiles, MetaInv
<1>5. MetaInv'
  <2> SUFFICES ASSUME NEW s \in Ranks PROVE LinesOf(meta[s], s)'
    BY <1>3, <1>4 DEF MetaInv
  <2> DEFINE d == meta[s].data
  <2>1. LinesOf(meta[s], s) BY DEF MetaInv
  <2>2. meta'[s].data = d /\ next'[s] = next[s] /\ Done(s)' = Done(s) BY <1>2, <1>3
  <2>3. CASE IsMapReduce
    <3>1. Len(d) = IF next[s] = s THEN 0 ELSE 1 BY <2>1, <2>3 DEF LinesOf
    <3> QED BY <1>1, <2>2, <2>3, <3>1 DEF LinesOf
  <2>4. CASE ~IsMapReduce
    <3>1. /\ \A i \in 1..Len(d) : /\ d[i].block \in Done(s)
                                  /\ d[i].from = InputOffset(d[i].block)
                                  /\ d[i].bytes = InputSize(d[i].block)
          /\ \A i, j \in 1..Len(d) : d[i].block = d[j].block => i = j
          /\ \A b \in Done(s) : \E i \in 1..Len(d) : d[i].block = b
      BY <2>1, <2>4 DEF LinesOf
    <3>2. \A i \in 1..Len(d) : /\ InputOffset(d[i].block)' = InputOffset(d[i].block)
                               /\ InputSize(d[i].block)' = InputSize(d[i].block)
      BY <1>1, <2>2
    <3> HIDE DEF d
    <3> QED BY <1>1, <2>2, <2>4, <3>1, <3>2 DEF LinesOf
  <2> QED BY <2>3, <2>4
<1>6. PartInv'
  <2> SUFFICES ASSUME NEW s \in Ranks, part'[s].ok PROVE Describes(meta'[s], part'[s])
    BY DEF PartInv
  <2>1. Describes(meta[s], part[s]) BY <1>3 DEF PartInv
  <2> QED BY <1>3, <2>1 DEF Describes
<1>7. \A s \in Ranks : BytesOf(Done(s))' = BytesOf(Done(s))
  <2> SUFFICES ASSUME NEW s \in Ranks PROVE BytesOf(Done(s))' = BytesOf(Done(s)) OBVIOUS
  <2>1. AlignedSize' = AlignedSize /\ args' = args BY SameJob DEF job
  <2>2. Done(s)' = Done(s) BY <1>2
  <2> QED BY <2>1, <2>2 DEF BytesOf
<1>8. \A s \in Ranks : Chunks(part'[s]) = Chunks(part[s]) BY <1>3 DEF Chunks
<1>9. TotalsInv' BY <1>2, <1>3, <1>7, <1>8 DEF TotalsInv, TotalsOf
<1> QED BY <1>5, <1>6, <1>9

LEMMA KeepClosed ==
  ASSUME IInv, MetaInv, ClosedInv, UNCHANGED job, next' = next, KeptFiles,
         \A s \in Ranks : Len(calls'[s]) >= EndCall => Len(calls[s]) >= EndCall
  PROVE  ClosedInv'
<1>1. NumBlocks' = NumBlocks /\ IsMapReduce' = IsMapReduce /\ EndCall' = EndCall
  BY SameJob DEF job
<1>2. ASSUME NEW s \in Ranks, Len(calls'[s]) >= EndCall
      PROVE  /\ next[s] >= NumBlocks /\ (IsMapReduce => next[s] = NumBlocks + s)
             /\ part'[s].saved = Len(part'[s].data) /\ meta'[s].saved = Len(meta'[s].data)
  <2>1. Len(calls[s]) >= EndCall BY <1>2
  <2>2. /\ next[s] >= NumBlocks /\ (IsMapReduce => next[s] = NumBlocks + s)
        /\ part[s].saved = Len(part[s].data) /\ meta[s].saved = Len(meta[s].data)
    BY <2>1 DEF ClosedInv
  <2>3. part[s].saved \in 0..Len(part[s].data) /\ meta[s].saved \in 0..Len(meta[s].data)
    BY DEF IInv, FileInv, SoundFile, MetaInv, IsFile
  <2>4. part[s].saved \in Int /\ meta[s].saved \in Int BY <2>3
  <2>5. /\ part'[s].saved = part[s].saved /\ part'[s].data = part[s].data
        /\ meta'[s].saved = meta[s].saved /\ meta'[s].data = meta[s].data
    BY <2>2, <2>4 DEF KeptFiles, KeptFile
  <2> QED BY <2>2, <2>5
<1> QED BY <1>1, <1>2 DEF ClosedInv

LEMMA KeepReport ==
  ASSUME IInv, ReportInv, UNCHANGED job, totals' = totals, Longer,
         \A s \in Ranks : Len(calls'[s]) >= ReportCall =>
            Len(calls[s]) >= ReportCall \/ calls'[s][ReportCall].val = totals[s]
  PROVE  ReportInv'
<1>1. ReportCall' = ReportCall BY SameJob DEF job
<1>2. ReportCall \in Nat /\ ReportCall >= 1 /\ \A s \in Ranks : Len(calls[s]) \in Nat
  BY Positions
<1>3. ASSUME NEW s \in Ranks, Len(calls'[s]) >= ReportCall
      PROVE  calls'[s][ReportCall].val = totals[s]
  <2>1. CASE Len(calls[s]) >= ReportCall
    <3>1. ReportCall \in 1..Len(calls[s]) BY <1>2, <2>1
    <3> QED BY <2>1, <3>1 DEF Longer, ReportInv
  <2> QED BY <1>3, <2>1
<1> QED BY <1>1, <1>3 DEF ReportInv

LEMMA KeepSummary ==
  ASSUME IInv, IInv', SummaryInv, UNCHANGED job, totals' = totals, summary' = summary, Longer
  PROVE  SummaryInv'
<1>1. ReportCall' = ReportCall BY SameJob DEF job
<1>2. DOMAIN calls = Ranks /\ \A s \in Ranks : Len(calls[s]) \in Nat
  <2>1. PICK S : calls \in [Ranks -> Seq(S)] BY DEF IInv, LogTyped
  <2> QED BY <2>1
<1>3. DOMAIN calls' = Ranks /\ \A s \in Ranks : Len(calls'[s]) \in Nat
  <2>1. PICK S : calls' \in [Ranks -> Seq(S)] BY DEF IInv, LogTyped
  <2> QED BY <2>1
<1>4. ReportCall \in Nat BY Positions
<1>5. AllEntered(calls, ReportCall) => AllEntered(calls', ReportCall)
  BY <1>2, <1>3, <1>4 DEF AllEntered, Longer
<1> QED BY <1>1, <1>5 DEF SummaryInv, Published, TotalsSummary


\* A rank moves, and may enter a collective, but does no block and reports nothing new.
LEMMA QuietStep ==
  ASSUME IInv, IInv', WorkInv, UNCHANGED <<job, next, totals, summary>>,
         NEW r \in Ranks, NEW to,
         Goto(r, to), to \in Early => pc[r] \in Early, to = "blocks" => ~IsMapReduce,
         KeptFiles, Longer,
         \A s \in Ranks : Len(calls'[s]) >= 1 =>
            Len(calls[s]) >= 1 \/ (ArgsAccepted /\ (s = 0 => input_size # NoFile)),
         \A s \in Ranks : Len(calls'[s]) >= 2 =>
            Len(calls[s]) >= 2 \/ (HasBlocks /\ Len(calls[0]) >= 1),
         \A s \in Ranks : Len(calls'[s]) >= EndCall => Len(calls[s]) >= EndCall,
         \A s \in Ranks : Len(calls'[s]) >= ReportCall =>
            Len(calls[s]) >= ReportCall \/ calls'[s][ReportCall].val = totals[s]
  PROVE  WorkInv'
<1>1. ArgsInv' BY KeepArgs DEF WorkInv, IInv
<1>2. NextInv' BY KeepNext DEF WorkInv
<1>3. MetaInv' /\ PartInv' /\ TotalsInv' BY KeepData DEF WorkInv
<1>4. ClosedInv' BY KeepClosed DEF WorkInv
<1>5. ReportInv' BY KeepReport DEF WorkInv
<1>6. SummaryInv' BY KeepSummary DEF WorkInv
<1> QED BY <1>1, <1>2, <1>3, <1>4, <1>5, <1>6 DEF WorkInv

\* The files as they are, or without what was not flushed.
LEMMA KeptLemma ==
  ASSUME IInv, MetaInv, NEW r \in Ranks, UNCHANGED <<part, meta>> \/ LoseBuffers(r)
  PROVE  KeptFiles
<1>1. \A s \in Ranks : /\ \E S : part[s].data \in Seq(S)
                       /\ part[s].saved \in 0..Len(part[s].data)
                       /\ part[s] = [data |-> part[s].data, saved |-> part[s].saved,
                                     pos |-> part[s].pos, ok |-> part[s].ok]
  BY DEF IInv, FileInv, SoundFile
<1>2. \A s \in Ranks : IsFile(meta[s]) /\ IsFile(part[s])
  BY <1>1 DEF MetaInv, IsFile
<1>3. DOMAIN part = Ranks /\ DOMAIN meta = Ranks BY DEF IInv, FileInv, MetaInv
<1>4. ASSUME NEW f, IsFile(f) PROVE KeptFile(f, f)
  <2>1. PICK S : f.data \in Seq(S) BY <1>4 DEF IsFile
  <2>2. Len(f.data) \in Nat /\ f.saved \in 0..Len(f.data) BY <2>1, <1>4 DEF IsFile
  <2> QED BY <2>2 DEF KeptFile
<1>5. ASSUME NEW f, IsFile(f), NEW i \in f.saved..Len(f.data)
      PROVE  KeptFile(f, [f EXCEPT !.saved = i])
  <2>1. PICK S : f.data \in Seq(S) BY <1>5 DEF IsFile
  <2>2. Len(f.data) \in Nat /\ f.saved \in 0..Len(f.data) BY <2>1, <1>5 DEF IsFile
  <2>3. f = [data |-> f.data, saved |-> f.saved, pos |-> f.pos, ok |-> f.ok]
    BY <1>5 DEF IsFile
  <2> DEFINE g == [f EXCEPT !.saved = i]
  <2>4. g = [data |-> f.data, saved |-> i, pos |-> f.pos, ok |-> f.ok] BY <2>3
  <2> HIDE DEF g
  <2>5. /\ g.data = f.data /\ g.ok = f.ok /\ g.saved = i /\ g.pos = f.pos
    BY <2>4
  <2>6. IsFile(g) BY <2>1, <2>2, <2>4, <2>5 DEF IsFile
  <2> QED BY <2>5, <2>6 DEF KeptFile, g
<1>6. CASE UNCHANGED <<part, meta>>
  <2>1. part' = part /\ meta' = meta BY <1>6
  <2> QED BY <1>2, <1>4, <2>1 DEF KeptFiles
<1>7. CASE LoseBuffers(r)
  <2>1. PICK i \in part[r].saved..Len(part[r].data), j \in meta[r].saved..Len(meta[r].data) :
          part' = [part EXCEPT ![r].saved = i] /\ meta' = [meta EXCEPT ![r].saved = j]
    BY <1>7 DEF LoseBuffers
  <2>2. /\ DOMAIN meta' = Ranks
        /\ part'[r] = [part[r] EXCEPT !.saved = i] /\ meta'[r] = [meta[r] EXCEPT !.saved = j]
        /\ \A s \in Ranks \ {r} : part'[s] = part[s] /\ meta'[s] = meta[s]
    BY <1>3, <2>1
  <2>3. KeptFile(part[r], part'[r]) /\ KeptFile(meta[r], meta'[r])
    BY <1>2, <1>5, <2>1, <2>2
  <2>4. \A s \in Ranks \ {r} : KeptFile(part[s], part'[s]) /\ KeptFile(meta[s], meta'[s])
    BY <1>2, <1>4, <2>2
  <2> QED BY <1>3, <2>2, <2>3, <2>4 DEF KeptFiles
<1> QED BY <1>6, <1>7

\* A rank moves, or ends, without entering a collective.
LEMMA MoveQuietly ==
  ASSUME IInv, IInv', WorkInv, UNCHANGED <<job, calls, next, totals, summary>>,
         NEW r \in Ranks, NEW to,
         Goto(r, to), to \in Early => pc[r] \in Early, to = "blocks" => ~IsMapReduce,
         UNCHANGED <<part, meta>> \/ LoseBuffers(r)
  PROVE  WorkInv'
<1>1. KeptFiles BY KeptLemma DEF WorkInv
<1>2. Longer
  <2>1. \A s \in Ranks : Len(calls[s]) \in Nat BY Here
  <2> QED BY <2>1 DEF Longer
<1>3. calls' = calls OBVIOUS
<1> QED BY <1>1, <1>2, <1>3, QuietStep

LEMMA Abort ==
  ASSUME IInv, IInv', WorkInv, UNCHANGED <<job, calls, next, totals, summary>>,
         NEW r \in Ranks, NEW to \in Dead, Goto(r, to),
         UNCHANGED <<part, meta>> \/ LoseBuffers(r)
  PROVE  WorkInv'
<1>1. to \notin Early /\ to # "blocks" BY DEF Early, Dead
<1> QED BY <1>1, MoveQuietly

\* The log of a rank that has entered a collective.
LEMMA EnterLemma ==
  ASSUME IInv, NEW r \in Ranks, NEW op, NEW val, NEW to, Enter(r, op, val, to)
  PROVE  /\ Longer /\ Goto(r, to)
         /\ Len(calls'[r]) = Len(calls[r]) + 1
         /\ calls'[r][Len(calls[r]) + 1].val = val
         /\ \A s \in Ranks \ {r} : calls'[s] = calls[s]
<1>1. PICK S : calls \in [Ranks -> Seq(S)] BY DEF IInv, LogTyped
<1>2. /\ \A s \in Ranks \ {r} : calls'[s] = calls[s]
      /\ Len(calls'[r]) = Len(calls[r]) + 1
      /\ \A k \in 1..Len(calls[r]) : calls'[r][k] = calls[r][k]
      /\ calls'[r][Len(calls[r]) + 1] = MpiCall(op, val)
  BY <1>1, PostLemma DEF Enter
<1>3. \A s \in Ranks : Len(calls[s]) \in Nat BY <1>1
<1>4. Longer BY <1>2, <1>3 DEF Longer
<1> QED BY <1>2, <1>4 DEF Enter, MpiCall

\* A rank enters a collective, with its files as they are.
LEMMA EnterQuietly ==
  ASSUME IInv, IInv', WorkInv, UNCHANGED <<job, files, summary>>,
         NEW r \in Ranks, NEW op, NEW val, NEW to, Enter(r, op, val, to),
         to \in Early => pc[r] \in Early, to # "blocks",
         Len(calls[r]) = 0 => ArgsAccepted /\ (r = 0 => input_size # NoFile),
         Len(calls[r]) = 1 => HasBlocks /\ Len(calls[0]) >= 1,
         Len(calls[r]) + 1 # EndCall,
         Len(calls[r]) + 1 = ReportCall => val = totals[r]
  PROVE  WorkInv'
<1>1. /\ Longer /\ Goto(r, to)
      /\ Len(calls'[r]) = Len(calls[r]) + 1
      /\ calls'[r][Len(calls[r]) + 1].val = val
      /\ \A s \in Ranks \ {r} : calls'[s] = calls[s]
  BY EnterLemma
<1>2. KeptFiles BY KeptLemma DEF WorkInv, files
<1>3. EndCall \in Nat /\ ReportCall \in Nat /\ \A s \in Ranks : Len(calls[s]) \in Nat
  BY Positions
<1>4. \A s \in Ranks : Len(calls'[s]) >= 1 =>
         Len(calls[s]) >= 1 \/ (ArgsAccepted /\ (s = 0 => input_size # NoFile))
  BY <1>1, <1>3
<1>5. \A s \in Ranks : Len(calls'[s]) >= 2 =>
         Len(calls[s]) >= 2 \/ (HasBlocks /\ Len(calls[0]) >= 1)
  <2> SUFFICES ASSUME NEW s \in Ranks, Len(calls'[s]) >= 2
               PROVE  Len(calls[s]) >= 2 \/ (HasBlocks /\ Len(calls[0]) >= 1)
    OBVIOUS
  <2>1. CASE s # r BY <1>1, <2>1
  <2>2. CASE s = r /\ Len(calls[r]) = 1 BY <2>2
  <2>3. CASE s = r /\ Len(calls[r]) # 1
    <3>1. Len(calls'[r]) = Len(calls[r]) + 1 /\ Len(calls'[r]) >= 2 BY <1>1, <2>3
    <3>2. Len(calls[r]) \in Nat BY <1>3
    <3>3. \A n \in Nat : \A m : m = n + 1 /\ m >= 2 /\ n # 1 => n >= 2 OBVIOUS
    <3> QED BY ONLY <2>3, <3>1, <3>2, <3>3, Zenon
  <2> QED BY <2>1, <2>2, <2>3
<1>6. \A s \in Ranks : Len(calls'[s]) >= EndCall => Len(calls[s]) >= EndCall
  <2> SUFFICES ASSUME NEW s \in Ranks, Len(calls'[s]) >= EndCall PROVE Len(calls[s]) >= EndCall
    OBVIOUS
  <2>1. CASE s # r BY <1>1, <2>1
  <2>2. CASE s = r BY <1>1, <1>3, <2>2
  <2> QED BY <2>1, <2>2
<1>7. \A s \in Ranks : Len(calls'[s]) >= ReportCall =>
         Len(calls[s]) >= ReportCall \/ calls'[s][ReportCall].val = totals[s]
  <2> SUFFICES ASSUME NEW s \in Ranks, Len(calls'[s]) >= ReportCall
               PROVE  Len(calls[s]) >= ReportCall \/ calls'[s][ReportCall].val = totals[s]
    OBVIOUS
  <2>1. CASE s # r BY <1>1, <2>1
  <2>2. CASE s = r /\ Len(calls[r]) + 1 = ReportCall BY <1>1, <2>2
  <2>3. CASE s = r /\ Len(calls[r]) + 1 # ReportCall BY <1>1, <1>3, <2>3
  <2> QED BY <2>1, <2>2, <2>3
<1> QED BY <1>1, <1>2, <1>4, <1>5, <1>6, <1>7, QuietStep DEF files


-----------------------------------------------------------------------------
(* What a step writes *)

\* A file with one entry more.
LEMMA AppendFile ==
  ASSUME NEW f, IsFile(f), NEW x, NEW p,
         NEW g, g = [data |-> Append(f.data, x), saved |-> f.saved, pos |-> p, ok |-> f.ok]
  PROVE  /\ IsFile(g)
         /\ Len(f.data) \in Nat /\ Len(g.data) = Len(f.data) + 1
         /\ \A i \in 1..Len(f.data) : g.data[i] = f.data[i]
         /\ g.data[Len(f.data) + 1] = x
         /\ g.ok = f.ok /\ g.saved = f.saved
         /\ Chunks(g) = Chunks(f) \cup {x}
<1>1. PICK S : f.data \in Seq(S) BY DEF IsFile
<1>2. Len(f.data) \in Nat /\ f.data \in [1..Len(f.data) -> S \cup {x}] BY <1>1
<1>3. f.data \in Seq(S \cup {x}) BY <1>2
<1>4. /\ g.data = Append(f.data, x) /\ g.data \in Seq(S \cup {x})
      /\ Len(g.data) = Len(f.data) + 1
      /\ \A i \in 1..Len(f.data) : g.data[i] = f.data[i]
      /\ g.data[Len(f.data) + 1] = x
  BY <1>3
<1>5. g.saved = f.saved /\ g.ok = f.ok /\ g.pos = p OBVIOUS
<1>6. g.saved \in 0..Len(g.data) BY <1>2, <1>4, <1>5 DEF IsFile
<1>7. g = [data |-> g.data, saved |-> g.saved, pos |-> g.pos, ok |-> g.ok]
  BY <1>4, <1>5
<1>8. IsFile(g) BY <1>4, <1>6, <1>7 DEF IsFile
<1>9. 1..Len(g.data) = 1..Len(f.data) \cup {Len(f.data) + 1} BY <1>2, <1>4
<1>10. Chunks(g) = Chunks(f) \cup {x}
  <2>1. ASSUME NEW y \in Chunks(g) PROVE y \in Chunks(f) \cup {x}
    <3>1. PICK i \in 1..Len(g.data) : y = g.data[i] BY DEF Chunks
    <3>2. CASE i \in 1..Len(f.data) BY <1>4, <3>1, <3>2 DEF Chunks
    <3>3. CASE i = Len(f.data) + 1 BY <1>4, <3>1, <3>3
    <3> QED BY <1>9, <3>2, <3>3
  <2>2. ASSUME NEW y \in Chunks(f) PROVE y \in Chunks(g)
    <3>1. PICK i \in 1..Len(f.data) : y = f.data[i] BY DEF Chunks
    <3>2. i \in 1..Len(g.data) /\ y = g.data[i] BY <1>4, <1>9, <3>1
    <3> QED BY <3>2 DEF Chunks
  <2>3. x \in Chunks(g)
    <3>1. Len(f.data) + 1 \in 1..Len(g.data) BY <1>9
    <3> QED BY <1>4, <3>1 DEF Chunks
  <2> QED BY <2>1, <2>2, <2>3
<1> QED BY <1>2, <1>4, <1>5, <1>8, <1>10

LEMMA WrittenFile ==
  ASSUME NEW f, IsFile(f), NEW x, NEW n, NEW g, g = [f EXCEPT !.data = Append(@, x), !.pos = @ + n]
  PROVE  g = [data |-> Append(f.data, x), saved |-> f.saved, pos |-> f.pos + n, ok |-> f.ok]
<1>1. f = [data |-> f.data, saved |-> f.saved, pos |-> f.pos, ok |-> f.ok] BY DEF IsFile
<1> QED BY <1>1

\* The chunk that is written: when the stream is good afterwards, it was before.
LEMMA ChunkFile ==
  ASSUME NEW f, IsFile(f), NEW x, NEW size, NEW g \in AfterWrite(f, x, size)
  PROVE  /\ IsFile(g)
         /\ g.ok => f.ok /\ g = [data |-> Append(f.data, x), saved |-> f.saved,
                                 pos |-> f.pos + size, ok |-> f.ok]
<1>1. CASE g = f /\ ~f.ok BY <1>1
<1>2. CASE f.ok /\ g = [f EXCEPT !.data = Append(@, x), !.pos = @ + size]
  <2>1. g = [data |-> Append(f.data, x), saved |-> f.saved, pos |-> f.pos + size, ok |-> f.ok]
    BY <1>2, WrittenFile
  <2>2. IsFile(g) BY <2>1, AppendFile
  <2> QED BY <1>2, <2>1, <2>2
<1>3. CASE g = [f EXCEPT !.ok = FALSE]
  <2>1. f = [data |-> f.data, saved |-> f.saved, pos |-> f.pos, ok |-> f.ok] BY DEF IsFile
  <2>2. g = [data |-> f.data, saved |-> f.saved, pos |-> f.pos, ok |-> FALSE] BY <1>3, <2>1
  <2>3. g.ok = FALSE /\ g.data = f.data /\ g.saved = f.saved /\ g.pos = f.pos BY <2>2
  <2> QED BY <2>2, <2>3 DEF IsFile
<1> QED BY <1>1, <1>2, <1>3 DEF AfterWrite

\* Flushing changes only how much is on disk: everything.
LEMMA FlushedFile ==
  ASSUME NEW f, IsFile(f)
  PROVE  /\ IsFile(Flushed(f))
         /\ Flushed(f).data = f.data /\ Flushed(f).ok = f.ok
         /\ Flushed(f).saved = Len(f.data)
<1>1. PICK S : f.data \in Seq(S) BY DEF IsFile
<1>2. Len(f.data) \in Nat BY <1>1
<1>3. f = [data |-> f.data, saved |-> f.saved, pos |-> f.pos, ok |-> f.ok] BY DEF IsFile
<1> DEFINE g == Flushed(f)
<1>4. g = [data |-> f.data, saved |-> Len(f.data), pos |-> f.pos, ok |-> f.ok]
  BY <1>3 DEF Flushed
<1> HIDE DEF g
<1>5. g.data = f.data /\ g.ok = f.ok /\ g.saved = Len(f.data) /\ g.pos = f.pos BY <1>4
<1> QED BY <1>1, <1>2, <1>4, <1>5 DEF IsFile, g

LEMMA ChunksFinite ==
  ASSUME NEW f, IsFile(f)
  PROVE  IsFiniteSet(Chunks(f))
<1>1. PICK S : f.data \in Seq(S) BY DEF IsFile
<1>2. Len(f.data) \in Nat /\ DOMAIN f.data = 1..Len(f.data)
      /\ f.data = [i \in 1..Len(f.data) |-> f.data[i]]
  BY <1>1
<1>3. IsFiniteSet(1..Len(f.data)) BY <1>2, FS_Interval
<1> QED BY <1>2, <1>3, ImageLemma DEF Chunks

\* One chunk more has its bytes more.
LEMMA OneMoreChunk ==
  ASSUME NEW S, IsFiniteSet(S), \A c \in S : c.size \in Nat, NEW x, x \notin S, x.size \in Nat
  PROVE  ChunkBytes(S \cup {x}) = ChunkBytes(S) + x.size /\ ChunkBytes(S) \in Nat
<1> DEFINE f == [c \in S \cup {x} |-> c.size]
           g == [c \in S |-> c.size]
<1>1. IsFiniteSet(S \cup {x}) BY FS_AddElement
<1>2. /\ DOMAIN f = S \cup {x} /\ DOMAIN g = DOMAIN f \ {x}
      /\ \A y \in DOMAIN f : f[y] \in Nat
      /\ \A y \in DOMAIN g : g[y] = f[y] /\ g[y] \in Nat
      /\ f[x] = x.size /\ x \in DOMAIN f /\ DOMAIN g = S
  OBVIOUS
<1>3. ChunkBytes(S \cup {x}) = SumFunction(f) /\ ChunkBytes(S) = SumFunction(g)
  BY DEF ChunkBytes
<1> HIDE DEF f, g
<1>4. SumFunction(f) = f[x] + SumFunction(g) BY <1>1, <1>2, SumAdd
<1>5. SumFunction(g) \in Nat BY <1>2, SumType
<1> QED BY <1>2, <1>3, <1>4, <1>5

LEMMA NoChunks == ChunkBytes({}) = 0
<1> DEFINE g == [c \in {} |-> c.size]
<1>1. DOMAIN g = {} OBVIOUS
<1>2. ChunkBytes({}) = SumFunction(g) BY DEF ChunkBytes
<1> HIDE DEF g
<1> QED BY <1>1, <1>2, SumEmpty


\* What is known of one rank's files and totals.
RankData(r) ==
  /\ IsFile(meta[r]) /\ LinesOf(meta[r], r)
  /\ part[r].ok => Describes(meta[r], part[r])
  /\ TotalsOf(r)

LEMMA DataOfRanks ==
  ASSUME DOMAIN meta = Ranks, DOMAIN totals = Ranks
  PROVE  MetaInv /\ PartInv /\ TotalsInv <=> \A r \in Ranks : RankData(r)
BY DEF MetaInv, PartInv, TotalsInv, RankData

\* A rank writes to its own files, counts in its own totals and moves in its own loop.
LEMMA OwnData ==
  ASSUME MetaInv, PartInv, TotalsInv, UNCHANGED job, NEW r \in Ranks, RankData(r)',
         DOMAIN meta' = Ranks, DOMAIN totals' = Ranks,
         \A s \in Ranks \ {r} : /\ meta'[s] = meta[s] /\ part'[s] = part[s]
                                /\ totals'[s] = totals[s] /\ next'[s] = next[s]
  PROVE  MetaInv' /\ PartInv' /\ TotalsInv'
<1>1. /\ IsMapReduce' = IsMapReduce
      /\ \A b : InputOffset(b)' = InputOffset(b) /\ InputSize(b)' = InputSize(b)
      /\ \A s, n : DoneTo(s, n)' = DoneTo(s, n)
      /\ AlignedSize' = AlignedSize /\ args' = args
      /\ \A s : Owned(s)' = Owned(s)
  BY SameJob DEF job
<1>2. ASSUME NEW s \in Ranks, s # r PROVE RankData(s)'
  <2>1. /\ meta'[s] = meta[s] /\ part'[s] = part[s]
        /\ totals'[s] = totals[s] /\ next'[s] = next[s]
    BY <1>2
  <2>2. RankData(s) BY DEF MetaInv, PartInv, TotalsInv, RankData
  <2>3. Done(s)' = Done(s) BY <1>1, <2>1 DEF Done, DoneTo
  <2>4. BytesOf(Done(s))' = BytesOf(Done(s)) BY <1>1, <2>3 DEF BytesOf
  <2>5. LinesOf(meta[s], s)' BY <1>1, <2>1, <2>2, <2>3 DEF LinesOf, RankData
  <2>6. TotalsOf(s)' BY <2>1, <2>2, <2>3, <2>4 DEF TotalsOf, RankData
  <2>7. IsFile(meta'[s]) /\ (part'[s].ok => Describes(meta'[s], part'[s]))
    BY <2>1, <2>2 DEF RankData
  <2> QED BY <2>5, <2>6, <2>7 DEF RankData
<1>3. \A s \in Ranks : RankData(s)' BY <1>2
<1> QED BY <1>3 DEF MetaInv, PartInv, TotalsInv, RankData

\* The files are created anew, before the first block.
LEMMA OpenOutputsWork ==
  ASSUME IInv, IInv', WorkInv, NEW r \in Ranks, OpenOutputs(r)
  PROVE  WorkInv'
<1>1. PICK op, to : Enter(r, op, 0, to) /\ to \in {"warmup", "ready"}
  BY DEF OpenOutputs
<1>2. /\ UNCHANGED job /\ next' = next /\ totals' = totals /\ summary' = summary
      /\ pc[r] = "input"
      /\ part' = [part EXCEPT ![r] = NewFile] /\ meta' = [meta EXCEPT ![r] = NewFile]
  BY DEF OpenOutputs
<1>3. /\ Longer /\ Goto(r, to)
      /\ Len(calls'[r]) = Len(calls[r]) + 1
      /\ \A s \in Ranks \ {r} : calls'[s] = calls[s]
  BY <1>1, EnterLemma
<1>4. Len(calls[r]) = 2
  <2>1. Entered("input", Len(calls[r])) BY <1>2, Here
  <2> QED BY <2>1 DEF Entered
<1>5. EndCall \in Nat /\ EndCall >= 4 /\ ReportCall = EndCall + 1 /\ ReportCall \in Nat
  BY Positions
<1>6. ~(Len(calls'[r]) >= EndCall) /\ ~(Len(calls'[r]) >= ReportCall)
  <2>1. Len(calls'[r]) = 3 BY <1>3, <1>4
  <2> QED BY <1>5, <2>1
<1>7. /\ \A s \in Ranks : Len(calls'[s]) >= EndCall => Len(calls[s]) >= EndCall /\ s # r
      /\ \A s \in Ranks : Len(calls'[s]) >= ReportCall => Len(calls[s]) >= ReportCall
  BY <1>3, <1>6
<1>8. Sized
  <2>1. Len(calls[r]) >= 2 BY <1>4
  <2> QED BY <2>1, SizedLemma DEF WorkInv
<1>9. next[r] = r /\ Done(r) = {} /\ r \in Nat
  <2>1. pc[r] \in PcValues \ ({"blocks", "closed", "gather", "summary", "index", "merged", "done"} \cup Dead)
    BY <1>2 DEF PcValues, Dead
  <2>2. next[r] = r BY <2>1 DEF WorkInv, NextInv
  <2> QED BY <1>8, <2>2, DoneLemma DEF Done, WorkInv, NextInv
<1>10. NewFile = [data |-> <<>>, saved |-> 0, pos |-> 0, ok |-> TRUE] BY DEF NewFile
<1>11. /\ NewFile.data = <<>> /\ Len(NewFile.data) = 0 /\ NewFile.saved = 0
       /\ NewFile.pos = 0 /\ NewFile.ok = TRUE /\ NewFile.data \in Seq({})
  BY <1>10
<1>12. IsFile(NewFile) BY <1>10, <1>11 DEF IsFile
<1>13. /\ DOMAIN meta' = Ranks /\ DOMAIN totals' = Ranks
       /\ meta'[r] = NewFile /\ part'[r] = NewFile
       /\ \A s \in Ranks \ {r} : meta'[s] = meta[s] /\ part'[s] = part[s]
  BY <1>2 DEF WorkInv, MetaInv, TotalsInv, IInv, FileInv
<1>14. /\ IsMapReduce' = IsMapReduce /\ Done(r)' = Done(r)
       /\ BytesOf(Done(r))' = BytesOf(Done(r))
       /\ EndCall' = EndCall /\ NumBlocks' = NumBlocks
  <2>1. /\ IsMapReduce' = IsMapReduce /\ EndCall' = EndCall /\ NumBlocks' = NumBlocks
        /\ \A n : DoneTo(r, n)' = DoneTo(r, n) /\ AlignedSize' = AlignedSize /\ args' = args
    BY <1>2, SameJob DEF job
  <2>2. Done(r)' = Done(r) BY <1>2, <2>1, SameJob DEF Done, DoneTo, Owned
  <2> QED BY <2>1, <2>2 DEF BytesOf
<1>15. RankData(r)'
  <2>1. LinesOf(meta[r], r)' BY <1>2, <1>9, <1>11, <1>13, <1>14 DEF LinesOf
  <2>2. Describes(meta'[r], part'[r]) BY <1>11, <1>13 DEF Describes
  <2>3. Chunks(part'[r]) = {} BY <1>11, <1>13 DEF Chunks
  <2>4. TotalsOf(r) BY DEF WorkInv, TotalsInv
  <2>5. totals[r].compressed = 0 BY <1>9, <2>4 DEF TotalsOf
  <2>6. TotalsOf(r)' BY <1>2, <1>14, <2>3, <2>4, <2>5, NoChunks DEF TotalsOf
  <2> QED BY <1>12, <1>13, <2>1, <2>2, <2>6 DEF RankData
<1>16. MetaInv' /\ PartInv' /\ TotalsInv'
  BY <1>2, <1>13, <1>15, OwnData DEF WorkInv
<1>17. ArgsInv'
  <2>1. \A s \in Ranks : Len(calls'[s]) >= 1 => Len(calls[s]) >= 1 BY <1>3, <1>4
  <2>2. \A s \in Ranks : Len(calls'[s]) >= 2 => Len(calls[s]) >= 2 BY <1>3, <1>4
  <2> QED BY <1>2, <1>3, <2>1, <2>2, KeepArgs DEF WorkInv, IInv
<1>18. NextInv'
  <2>1. pc[r] \in Early /\ to # "blocks" BY <1>1, <1>2 DEF Early, PcValues, Dead
  <2> QED BY <1>2, <1>3, <2>1, KeepNext DEF WorkInv
<1>19. ClosedInv'
  <2>1. ASSUME NEW s \in Ranks, Len(calls'[s]) >= EndCall
        PROVE  /\ next[s] >= NumBlocks /\ (IsMapReduce => next[s] = NumBlocks + s)
               /\ part'[s].saved = Len(part'[s].data) /\ meta'[s].saved = Len(meta'[s].data)
    <3>1. Len(calls[s]) >= EndCall /\ s # r BY <1>7, <2>1
    <3>2. meta'[s] = meta[s] /\ part'[s] = part[s] BY <1>13, <3>1
    <3> QED BY <3>1, <3>2 DEF WorkInv, ClosedInv
  <2> QED BY <1>2, <1>14, <2>1 DEF ClosedInv
<1>20. ReportInv' BY <1>2, <1>3, <1>7, KeepReport DEF WorkInv
<1>21. SummaryInv' BY <1>2, <1>3, KeepSummary DEF WorkInv
<1> QED BY <1>16, <1>17, <1>18, <1>19, <1>20, <1>21 DEF WorkInv


\* A rank that works on its blocks has reported nothing, and so there is no summary.
LEMMA Working ==
  ASSUME IInv, IInv', WorkInv, UNCHANGED <<job, calls, summary>>, NEW r \in Ranks,
         Len(calls[r]) >= 2, Len(calls[r]) < EndCall,
         \A s \in Ranks \ {r} : /\ meta'[s] = meta[s] /\ part'[s] = part[s]
                                /\ totals'[s] = totals[s] /\ next'[s] = next[s]
  PROVE  ArgsInv' /\ ClosedInv' /\ ReportInv' /\ SummaryInv'
<1>1. /\ EndCall' = EndCall /\ ReportCall' = ReportCall /\ NumBlocks' = NumBlocks
      /\ IsMapReduce' = IsMapReduce /\ HasBlocks' = HasBlocks /\ ArgsAccepted' = ArgsAccepted
      /\ args' = args /\ input_size' = input_size
  BY SameJob DEF job
<1>2. EndCall \in Nat /\ ReportCall = EndCall + 1 /\ Len(calls[r]) \in Nat BY Positions
<1>3. ~(Len(calls[r]) >= EndCall) /\ ~(Len(calls[r]) >= ReportCall) BY <1>2
<1>4. ArgsInv' BY <1>1 DEF WorkInv, ArgsInv, NoFile
<1>5. ClosedInv' BY <1>1, <1>3 DEF WorkInv, ClosedInv
<1>6. ReportInv' BY <1>1, <1>3 DEF WorkInv, ReportInv
<1>7. SummaryInv'
  <2>1. DOMAIN calls = Ranks BY DEF IInv, LogTyped
  <2>2. ~AllEntered(calls, ReportCall) BY <1>3, <2>1 DEF AllEntered
  <2>3. summary.kind \notin {"torn", "whole"} BY <2>2 DEF WorkInv, SummaryInv
  <2> QED BY <2>3 DEF SummaryInv, Published
<1> QED BY <1>4, <1>5, <1>6, <1>7

\* A block is done: it has a line, a chunk if the disk took it, and is counted.
LEMMA CompressBlockWork ==
  ASSUME IInv, IInv', WorkInv, NEW r \in Ranks, CompressBlock(r)
  PROVE  WorkInv'
<1> DEFINE n == next[r]
<1>1. PICK size \in ChunkSizes :
        Write(r, ChunkOf(r, size), EntryOf(r, size))
  BY DEF CompressBlock
<1> DEFINE c == ChunkOf(r, size)
           e == EntryOf(r, size)
<1>2. /\ UNCHANGED <<job, pc, calls, summary>>
      /\ pc[r] = "blocks" /\ n < NumBlocks
      /\ next' = [next EXCEPT ![r] = n + NRanks]
  BY DEF CompressBlock, results
<1>3. Len(calls[r]) >= 2 /\ Len(calls[r]) < EndCall BY <1>2, Positions
<1>4. Sized BY <1>3, SizedLemma DEF WorkInv
<1>5. /\ n \in Nat /\ NumBlocks \in Nat \ {0} /\ NRanks \in Nat \ {0} /\ r \in Nat
      /\ DOMAIN next = Ranks
  BY <1>4, SizesLemma, DriverAssumption DEF WorkInv, NextInv, Ranks
<1>6. ~IsMapReduce
  <2>1. IsMapReduce => n = NumBlocks + r BY <1>2 DEF WorkInv, NextInv
  <2> QED BY <1>2, <1>5, <2>1
<1>7. n % NRanks = r BY <1>6 DEF WorkInv, NextInv
<1>8. /\ n >= r /\ (n + NRanks) % NRanks = r
      /\ n \in Owned(r) /\ n \notin Done(r) /\ DoneTo(r, n + NRanks) = Done(r) \cup {n}
  <2>1. Done(r) = DoneTo(r, n) BY <1>4, DoneLemma
  <2>2. /\ n >= r
        /\ (n + NRanks) % NRanks = r
        /\ n \notin DoneTo(r, n)
        /\ n < NumBlocks => n \in Owned(r) /\ DoneTo(r, n + NRanks) = DoneTo(r, n) \cup {n}
    <3>1. n \in Nat /\ NumBlocks \in Nat BY <1>5
    <3> HIDE DEF n
    <3> QED BY <1>7, <3>1, StrideLemma
  <2> QED BY <1>2, <2>1, <2>2
<1>9. /\ next'[r] = n + NRanks /\ \A s \in Ranks \ {r} : next'[s] = next[s]
      /\ DOMAIN next' = Ranks
  BY <1>2, <1>5
<1>10. /\ AlignedSize' = AlignedSize /\ NumBlocks' = NumBlocks /\ IsMapReduce' = IsMapReduce
       /\ \A b : InputOffset(b)' = InputOffset(b) /\ InputSize(b)' = InputSize(b)
       /\ \A s, k : DoneTo(s, k)' = DoneTo(s, k)
       /\ args' = args
  BY <1>2, SameJob DEF job
<1>11. Done(r)' = Done(r) \cup {n}
  <2>1. next'[r] # r BY <1>5, <1>8, <1>9
  <2> QED BY <1>8, <1>9, <1>10, <2>1 DEF Done, DoneTo, Owned
<1> HIDE DEF n
<1>12. NextInv'
  <2>1. \A s \in Ranks : Len(calls[s]) >= 2 => Len(calls'[s]) >= 2 BY <1>2
  <2>2. ASSUME NEW s \in Ranks
        PROVE  /\ next'[s] \in Nat /\ next'[s] % NRanks = s
               /\ pc'[s] \in PcValues \ ({"blocks", "closed", "gather", "summary", "index", "merged", "done"} \cup Dead)
                    => next'[s] = s
               /\ next'[s] # s => Len(calls'[s]) >= 2
    <3>1. CASE s = r BY <1>2, <1>3, <1>5, <1>8, <1>9, <3>1
    <3>2. CASE s # r BY <1>2, <1>6, <1>9, <3>2 DEF WorkInv, NextInv
    <3> QED BY <3>1, <3>2
  <2> QED BY <1>6, <1>9, <1>10, <2>2 DEF NextInv
<1>13. /\ c.block = n /\ c.at = part[r].pos /\ c.size = size
       /\ e.block = n /\ e.from = InputOffset(n) /\ e.bytes = InputSize(n)
       /\ e.part_offset = Tellp(part[r]) /\ e.size = size
  BY DEF ChunkOf, EntryOf, n
<1> HIDE DEF c, e
<1>14. size \in Nat BY DriverAssumption
<1>15. PICK f \in AfterWrite(part[r], c, size) : part' = [part EXCEPT ![r] = f]
  BY <1>1, <1>13 DEF Write, c, e
<1>16. /\ meta' = [meta EXCEPT ![r] = WithLine(meta[r], e)]
       /\ totals' = [totals EXCEPT ![r] = [input |-> totals[r].input + e.bytes,
                                           compressed |-> totals[r].compressed + e.size,
                                           blocks |-> totals[r].blocks + 1]]
  BY <1>1 DEF Write, Count, c, e
<1>17. /\ DOMAIN meta = Ranks /\ DOMAIN totals = Ranks /\ DOMAIN part = Ranks
       /\ IsFile(meta[r]) /\ LinesOf(meta[r], r) /\ TotalsOf(r)
       /\ part[r].ok => Describes(meta[r], part[r])
       /\ IsFile(part[r])
  BY DEF WorkInv, MetaInv, TotalsInv, PartInv, IInv, FileInv, SoundFile, IsFile
<1>18. /\ DOMAIN meta' = Ranks /\ DOMAIN totals' = Ranks
       /\ meta'[r] = WithLine(meta[r], e) /\ part'[r] = f
       /\ totals'[r] = [input |-> totals[r].input + e.bytes,
                        compressed |-> totals[r].compressed + e.size,
                        blocks |-> totals[r].blocks + 1]
       /\ \A s \in Ranks \ {r} : /\ meta'[s] = meta[s] /\ part'[s] = part[s]
                                 /\ totals'[s] = totals[s]
  BY <1>15, <1>16, <1>17
<1>19. ArgsInv' /\ ClosedInv' /\ ReportInv' /\ SummaryInv' BY <1>2, <1>3, <1>9, <1>18, Working
<1> DEFINE L == Len(meta[r].data)
           P == Len(part[r].data)
<1>20. /\ IsFile(meta'[r]) /\ L \in Nat /\ Len(meta'[r].data) = L + 1
       /\ \A i \in 1..L : meta'[r].data[i] = meta[r].data[i]
       /\ meta'[r].data[L + 1] = e
  <2>1. meta'[r] = [data |-> Append(meta[r].data, e), saved |-> meta[r].saved,
                    pos |-> meta[r].pos + 1, ok |-> meta[r].ok]
    <3>1. meta'[r] = [meta[r] EXCEPT !.data = Append(@, e), !.pos = @ + 1]
      BY <1>18 DEF WithLine
    <3> QED BY <1>17, <3>1, WrittenFile
  <2> QED BY <1>17, <2>1, AppendFile
<1>21. /\ IsFile(part'[r]) /\ P \in Nat
       /\ part'[r].ok => /\ part[r].ok /\ Len(part'[r].data) = P + 1
                         /\ \A i \in 1..P : part'[r].data[i] = part[r].data[i]
                         /\ part'[r].data[P + 1] = c
                         /\ Chunks(part'[r]) = Chunks(part[r]) \cup {c}
  <2>1. IsFile(f) /\ (f.ok => part[r].ok /\ f = [data |-> Append(part[r].data, c),
                            saved |-> part[r].saved, pos |-> part[r].pos + size, ok |-> part[r].ok])
    BY <1>15, <1>17, ChunkFile
  <2>2. PICK S : part[r].data \in Seq(S) BY <1>17 DEF IsFile
  <2>3. P \in Nat BY <2>2
  <2> QED BY <1>17, <1>18, <2>1, <2>3, AppendFile
<1>22. 1..(L + 1) = 1..L \cup {L + 1} /\ 1..(P + 1) = 1..P \cup {P + 1} BY <1>20, <1>21
<1>23. /\ \A i \in 1..L : /\ meta[r].data[i].block \in Done(r)
                          /\ meta[r].data[i].from = InputOffset(meta[r].data[i].block)
                          /\ meta[r].data[i].bytes = InputSize(meta[r].data[i].block)
       /\ \A i, j \in 1..L : meta[r].data[i].block = meta[r].data[j].block => i = j
       /\ \A b \in Done(r) : \E i \in 1..L : meta[r].data[i].block = b
  BY <1>6, <1>17 DEF LinesOf
<1>24. LinesOf(meta[r], r)'
  <2> DEFINE D == meta'[r].data
  <2>1. /\ Len(D) = L + 1 /\ D[L + 1] = e /\ \A i \in 1..L : D[i] = meta[r].data[i]
    BY <1>20
  <2> HIDE DEF D
  <2>2. ASSUME NEW i \in 1..Len(D)
        PROVE  /\ D[i].block \in Done(r) \cup {n}
               /\ D[i].from = InputOffset(D[i].block) /\ D[i].bytes = InputSize(D[i].block)
    <3>1. CASE i \in 1..L BY <1>23, <2>1, <3>1
    <3>2. CASE i = L + 1 BY <1>13, <2>1, <3>2
    <3> QED BY <1>22, <2>1, <3>1, <3>2
  <2>3. ASSUME NEW i \in 1..Len(D), NEW j \in 1..Len(D), D[i].block = D[j].block PROVE i = j
    <3>1. CASE i \in 1..L /\ j \in 1..L BY <1>23, <2>1, <2>3, <3>1
    <3>2. \A k \in 1..L : D[k].block # n BY <1>8, <1>23, <2>1
    <3>3. D[L + 1].block = n BY <1>13, <2>1
    <3>4. i \in 1..L \cup {L + 1} /\ j \in 1..L \cup {L + 1} BY <1>22, <2>1, <2>3
    <3>5. CASE i \in 1..L /\ j = L + 1
      <4>1. D[i].block # n /\ D[j].block = n BY <3>2, <3>3, <3>5
      <4> QED BY <2>3, <4>1
    <3>6. CASE i = L + 1 /\ j \in 1..L
      <4>1. D[i].block = n /\ D[j].block # n BY <3>2, <3>3, <3>6
      <4> QED BY <2>3, <4>1
    <3>7. CASE i = L + 1 /\ j = L + 1 BY <3>7
    <3> QED BY <3>1, <3>4, <3>5, <3>6, <3>7
  <2>4. ASSUME NEW b \in Done(r) \cup {n} PROVE \E i \in 1..Len(D) : D[i].block = b
    <3>1. CASE b \in Done(r)
      <4>1. PICK i \in 1..L : meta[r].data[i].block = b BY <1>23, <3>1
      <4>2. i \in 1..Len(D) /\ D[i].block = b BY <1>22, <2>1, <4>1
      <4> QED BY <4>2
    <3>2. CASE b = n
      <4>1. L + 1 \in 1..Len(D) BY <1>22, <2>1
      <4> QED BY <1>13, <2>1, <3>2, <4>1
    <3> QED BY <3>1, <3>2
  <2>5. ~IsMapReduce' BY <1>6, <1>10
  <2> QED BY <1>10, <1>11, <2>2, <2>3, <2>4, <2>5 DEF LinesOf, D
<1>25. ASSUME part'[r].ok PROVE Describes(meta'[r], part'[r]) /\ c \notin Chunks(part[r])
  <2>1. /\ part[r].ok /\ Len(part'[r].data) = P + 1 /\ part'[r].data[P + 1] = c
        /\ \A i \in 1..P : part'[r].data[i] = part[r].data[i]
    BY <1>21, <1>25
  <2>2. /\ P = L
        /\ \A i \in 1..P : /\ part[r].data[i].at = meta[r].data[i].part_offset
                           /\ part[r].data[i].size = meta[r].data[i].size
                           /\ part[r].data[i].block = meta[r].data[i].block
                           /\ part[r].data[i].size \in Nat
    BY <1>17, <2>1 DEF Describes
  <2>3. c.at = e.part_offset /\ c.size = e.size /\ c.block = e.block /\ c.size \in Nat
    BY <1>13, <1>14, <2>1 DEF Tellp
  <2>4. ASSUME NEW i \in 1..(P + 1)
        PROVE  /\ part'[r].data[i].at = meta'[r].data[i].part_offset
               /\ part'[r].data[i].size = meta'[r].data[i].size
               /\ part'[r].data[i].block = meta'[r].data[i].block
               /\ part'[r].data[i].size \in Nat
    <3>1. CASE i \in 1..P BY <1>20, <2>1, <2>2, <3>1
    <3>2. CASE i = P + 1 BY <1>20, <2>1, <2>2, <2>3, <3>2
    <3> QED BY <1>22, <3>1, <3>2
  <2>5. Describes(meta'[r], part'[r]) BY <1>20, <2>1, <2>2, <2>4 DEF Describes
  <2>6. ASSUME NEW i \in 1..P PROVE part[r].data[i].block # n
    BY <1>8, <1>23, <2>2
  <2>7. c \notin Chunks(part[r]) BY <1>13, <2>6 DEF Chunks
  <2> QED BY <2>5, <2>7
<1>26. TotalsOf(r)'
  <2>1. n \in 0..(NumBlocks - 1) BY <1>2, <1>5 DEF n
  <2>2. InputSize(n) \in Nat
    <3>1. InputSize(n) \in Int /\ 0 < InputSize(n) BY <1>4, <2>1, SizesLemma
    <3> QED BY <3>1
  <2>3. Cardinality(BytesOf(Done(r) \cup {n})) = Cardinality(BytesOf(Done(r))) + InputSize(n)
    BY <1>4, <1>8, <2>1, OneMoreBlock
  <2>4. IsFiniteSet(Done(r))
    <3>1. Done(r) = DoneTo(r, n) BY <1>4, DoneLemma DEF n
    <3> QED BY <1>4, <3>1, OwnedFinite
  <2>5. Cardinality(Done(r) \cup {n}) = Cardinality(Done(r)) + 1
    BY <1>8, <2>4, FS_AddElement
  <2>6. /\ totals[r].input \in Nat /\ totals[r].compressed \in Nat /\ totals[r].blocks \in Nat
        /\ totals[r].input = Cardinality(BytesOf(Done(r)))
        /\ totals[r].blocks = Cardinality(Done(r))
    BY <1>17 DEF TotalsOf
  <2>7. /\ totals'[r].input = totals[r].input + InputSize(n)
        /\ totals'[r].compressed = totals[r].compressed + size
        /\ totals'[r].blocks = totals[r].blocks + 1
        /\ totals'[r] \in [input : Nat, compressed : Nat, blocks : Nat]
    BY <1>13, <1>14, <1>18, <2>2, <2>6
  <2>8. BytesOf(Done(r))' = BytesOf(Done(r) \cup {n}) BY <1>10, <1>11 DEF BytesOf
  <2>9. ASSUME part'[r].ok PROVE totals'[r].compressed = ChunkBytes(Chunks(part'[r]))
    <3>1. part[r].ok /\ Chunks(part'[r]) = Chunks(part[r]) \cup {c} /\ c \notin Chunks(part[r])
      BY <1>21, <1>25, <2>9
    <3>2. \A x \in Chunks(part[r]) : x.size \in Nat
      BY <1>17, <3>1 DEF Chunks, Describes
    <3>3. ChunkBytes(Chunks(part'[r])) = ChunkBytes(Chunks(part[r])) + c.size
      BY <1>13, <1>14, <1>17, <3>1, <3>2, ChunksFinite, OneMoreChunk
    <3> QED BY <1>13, <1>17, <2>7, <3>1, <3>3 DEF TotalsOf
  <2>10. next'[r] # r BY <1>5, <1>8, <1>9
  <2> QED BY <1>11, <2>3, <2>5, <2>6, <2>7, <2>8, <2>9, <2>10 DEF TotalsOf
<1>27. RankData(r)' BY <1>20, <1>24, <1>25, <1>26 DEF RankData
<1>28. MetaInv' /\ PartInv' /\ TotalsInv'
  BY <1>2, <1>9, <1>18, <1>27, OwnData DEF WorkInv
<1> QED BY <1>12, <1>19, <1>28 DEF WorkInv


\* run_mapreduce leaves one line and, if the disk took it, one chunk; all blocks of
\* the rank are counted as done.
LEMMA LeaveMapReduceWork ==
  ASSUME IInv, IInv', WorkInv, NEW r \in Ranks, LeaveMapReduce(r)
  PROVE  WorkInv'
<1>1. /\ UNCHANGED <<job, calls, summary>> /\ pc[r] = "mapreduce" /\ IsMapReduce
      /\ pc' = [pc EXCEPT ![r] = "blocks"]
      /\ next' = [next EXCEPT ![r] = NumBlocks + r]
  BY DEF LeaveMapReduce, Goto, IInv, PcInv, results
<1>2. PICK size \in ChunkSizes :
        LET entry == [EntryOf(r, size) EXCEPT !.bytes = OwnedBytes(r)] IN
          /\ \E f \in AfterWrite(part[r], ChunkOf(r, size), size) :
               part' = [part EXCEPT ![r] = Flushed(f)]
          /\ meta' = [meta EXCEPT ![r] = Flushed(WithLine(@, entry))]
          /\ Count(r, entry, Cardinality(Owned(r)))
  BY DEF LeaveMapReduce
<1> DEFINE c == ChunkOf(r, size)
           e == [EntryOf(r, size) EXCEPT !.bytes = OwnedBytes(r)]
<1>3. PICK f \in AfterWrite(part[r], c, size) : part' = [part EXCEPT ![r] = Flushed(f)]
  BY <1>2
<1>4. /\ meta' = [meta EXCEPT ![r] = Flushed(WithLine(meta[r], e))]
      /\ totals' = [totals EXCEPT ![r] = [input |-> totals[r].input + e.bytes,
                                          compressed |-> totals[r].compressed + e.size,
                                          blocks |-> totals[r].blocks + Cardinality(Owned(r))]]
  BY <1>2 DEF Count
<1>5. /\ c.block = next[r] /\ c.at = part[r].pos /\ c.size = size
      /\ e.block = next[r] /\ e.part_offset = Tellp(part[r]) /\ e.size = size
      /\ e.bytes = OwnedBytes(r)
  BY DEF ChunkOf, EntryOf
<1> HIDE DEF c, e
<1>6. Len(calls[r]) >= 2 /\ Len(calls[r]) < EndCall BY <1>1, Positions
<1>7. Sized BY <1>6, SizedLemma DEF WorkInv
<1>8. /\ NumBlocks \in Nat \ {0} /\ r \in Nat /\ DOMAIN next = Ranks
  BY <1>7, SizesLemma, DriverAssumption DEF WorkInv, NextInv, Ranks
<1>9. next[r] = r /\ Done(r) = {} /\ BytesOf({}) = {} /\ DoneTo(r, NumBlocks + r) = Owned(r)
  <2>1. pc[r] \in PcValues \ ({"blocks", "closed", "gather", "summary", "index", "merged", "done"} \cup Dead)
    BY <1>1 DEF PcValues, Dead
  <2>2. next[r] = r BY <2>1 DEF WorkInv, NextInv
  <2>3. NumBlocks + r \in Nat /\ NumBlocks + r >= NumBlocks BY <1>8
  <2> QED BY <1>7, <2>2, <2>3, DoneLemma DEF Done
<1>10. /\ next'[r] = NumBlocks + r /\ \A s \in Ranks \ {r} : next'[s] = next[s]
       /\ DOMAIN next' = Ranks
  BY <1>1, <1>8
<1>11. /\ AlignedSize' = AlignedSize /\ NumBlocks' = NumBlocks /\ IsMapReduce' = IsMapReduce
       /\ \A s, k : DoneTo(s, k)' = DoneTo(s, k)
       /\ args' = args
  BY <1>1, SameJob DEF job
<1>12. Done(r)' = Owned(r)
  <2>1. next'[r] # r BY <1>8, <1>10
  <2> QED BY <1>9, <1>10, <1>11, <2>1 DEF Done, DoneTo, Owned
<1>13. pc'[r] = "blocks" /\ \A s \in Ranks \ {r} : pc'[s] = pc[s]
  BY <1>1 DEF IInv, PcInv
<1>14. NextInv'
  <2>1. ASSUME NEW s \in Ranks
        PROVE  /\ next'[s] \in Nat /\ next'[s] \in {s, NumBlocks + s}
               /\ pc'[s] \in PcValues \ ({"blocks", "closed", "gather", "summary", "index", "merged", "done"} \cup Dead)
                    => next'[s] = s
               /\ pc'[s] = "blocks" => next'[s] = NumBlocks + s
               /\ next'[s] # s => Len(calls'[s]) >= 2
    <3>1. CASE s = r BY <1>1, <1>6, <1>8, <1>10, <1>13, <3>1
    <3>2. CASE s # r BY <1>1, <1>10, <1>13, <3>2 DEF WorkInv, NextInv
    <3> QED BY <3>1, <3>2
  <2> QED BY <1>1, <1>10, <1>11, <2>1 DEF NextInv
<1>15. size \in Nat BY DriverAssumption
<1>16. /\ DOMAIN meta = Ranks /\ DOMAIN totals = Ranks /\ DOMAIN part = Ranks
       /\ IsFile(meta[r]) /\ LinesOf(meta[r], r) /\ TotalsOf(r)
       /\ part[r].ok => Describes(meta[r], part[r])
       /\ IsFile(part[r])
  BY DEF WorkInv, MetaInv, TotalsInv, PartInv, IInv, FileInv, SoundFile, IsFile
<1>17. /\ DOMAIN meta' = Ranks /\ DOMAIN totals' = Ranks
       /\ meta'[r] = Flushed(WithLine(meta[r], e)) /\ part'[r] = Flushed(f)
       /\ totals'[r] = [input |-> totals[r].input + e.bytes,
                        compressed |-> totals[r].compressed + e.size,
                        blocks |-> totals[r].blocks + Cardinality(Owned(r))]
       /\ \A s \in Ranks \ {r} : /\ meta'[s] = meta[s] /\ part'[s] = part[s]
                                 /\ totals'[s] = totals[s]
  BY <1>3, <1>4, <1>16
<1>18. ArgsInv' /\ ClosedInv' /\ ReportInv' /\ SummaryInv'
  BY <1>1, <1>6, <1>10, <1>17, Working
<1>19. Len(meta[r].data) = 0 BY <1>1, <1>9, <1>16 DEF LinesOf
<1>20. IsFile(meta'[r]) /\ Len(meta'[r].data) = 1 /\ meta'[r].data[1] = e
  <2> DEFINE g == WithLine(meta[r], e)
  <2>1. g = [meta[r] EXCEPT !.data = Append(@, e), !.pos = @ + 1] BY DEF WithLine
  <2> HIDE DEF g
  <2>2. g = [data |-> Append(meta[r].data, e), saved |-> meta[r].saved,
             pos |-> meta[r].pos + 1, ok |-> meta[r].ok]
    BY <1>16, <2>1, WrittenFile
  <2>3. IsFile(g) /\ Len(g.data) = 1 /\ g.data[1] = e BY <1>16, <1>19, <2>2, AppendFile
  <2>4. IsFile(Flushed(g)) /\ Flushed(g).data = g.data BY <2>3, FlushedFile
  <2> QED BY <1>17, <2>3, <2>4 DEF g
<1>21. /\ part'[r].ok => /\ part[r].ok /\ Len(part'[r].data) = 1 /\ part'[r].data[1] = c
                         /\ Chunks(part'[r]) = {c}
  <2>1. IsFile(f) /\ (f.ok => part[r].ok /\ f = [data |-> Append(part[r].data, c),
                            saved |-> part[r].saved, pos |-> part[r].pos + size, ok |-> part[r].ok])
    BY <1>16, ChunkFile
  <2>2. Flushed(f).data = f.data /\ Flushed(f).ok = f.ok BY <2>1, FlushedFile
  <2>3. ASSUME f.ok PROVE part[r].ok /\ Len(f.data) = 1 /\ f.data[1] = c /\ Chunks(f) = {c}
    <3>1. part[r].ok /\ f = [data |-> Append(part[r].data, c), saved |-> part[r].saved,
                              pos |-> part[r].pos + size, ok |-> part[r].ok]
      BY <2>1, <2>3
    <3>2. Len(part[r].data) = 0 BY <1>16, <1>19, <3>1 DEF Describes
    <3>3. Chunks(part[r]) = {} BY <3>2 DEF Chunks
    <3>4. /\ Len(f.data) = Len(part[r].data) + 1 /\ f.data[Len(part[r].data) + 1] = c
          /\ Chunks(f) = Chunks(part[r]) \cup {c}
      <4> DEFINE old == part[r]
                 p == part[r].pos + size
      <4>1. f = [data |-> Append(old.data, c), saved |-> old.saved, pos |-> p, ok |-> old.ok]
        BY <3>1
      <4>2. IsFile(old) BY <1>16
      <4> HIDE DEF old, p
      <4>3. /\ Len(f.data) = Len(old.data) + 1 /\ f.data[Len(old.data) + 1] = c
            /\ Chunks(f) = Chunks(old) \cup {c}
        BY <4>1, <4>2, AppendFile
      <4> QED BY <4>3 DEF old
    <3>5. Len(part[r].data) + 1 = 1 BY <3>2
    <3> QED BY <3>1, <3>3, <3>4, <3>5
  <2>4. Chunks(Flushed(f)) = Chunks(f) BY <2>2 DEF Chunks
  <2> QED BY <1>17, <2>2, <2>3, <2>4
<1>22. LinesOf(meta[r], r)'
  <2>1. next'[r] # r BY <1>8, <1>10
  <2> QED BY <1>1, <1>11, <1>20, <2>1 DEF LinesOf
<1>23. ASSUME part'[r].ok PROVE Describes(meta'[r], part'[r])
  <2>1. part[r].ok /\ Len(part'[r].data) = 1 /\ part'[r].data[1] = c BY <1>21, <1>23
  <2>2. c.at = e.part_offset /\ c.size = e.size /\ c.block = e.block /\ c.size \in Nat
    BY <1>5, <1>15, <2>1 DEF Tellp
  <2>3. \A i \in 1..1 : i = 1 OBVIOUS
  <2> QED BY <1>20, <2>1, <2>2, <2>3 DEF Describes
<1>24. TotalsOf(r)'
  <2>1. /\ totals[r].input = 0 /\ totals[r].blocks = 0 /\ totals[r].compressed = 0
    BY <1>9, <1>16, FS_EmptySet DEF TotalsOf
  <2>2. OwnedBytes(r) = Cardinality(BytesOf(Owned(r))) /\ OwnedBytes(r) \in Nat
    BY <1>7, OwnedBytesLemma, BytesFinite
  <2>3. Cardinality(Owned(r)) \in Nat BY <1>7, OwnedFinite, FS_CardinalityType
  <2>4. /\ totals'[r].input = OwnedBytes(r) /\ totals'[r].compressed = size
        /\ totals'[r].blocks = Cardinality(Owned(r))
        /\ totals'[r] \in [input : Nat, compressed : Nat, blocks : Nat]
    BY <1>5, <1>15, <1>17, <2>1, <2>2, <2>3
  <2>5. BytesOf(Done(r))' = BytesOf(Owned(r)) BY <1>11, <1>12 DEF BytesOf
  <2>6. ASSUME part'[r].ok PROVE size = ChunkBytes(Chunks(part'[r]))
    <3>1. Chunks(part'[r]) = {} \cup {c} BY <1>21, <2>6
    <3>2. IsFiniteSet({}) /\ \A x \in {} : x.size \in Nat BY FS_EmptySet
    <3>3. c \notin {} /\ c.size \in Nat BY <1>5, <1>15
    <3>4. ChunkBytes({} \cup {c}) = ChunkBytes({}) + c.size BY <3>2, <3>3, OneMoreChunk
    <3> QED BY <1>5, <1>15, <3>1, <3>4, NoChunks
  <2>7. next'[r] # r BY <1>8, <1>10
  <2> QED BY <1>12, <2>2, <2>4, <2>5, <2>6, <2>7 DEF TotalsOf
<1>25. RankData(r)' BY <1>20, <1>22, <1>23, <1>24 DEF RankData
<1>26. MetaInv' /\ PartInv' /\ TotalsInv'
  BY <1>1, <1>10, <1>17, <1>25, OwnData DEF WorkInv
<1> QED BY <1>14, <1>18, <1>26 DEF WorkInv

\* With all its blocks done a rank flushes its files and enters the last barrier.
LEMMA CloseFilesWork ==
  ASSUME IInv, IInv', WorkInv, NEW r \in Ranks, CloseFiles(r)
  PROVE  WorkInv'
<1>1. /\ UNCHANGED job /\ next' = next /\ totals' = totals /\ summary' = summary
      /\ pc[r] = "blocks" /\ next[r] >= NumBlocks
      /\ part' = [part EXCEPT ![r] = Flushed(part[r])]
      /\ meta' = [meta EXCEPT ![r] = Flushed(meta[r])]
      /\ Enter(r, "Barrier end", 0, "closed")
  BY DEF CloseFiles, results
<1>2. /\ Longer /\ Goto(r, "closed")
      /\ Len(calls'[r]) = Len(calls[r]) + 1
      /\ \A s \in Ranks \ {r} : calls'[s] = calls[s]
  BY <1>1, EnterLemma
<1>3. /\ EndCall \in Nat /\ EndCall >= 4 /\ ReportCall = EndCall + 1 /\ ReportCall \in Nat
      /\ Len(calls[r]) >= 2 /\ Len(calls[r]) + 1 = EndCall /\ Len(calls[r]) \in Nat
  BY <1>1, Positions
<1>4. Len(calls'[r]) = EndCall /\ ~(EndCall >= ReportCall) BY <1>2, <1>3
<1>5. \A s \in Ranks : Len(calls'[s]) >= ReportCall => Len(calls[s]) >= ReportCall
  BY <1>2, <1>4
<1>6. /\ DOMAIN part = Ranks /\ DOMAIN meta = Ranks
      /\ \A s \in Ranks : IsFile(part[s]) /\ IsFile(meta[s])
  BY DEF WorkInv, MetaInv, IInv, FileInv, SoundFile, IsFile
<1>7. /\ part'[r] = Flushed(part[r]) /\ meta'[r] = Flushed(meta[r]) /\ DOMAIN meta' = Ranks
      /\ \A s \in Ranks \ {r} : part'[s] = part[s] /\ meta'[s] = meta[s]
  BY <1>1, <1>6
<1>8. /\ part'[r].data = part[r].data /\ part'[r].ok = part[r].ok
      /\ part'[r].saved = Len(part[r].data) /\ IsFile(part'[r])
      /\ meta'[r].data = meta[r].data /\ meta'[r].ok = meta[r].ok
      /\ meta'[r].saved = Len(meta[r].data) /\ IsFile(meta'[r])
  BY <1>6, <1>7, FlushedFile
<1>9. ASSUME NEW f, IsFile(f) PROVE Len(f.data) \in f.saved..Len(f.data) /\ f.saved \in f.saved..Len(f.data)
  <2>1. PICK S : f.data \in Seq(S) BY <1>9 DEF IsFile
  <2>2. Len(f.data) \in Nat /\ f.saved \in 0..Len(f.data) BY <2>1, <1>9 DEF IsFile
  <2> QED BY <2>2
<1>10. KeptFiles
  <2>1. KeptFile(part[r], part'[r]) /\ KeptFile(meta[r], meta'[r])
    BY <1>6, <1>8, <1>9 DEF KeptFile
  <2>2. \A s \in Ranks \ {r} : KeptFile(part[s], part'[s]) /\ KeptFile(meta[s], meta'[s])
    BY <1>6, <1>7, <1>9 DEF KeptFile
  <2> QED BY <1>6, <1>7, <2>1, <2>2 DEF KeptFiles
<1>11. MetaInv' /\ PartInv' /\ TotalsInv' BY <1>1, <1>10, KeepData DEF WorkInv
<1>12. ArgsInv'
  <2>1. \A s \in Ranks : Len(calls'[s]) >= 1 => Len(calls[s]) >= 1 BY <1>2, <1>3
  <2>2. \A s \in Ranks : Len(calls'[s]) >= 2 => Len(calls[s]) >= 2 BY <1>2, <1>3
  <2> QED BY <1>1, <1>2, <2>1, <2>2, KeepArgs DEF WorkInv, IInv
<1>13. NextInv'
  <2>1. "closed" \notin Early BY DEF Early
  <2> QED BY <1>1, <1>2, <2>1, KeepNext DEF WorkInv
<1>14. ClosedInv'
  <2>1. /\ EndCall' = EndCall /\ NumBlocks' = NumBlocks /\ IsMapReduce' = IsMapReduce
    BY <1>1, SameJob DEF job
  <2>2. ASSUME NEW s \in Ranks, Len(calls'[s]) >= EndCall
        PROVE  /\ next[s] >= NumBlocks /\ (IsMapReduce => next[s] = NumBlocks + s)
               /\ part'[s].saved = Len(part'[s].data) /\ meta'[s].saved = Len(meta'[s].data)
    <3>1. CASE s # r BY <1>2, <1>7, <2>2, <3>1 DEF WorkInv, ClosedInv
    <3>2. CASE s = r
      <4>1. IsMapReduce => next[r] = NumBlocks + r BY <1>1 DEF WorkInv, NextInv
      <4> QED BY <1>1, <1>8, <3>2, <4>1
    <3> QED BY <3>1, <3>2
  <2> QED BY <1>1, <2>1, <2>2 DEF ClosedInv
<1>15. ReportInv' BY <1>1, <1>2, <1>5, KeepReport DEF WorkInv
<1>16. SummaryInv' BY <1>1, <1>2, KeepSummary DEF WorkInv
<1> QED BY <1>11, <1>12, <1>13, <1>14, <1>15, <1>16 DEF WorkInv


\* The steps in which rank 0 writes its two files change nothing else.
LEMMA ResultsWork ==
  ASSUME IInv, IInv', WorkInv, NEW r \in Ranks,
         UNCHANGED <<job, calls, next, totals, part, meta>>,
         NEW to \in {"summary", "index", "merged", "done"}, Goto(r, to), SummaryInv'
  PROVE  WorkInv'
<1>1. Longer
  <2>1. \A s \in Ranks : Len(calls[s]) \in Nat BY Here
  <2> QED BY <2>1 DEF Longer
<1>2. KeptFiles BY KeptLemma DEF WorkInv
<1>3. ArgsInv' BY <1>1, KeepArgs DEF WorkInv, IInv
<1>4. NextInv'
  <2>1. to \notin Early /\ to # "blocks" BY DEF Early
  <2> QED BY <1>1, <2>1, KeepNext DEF WorkInv
<1>5. MetaInv' /\ PartInv' /\ TotalsInv' BY <1>2, KeepData DEF WorkInv
<1>6. ClosedInv' BY <1>2, KeepClosed DEF WorkInv
<1>7. ReportInv' BY <1>1, KeepReport DEF WorkInv
<1> QED BY <1>3, <1>4, <1>5, <1>6, <1>7 DEF WorkInv

\* Rank 0 has waited for everyone's report.
LEMMA CreateSummaryWork ==
  ASSUME IInv, IInv', WorkInv, NEW r \in Ranks, CreateSummary(r)
  PROVE  WorkInv'
<1>1. /\ UNCHANGED <<job, calls, next, totals, part, meta>>
      /\ pc[r] = "gather" /\ Released(r) /\ Goto(r, "summary") /\ summary' = TornSummary
  BY DEF CreateSummary, files
<1>2. Len(calls[r]) = ReportCall BY <1>1, Positions
<1>3. AllEntered(calls, ReportCall) BY <1>1, <1>2 DEF Released
<1>4. ReportCall' = ReportCall BY <1>1, SameJob DEF job
<1>5. SummaryInv' BY <1>1, <1>3, <1>4 DEF SummaryInv, Published, TornSummary
<1> QED BY <1>1, <1>5, ResultsWork

\* Rank 0 adds up what everyone reported: the totals, which are final.
LEMMA CloseSummaryWork ==
  ASSUME IInv, IInv', WorkInv, DirInv, NEW r \in Ranks, CloseSummary(r)
  PROVE  WorkInv'
<1>1. /\ UNCHANGED <<job, calls, next, totals, part, meta>>
      /\ r = 0 /\ pc[r] = "summary" /\ Goto(r, "index")
      /\ summary' = TotalsSummary(Gathered(r))
  BY DEF CloseSummary, files
<1>2. Len(calls[r]) = ReportCall /\ DOMAIN calls = Ranks
  BY <1>1, Positions DEF IInv, LogTyped
<1>3. AllEntered(calls, ReportCall) BY <1>1 DEF DirInv, WorkInv, SummaryInv
<1>4. \A s \in Ranks : Gathered(r)[s] = totals[s]
  BY <1>2, <1>3 DEF Gathered, Column, AllEntered, WorkInv, ReportInv
<1>5. TotalsSummary(Gathered(r)) = TotalsSummary(totals)
  <2>1. /\ [s \in Ranks |-> Gathered(r)[s].blocks] = [s \in Ranks |-> totals[s].blocks]
        /\ [s \in Ranks |-> Gathered(r)[s].input] = [s \in Ranks |-> totals[s].input]
        /\ [s \in Ranks |-> Gathered(r)[s].compressed] = [s \in Ranks |-> totals[s].compressed]
    BY <1>4
  <2> QED BY <2>1 DEF TotalsSummary
<1>6. ReportCall' = ReportCall /\ TotalsSummary(totals)' = TotalsSummary(totals)
  BY <1>1, SameJob DEF job, TotalsSummary
<1>7. SummaryInv' BY <1>1, <1>3, <1>5, <1>6 DEF SummaryInv
<1> QED BY <1>1, <1>7, ResultsWork

LEMMA IndexWork ==
  ASSUME IInv, IInv', WorkInv, NEW r \in Ranks, CreateIndex(r) \/ CloseIndex(r)
  PROVE  WorkInv'
<1>1. UNCHANGED <<job, calls, next, totals, part, meta>> /\ summary' = summary
  BY DEF CreateIndex, CloseIndex, files
<1>2. PICK to \in {"merged", "done"} : Goto(r, to) BY DEF CreateIndex, CloseIndex
<1>3. Longer
  <2>1. \A s \in Ranks : Len(calls[s]) \in Nat BY Here
  <2> QED BY <1>1, <2>1 DEF Longer
<1>4. SummaryInv' BY <1>1, <1>3, KeepSummary DEF WorkInv
<1> QED BY <1>1, <1>2, <1>4, ResultsWork

\* The collectives a rank enters without touching its files.
LEMMA StartWork ==
  ASSUME IInv, IInv', WorkInv, NEW r \in Ranks, Start(r)
  PROVE  WorkInv'
<1>1. /\ UNCHANGED <<job, files, summary>> /\ pc[r] = "start" /\ ArgsAccepted
      /\ r = 0 => input_size # NoFile
      /\ Enter(r, "Bcast size", IF r = 0 THEN input_size ELSE 0, "size")
  BY DEF Start, results
<1>2. Len(calls[r]) = 0 BY <1>1, Here DEF Entered
<1>3. EndCall \in Nat /\ EndCall >= 4 /\ ReportCall = EndCall + 1 BY Positions
<1>4. Len(calls[r]) + 1 # EndCall /\ Len(calls[r]) + 1 # ReportCall /\ Len(calls[r]) # 1
  BY <1>2, <1>3
<1>5. pc[r] \in Early BY <1>1 DEF Early, PcValues, Dead
<1> DEFINE val == IF r = 0 THEN input_size ELSE 0
<1>6. Enter(r, "Bcast size", val, "size") BY <1>1
<1> HIDE DEF val
<1> QED BY <1>1, <1>2, <1>4, <1>5, <1>6, EnterQuietly

LEMMA OpenInputWork ==
  ASSUME IInv, IInv', WorkInv, NEW r \in Ranks, OpenInput(r)
  PROVE  WorkInv'
<1>1. /\ UNCHANGED <<job, files, summary>> /\ pc[r] = "size" /\ HasBlocks
      /\ Len(calls[0]) >= Len(calls[r])
      /\ Enter(r, "File_open", 0, "input")
  BY DEF OpenInput, RootEntered, results
<1>2. Len(calls[r]) = 1 BY <1>1, Here DEF Entered
<1>3. EndCall \in Nat /\ EndCall >= 4 /\ ReportCall = EndCall + 1 BY Positions
<1>4. Len(calls[r]) + 1 # EndCall /\ Len(calls[r]) + 1 # ReportCall /\ Len(calls[r]) # 0
      /\ Len(calls[0]) >= 1
  BY <1>1, <1>2, <1>3
<1>5. pc[r] \in Early BY <1>1 DEF Early, PcValues, Dead
<1> QED BY <1>1, <1>4, <1>5, EnterQuietly

\* Between the two files being open and the block loop.
LEMMA EarlyWork ==
  ASSUME IInv, IInv', WorkInv, NEW r \in Ranks, FitProfile(r) \/ TakeProfile(r) \/ Begin(r)
  PROVE  WorkInv'
<1>1. /\ UNCHANGED <<job, files, summary>> /\ pc[r] \in {"warmup", "profile", "ready"}
      /\ \/ \E op, val, to : Enter(r, op, val, to) /\ to \in {"profile", "ready", "mapreduce"}
              /\ (pc[r] = "ready" => IsMapReduce)
         \/ ~IsMapReduce /\ calls' = calls /\ Goto(r, "blocks")
  BY Zenon DEF FitProfile, TakeProfile, Begin, IsMapReduce, results
<1>2. pc[r] \in Early BY <1>1 DEF Early, PcValues, Dead
<1>3. /\ Len(calls[r]) \in Nat /\ EndCall \in Nat /\ EndCall >= 4
      /\ ReportCall = EndCall + 1 /\ Len(calls[r]) < EndCall
  BY <1>1, Positions
<1>4. pc[r] # "ready" \/ IsMapReduce => Len(calls[r]) >= 2 /\ Len(calls[r]) + 1 < EndCall
  <2> DEFINE n == Len(calls[r])
             p == pc[r]
  <2>1. /\ p \in {"warmup", "profile"} => Shared
        /\ p = "warmup" => n = 3
        /\ p = "profile" => n = 4
        /\ p = "ready" => n = 3 + Extra
    BY Here, Zenon DEF Entered, IInv, PcInv
  <2>2. Extra \in {0, 2} /\ ExtraMR \in {0, 1} /\ (IsMapReduce => ExtraMR = 1)
        /\ (Shared => Extra = 2) /\ EndCall = 4 + Extra + ExtraMR
    BY ExtraCalls DEF IInv, PcInv, EndCall
  <2>3. p \in {"warmup", "profile", "ready"} BY <1>1
  <2>4. (p # "ready" \/ IsMapReduce => n >= 2 /\ n + 1 < EndCall)
    <3> HIDE DEF n, p
    <3> QED BY <2>1, <2>2, <2>3
  <2> QED BY <2>4
<1>5. CASE \E op, val, to : Enter(r, op, val, to) /\ to \in {"profile", "ready", "mapreduce"}
           /\ (pc[r] = "ready" => IsMapReduce)
  <2>1. PICK op, val, to : Enter(r, op, val, to) /\ to \in {"profile", "ready", "mapreduce"}
                           /\ (pc[r] = "ready" => IsMapReduce)
    BY <1>5
  <2>2. Len(calls[r]) >= 2 /\ Len(calls[r]) + 1 < EndCall BY <1>4, <2>1
  <2>3. /\ Len(calls[r]) # 0 /\ Len(calls[r]) # 1
        /\ Len(calls[r]) + 1 # EndCall /\ Len(calls[r]) + 1 # ReportCall
    <3> DEFINE n == Len(calls[r])
    <3>1. n \in Nat /\ n >= 2 /\ n + 1 < EndCall BY <1>3, <2>2
    <3> HIDE DEF n
    <3>2. n # 0 /\ n # 1 /\ n + 1 # EndCall /\ n + 1 # ReportCall BY <1>3, <3>1
    <3> QED BY <3>2 DEF n
  <2> QED BY <1>1, <1>2, <2>1, <2>3, EnterQuietly
<1>6. CASE ~IsMapReduce /\ calls' = calls /\ Goto(r, "blocks")
  <2>1. "blocks" \notin Early BY DEF Early
  <2> QED BY <1>1, <1>6, <2>1, MoveQuietly DEF files
<1> QED BY <1>1, <1>5, <1>6

\* The totals are reported as they are.
LEMMA ReportWork ==
  ASSUME IInv, IInv', WorkInv, NEW r \in Ranks, Report(r)
  PROVE  WorkInv'
<1> DEFINE to == IF r = 0 THEN "gather" ELSE "done"
<1>1. /\ UNCHANGED <<job, files, summary>> /\ pc[r] = "closed"
      /\ Enter(r, "Reduce and Gather", totals[r], to)
  BY DEF Report, results
<1>2. to \notin Early /\ to # "blocks" BY DEF Early
<1> HIDE DEF to
<1>3. Len(calls[r]) = EndCall /\ EndCall \in Nat /\ EndCall >= 4 BY <1>1, Positions
<1>4. Len(calls[r]) # 0 /\ Len(calls[r]) # 1 /\ Len(calls[r]) + 1 # EndCall BY <1>3
<1> QED BY <1>1, <1>2, <1>4, EnterQuietly

-----------------------------------------------------------------------------
LEMMA InitWork == Init => WorkInv
<1> SUFFICES ASSUME Init PROVE WorkInv OBVIOUS
<1>1. /\ args \in ArgChoices /\ input_size \in InputSizes
      /\ pc = [r \in Ranks |-> "start"] /\ calls = [r \in Ranks |-> <<>>]
      /\ next = [r \in Ranks |-> r]
      /\ part = [r \in Ranks |-> NewFile] /\ meta = [r \in Ranks |-> NewFile]
      /\ totals = [r \in Ranks |-> NoTotals]
      /\ summary.kind \in {"none", "earlier"}
  BY DEF Init, NoSummary, EarlierSummary
<1>2. \A r \in Ranks : r \in Nat /\ Len(calls[r]) = 0 /\ next[r] = r
  BY <1>1, DriverAssumption DEF Ranks
<1>3. /\ NewFile.data = <<>> /\ Len(NewFile.data) = 0 /\ NewFile.saved = 0
      /\ NewFile.pos = 0 /\ NewFile.ok = TRUE /\ NewFile.data \in Seq({})
      /\ NewFile = [data |-> <<>>, saved |-> 0, pos |-> 0, ok |-> TRUE]
  BY DEF NewFile
<1>4. IsFile(NewFile) BY <1>3 DEF IsFile
<1>5. \A r \in Ranks : Done(r) = {} BY <1>2 DEF Done
<1>6. ArgsInv BY <1>1, <1>2 DEF ArgsInv
<1>7. NextInv
  <2>1. \A r \in Ranks : r % NRanks = r BY DriverAssumption DEF Ranks
  <2> QED BY <1>1, <1>2, <2>1 DEF NextInv
<1>8. MetaInv BY <1>1, <1>2, <1>3, <1>4, <1>5 DEF MetaInv, LinesOf
<1>9. PartInv BY <1>1, <1>3 DEF PartInv, Describes
<1>10. TotalsInv
  <2>1. Chunks(NewFile) = {} BY <1>3 DEF Chunks
  <2>2. BytesOf({}) = {} BY DEF BytesOf
  <2>3. Cardinality({}) = 0 BY FS_EmptySet
  <2>4. NoTotals \in [input : Nat, compressed : Nat, blocks : Nat]
        /\ NoTotals.input = 0 /\ NoTotals.compressed = 0 /\ NoTotals.blocks = 0
    BY DEF NoTotals
  <2> QED BY <1>1, <1>5, <2>1, <2>2, <2>3, <2>4, NoChunks DEF TotalsInv, TotalsOf
<1>11. EndCall \in Nat /\ EndCall >= 4 /\ ReportCall = EndCall + 1
  <2>1. IInv BY InitIInv
  <2> QED BY <2>1, Positions
<1>12. ~(0 >= EndCall) /\ ~(0 >= ReportCall) BY <1>11
<1>13. ClosedInv BY <1>2, <1>12 DEF ClosedInv
<1>14. ReportInv BY <1>2, <1>12 DEF ReportInv
<1>15. SummaryInv BY <1>1 DEF SummaryInv, Published
<1> QED BY <1>6, <1>7, <1>8, <1>9, <1>10, <1>13, <1>14, <1>15 DEF WorkInv

LEMMA NextWork == IInv /\ IInv' /\ WorkInv /\ DirInv /\ [Next]_vars => WorkInv'
<1> SUFFICES ASSUME IInv, IInv', WorkInv, DirInv, [Next]_vars PROVE WorkInv' OBVIOUS
<1>1. CASE UNCHANGED vars
  <2>1. UNCHANGED <<job, next, totals, summary>> /\ calls' = calls /\ pc' = pc
        /\ UNCHANGED <<part, meta>>
    BY <1>1 DEF vars, job
  <2>2. 0 \in Ranks BY DriverAssumption DEF Ranks
  <2>3. \A s \in Ranks : Len(calls[s]) \in Nat BY Here
  <2>4. KeptFiles BY <2>1, <2>2, KeptLemma DEF WorkInv
  <2>5. Longer BY <2>1, <2>3 DEF Longer
  <2>6. ArgsInv' BY <2>1, <2>5, KeepArgs DEF WorkInv, IInv
  <2>7. NextInv' BY <2>1, SameJob DEF WorkInv, NextInv, job, PcValues, Dead
  <2>8. MetaInv' /\ PartInv' /\ TotalsInv' BY <2>1, <2>4, KeepData DEF WorkInv
  <2>9. ClosedInv' BY <2>1, <2>4, KeepClosed DEF WorkInv
  <2>10. ReportInv' BY <2>1, <2>5, KeepReport DEF WorkInv
  <2>11. SummaryInv' BY <2>1, <2>5, KeepSummary DEF WorkInv
  <2> QED BY <2>6, <2>7, <2>8, <2>9, <2>10, <2>11 DEF WorkInv
<1>2. ASSUME NEW r \in Ranks, Step(r) \/ ProcessDies(r) PROVE WorkInv'
  <2>1. CASE Start(r) BY <2>1, StartWork
  <2>2. CASE StartFails(r) BY <2>2, Abort DEF StartFails, Dead, files, results
  <2>3. CASE OpenInput(r) BY <2>3, OpenInputWork
  <2>4. CASE SizeFails(r) BY <2>4, Abort DEF SizeFails, Dead, files, results
  <2>5. CASE OpenOutputs(r) BY <2>5, OpenOutputsWork
  <2>6. CASE OpenFails(r) BY <2>6, Abort DEF OpenFails, Dead, files, results
  <2>7. CASE FitProfile(r) \/ TakeProfile(r) \/ Begin(r) BY <2>7, EarlyWork
  <2>8. CASE FitFails(r) BY <2>8, Abort DEF FitFails, Dead, files, results
  <2>9. CASE ProfileInvalid(r) BY <2>9, Abort DEF ProfileInvalid, Dead, files, results
  <2>10. CASE CompressBlock(r) BY <2>10, CompressBlockWork
  <2>11. CASE BlockFails(r) BY <2>11, Abort DEF BlockFails, Dead, results
  <2>12. CASE LeaveMapReduce(r) BY <2>12, LeaveMapReduceWork
  <2>13. CASE MapReduceFails(r) BY <2>13, Abort DEF MapReduceFails, Dead, results
  <2>14. CASE CloseFiles(r) BY <2>14, CloseFilesWork
  <2>15. CASE Report(r) BY <2>15, ReportWork
  <2>16. CASE CreateSummary(r) \/ CloseSummary(r) BY <2>16, CreateSummaryWork, CloseSummaryWork
  <2>17. CASE CreateIndex(r) \/ CloseIndex(r) BY <2>17, IndexWork
  <2>18. CASE Killed(r) BY <2>18, Abort DEF Killed, Dead, results
  <2>19. CASE ProcessDies(r) BY <2>19, Abort DEF ProcessDies, Dead, results
  <2> QED BY <1>2, <2>1, <2>2, <2>3, <2>4, <2>5, <2>6, <2>7, <2>8, <2>9, <2>10, <2>11, <2>12,
             <2>13, <2>14, <2>15, <2>16, <2>17, <2>18, <2>19 DEF Step
<1> QED BY <1>1, <1>2 DEF Next

\* Only rank 0 touches the summary and the index, in this order.
LEMMA NextDir == IInv /\ WorkInv /\ DirInv /\ [Next]_vars => DirInv'
<1> SUFFICES ASSUME IInv, WorkInv, DirInv, [Next]_vars PROVE DirInv' OBVIOUS
<1>1. 0 \in Ranks /\ pc \in [Ranks -> PcValues] BY DriverAssumption DEF Ranks, IInv, PcInv
<1>2. ASSUME UNCHANGED <<summary, index>>, stale' \subseteq stale,
             pc'[0] = pc[0] \/ pc'[0] \notin {"gather", "summary"}
      PROVE  DirInv'
  BY <1>2 DEF DirInv, Published
<1>3. ASSUME NEW r \in Ranks, NEW to, Goto(r, to) PROVE pc'[0] = pc[0] \/ pc'[0] = to
  BY <1>1, <1>3 DEF Goto
<1>4. CASE UNCHANGED vars BY <1>2, <1>4 DEF vars
<1>5. ASSUME NEW r \in Ranks, Step(r) \/ ProcessDies(r) PROVE DirInv'
  <2>1. CASE Start(r) \/ OpenInput(r) \/ FitProfile(r) \/ TakeProfile(r) \/ Begin(r)
    BY <1>2, <1>3, <2>1 DEF Start, OpenInput, FitProfile, TakeProfile, Begin, Enter, results
  <2>2. CASE StartFails(r) \/ SizeFails(r) \/ FitFails(r) \/ ProfileInvalid(r)
    BY <1>2, <1>3, <2>2 DEF StartFails, SizeFails, FitFails, ProfileInvalid, results
  <2>3. CASE OpenOutputs(r) \/ OpenFails(r)
    BY <1>2, <1>3, <2>3 DEF OpenOutputs, OpenFails, Enter
  <2>4. CASE CompressBlock(r) \/ LeaveMapReduce(r) \/ CloseFiles(r)
    BY <1>2, <1>3, <2>4 DEF CompressBlock, LeaveMapReduce, CloseFiles, Enter, results
  <2>5. CASE BlockFails(r) \/ MapReduceFails(r) \/ Killed(r) \/ ProcessDies(r)
    BY <1>2, <1>3, <2>5 DEF BlockFails, MapReduceFails, Killed, ProcessDies, results
  <2>6. CASE Report(r)
    <3>1. UNCHANGED <<summary, index, stale>> /\ pc[r] = "closed" BY <2>6 DEF Report, results
    <3>2. PICK to \in {"gather", "done"} : Goto(r, to) BY <2>6 DEF Report, Enter
    <3>3. Len(calls[r]) = EndCall /\ EndCall \in Nat /\ ReportCall = EndCall + 1
      BY <3>1, Positions
    <3>4. ~(Len(calls[r]) >= ReportCall) /\ DOMAIN calls = Ranks BY <3>3 DEF IInv, LogTyped
    <3>5. ~AllEntered(calls, ReportCall) BY <3>4 DEF AllEntered
    <3>6. ~Published /\ ~Published' BY <3>1, <3>5 DEF WorkInv, SummaryInv, Published
    <3>7. pc'[0] = pc[0] \/ pc'[0] \in {"gather", "done"} BY <1>3, <3>2
    <3> QED BY <3>1, <3>6, <3>7 DEF DirInv
  <2>7. CASE CreateSummary(r)
    BY <1>1, <2>7 DEF CreateSummary, Goto, DirInv, TornSummary, Published
  <2>8. CASE CloseSummary(r)
    <3>1. pc'[0] = "index" /\ UNCHANGED <<index, stale>> /\ summary'.kind = "whole"
      BY <1>1, <2>8 DEF CloseSummary, Goto, TotalsSummary
    <3> QED BY <3>1 DEF DirInv
  <2>9. CASE CreateIndex(r) \/ CloseIndex(r)
    BY <1>1, <2>9 DEF CreateIndex, CloseIndex, Goto, DirInv, Published
  <2> QED BY <1>5, <2>1, <2>2, <2>3, <2>4, <2>5, <2>6, <2>7, <2>8, <2>9 DEF Step
<1> QED BY <1>4, <1>5 DEF Next

LEMMA InitDir == Init => DirInv
<1> SUFFICES ASSUME Init PROVE DirInv OBVIOUS
<1>1. 0 \in Ranks BY DriverAssumption DEF Ranks
<1> QED BY <1>1 DEF Init, DirInv, NoSummary, EarlierSummary

\* What every rank has done, whoever has died: the files describe each other, and
\* the totals count what is in them.
THEOREM DriverWork == Spec => [](IInv /\ WorkInv /\ DirInv)
<1>1. Init => IInv /\ WorkInv /\ DirInv BY InitIInv, InitWork, InitDir
<1>2. IInv /\ WorkInv /\ DirInv /\ [Next]_vars => (IInv /\ WorkInv /\ DirInv)'
  BY NextIInv, NextWork, NextDir
<1> QED BY <1>1, <1>2, PTL DEF Spec


\* The variables have their types, and a rank stays on its own blocks.
THEOREM DriverTypes == Spec => []TypeOK
<1>1. ASSUME IInv, WorkInv, DirInv PROVE TypeOK
  <2>1. args \in ArgChoices /\ pc \in [Ranks -> PcValues] /\ DOMAIN calls = Ranks
    BY <1>1 DEF IInv, PcInv, LogTyped
  <2>2. DOMAIN profile = Ranks BY <1>1 DEF IInv, ProfileInv
  <2>3. \A r \in Ranks : next[r] \in Nat /\ (~IsMapReduce => next[r] % NRanks = r)
    BY <1>1 DEF WorkInv, NextInv
  <2>4. \A r \in Ranks : part[r].saved \in 0..Len(part[r].data)
    BY <1>1 DEF IInv, FileInv, SoundFile
  <2>5. \A r \in Ranks : meta[r].saved \in 0..Len(meta[r].data)
    BY <1>1 DEF WorkInv, MetaInv, IsFile
  <2>6. \A r \in Ranks : totals[r] \in [input : Nat, compressed : Nat, blocks : Nat]
    BY <1>1 DEF WorkInv, TotalsInv, TotalsOf
  <2>7. input_size \in InputSizes BY <1>1 DEF WorkInv, ArgsInv
  <2>8. summary.kind \in {"none", "earlier", "torn", "whole"}
        /\ index \in {"none", "earlier", "torn", "whole"} /\ stale \subseteq Ranks
    BY <1>1 DEF DirInv
  <2> QED BY <2>1, <2>2, <2>3, <2>4, <2>5, <2>6, <2>7, <2>8 DEF TypeOK, IsMapReduce
<1> QED BY <1>1, DriverWork, PTL

-----------------------------------------------------------------------------
(* A disk that takes what it is given *)

DiskInv == ~DiskMayFail => NoWriteFailed

LEMMA NextDisk == IInv /\ MetaInv /\ DiskInv /\ [Next]_vars => DiskInv'
<1> SUFFICES ASSUME IInv, MetaInv, NoWriteFailed, ~DiskMayFail, [Next]_vars PROVE NoWriteFailed'
  BY DEF DiskInv
<1>1. ASSUME part' = part PROVE NoWriteFailed' BY <1>1 DEF NoWriteFailed
<1>2. ASSUME NEW r \in Ranks, LoseBuffers(r) PROVE NoWriteFailed'
  <2>1. KeptFiles BY <1>2, KeptLemma
  <2> QED BY <2>1 DEF NoWriteFailed, KeptFiles, KeptFile
<1>3. ASSUME NEW r \in Ranks, NEW f, f.ok, part' = [part EXCEPT ![r] = f] PROVE NoWriteFailed'
  BY <1>3 DEF NoWriteFailed, IInv, FileInv
<1>4. \A r \in Ranks : IsFile(part[r]) /\ part[r].ok
  BY DEF IInv, FileInv, SoundFile, IsFile, NoWriteFailed
<1>5. ASSUME NEW r \in Ranks, NEW x, NEW size, NEW f \in AfterWrite(part[r], x, size)
      PROVE  IsFile(f) /\ f.ok
  <2>1. f = [part[r] EXCEPT !.data = Append(@, x), !.pos = @ + size]
    BY <1>4 DEF AfterWrite
  <2>2. f = [data |-> Append(part[r].data, x), saved |-> part[r].saved,
             pos |-> part[r].pos + size, ok |-> part[r].ok]
    BY <1>4, <2>1, WrittenFile
  <2> QED BY <1>4, <1>5, <2>2, ChunkFile
<1>6. CASE UNCHANGED vars BY <1>1, <1>6 DEF vars
<1>7. ASSUME NEW r \in Ranks, Step(r) \/ ProcessDies(r) PROVE NoWriteFailed'
  <2>1. CASE OpenOutputs(r)
    <3>1. NewFile.ok BY DEF NewFile
    <3> QED BY <1>3, <2>1, <3>1 DEF OpenOutputs
  <2>2. CASE CompressBlock(r)
    <3>1. PICK x, size : \E f \in AfterWrite(part[r], x, size) : part' = [part EXCEPT ![r] = f]
      BY <2>2 DEF CompressBlock, Write
    <3> QED BY <1>3, <1>5, <3>1
  <2>3. CASE LeaveMapReduce(r)
    <3>1. PICK x, size : \E f \in AfterWrite(part[r], x, size) :
            part' = [part EXCEPT ![r] = Flushed(f)]
      BY <2>3 DEF LeaveMapReduce
    <3>2. PICK f \in AfterWrite(part[r], x, size) : part' = [part EXCEPT ![r] = Flushed(f)]
      BY <3>1
    <3>3. Flushed(f).ok BY <1>5, FlushedFile
    <3> QED BY <1>3, <3>2, <3>3
  <2>4. CASE CloseFiles(r)
    <3>1. part' = [part EXCEPT ![r] = Flushed(part[r])] BY <2>4 DEF CloseFiles
    <3>2. Flushed(part[r]).ok BY <1>4, FlushedFile
    <3> QED BY <1>3, <3>1, <3>2
  <2>5. CASE BlockFails(r) \/ MapReduceFails(r) \/ Killed(r) \/ ProcessDies(r)
    BY <1>2, <2>5 DEF BlockFails, MapReduceFails, Killed, ProcessDies
  <2>6. CASE Start(r) \/ StartFails(r) \/ OpenInput(r) \/ SizeFails(r) \/ OpenFails(r)
    BY <1>1, <2>6 DEF Start, StartFails, OpenInput, SizeFails, OpenFails, files
  <2>7. CASE FitProfile(r) \/ FitFails(r) \/ TakeProfile(r) \/ ProfileInvalid(r) \/ Begin(r)
    BY <1>1, <2>7 DEF FitProfile, FitFails, TakeProfile, ProfileInvalid, Begin, files
  <2>8. CASE Report(r) \/ WriteResults(r)
    BY <1>1, <2>8 DEF Report, WriteResults, CreateSummary, CloseSummary, CreateIndex, CloseIndex,
                      files
  <2> QED BY <1>7, <2>1, <2>2, <2>3, <2>4, <2>5, <2>6, <2>7, <2>8 DEF Step, WriteResults
<1> QED BY <1>6, <1>7 DEF Next

LEMMA DriverDisk == Spec => [](IInv /\ WorkInv /\ DirInv /\ DiskInv)
<1>1. Init => DiskInv
  <2> SUFFICES ASSUME Init, NEW r \in Ranks PROVE part[r].ok BY DEF DiskInv, NoWriteFailed
  <2> QED BY DEF Init, NewFile
<1>2. IInv /\ WorkInv => MetaInv BY DEF WorkInv
<1> QED BY <1>1, <1>2, NextDisk, DriverWork, PTL DEF Spec

-----------------------------------------------------------------------------
(* When the summary is there *)

\* Everyone is done with its blocks and has flushed its files.
LEMMA Finished ==
  ASSUME IInv, WorkInv, Published
  PROVE  /\ Sized /\ ArgsAccepted
         /\ \A r \in Ranks : /\ Done(r) = Owned(r)
                             /\ IsMapReduce => next[r] # r
                             /\ Saved(part[r]) = Chunks(part[r])
                             /\ Saved(meta[r]) = Chunks(meta[r])
         /\ summary = TotalsSummary(totals)
<1>1. summary.kind = "whole" BY DEF Published
<1>2. AllEntered(calls, ReportCall) /\ DOMAIN calls = Ranks
  BY <1>1 DEF WorkInv, SummaryInv, IInv, LogTyped
<1>3. EndCall \in Nat /\ EndCall >= 4 /\ ReportCall = EndCall + 1
      /\ \A r \in Ranks : Len(calls[r]) \in Nat
  BY Positions
<1>4. \A r \in Ranks : Len(calls[r]) >= ReportCall BY <1>2 DEF AllEntered
<1>5. \A r \in Ranks : Len(calls[r]) >= EndCall /\ Len(calls[r]) >= 1 /\ Len(calls[r]) >= 2
  BY <1>3, <1>4
<1>6. 0 \in Ranks /\ \A r \in Ranks : r \in Nat BY DriverAssumption DEF Ranks
<1>7. Sized /\ ArgsAccepted BY <1>5, <1>6, SizedLemma DEF WorkInv, ArgsInv
<1>8. ASSUME NEW r \in Ranks
      PROVE  /\ Done(r) = Owned(r) /\ (IsMapReduce => next[r] # r)
             /\ Saved(part[r]) = Chunks(part[r]) /\ Saved(meta[r]) = Chunks(meta[r])
  <2>1. /\ next[r] >= NumBlocks /\ (IsMapReduce => next[r] = NumBlocks + r)
        /\ part[r].saved = Len(part[r].data) /\ meta[r].saved = Len(meta[r].data)
    BY <1>5 DEF WorkInv, ClosedInv
  <2>2. next[r] \in Nat BY DEF WorkInv, NextInv
  <2>3. Done(r) = Owned(r) BY <1>7, <2>1, <2>2, DoneLemma
  <2>4. NumBlocks \in Nat \ {0} BY <1>7, SizesLemma
  <2>5. IsMapReduce => next[r] # r BY <1>6, <2>1, <2>4
  <2> QED BY <2>1, <2>3, <2>5 DEF Saved, Chunks
<1> QED BY <1>1, <1>7, <1>8 DEF WorkInv, SummaryInv

\* The ranks' blocks are all the blocks, and their bytes all the bytes.
LEMMA Shares ==
  ASSUME Sized
  PROVE  /\ SumFunction([s \in Ranks |-> Cardinality(Owned(s))]) = NumBlocks
         /\ SumFunction([s \in Ranks |-> Cardinality(BytesOf(Owned(s)))]) = AlignedSize
<1>1. NRanks \in Nat \ {0} BY DriverAssumption
<1>2. AlignedSize \in Nat /\ NumBlocks \in Nat \ {0}
      /\ \A i \in 0..(AlignedSize - 1) : i \div args.block_size \in 0..(NumBlocks - 1)
  BY SizesLemma
<1>3. IsFiniteSet(Ranks) BY <1>1, FS_Interval DEF Ranks
<1>4. ASSUME NEW n \in Nat PROVE IsFiniteSet(0..(n - 1)) /\ Cardinality(0..(n - 1)) = n
  <2>1. 0 \in Int /\ n - 1 \in Int BY <1>4
  <2>2. IsFiniteSet(0..(n - 1))
        /\ Cardinality(0..(n - 1)) = IF 0 > n - 1 THEN 0 ELSE n - 1 - 0 + 1
    BY <2>1, FS_Interval
  <2> QED BY <2>2
<1>5. UNION {Owned(s) : s \in Ranks} = 0..(NumBlocks - 1)
  <2>1. \A b \in 0..(NumBlocks - 1) : b % NRanks \in Ranks BY <1>1, ModuloLemma DEF Ranks
  <2> QED BY <2>1 DEF Owned
<1>6. UNION {BytesOf(Owned(s)) : s \in Ranks} = 0..(AlignedSize - 1)
  <2>1. ASSUME NEW i \in 0..(AlignedSize - 1) PROVE \E s \in Ranks : i \in BytesOf(Owned(s))
    <3>1. i \div args.block_size \in 0..(NumBlocks - 1) BY <1>2
    <3>2. PICK s \in Ranks : i \div args.block_size \in Owned(s) BY <1>5, <3>1
    <3> QED BY <3>2 DEF BytesOf
  <2>2. \A s \in Ranks : BytesOf(Owned(s)) \subseteq 0..(AlignedSize - 1) BY DEF BytesOf
  <2> QED BY <2>1, <2>2
<1>7. \A s, t \in Ranks : s # t => Owned(s) \cap Owned(t) = {} BY DEF Owned
<1>8. \A s, t \in Ranks : s # t => BytesOf(Owned(s)) \cap BytesOf(Owned(t)) = {}
  BY <1>7 DEF BytesOf
<1>9. SumFunction([s \in Ranks |-> Cardinality(Owned(s))]) = NumBlocks
  <2> DEFINE f == [s \in Ranks |-> Cardinality(Owned(s))]
             h == [s \in Ranks |-> Owned(s)]
  <2>1. DOMAIN f = Ranks /\ \A s \in Ranks : IsFiniteSet(h[s]) /\ f[s] = Cardinality(h[s])
    BY OwnedFinite
  <2>2. \A s, t \in Ranks : s # t => h[s] \cap h[t] = {} BY <1>7
  <2>3. UNION {h[s] : s \in Ranks} = 0..(NumBlocks - 1) BY <1>5
  <2> HIDE DEF f, h
  <2>4. SumFunction(f) = Cardinality(0..(NumBlocks - 1))
    <3>1. IsFiniteSet(0..(NumBlocks - 1)) BY <1>2, <1>4
    <3>2. UNION {h[s] : s \in DOMAIN f} = 0..(NumBlocks - 1) BY <2>1, <2>3
    <3>3. /\ IsFiniteSet(DOMAIN f) /\ IsFiniteSet(UNION {h[s] : s \in DOMAIN f})
          /\ \A s \in DOMAIN f : IsFiniteSet(h[s]) /\ f[s] = Cardinality(h[s])
          /\ \A s, t \in DOMAIN f : s # t => h[s] \cap h[t] = {}
      BY <1>3, <2>1, <2>2, <3>1, <3>2
    <3>4. SumFunction(f) = Cardinality(UNION {h[s] : s \in DOMAIN f}) BY <3>3, DisjointSum
    <3> QED BY <3>2, <3>4
  <2> QED BY <1>2, <1>4, <2>4 DEF f
<1>10. SumFunction([s \in Ranks |-> Cardinality(BytesOf(Owned(s)))]) = AlignedSize
  <2> DEFINE f == [s \in Ranks |-> Cardinality(BytesOf(Owned(s)))]
             h == [s \in Ranks |-> BytesOf(Owned(s))]
  <2>1. DOMAIN f = Ranks /\ \A s \in Ranks : IsFiniteSet(h[s]) /\ f[s] = Cardinality(h[s])
    BY BytesFinite
  <2>2. \A s, t \in Ranks : s # t => h[s] \cap h[t] = {} BY <1>8
  <2>3. UNION {h[s] : s \in Ranks} = 0..(AlignedSize - 1) BY <1>6
  <2> HIDE DEF f, h
  <2>4. SumFunction(f) = Cardinality(0..(AlignedSize - 1))
    <3>1. IsFiniteSet(0..(AlignedSize - 1)) BY <1>2, <1>4
    <3>2. UNION {h[s] : s \in DOMAIN f} = 0..(AlignedSize - 1) BY <2>1, <2>3
    <3>3. /\ IsFiniteSet(DOMAIN f) /\ IsFiniteSet(UNION {h[s] : s \in DOMAIN f})
          /\ \A s \in DOMAIN f : IsFiniteSet(h[s]) /\ f[s] = Cardinality(h[s])
          /\ \A s, t \in DOMAIN f : s # t => h[s] \cap h[t] = {}
      BY <1>3, <2>1, <2>2, <3>1, <3>2
    <3>4. SumFunction(f) = Cardinality(UNION {h[s] : s \in DOMAIN f}) BY <3>3, DisjointSum
    <3> QED BY <3>2, <3>4
  <2> QED BY <1>2, <1>4, <2>4 DEF f
<1> QED BY <1>9, <1>10

\* Unless a write has failed, summary.json counts what is on disk: for any number of
\* ranks and any input all blocks, all bytes of whole points and all chunks.
LEMMA SummaryCounts ==
  ASSUME IInv, WorkInv, NoWriteFailed
  PROVE  SummaryMatchesDisk
<1> SUFFICES ASSUME Published
             PROVE  /\ summary.num_blocks = NumBlocks
                    /\ summary.input_bytes = AlignedSize
                    /\ summary.compressed_bytes =
                         SumFunction([r \in Ranks |-> SumFunction([c \in Saved(part[r]) |-> c.size])])
  BY DEF SummaryMatchesDisk
<1>1. /\ Sized
      /\ \A r \in Ranks : Done(r) = Owned(r) /\ Saved(part[r]) = Chunks(part[r])
      /\ summary.num_blocks = SumFunction([s \in Ranks |-> totals[s].blocks])
      /\ summary.input_bytes = SumFunction([s \in Ranks |-> totals[s].input])
      /\ summary.compressed_bytes = SumFunction([s \in Ranks |-> totals[s].compressed])
  BY Finished DEF TotalsSummary
<1>2. \A s \in Ranks : /\ totals[s].blocks = Cardinality(Owned(s))
                       /\ totals[s].input = Cardinality(BytesOf(Owned(s)))
                       /\ totals[s].compressed = ChunkBytes(Saved(part[s]))
  BY <1>1 DEF WorkInv, TotalsInv, TotalsOf, NoWriteFailed
<1>3. /\ [s \in Ranks |-> totals[s].blocks] = [s \in Ranks |-> Cardinality(Owned(s))]
      /\ [s \in Ranks |-> totals[s].input] = [s \in Ranks |-> Cardinality(BytesOf(Owned(s)))]
      /\ [s \in Ranks |-> totals[s].compressed] = [s \in Ranks |-> ChunkBytes(Saved(part[s]))]
  BY <1>2
<1>4. [s \in Ranks |-> ChunkBytes(Saved(part[s]))]
        = [r \in Ranks |-> SumFunction([c \in Saved(part[r]) |-> c.size])]
  BY DEF ChunkBytes
<1> QED BY <1>1, <1>3, <1>4, Shares, Zenon

\* Where the disk takes what it is given, summary.json counts what is on disk: for any
\* number of ranks, whoever dies, all blocks, all bytes of whole points, all chunks.
THEOREM SummaryIsTrue == Spec => [](~DiskMayFail => SummaryMatchesDisk)
<1>1. IInv /\ WorkInv /\ DiskInv => (~DiskMayFail => SummaryMatchesDisk)
  BY SummaryCounts DEF DiskInv
<1> QED BY <1>1, DriverDisk, PTL


-----------------------------------------------------------------------------
(* The archive appears at once and whole *)

\* A multiple leaves no remainder, and what leaves none is a multiple.
LEMMA Multiples ==
  ASSUME NEW d \in Nat \ {0}, NEW a \in Int
  PROVE  /\ a % d = 0 => a \div d \in Int /\ a = d * (a \div d)
         /\ \A q \in Int : a = d * q => a % d = 0
<1>1. /\ a \div d \in Int /\ a = d * (a \div d) + (a % d) BY ModuloLemma
<1>2. d * (a \div d) \in Int BY <1>1, Products
<1>3. ASSUME a % d = 0 PROVE a = d * (a \div d)
  <2> DEFINE m == d * (a \div d)
  <2>1. a = m + 0 /\ m \in Int BY <1>1, <1>2, <1>3
  <2> HIDE DEF m
  <2>2. a = m BY <2>1
  <2> QED BY <2>2 DEF m
<1>4. ASSUME NEW q \in Int, a = d * q PROVE a % d = 0
  <2> DEFINE m == d * q
             x == 0
  <2>1. a = m /\ m \in Int BY <1>4, Products
  <2> HIDE DEF m
  <2>2. a = m + x BY <2>1
  <2>3. x \in 0..(d - 1) OBVIOUS
  <2>4. a = d * q + x BY <2>2 DEF m
  <2> HIDE DEF x
  <2>5. a \div d = q /\ a % d = x BY <2>3, <2>4, DivisionUnique
  <2> QED BY <2>5 DEF x
<1> QED BY <1>1, <1>3, <1>4

\* Multiples of the size of a point are at least a point apart.
LEMMA WholePoints ==
  ASSUME NEW d \in Nat \ {0}, NEW p \in Int, NEW m \in Int, m % d = 0, p * d < m
  PROVE  (p + 1) * d <= m
<1> DEFINE q == m \div d
<1>1. q \in Int /\ m = d * q + 0
  <2>1. q \in Int /\ m = d * q + (m % d) BY ModuloLemma
  <2> QED BY <2>1
<1> HIDE DEF q
<1>2. d * q \in Int /\ p * d \in Int BY <1>1, Products
<1>3. p + 1 <= q
  <2> SUFFICES ASSUME q <= p PROVE FALSE BY <1>1
  <2>1. d * (p - q) >= 0 BY <1>1, Products
  <2>2. d * (p - q) = p * d - d * q BY <1>1
  <2> QED BY <1>1, <1>2, <2>1, <2>2
<1>4. d * (q - p - 1) >= 0 BY <1>1, <1>3, Products
<1>5. d * (q - p - 1) = d * q - (p + 1) * d BY <1>1
<1>6. (p + 1) * d \in Int BY Products
<1> QED BY <1>1, <1>2, <1>4, <1>5, <1>6

\* A block begins and ends between two points.
LEMMA BlockPoints ==
  ASSUME Sized, ArgsAccepted, NEW p \in Points
  PROVE  LET b == (p * PointBytes) \div args.block_size IN
           /\ p * PointBytes \in 0..(AlignedSize - 1) /\ b \in 0..(NumBlocks - 1)
           /\ InputOffset(b) <= p * PointBytes
           /\ (p + 1) * PointBytes <= InputOffset(b) + InputSize(b)
<1> DEFINE bs == args.block_size
           A == AlignedSize
           i == p * PointBytes
           b == i \div bs
<1>1. /\ bs \in Nat \ {0} /\ A \in Nat /\ NumBlocks \in Nat \ {0} /\ PointBytes \in Nat \ {0}
      /\ bs % PointBytes = 0
  BY SizesLemma, DriverAssumption DEF ArgsAccepted
<1>2. A % PointBytes = 0
  <2> DEFINE q == input_size \div PointBytes
             m == PointBytes * q
  <2>1. input_size \in Int BY DriverAssumption DEF Sized
  <2>2. /\ q \in Int /\ input_size = m + (input_size % PointBytes)
        /\ input_size % PointBytes \in 0..(PointBytes - 1) /\ m \in Int
    <3>1. PointBytes \in Nat \ {0} BY <1>1
    <3>2. /\ q \in Int /\ input_size = m + (input_size % PointBytes)
          /\ input_size % PointBytes \in 0..(PointBytes - 1)
      BY <2>1, <3>1, ModuloLemma
    <3>3. PointBytes \in Int BY <3>1
    <3> HIDE DEF q
    <3>4. m \in Int BY <3>2, <3>3, Products
    <3> QED BY <3>2, <3>4
  <2> HIDE DEF m
  <2>3. A = m /\ A \in Int BY <1>1, <2>1, <2>2 DEF AlignedSize
  <2>4. A = PointBytes * q BY <2>3 DEF m
  <2> HIDE DEF q, A
  <2> QED BY <1>1, <2>2, <2>3, <2>4, Multiples, Zenon
<1>3. p \in Nat /\ p < A \div PointBytes
  <2>1. A \div PointBytes \in Int BY <1>1, DivBounds
  <2> QED BY <2>1 DEF Points
<1>4. i \in Int /\ 0 <= i /\ i < A
  <2> DEFINE q == A \div PointBytes
             m == PointBytes * q
  <2>1. q \in Int /\ A = m /\ p < q BY <1>1, <1>2, <1>3, Multiples
  <2> HIDE DEF q, A
  <2>2. i \in Int /\ 0 <= i /\ m \in Int BY <1>1, <1>3, <2>1, Products
  <2>3. PointBytes * (q - p - 1) >= 0 BY <1>1, <1>3, <2>1, Products
  <2>4. PointBytes * (q - p - 1) = m - i - PointBytes BY <1>1, <1>3, <2>1
  <2>5. m - i - PointBytes >= 0 BY <2>3, <2>4
  <2> HIDE DEF m, i
  <2> QED BY <1>1, <2>1, <2>2, <2>5
<1>5. i \in 0..(A - 1) BY <1>1, <1>4
<1>6. b \in 0..(NumBlocks - 1) BY <1>5, SizesLemma
<1>7. /\ InputOffset(b) \in Int /\ InputSize(b) \in Int /\ 0 < InputSize(b)
      /\ InputSize(b) <= bs /\ InputOffset(b) + InputSize(b) <= A
      /\ InputSize(b) = bs \/ InputOffset(b) + InputSize(b) = A
      /\ b \in Int
  BY <1>1, <1>6, SizesLemma
<1>8. InputOffset(b) = b * bs /\ bs * b <= i /\ i < bs * b + bs
  BY <1>1, <1>4, DivBounds DEF InputOffset
<1> HIDE DEF b, bs, A
<1>9. b * bs \in Int /\ bs * b = b * bs BY <1>1, <1>7, Products
<1>10. InputOffset(b) <= i /\ i < InputOffset(b) + bs BY <1>4, <1>7, <1>8, <1>9
<1>11. (p + 1) * PointBytes <= InputOffset(b) + InputSize(b)
  <2>1. CASE InputOffset(b) + InputSize(b) = A
    <3>1. A \in Int /\ p \in Int /\ p * PointBytes < A BY <1>1, <1>3, <1>4
    <3>2. (p + 1) * PointBytes <= A BY <1>1, <1>2, <3>1, WholePoints
    <3> QED BY <2>1, <3>2
  <2>2. CASE InputSize(b) = bs
    <3> DEFINE m == b * bs + bs
               q == bs \div PointBytes
    <3>1. q \in Int /\ bs = PointBytes * q BY <1>1, Multiples
    <3> HIDE DEF q
    <3>2. (b + 1) * q \in Int BY <1>7, <3>1, Products
    <3>3. m = (b + 1) * bs BY <1>1, <1>7
    <3>4. (b + 1) * (PointBytes * q) = PointBytes * ((b + 1) * q) BY <1>1, <1>7, <3>1, <3>2
    <3>5. m = PointBytes * ((b + 1) * q) BY <3>1, <3>3, <3>4
    <3>6. m \in Int /\ i < m BY <1>1, <1>8, <1>9
    <3> HIDE DEF m
    <3>7. m % PointBytes = 0 BY <1>1, <3>2, <3>5, <3>6, Multiples
    <3>8. p \in Int /\ p * PointBytes < m BY <1>3, <3>6
    <3>9. (p + 1) * PointBytes <= m BY <1>1, <3>6, <3>7, <3>8, WholePoints
    <3> QED BY <1>8, <2>2, <3>9 DEF m
  <2> QED BY <1>7, <2>1, <2>2
<1> QED BY <1>5, <1>6, <1>10, <1>11 DEF b, bs, A

LEMMA ManifestLines ==
  /\ \A r \in Ranks : \A e \in Saved(meta[r]) : <<r, e>> \in Manifest
  /\ \A x \in Manifest : \E r \in Ranks : \E e \in Saved(meta[r]) : x = <<r, e>>
<1>1. ASSUME NEW r \in Ranks, NEW e \in Saved(meta[r]) PROVE <<r, e>> \in Manifest
  <2>1. <<r, e>> \in Lines BY DEF Lines
  <2> QED BY <2>1 DEF Manifest
<1>2. ASSUME NEW x \in Manifest PROVE \E r \in Ranks : \E e \in Saved(meta[r]) : x = <<r, e>>
  <2>1. x \in Lines /\ x[2] \in Saved(meta[x[1]]) BY DEF Manifest
  <2>2. PICK r \in Ranks, e \in UNION {Saved(meta[s]) : s \in Ranks} : x = <<r, e>>
    BY <2>1 DEF Lines
  <2> QED BY <2>1, <2>2
<1> QED BY <1>1, <1>2

\* A line of a manifest is one of those written, and its chunk is on disk.
LEMMA WhereItSays ==
  ASSUME IInv, WorkInv, NoWriteFailed, Published, NEW x \in Manifest
  PROVE  /\ Located(x)
         /\ \E r \in Ranks : \E i \in 1..Len(meta[r].data) : x = <<r, meta[r].data[i]>>
<1>0. PICK r \in Ranks : \E e \in Saved(meta[r]) : x = <<r, e>> BY ManifestLines
<1>1. PICK e \in Saved(meta[r]) : x = <<r, e>> BY <1>0
<1>2. Saved(part[r]) = Chunks(part[r]) /\ Saved(meta[r]) = Chunks(meta[r]) BY Finished
<1>3. PICK i \in 1..Len(meta[r].data) : e = meta[r].data[i] BY <1>1, <1>2 DEF Chunks
<1>4. Describes(meta[r], part[r]) BY DEF WorkInv, PartInv, NoWriteFailed
<1>5. part[r].data[i] \in Saved(part[r]) BY <1>2, <1>3, <1>4 DEF Describes, Chunks
<1>6. /\ part[r].data[i].at = e.part_offset /\ part[r].data[i].size = e.size
      /\ part[r].data[i].block = e.block
  BY <1>3, <1>4 DEF Describes
<1> QED BY <1>1, <1>3, <1>5, <1>6 DEF Located

\* One line, and no other, covers a point: that of the block its bytes are in.
LEMMA PointsCovered ==
  ASSUME IInv, WorkInv, NoWriteFailed, Published, ~IsMapReduce, NEW p \in Points
  PROVE  CoveredOnce(p)
<1> DEFINE i == p * PointBytes
           b == i \div args.block_size
           r == b % NRanks
<1>1. /\ Sized /\ ArgsAccepted
      /\ \A s \in Ranks : Done(s) = Owned(s) /\ Saved(meta[s]) = Chunks(meta[s])
  BY Finished
<1>2. /\ i \in 0..(AlignedSize - 1) /\ b \in 0..(NumBlocks - 1)
      /\ InputOffset(b) <= i /\ (p + 1) * PointBytes <= InputOffset(b) + InputSize(b)
  BY <1>1, BlockPoints
<1>3. \A s \in Ranks : LinesOf(meta[s], s) BY DEF WorkInv, MetaInv
<1>4. r \in Ranks /\ b \in Owned(r)
  <2>1. NumBlocks \in Nat \ {0} /\ NRanks \in Nat \ {0} BY <1>1, SizesLemma, DriverAssumption
  <2>2. b \in Int BY <1>2, <2>1
  <2> HIDE DEF b
  <2>3. r \in Ranks BY <2>1, <2>2, ModuloLemma DEF Ranks
  <2> QED BY <1>2, <2>3 DEF Owned
<1>5. (p + 1) * PointBytes = i + PointBytes /\ i \in Int /\ PointBytes \in Nat \ {0}
      /\ AlignedSize \in Nat /\ args.block_size \in Nat \ {0}
  <2>1. AlignedSize \in Nat /\ args.block_size \in Nat \ {0} /\ PointBytes \in Nat \ {0}
    BY <1>1, SizesLemma, DriverAssumption
  <2>2. AlignedSize \div PointBytes \in Int BY <2>1, DivBounds
  <2>3. p \in Int BY <2>2 DEF Points
  <2> QED BY <2>1, <2>3, Products
<1> HIDE DEF i, b, r
<1>6. PICK k \in 1..Len(meta[r].data) : meta[r].data[k].block = b
  BY <1>1, <1>3, <1>4 DEF LinesOf
<1> DEFINE x == <<r, meta[r].data[k]>>
<1>7. x \in Manifest /\ Located(x)
  <2>1. meta[r].data[k] \in Saved(meta[r]) BY <1>1, <1>4, <1>6 DEF Chunks
  <2>2. x \in Manifest BY <1>4, <2>1, ManifestLines
  <2> QED BY <2>2, WhereItSays
<1>8. Covers(x, p)
  <2>1. meta[r].data[k].from = InputOffset(b) /\ meta[r].data[k].bytes = InputSize(b)
    BY <1>3, <1>4, <1>6 DEF LinesOf
  <2> QED BY <1>2, <2>1 DEF Covers, i
<1>9. ASSUME NEW y \in Manifest, Covers(y, p) PROVE y = x
  <2>0. PICK s \in Ranks : \E j \in 1..Len(meta[s].data) : y = <<s, meta[s].data[j]>>
    BY WhereItSays
  <2>1. PICK j \in 1..Len(meta[s].data) : y = <<s, meta[s].data[j]>> BY <2>0
  <2> DEFINE c == meta[s].data[j].block
  <2>2. /\ c \in Done(s) /\ meta[s].data[j].from = InputOffset(c)
        /\ meta[s].data[j].bytes = InputSize(c)
    BY <1>3, <2>1 DEF LinesOf
  <2>3. c \in 0..(NumBlocks - 1) /\ c % NRanks = s BY <1>1, <2>2 DEF Owned
  <2>4. /\ InputOffset(c) <= i /\ i + PointBytes <= InputOffset(c) + InputSize(c)
    BY <1>5, <1>9, <2>1, <2>2 DEF Covers, i
  <2> HIDE DEF c
  <2>5. /\ c \in Int /\ InputOffset(c) \in Int /\ InputSize(c) \in Int
        /\ InputSize(c) <= args.block_size
    <3>1. NumBlocks \in Nat \ {0} BY <1>1, SizesLemma
    <3>2. c \in Int BY <2>3, <3>1
    <3> QED BY <1>1, <2>3, <3>2, SizesLemma
  <2>6. i < InputOffset(c) + args.block_size BY <1>5, <2>4, <2>5
  <2>7. i \div args.block_size = c BY <1>1, <1>5, <2>4, <2>5, <2>6, BlockOfByte
  <2>8. c = b /\ s = r BY <2>3, <2>7 DEF b, r
  <2>9. meta[r].data[j].block = b /\ j \in 1..Len(meta[r].data) BY <2>1, <2>8 DEF c
  <2>10. j = k BY <1>3, <1>4, <1>6, <2>9 DEF LinesOf
  <2> QED BY <2>1, <2>8, <2>10
<1> QED BY <1>7, <1>8, <1>9 DEF CoveredOnce

\* So a reader who sees the summary gets back everything.
LEMMA EverythingIsThere ==
  ASSUME IInv, WorkInv, NoWriteFailed, Published
  PROVE  Recoverable = Items
<1>1. CASE ~IsMapReduce BY <1>1, PointsCovered DEF Recoverable, Items, IsMapReduce
<1>2. CASE IsMapReduce
  <2>1. ASSUME NEW r \in Ranks PROVE \E x \in Manifest : Located(x) /\ x[1] = r
    <3>1. next[r] # r /\ Saved(meta[r]) = Chunks(meta[r]) BY <1>2, Finished
    <3>2. Len(meta[r].data) = 1 BY <1>2, <3>1 DEF WorkInv, MetaInv, LinesOf
    <3>3. meta[r].data[1] \in Saved(meta[r]) BY <3>1, <3>2 DEF Chunks
    <3>4. <<r, meta[r].data[1]>> \in Manifest BY <3>3, ManifestLines
    <3> QED BY <3>4, WhereItSays
  <2>2. \A x \in Manifest : x[1] \in Ranks BY ManifestLines
  <2> QED BY <1>2, <2>1, <2>2 DEF Recoverable, Items, IsMapReduce
<1> QED BY <1>1, <1>2

\* The job stays the same, and a summary that was written is not taken back.
LEMMA SummaryStays ==
  ASSUME IInv, DirInv, [Next]_vars
  PROVE  Items' = Items /\ (Published => Published')
<1>1. UNCHANGED job /\ (Published => Published')
  <2>1. CASE UNCHANGED vars BY <2>1 DEF vars, job, Published
  <2>2. ASSUME NEW r \in Ranks, Step(r) \/ ProcessDies(r)
        PROVE  UNCHANGED job /\ (Published => Published')
    <3>1. CASE CreateSummary(r) BY <3>1 DEF CreateSummary, DirInv
    <3>2. CASE CloseSummary(r) BY <3>2 DEF CloseSummary, TotalsSummary, Published
    <3>3. CASE CreateIndex(r) \/ CloseIndex(r) BY <3>3 DEF CreateIndex, CloseIndex, Published
    <3>4. CASE Start(r) \/ StartFails(r) \/ OpenInput(r) \/ SizeFails(r)
      BY <3>4 DEF Start, StartFails, OpenInput, SizeFails, results, Published
    <3>5. CASE OpenOutputs(r) \/ OpenFails(r) BY <3>5 DEF OpenOutputs, OpenFails, Published
    <3>6. CASE FitProfile(r) \/ FitFails(r) \/ TakeProfile(r) \/ ProfileInvalid(r)
      BY <3>6 DEF FitProfile, FitFails, TakeProfile, ProfileInvalid, results, Published
    <3>7. CASE Begin(r) \/ CompressBlock(r) \/ BlockFails(r) \/ LeaveMapReduce(r)
      BY <3>7 DEF Begin, CompressBlock, BlockFails, LeaveMapReduce, results, Published
    <3>8. CASE MapReduceFails(r) \/ CloseFiles(r) \/ Report(r) \/ Killed(r) \/ ProcessDies(r)
      BY <3>8 DEF MapReduceFails, CloseFiles, Report, Killed, ProcessDies, results, Published
    <3> QED BY <2>2, <3>1, <3>2, <3>3, <3>4, <3>5, <3>6, <3>7, <3>8 DEF Step
  <2> QED BY <2>1, <2>2 DEF Next
<1>2. Points' = Points BY <1>1, SameJob DEF Points, job
<1>3. Items' = Items BY <1>1, <1>2 DEF Items, job
<1> QED BY <1>1, <1>3

\* Nothing is recoverable before the summary, and everything with it.
AllOrNone == Recoverable = IF Published THEN Items ELSE {}

\* Where the disk takes what it is given, what the summary of this job promises is
\* there in one step and whole: the job refines AllOrNothing, for any number of ranks,
\* whichever processes die and when, in a directory with an earlier job's results too.
THEOREM ArchiveIsWhole ==
  ASSUME ~DiskMayFail
  PROVE  Spec => PublishesAll
<1>1. Init => Archive!Init
  <2> SUFFICES ASSUME Init PROVE Recoverable = {} BY DEF Archive!Init
  <2> QED BY DEF Init, NoSummary, EarlierSummary, Published, Recoverable
<1>2. IInv /\ WorkInv /\ DiskInv => AllOrNone
  <2> SUFFICES ASSUME IInv, WorkInv, DiskInv PROVE AllOrNone OBVIOUS
  <2>1. CASE Published BY <2>1, EverythingIsThere DEF DiskInv, AllOrNone
  <2>2. CASE ~Published BY <2>2 DEF Recoverable, AllOrNone
  <2> QED BY <2>1, <2>2
<1>3. ASSUME IInv, DirInv, AllOrNone, AllOrNone', [Next]_vars
      PROVE  [Archive!Publish]_<<Items, Recoverable>>
  <2>1. Items' = Items /\ (Published => Published') BY <1>3, SummaryStays
  <2>2. /\ Recoverable = IF Published THEN Items ELSE {}
        /\ Recoverable' = IF Published' THEN Items ELSE {}
    BY <1>3, <2>1 DEF AllOrNone
  <2> QED BY <2>1, <2>2, Zenon DEF Archive!Publish
<1> QED BY <1>1, <1>2, <1>3, DriverDisk, PTL DEF Spec, PublishesAll, Archive!Spec

=============================================================================
