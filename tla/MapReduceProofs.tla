--------------------------- MODULE MapReduceProofs ---------------------------
(***************************************************************************)
(* What MapReduce promises for every number of ranks, blocks and points,   *)
(* every partition mode and both quantizers.  The input file is fixed, so  *)
(* all that the ranks tell each other is fixed too, except the samples.    *)
(* The inductive invariant says which value each collective carries, and   *)
(* what a rank holds once it has entered so many collectives.              *)
(* The second half is about what the part files say of the cloud.  By the  *)
(* invariant everything a rank holds is computed from the input; so the    *)
(* types are those of the data operators, a cell that a rank has reduced   *)
(* has a count from every rank with points there, and that these add up to *)
(* the count of the whole input, cut off at MaxInt, is a matter of finite  *)
(* sets.  MapReduce implements CellCensus.                                 *)
(***************************************************************************)
EXTENDS MapReduce, Foundations

\* The position of the cell exchange among the collectives of a rank.
ShuffleCall == IF Mode = "samplesort" THEN 4 ELSE 3

\* The values the ranks agree on.
AgreedOffset == GlobalOffset([s \in Ranks |-> LocalMin(s)])
AgreedTable(r) == LocalTable(r, AgreedOffset)
AgreedExtent == GlobalExtent([s \in Ranks |-> LocalExtent(AgreedTable(s))])
AgreedSplitters == IF Mode = "samplesort" THEN Splitters(Column(calls, 3)) ELSE <<>>
Reduced(r) == ReduceReceived(r, Column(calls, ShuffleCall))

\* How many collectives a rank has entered, by where it is.
CallsAt(p) == CASE p = "start" -> 0 [] p = "bbox" -> 1 [] p = "ranges" -> 2
                [] p = "samples" -> 3 [] OTHER -> ShuffleCall

OpOf(k) == CASE k = 1 -> "Allreduce bbox" [] k = 2 -> "Allreduce ranges"
             [] k = ShuffleCall -> "Alltoallv cells" [] OTHER -> "Allgather samples"

PcInv == /\ pc \in [Ranks -> PcValues]
         /\ \A r \in Ranks : pc[r] = "samples" => Mode = "samplesort"

LogTyped == \E S : calls \in [Ranks -> Seq(S)]

LogInv ==
  \A r \in Ranks :
    /\ Len(calls[r]) <= ShuffleCall
    /\ pc[r] \notin {"aborted", "killed"} => Len(calls[r]) = CallsAt(pc[r])
    /\ \A k \in 1..(Len(calls[r]) - 1) : AllEntered(calls, k)

ValueInv ==
  \A r \in Ranks : \A k \in 1..Len(calls[r]) :
    /\ calls[r][k].op = OpOf(k)
    /\ k = 1 => calls[r][k].val = LocalMin(r)
    /\ k = 2 => calls[r][k].val = LocalExtent(AgreedTable(r))
    /\ k = ShuffleCall =>
         calls[r][k].val = SendBuckets(AgreedTable(r), AgreedExtent, AgreedSplitters)

ViewInv ==
  /\ DOMAIN offset = Ranks /\ DOMAIN extent = Ranks
  /\ DOMAIN splitters = Ranks /\ DOMAIN table = Ranks
  /\ extent = [s \in Ranks |-> extent[s]] /\ splitters = [s \in Ranks |-> splitters[s]]
  /\ \A r \in Ranks :
       /\ offset[r] = IF Len(calls[r]) >= 2 THEN AgreedOffset ELSE <<0, 0, 0>>
       /\ Len(calls[r]) >= 3 => extent[r] = AgreedExtent
       /\ splitters[r] = IF Len(calls[r]) = ShuffleCall THEN AgreedSplitters ELSE <<>>
       /\ table[r] = IF Len(calls[r]) \in 2..(ShuffleCall - 1) THEN AgreedTable(r) ELSE NoTable

OwnedInv ==
  /\ DOMAIN owned = Ranks
  /\ \A r \in Ranks :
       /\ pc[r] = "encode" => AllEntered(calls, ShuffleCall)
       /\ owned[r] = NoTable \/ (AllEntered(calls, ShuffleCall) /\ owned[r] = Reduced(r))
       /\ pc[r] = "encode" => owned[r] = Reduced(r)

\* The part file rank r writes.
AgreedPart(r) == [written |-> TRUE, offset |-> AgreedOffset, range |-> AgreedExtent.maxq,
                  cells |-> [c \in DOMAIN Reduced(r) |-> Sat(Reduced(r)[c])]]

PartInv ==
  /\ DOMAIN part = Ranks
  /\ \A r \in Ranks :
       /\ pc[r] \in {"meta", "done"} => part[r] # NoPart
       /\ part[r] = NoPart \/ (AllEntered(calls, ShuffleCall) /\ part[r] = AgreedPart(r))

IInv == PcInv /\ LogTyped /\ LogInv /\ ValueInv /\ ViewInv /\ OwnedInv /\ PartInv

-----------------------------------------------------------------------------
(* The call log *)

\* What a rank leaving a collective receives.
LEMMA AgreedColumns ==
  ASSUME IInv
  PROVE  /\ AllEntered(calls, 1) => Column(calls, 1) = [s \in Ranks |-> LocalMin(s)]
         /\ AllEntered(calls, 2) =>
              Column(calls, 2) = [s \in Ranks |-> LocalExtent(AgreedTable(s))]
         /\ AllEntered(calls, ShuffleCall) =>
              Column(calls, ShuffleCall) =
                [s \in Ranks |-> SendBuckets(AgreedTable(s), AgreedExtent, AgreedSplitters)]
<1>1. DOMAIN calls = Ranks /\ \A s \in Ranks : Len(calls[s]) \in Nat
  <2>1. PICK S : calls \in [Ranks -> Seq(S)] BY DEF IInv, LogTyped
  <2> QED BY <2>1
<1>2. ShuffleCall \in {3, 4} BY DEF ShuffleCall
<1>3. ASSUME NEW k \in {1, 2, ShuffleCall}, AllEntered(calls, k), NEW s \in Ranks
      PROVE  k \in 1..Len(calls[s])
  BY <1>1, <1>2, <1>3 DEF AllEntered
<1>4. ASSUME AllEntered(calls, 1) PROVE Column(calls, 1) = [s \in Ranks |-> LocalMin(s)]
  <2>1. \A s \in Ranks : calls[s][1].val = LocalMin(s) BY <1>3, <1>4 DEF IInv, ValueInv
  <2> QED BY <2>1, <1>1 DEF Column
<1>5. ASSUME AllEntered(calls, 2)
      PROVE  Column(calls, 2) = [s \in Ranks |-> LocalExtent(AgreedTable(s))]
  <2>1. \A s \in Ranks : calls[s][2].val = LocalExtent(AgreedTable(s))
    BY <1>3, <1>5 DEF IInv, ValueInv
  <2> QED BY <2>1, <1>1 DEF Column
<1>6. ASSUME AllEntered(calls, ShuffleCall)
      PROVE  Column(calls, ShuffleCall) =
               [s \in Ranks |-> SendBuckets(AgreedTable(s), AgreedExtent, AgreedSplitters)]
  <2>1. \A s \in Ranks : calls[s][ShuffleCall].val =
                           SendBuckets(AgreedTable(s), AgreedExtent, AgreedSplitters)
    BY <1>3, <1>6 DEF IInv, ValueInv
  <2> QED BY <2>1, <1>1 DEF Column
<1> QED BY <1>4, <1>5, <1>6

\* A rank that enters its next collective with the right value keeps the log as
\* the invariant wants it, and changes nothing that ranks ahead of it rely on.
LEMMA EnterCollective ==
  ASSUME IInv, NEW r \in Ranks, NEW op, NEW val, NEW to,
         calls' = Post(calls, r, op, val), Goto(r, to),
         Len(calls[r]) < ShuffleCall,
         Len(calls[r]) = 0 \/ Released(r),
         to \notin {"aborted", "killed"}, CallsAt(to) = Len(calls[r]) + 1,
         op = OpOf(Len(calls[r]) + 1),
         Len(calls[r]) = 0 => val = LocalMin(r),
         Len(calls[r]) = 1 => val = LocalExtent(AgreedTable(r)),
         Len(calls[r]) + 1 = ShuffleCall =>
           val = SendBuckets(AgreedTable(r), AgreedExtent, AgreedSplitters)
  PROVE  /\ LogTyped' /\ LogInv' /\ ValueInv'
         /\ Len(calls'[r]) = Len(calls[r]) + 1
         /\ \A s \in Ranks \ {r} : calls'[s] = calls[s]
         /\ \A s \in Ranks : Len(calls'[s]) = ShuffleCall => AgreedSplitters' = AgreedSplitters
         /\ AllEntered(calls, ShuffleCall) =>
              AllEntered(calls', ShuffleCall) /\ \A s \in Ranks : Reduced(s)' = Reduced(s)
<1> DEFINE n == Len(calls[r])
<1>0. PICK S : calls \in [Ranks -> Seq(S)] BY DEF IInv, LogTyped
<1>1. /\ \E T : calls' \in [Ranks -> Seq(T)]
      /\ \A s \in Ranks \ {r} : calls'[s] = calls[s]
      /\ Len(calls'[r]) = n + 1
      /\ \A k \in 1..n : calls'[r][k] = calls[r][k]
      /\ calls'[r][n + 1] = MpiCall(op, val)
  BY <1>0, PostLemma
<1>2. /\ \A s \in Ranks : Len(calls[s]) \in Nat /\ Len(calls'[s]) \in Nat
      /\ DOMAIN calls = Ranks /\ DOMAIN calls' = Ranks
  BY <1>0, <1>1
<1>3. ASSUME NEW k \in Nat \ {0}, AllEntered(calls, k)
      PROVE  AllEntered(calls', k) /\ Column(calls', k) = Column(calls, k)
  BY <1>0, <1>3, StableColumns
<1>4. ShuffleCall \in {3, 4} BY DEF ShuffleCall
<1>5. LogTyped' BY <1>1 DEF LogTyped
<1>6. ASSUME NEW s \in Ranks, NEW k \in 1..(Len(calls'[s]) - 1)
      PROVE  AllEntered(calls, k)
  <2>1. CASE s # r BY <2>1, <1>1, <1>6 DEF IInv, LogInv
  <2>2. CASE s = r /\ k < n BY <2>2, <1>1, <1>2, <1>6 DEF IInv, LogInv
  <2>3. CASE s = r /\ k = n BY <2>3, <1>1, <1>2, <1>6 DEF Released
  <2> QED BY <2>1, <2>2, <2>3, <1>1, <1>2
<1>7. LogInv'
  <2> SUFFICES ASSUME NEW s \in Ranks
               PROVE  /\ Len(calls'[s]) <= ShuffleCall
                      /\ pc'[s] \notin {"aborted", "killed"} => Len(calls'[s]) = CallsAt(pc'[s])
                      /\ \A k \in 1..(Len(calls'[s]) - 1) : AllEntered(calls', k)
    BY DEF LogInv, CallsAt, ShuffleCall
  <2>1. \A k \in 1..(Len(calls'[s]) - 1) : AllEntered(calls', k)
    BY <1>6, <1>3, <1>2
  <2>2. CASE s # r BY <2>1, <2>2, <1>1 DEF IInv, LogInv, Goto, PcInv
  <2>3. CASE s = r BY <2>1, <2>3, <1>1, <1>2, <1>4 DEF IInv, Goto, PcInv
  <2> QED BY <2>2, <2>3
<1>8. ASSUME NEW s \in Ranks, Len(calls'[s]) = ShuffleCall
      PROVE  AgreedSplitters' = AgreedSplitters
  <2>1. CASE Mode = "samplesort"
    <3>0. ShuffleCall = 4 BY <2>1 DEF ShuffleCall
    <3>9. Len(calls'[s]) - 1 = 3 BY <3>0, <1>8, <1>2
    <3>1. 3 \in 1..(Len(calls'[s]) - 1) BY <3>9, <1>2, <1>4
    <3>2. Column(calls', 3) = Column(calls, 3) BY <3>1, <1>6, <1>3
    <3> QED BY <3>2 DEF AgreedSplitters
  <2>2. CASE Mode # "samplesort" BY <2>2 DEF AgreedSplitters
  <2> QED BY <2>1, <2>2
<1>9. ValueInv'
  <2> SUFFICES ASSUME NEW s \in Ranks, NEW k \in 1..Len(calls'[s])
               PROVE  /\ calls'[s][k].op = OpOf(k)
                      /\ k = 1 => calls'[s][k].val = LocalMin(s)
                      /\ k = 2 => calls'[s][k].val = LocalExtent(AgreedTable(s))
                      /\ k = ShuffleCall =>
                           calls'[s][k].val =
                             SendBuckets(AgreedTable(s), AgreedExtent, AgreedSplitters')
    BY DEF ValueInv, OpOf, ShuffleCall
  <2>1. k = ShuffleCall => AgreedSplitters' = AgreedSplitters
    BY <1>7, <1>8, <1>2, <1>4 DEF LogInv
  <2>2. CASE s # r \/ k <= n
    <3>1. calls'[s][k] = calls[s][k] /\ k \in 1..Len(calls[s]) BY <2>2, <1>1, <1>2
    <3> QED BY <3>1, <2>1 DEF IInv, ValueInv
  <2>3. CASE s = r /\ k = n + 1
    <3>1. calls'[s][k] = MpiCall(op, val) BY <2>3, <1>1
    <3>2. calls'[s][k].op = op /\ calls'[s][k].val = val BY <3>1 DEF MpiCall
    <3>3. n \in Nat /\ n + 1 = k BY <1>2, <2>3
    <3>4. calls'[s][k].op = OpOf(k) BY <3>2, <3>3
    <3>5. k = 1 => calls'[s][k].val = LocalMin(s) BY <3>2, <3>3, <2>3
    <3>6. ASSUME k = 2 PROVE calls'[s][k].val = LocalExtent(AgreedTable(s))
      <4>0. \A m \in Nat : m + 1 = 2 => m = 1 OBVIOUS
      <4>2. Len(calls[r]) \in Nat /\ Len(calls[r]) + 1 = 2 BY <3>3, <3>6
      <4>3. Len(calls[r]) = 1 BY <4>0, <4>2
      <4>1. val = LocalExtent(AgreedTable(r)) BY <4>3
      <4> QED BY <4>1, <3>2, <3>6, <2>3
    <3>7. ASSUME k = ShuffleCall
          PROVE  calls'[s][k].val =
                   SendBuckets(AgreedTable(s), AgreedExtent, AgreedSplitters')
      <4>1. val = SendBuckets(AgreedTable(r), AgreedExtent, AgreedSplitters) BY <3>3, <3>7
      <4> QED BY <4>1, <3>2, <3>7, <2>1, <2>3
    <3> QED BY <3>4, <3>5, <3>6, <3>7
  <2> QED BY <2>2, <2>3, <1>1, <1>2
<1>10. ASSUME AllEntered(calls, ShuffleCall)
       PROVE  AllEntered(calls', ShuffleCall) /\ \A s \in Ranks : Reduced(s)' = Reduced(s)
  <2>1. AllEntered(calls', ShuffleCall) /\ Column(calls', ShuffleCall) = Column(calls, ShuffleCall)
    BY <1>10, <1>3, <1>4
  <2> QED BY <2>1 DEF Reduced, ShuffleCall
<1> QED BY <1>1, <1>5, <1>7, <1>8, <1>9, <1>10

\* Entering a collective leaves what ranks have reduced and written as it is.
LEMMA EnterKeepsResults ==
  ASSUME IInv, NEW r \in Ranks, NEW to, Goto(r, to), to \notin {"encode", "meta", "done"},
         UNCHANGED <<owned, part>>,
         AllEntered(calls, ShuffleCall) =>
           AllEntered(calls', ShuffleCall) /\ \A s \in Ranks : Reduced(s)' = Reduced(s)
  PROVE  OwnedInv' /\ PartInv'
<1>1. pc' = [pc EXCEPT ![r] = to] /\ DOMAIN pc = Ranks BY DEF Goto, IInv, PcInv
<1>2. \A s \in Ranks : pc'[s] \in {"encode", "meta", "done"} => pc'[s] = pc[s] BY <1>1
<1>3. OwnedInv'
  <2> SUFFICES ASSUME NEW s \in Ranks
               PROVE  /\ pc'[s] = "encode" => AllEntered(calls', ShuffleCall)
                      /\ \/ owned[s] = NoTable
                         \/ AllEntered(calls', ShuffleCall) /\ owned[s] = Reduced(s)'
                      /\ pc'[s] = "encode" => owned[s] = Reduced(s)'
    BY DEF OwnedInv, IInv, ShuffleCall
  <2>1. pc'[s] = "encode" => AllEntered(calls, ShuffleCall) BY <1>2 DEF IInv, OwnedInv
  <2>2. owned[s] = NoTable \/ (AllEntered(calls, ShuffleCall) /\ owned[s] = Reduced(s))
    BY DEF IInv, OwnedInv
  <2>3. pc'[s] = "encode" => owned[s] = Reduced(s) BY <1>2 DEF IInv, OwnedInv
  <2> QED BY <2>1, <2>2, <2>3
<1>4. PartInv'
  <2> SUFFICES ASSUME NEW s \in Ranks
               PROVE  /\ pc'[s] \in {"meta", "done"} => part[s] # NoPart
                      /\ \/ part[s] = NoPart
                         \/ AllEntered(calls', ShuffleCall) /\ part[s] = AgreedPart(s)'
    BY DEF PartInv, IInv, ShuffleCall
  <2>1. /\ pc[s] \in {"meta", "done"} => part[s] # NoPart
        /\ part[s] = NoPart \/ (AllEntered(calls, ShuffleCall) /\ part[s] = AgreedPart(s))
    BY DEF PartInv, IInv
  <2>2. CASE part[s] = NoPart BY <2>1, <2>2, <1>2
  <2>3. CASE part[s] # NoPart
    <3>1. AllEntered(calls', ShuffleCall) /\ Reduced(s)' = Reduced(s) BY <2>1, <2>3
    <3>2. AgreedPart(s)' = AgreedPart(s) BY <3>1 DEF AgreedPart
    <3> QED BY <2>1, <2>3, <3>1, <3>2
  <2> QED BY <2>2, <2>3
<1> QED BY <1>3, <1>4

-----------------------------------------------------------------------------
(* One lemma per action that enters a collective *)

\* How far the log of a rank that is still running has come.
LEMMA LogLength ==
  ASSUME IInv
  PROVE  /\ ShuffleCall \in {3, 4}
         /\ Mode = "samplesort" => ShuffleCall = 4
         /\ Mode # "samplesort" => ShuffleCall = 3
         /\ \A s \in Ranks : /\ Len(calls[s]) \in 0..ShuffleCall
                             /\ pc[s] = "start" => Len(calls[s]) = 0
                             /\ pc[s] = "bbox" => Len(calls[s]) = 1
                             /\ pc[s] = "ranges" => Len(calls[s]) = 2
                             /\ pc[s] = "samples" => Len(calls[s]) = 3 /\ ShuffleCall = 4
                             /\ pc[s] \in {"shuffle", "encode", "meta", "done"} =>
                                  Len(calls[s]) = ShuffleCall
<1>1. PICK S : calls \in [Ranks -> Seq(S)] BY DEF IInv, LogTyped
<1>2. \A s \in Ranks : Len(calls[s]) \in Nat BY <1>1
<1>3. ShuffleCall \in {3, 4} BY DEF ShuffleCall
<1>4. (Mode = "samplesort" => ShuffleCall = 4) /\ (Mode # "samplesort" => ShuffleCall = 3)
  BY DEF ShuffleCall
<1>5. ASSUME NEW s \in Ranks
      PROVE  /\ Len(calls[s]) \in 0..ShuffleCall
             /\ pc[s] \notin {"aborted", "killed"} => Len(calls[s]) = CallsAt(pc[s])
             /\ pc[s] = "samples" => Mode = "samplesort"
  BY <1>2, <1>3 DEF IInv, LogInv, PcInv
<1>6. /\ CallsAt("start") = 0 /\ CallsAt("bbox") = 1 /\ CallsAt("ranges") = 2
      /\ CallsAt("samples") = 3
      /\ \A p \in {"shuffle", "encode", "meta", "done"} : CallsAt(p) = ShuffleCall
  BY DEF CallsAt
<1> QED BY <1>3, <1>4, <1>5, <1>6

\* The bounding-box phase: the rank's minimum goes into the first reduction.
LEMMA ScanStep == ASSUME IInv, NEW r \in Ranks, ScanBbox(r) PROVE IInv'
<1>1. pc[r] = "start" /\ Len(calls[r]) = 0 /\ ShuffleCall \in {3, 4} BY LogLength DEF ScanBbox
<1>2. calls' = Post(calls, r, "Allreduce bbox", LocalMin(r)) /\ Goto(r, "bbox")
  BY DEF ScanBbox
<1>3. CallsAt("bbox") = 1 /\ OpOf(1) = "Allreduce bbox" BY <1>1 DEF CallsAt, OpOf
<1>8. /\ Len(calls[r]) < ShuffleCall /\ Len(calls[r]) + 1 = 1
      /\ Len(calls[r]) + 1 # ShuffleCall /\ Len(calls[r]) # 1
  BY <1>1
<1>4. /\ LogTyped' /\ LogInv' /\ ValueInv'
      /\ Len(calls'[r]) = Len(calls[r]) + 1
      /\ \A s \in Ranks \ {r} : calls'[s] = calls[s]
      /\ \A s \in Ranks : Len(calls'[s]) = ShuffleCall => AgreedSplitters' = AgreedSplitters
      /\ AllEntered(calls, ShuffleCall) =>
           AllEntered(calls', ShuffleCall) /\ \A s \in Ranks : Reduced(s)' = Reduced(s)
  BY <1>1, <1>2, <1>3, <1>8, EnterCollective, Zenon
<1>5. PcInv' BY <1>2 DEF Goto, PcInv, IInv, PcValues
<1>6. ViewInv'
  <2>1. UNCHANGED <<offset, table, extent, splitters>> BY DEF ScanBbox
  <2> SUFFICES ASSUME NEW s \in Ranks
               PROVE  /\ offset'[s] = IF Len(calls'[s]) >= 2 THEN AgreedOffset ELSE <<0, 0, 0>>
                      /\ Len(calls'[s]) >= 3 => extent'[s] = AgreedExtent
                      /\ splitters'[s] = IF Len(calls'[s]) = ShuffleCall
                                         THEN AgreedSplitters' ELSE <<>>
                      /\ table'[s] = IF Len(calls'[s]) \in 2..(ShuffleCall - 1)
                                     THEN AgreedTable(s) ELSE NoTable
    BY <2>1 DEF ViewInv, IInv, AgreedTable, ShuffleCall
  <2>4. CASE s # r
    <3>1. calls'[s] = calls[s] BY <2>4, <1>4
    <3>2. Len(calls'[s]) = ShuffleCall => AgreedSplitters' = AgreedSplitters BY <1>4
    <3> QED BY <3>1, <3>2, <2>4, <2>1 DEF ViewInv, IInv
  <2>5. CASE s = r
    <3>1. Len(calls'[r]) = 1 BY <1>4, <1>8
    <3>2. /\ 1 \notin 2..(ShuffleCall - 1) /\ 0 \notin 2..(ShuffleCall - 1)
          /\ 0 # ShuffleCall /\ 1 # ShuffleCall /\ ~(1 >= 2) /\ ~(1 >= 3) /\ ~(0 >= 2)
      BY <1>1
    <3>3. offset[r] = <<0, 0, 0>> /\ splitters[r] = <<>> /\ table[r] = NoTable
      BY <3>2, <1>1 DEF ViewInv, IInv
    <3> QED BY <3>1, <3>2, <3>3, <2>5, <2>1
  <2> QED BY <2>4, <2>5
<1>7. OwnedInv' /\ PartInv' BY <1>1, <1>2, <1>4, EnterKeepsResults DEF ScanBbox
<1> QED BY <1>4, <1>5, <1>6, <1>7 DEF IInv

\* The map phase: from the agreed offset to the local table and its extent.
LEMMA MapStep == ASSUME IInv, NEW r \in Ranks, MapQuantize(r) PROVE IInv'
<1>1. pc[r] = "bbox" /\ Len(calls[r]) = 1 /\ ShuffleCall \in {3, 4}
  BY LogLength DEF MapQuantize
<1>2. Released(r) /\ Received(r) = Column(calls, 1) BY <1>1 DEF MapQuantize, Received
<1>3. GlobalOffset(Received(r)) = AgreedOffset
  <2>1. AllEntered(calls, 1) BY <1>1, <1>2 DEF Released
  <2> QED BY <1>2, <2>1, AgreedColumns DEF AgreedOffset
<1>4. /\ offset' = [offset EXCEPT ![r] = AgreedOffset]
      /\ table' = [table EXCEPT ![r] = AgreedTable(r)]
      /\ calls' = Post(calls, r, "Allreduce ranges", LocalExtent(AgreedTable(r)))
      /\ Goto(r, "ranges")
      /\ UNCHANGED <<extent, splitters, owned, part>>
  BY <1>3 DEF MapQuantize, AgreedTable
<1>5. CallsAt("ranges") = 2 /\ OpOf(2) = "Allreduce ranges"
  BY <1>1 DEF CallsAt, OpOf
<1>10. /\ Len(calls[r]) < ShuffleCall /\ Len(calls[r]) + 1 = 2
       /\ Len(calls[r]) + 1 # ShuffleCall /\ Len(calls[r]) # 0
  BY <1>1
<1>6. /\ LogTyped' /\ LogInv' /\ ValueInv'
      /\ Len(calls'[r]) = Len(calls[r]) + 1
      /\ \A s \in Ranks \ {r} : calls'[s] = calls[s]
      /\ \A s \in Ranks : Len(calls'[s]) = ShuffleCall => AgreedSplitters' = AgreedSplitters
      /\ AllEntered(calls, ShuffleCall) =>
           AllEntered(calls', ShuffleCall) /\ \A s \in Ranks : Reduced(s)' = Reduced(s)
  BY <1>1, <1>2, <1>4, <1>5, <1>10, EnterCollective, Zenon
<1>7. PcInv' BY <1>4 DEF Goto, PcInv, IInv, PcValues
<1>8. ViewInv'
  <2> SUFFICES ASSUME NEW s \in Ranks
               PROVE  /\ offset'[s] = IF Len(calls'[s]) >= 2 THEN AgreedOffset ELSE <<0, 0, 0>>
                      /\ Len(calls'[s]) >= 3 => extent'[s] = AgreedExtent
                      /\ splitters'[s] = IF Len(calls'[s]) = ShuffleCall
                                         THEN AgreedSplitters' ELSE <<>>
                      /\ table'[s] = IF Len(calls'[s]) \in 2..(ShuffleCall - 1)
                                     THEN AgreedTable(s) ELSE NoTable
    BY <1>4 DEF ViewInv, IInv, AgreedTable, ShuffleCall
  <2>4. CASE s # r
    <3>1. calls'[s] = calls[s] BY <2>4, <1>6
    <3>2. Len(calls'[s]) = ShuffleCall => AgreedSplitters' = AgreedSplitters BY <1>6
    <3> QED BY <3>1, <3>2, <2>4, <1>4 DEF ViewInv, IInv
  <2>5. CASE s = r
    <3>1. Len(calls'[r]) = 2 BY <1>6, <1>10
    <3>2. /\ 2 \in 2..(ShuffleCall - 1) /\ 1 # ShuffleCall /\ 2 # ShuffleCall
          /\ 2 >= 2 /\ ~(2 >= 3)
      BY <1>1
    <3>3. splitters[r] = <<>> BY <3>2, <1>1 DEF ViewInv, IInv
    <3>4. /\ offset'[r] = AgreedOffset /\ table'[r] = AgreedTable(r)
          /\ splitters'[r] = splitters[r]
      BY <1>4 DEF IInv, ViewInv
    <3> QED BY <3>1, <3>2, <3>3, <3>4, <2>5
  <2> QED BY <2>4, <2>5
<1>9. OwnedInv' /\ PartInv' BY <1>1, <1>4, <1>6, EnterKeepsResults
<1> QED BY <1>6, <1>7, <1>8, <1>9 DEF IInv

\* In samplesort mode, the choice of samples once the extent is agreed.
LEMMA SamplesStep == ASSUME IInv, NEW r \in Ranks, ChooseSamples(r) PROVE IInv'
<1>1. pc[r] = "ranges" /\ Len(calls[r]) = 2 /\ ShuffleCall = 4
  BY LogLength DEF ChooseSamples
<1>2. Released(r) /\ Received(r) = Column(calls, 2) BY <1>1 DEF ChooseSamples, Received
<1>3. GlobalExtent(Received(r)) = AgreedExtent
  <2>1. AllEntered(calls, 2) BY <1>1, <1>2 DEF Released
  <2> QED BY <1>2, <2>1, AgreedColumns DEF AgreedExtent
<1>4. PICK val :
        /\ extent' = [extent EXCEPT ![r] = AgreedExtent]
        /\ calls' = Post(calls, r, "Allgather samples", val)
        /\ Goto(r, "samples")
        /\ UNCHANGED <<offset, table, splitters, owned, part>>
  BY <1>3 DEF ChooseSamples
<1>5. CallsAt("samples") = 3 /\ OpOf(3) = "Allgather samples" BY <1>1 DEF CallsAt, OpOf
<1>6. /\ Len(calls[r]) < ShuffleCall /\ Len(calls[r]) + 1 = 3
      /\ Len(calls[r]) + 1 # ShuffleCall /\ Len(calls[r]) # 0 /\ Len(calls[r]) # 1
  BY <1>1
<1>7. /\ LogTyped' /\ LogInv' /\ ValueInv'
      /\ Len(calls'[r]) = Len(calls[r]) + 1
      /\ \A s \in Ranks \ {r} : calls'[s] = calls[s]
      /\ \A s \in Ranks : Len(calls'[s]) = ShuffleCall => AgreedSplitters' = AgreedSplitters
      /\ AllEntered(calls, ShuffleCall) =>
           AllEntered(calls', ShuffleCall) /\ \A s \in Ranks : Reduced(s)' = Reduced(s)
  BY <1>1, <1>2, <1>4, <1>5, <1>6, EnterCollective, Zenon
<1>8. PcInv' BY <1>4 DEF Goto, PcInv, IInv, PcValues, ChooseSamples
<1>9. ViewInv'
  <2> SUFFICES ASSUME NEW s \in Ranks
               PROVE  /\ offset'[s] = IF Len(calls'[s]) >= 2 THEN AgreedOffset ELSE <<0, 0, 0>>
                      /\ Len(calls'[s]) >= 3 => extent'[s] = AgreedExtent
                      /\ splitters'[s] = IF Len(calls'[s]) = ShuffleCall
                                         THEN AgreedSplitters' ELSE <<>>
                      /\ table'[s] = IF Len(calls'[s]) \in 2..(ShuffleCall - 1)
                                     THEN AgreedTable(s) ELSE NoTable
    BY <1>4 DEF ViewInv, IInv, AgreedTable, ShuffleCall
  <2>1. CASE s # r
    <3>1. calls'[s] = calls[s] BY <2>1, <1>7
    <3>2. Len(calls'[s]) = ShuffleCall => AgreedSplitters' = AgreedSplitters BY <1>7
    <3> QED BY <3>1, <3>2, <2>1, <1>4 DEF ViewInv, IInv
  <2>2. CASE s = r
    <3>1. Len(calls'[r]) = 3 BY <1>7, <1>6
    <3>2. /\ 3 \in 2..(ShuffleCall - 1) /\ 2 \in 2..(ShuffleCall - 1)
          /\ 2 # ShuffleCall /\ 3 # ShuffleCall /\ 3 >= 2 /\ 2 >= 2
      BY <1>1
    <3>3. /\ offset[r] = AgreedOffset /\ splitters[r] = <<>> /\ table[r] = AgreedTable(r)
          /\ extent'[r] = AgreedExtent
      BY <3>2, <1>1, <1>4 DEF ViewInv, IInv
    <3> QED BY <3>1, <3>2, <3>3, <2>2, <1>4
  <2> QED BY <2>1, <2>2
<1>10. OwnedInv' /\ PartInv' BY <1>1, <1>4, <1>7, EnterKeepsResults
<1> QED BY <1>7, <1>8, <1>9, <1>10 DEF IInv

\* Both ways to the exchange: with the agreed extent and splitters at hand, a
\* rank sends its agreed table in the agreed buckets.
LEMMA ShuffleStep ==
  ASSUME IInv, NEW r \in Ranks, Shuffle(r), Released(r),
         pc[r] \in {"ranges", "samples"},
         Len(calls[r]) = ShuffleCall - 1,
         extent' = [extent EXCEPT ![r] = AgreedExtent],
         splitters' = [splitters EXCEPT ![r] = AgreedSplitters]
  PROVE  IInv'
<1>1. Len(calls[r]) \in {2, 3} /\ ShuffleCall \in {3, 4} BY LogLength
<1>2. table[r] = AgreedTable(r) /\ offset[r] = AgreedOffset
  <2>1. Len(calls[r]) \in 2..(ShuffleCall - 1) /\ Len(calls[r]) >= 2 BY <1>1
  <2> QED BY <2>1 DEF IInv, ViewInv
<1>3. extent'[r] = AgreedExtent /\ splitters'[r] = AgreedSplitters BY DEF IInv, ViewInv
<1>4. /\ calls' = Post(calls, r, "Alltoallv cells",
                       SendBuckets(AgreedTable(r), AgreedExtent, AgreedSplitters))
      /\ table' = [table EXCEPT ![r] = NoTable]
      /\ Goto(r, "shuffle")
      /\ UNCHANGED <<offset, owned, part>>
  BY <1>2, <1>3 DEF Shuffle
<1>5. CallsAt("shuffle") = ShuffleCall /\ OpOf(ShuffleCall) = "Alltoallv cells"
  BY <1>1 DEF CallsAt, OpOf
<1>6. /\ Len(calls[r]) < ShuffleCall /\ Len(calls[r]) + 1 = ShuffleCall
      /\ Len(calls[r]) # 0 /\ Len(calls[r]) # 1
  BY <1>1
<1>7. /\ LogTyped' /\ LogInv' /\ ValueInv'
      /\ Len(calls'[r]) = Len(calls[r]) + 1
      /\ \A s \in Ranks \ {r} : calls'[s] = calls[s]
      /\ \A s \in Ranks : Len(calls'[s]) = ShuffleCall => AgreedSplitters' = AgreedSplitters
      /\ AllEntered(calls, ShuffleCall) =>
           AllEntered(calls', ShuffleCall) /\ \A s \in Ranks : Reduced(s)' = Reduced(s)
  BY <1>4, <1>5, <1>6, EnterCollective, Zenon
<1>8. PcInv' BY <1>4 DEF Goto, PcInv, IInv, PcValues
<1>9. ViewInv'
  <2> SUFFICES ASSUME NEW s \in Ranks
               PROVE  /\ offset'[s] = IF Len(calls'[s]) >= 2 THEN AgreedOffset ELSE <<0, 0, 0>>
                      /\ Len(calls'[s]) >= 3 => extent'[s] = AgreedExtent
                      /\ splitters'[s] = IF Len(calls'[s]) = ShuffleCall
                                         THEN AgreedSplitters' ELSE <<>>
                      /\ table'[s] = IF Len(calls'[s]) \in 2..(ShuffleCall - 1)
                                     THEN AgreedTable(s) ELSE NoTable
    BY <1>4 DEF ViewInv, IInv, AgreedTable, ShuffleCall
  <2>1. CASE s # r
    <3>1. calls'[s] = calls[s] BY <2>1, <1>7
    <3>2. Len(calls'[s]) = ShuffleCall => AgreedSplitters' = AgreedSplitters BY <1>7
    <3> QED BY <3>1, <3>2, <2>1, <1>4 DEF ViewInv, IInv
  <2>2. CASE s = r
    <3>1. Len(calls'[r]) = ShuffleCall BY <1>7, <1>6
    <3>2. /\ ShuffleCall \notin 2..(ShuffleCall - 1) /\ ShuffleCall >= 2 BY <1>1
    <3>3. AgreedSplitters' = AgreedSplitters BY <3>1, <1>7
    <3>4. table'[r] = NoTable BY <1>4 DEF IInv, ViewInv
    <3> QED BY <3>1, <3>2, <3>3, <3>4, <2>2, <1>2, <1>3, <1>4
  <2> QED BY <2>1, <2>2
<1>10. OwnedInv' /\ PartInv' BY <1>4, <1>7, EnterKeepsResults
<1> QED BY <1>7, <1>8, <1>9, <1>10 DEF IInv

\* Sending the cells away by splitters.
LEMMA BySamplesStep == ASSUME IInv, NEW r \in Ranks, ShuffleBySamples(r) PROVE IInv'
<1>1. pc[r] = "samples" /\ Len(calls[r]) = 3 /\ ShuffleCall = 4 /\ Mode = "samplesort"
  BY LogLength DEF ShuffleBySamples, IInv, PcInv
<1>2. Released(r) /\ Received(r) = Column(calls, 3) BY <1>1 DEF ShuffleBySamples, Received
<1>3. splitters' = [splitters EXCEPT ![r] = AgreedSplitters]
  BY <1>1, <1>2 DEF ShuffleBySamples, AgreedSplitters
<1>4. extent[r] = AgreedExtent
  <2>1. Len(calls[r]) >= 3 BY <1>1
  <2> QED BY <2>1 DEF IInv, ViewInv
<1>5. extent' = [extent EXCEPT ![r] = AgreedExtent]
  <2>1. extent' = extent /\ extent = [s \in Ranks |-> extent[s]]
    BY DEF ShuffleBySamples, IInv, ViewInv
  <2> QED BY <2>1, <1>4
<1>6. Len(calls[r]) = ShuffleCall - 1 BY <1>1
<1> QED BY <1>1, <1>2, <1>3, <1>5, <1>6, ShuffleStep DEF ShuffleBySamples

\* Sending the cells away by Morton code, range or hash.
LEMMA ByCodeStep == ASSUME IInv, NEW r \in Ranks, ShuffleByCode(r) PROVE IInv'
<1>1. pc[r] = "ranges" /\ Len(calls[r]) = 2 /\ ShuffleCall = 3 /\ Mode # "samplesort"
  BY LogLength DEF ShuffleByCode
<1>2. Released(r) /\ Received(r) = Column(calls, 2) BY <1>1 DEF ShuffleByCode, Received
<1>3. GlobalExtent(Received(r)) = AgreedExtent
  <2>1. AllEntered(calls, 2) BY <1>1, <1>2 DEF Released
  <2> QED BY <1>2, <2>1, AgreedColumns DEF AgreedExtent
<1>4. extent' = [extent EXCEPT ![r] = AgreedExtent] BY <1>3 DEF ShuffleByCode
<1>5. splitters[r] = <<>> /\ AgreedSplitters = <<>>
  <2>1. Len(calls[r]) # ShuffleCall BY <1>1
  <2> QED BY <2>1, <1>1 DEF IInv, ViewInv, AgreedSplitters
<1>6. splitters' = [splitters EXCEPT ![r] = AgreedSplitters]
  <2>1. splitters' = splitters /\ splitters = [s \in Ranks |-> splitters[s]]
    BY DEF ShuffleByCode, IInv, ViewInv
  <2> QED BY <2>1, <1>5
<1>7. Len(calls[r]) = ShuffleCall - 1 BY <1>1
<1> QED BY <1>1, <1>2, <1>4, <1>6, <1>7, ShuffleStep DEF ShuffleByCode

-----------------------------------------------------------------------------
(* Actions that enter no collective *)

\* While the log stays as it is, so does all that is read off it.
LEMMA SameLog ==
  ASSUME IInv, calls' = calls
  PROVE  /\ LogTyped' /\ ValueInv'
         /\ AgreedSplitters' = AgreedSplitters
         /\ \A s \in Ranks : Reduced(s)' = Reduced(s) /\ AgreedPart(s)' = AgreedPart(s)
<1>1. AgreedSplitters' = AgreedSplitters BY DEF AgreedSplitters
<1>2. \A s \in Ranks : Reduced(s)' = Reduced(s) BY DEF Reduced, ShuffleCall
<1>3. \A s \in Ranks : AgreedPart(s)' = AgreedPart(s) BY <1>2 DEF AgreedPart
<1>4. LogTyped' BY DEF IInv, LogTyped
<1>5. ValueInv' BY <1>1 DEF IInv, ValueInv, OpOf, ShuffleCall
<1> QED BY <1>1, <1>2, <1>3, <1>4, <1>5

\* The same for the values a rank has taken out of the collectives.
LEMMA SameView ==
  ASSUME IInv, calls' = calls, UNCHANGED <<offset, table, extent, splitters>>
  PROVE  ViewInv'
<1>1. AgreedSplitters' = AgreedSplitters BY SameLog
<1> QED BY <1>1 DEF IInv, ViewInv, ShuffleCall, AgreedTable

\* Part files stay as they are when neither they nor the log change.
LEMMA SameParts ==
  ASSUME IInv, calls' = calls, UNCHANGED part,
         \A s \in Ranks : pc'[s] \in {"meta", "done"} => pc[s] \in {"meta", "done"}
  PROVE  PartInv'
<1>1. \A s \in Ranks : AgreedPart(s)' = AgreedPart(s) BY SameLog
<1> QED BY <1>1 DEF IInv, PartInv, ShuffleCall

\* A rank that goes on without entering a collective has entered as many as before.
LEMMA SameLength ==
  ASSUME IInv, calls' = calls, NEW r \in Ranks, NEW to, Goto(r, to),
         to \in {"aborted", "killed"} \/ Len(calls[r]) = CallsAt(to)
  PROVE  LogInv'
<1>1. (\A s \in Ranks \ {r} : pc'[s] = pc[s]) /\ pc'[r] = to BY DEF Goto, IInv, PcInv
<1> SUFFICES ASSUME NEW s \in Ranks
             PROVE  /\ Len(calls[s]) <= ShuffleCall
                    /\ pc'[s] \notin {"aborted", "killed"} => Len(calls[s]) = CallsAt(pc'[s])
                    /\ \A k \in 1..(Len(calls[s]) - 1) : AllEntered(calls, k)
  BY DEF LogInv, CallsAt, ShuffleCall
<1>2. CASE s # r BY <1>1, <1>2 DEF IInv, LogInv
<1>3. CASE s = r BY <1>1, <1>3 DEF IInv, LogInv
<1> QED BY <1>2, <1>3

\* Summing what arrived from all ranks.
LEMMA ReduceStep == ASSUME IInv, NEW r \in Ranks, Reduce(r) PROVE IInv'
<1>1. pc[r] = "shuffle" /\ Len(calls[r]) = ShuffleCall /\ CallsAt("encode") = ShuffleCall
  BY LogLength DEF Reduce, CallsAt
<1>2. AllEntered(calls, ShuffleCall) BY <1>1 DEF Reduce, Released
<1>3. /\ owned' = [owned EXCEPT ![r] = Reduced(r)]
      /\ Goto(r, "encode")
      /\ UNCHANGED <<calls, offset, table, extent, splitters, part>>
  BY <1>1 DEF Reduce, Received, Reduced
<1>4. LogTyped' /\ ValueInv' /\ ViewInv' /\ \A s \in Ranks : Reduced(s)' = Reduced(s)
  BY <1>3, SameLog, SameView
<1>5. PcInv' BY <1>3 DEF Goto, PcInv, IInv, PcValues
<1>6. (\A s \in Ranks \ {r} : pc'[s] = pc[s]) /\ pc'[r] = "encode"
  BY <1>3 DEF Goto, IInv, PcInv
<1>7. LogInv' BY <1>1, <1>3, SameLength
<1>8. OwnedInv'
  <2> SUFFICES ASSUME NEW s \in Ranks
               PROVE  /\ pc'[s] = "encode" => AllEntered(calls, ShuffleCall)
                      /\ \/ owned'[s] = NoTable
                         \/ AllEntered(calls, ShuffleCall) /\ owned'[s] = Reduced(s)
                      /\ pc'[s] = "encode" => owned'[s] = Reduced(s)
    BY <1>3, <1>4 DEF OwnedInv, IInv, ShuffleCall
  <2>1. CASE s # r
    <3>1. owned'[s] = owned[s] BY <2>1, <1>3 DEF IInv, OwnedInv
    <3> QED BY <1>6, <2>1, <3>1 DEF IInv, OwnedInv
  <2>2. CASE s = r
    <3>1. owned'[s] = Reduced(s) BY <2>2, <1>3 DEF IInv, OwnedInv
    <3> QED BY <3>1, <1>2
  <2> QED BY <2>1, <2>2
<1>9. PartInv' BY <1>3, <1>6, SameParts
<1> QED BY <1>4, <1>5, <1>7, <1>8, <1>9 DEF IInv

\* Encoding what is owned and writing the part file.
LEMMA EncodeStep == ASSUME IInv, NEW r \in Ranks, EncodeAndWrite(r) PROVE IInv'
<1>1. pc[r] = "encode" /\ Len(calls[r]) = ShuffleCall /\ CallsAt("meta") = ShuffleCall
  BY LogLength DEF EncodeAndWrite, CallsAt
<1>2. AllEntered(calls, ShuffleCall) /\ owned[r] = Reduced(r) BY <1>1 DEF IInv, OwnedInv
<1>3. offset[r] = AgreedOffset /\ extent[r] = AgreedExtent
  <2>1. Len(calls[r]) >= 3 /\ Len(calls[r]) >= 2 BY <1>1, LogLength
  <2> QED BY <2>1 DEF IInv, ViewInv
<1>4. /\ part' = [part EXCEPT ![r] = AgreedPart(r)]
      /\ owned' = [owned EXCEPT ![r] = NoTable]
      /\ Goto(r, "meta")
      /\ UNCHANGED <<calls, offset, table, extent, splitters>>
  BY <1>2, <1>3 DEF EncodeAndWrite, PartOf, AgreedPart
<1>5. /\ LogTyped' /\ ValueInv' /\ ViewInv'
      /\ \A s \in Ranks : Reduced(s)' = Reduced(s) /\ AgreedPart(s)' = AgreedPart(s)
  BY <1>4, SameLog, SameView
<1>6. PcInv' BY <1>4 DEF Goto, PcInv, IInv, PcValues
<1>7. (\A s \in Ranks \ {r} : pc'[s] = pc[s]) /\ pc'[r] = "meta"
  BY <1>4 DEF Goto, IInv, PcInv
<1>8. LogInv' BY <1>1, <1>4, SameLength
<1>9. OwnedInv'
  <2> SUFFICES ASSUME NEW s \in Ranks
               PROVE  /\ pc'[s] = "encode" => AllEntered(calls, ShuffleCall)
                      /\ \/ owned'[s] = NoTable
                         \/ AllEntered(calls, ShuffleCall) /\ owned'[s] = Reduced(s)
                      /\ pc'[s] = "encode" => owned'[s] = Reduced(s)
    BY <1>4, <1>5 DEF OwnedInv, IInv, ShuffleCall
  <2>1. CASE s # r
    <3>1. owned'[s] = owned[s] BY <2>1, <1>4 DEF IInv, OwnedInv
    <3> QED BY <1>7, <2>1, <3>1 DEF IInv, OwnedInv
  <2>2. CASE s = r
    <3>1. owned'[s] = NoTable BY <2>2, <1>4 DEF IInv, OwnedInv
    <3> QED BY <3>1, <1>2, <1>7, <2>2
  <2> QED BY <2>1, <2>2
<1>10. PartInv'
  <2>1. DOMAIN part' = Ranks BY <1>4 DEF IInv, PartInv
  <2> SUFFICES ASSUME NEW s \in Ranks
               PROVE  /\ pc'[s] \in {"meta", "done"} => part'[s] # NoPart
                      /\ \/ part'[s] = NoPart
                         \/ AllEntered(calls, ShuffleCall) /\ part'[s] = AgreedPart(s)'
    BY <1>4, <2>1 DEF PartInv, ShuffleCall
  <2>2. CASE s # r
    <3>1. part'[s] = part[s] BY <2>2, <1>4 DEF IInv, PartInv
    <3> QED BY <1>5, <1>7, <2>2, <3>1 DEF IInv, PartInv
  <2>3. CASE s = r
    <3>1. part'[s] = AgreedPart(s) BY <2>3, <1>4 DEF IInv, PartInv
    <3>2. AgreedPart(s) # NoPart
      <4>1. AgreedPart(s).written /\ ~NoPart.written BY DEF AgreedPart, NoPart
      <4> QED BY <4>1
    <3> QED BY <3>1, <3>2, <1>2, <1>5
  <2> QED BY <2>2, <2>3
<1> QED BY <1>5, <1>6, <1>8, <1>9, <1>10 DEF IInv

\* The manifest line comes after the part and touches no variable but pc.
LEMMA ManifestStep == ASSUME IInv, NEW r \in Ranks, WriteManifest(r) PROVE IInv'
<1>1. pc[r] = "meta" /\ Len(calls[r]) = ShuffleCall /\ CallsAt("done") = ShuffleCall
  BY LogLength DEF WriteManifest, CallsAt
<1>2. Goto(r, "done") /\ UNCHANGED <<calls, offset, table, extent, splitters, owned, part>>
  BY DEF WriteManifest
<1>3. LogTyped' /\ ValueInv' /\ ViewInv' /\ \A s \in Ranks : Reduced(s)' = Reduced(s)
  BY <1>2, SameLog, SameView
<1>4. PcInv' BY <1>2 DEF Goto, PcInv, IInv, PcValues
<1>5. LogInv' BY <1>1, <1>2, SameLength
<1>6. (\A s \in Ranks \ {r} : pc'[s] = pc[s]) /\ pc'[r] = "done"
  BY <1>2 DEF Goto, IInv, PcInv
<1>7. OwnedInv' BY <1>2, <1>3, <1>6 DEF IInv, OwnedInv, ShuffleCall
<1>8. PartInv' BY <1>1, <1>2, <1>6, SameParts
<1> QED BY <1>3, <1>4, <1>5, <1>7, <1>8 DEF IInv

\* A rank that aborts or is killed changes nothing but where it is.
LEMMA StopStep ==
  ASSUME IInv, NEW r \in Ranks, NEW to \in {"aborted", "killed"}, Goto(r, to),
         UNCHANGED <<calls, offset, table, extent, splitters, owned, part>>
  PROVE  IInv'
<1>1. LogTyped' /\ ValueInv' /\ ViewInv' /\ \A s \in Ranks : Reduced(s)' = Reduced(s)
  BY SameLog, SameView
<1>2. PcInv' BY DEF Goto, PcInv, IInv, PcValues
<1>3. (\A s \in Ranks \ {r} : pc'[s] = pc[s]) /\ pc'[r] = to BY DEF Goto, IInv, PcInv
<1>4. LogInv' BY SameLength
<1>5. OwnedInv' BY <1>1, <1>3 DEF IInv, OwnedInv, ShuffleCall
<1>6. PartInv' BY <1>3, SameParts
<1> QED BY <1>1, <1>2, <1>4, <1>5, <1>6 DEF IInv

\* A step that changes nothing keeps the invariant.
LEMMA StutterStep == ASSUME IInv, UNCHANGED vars PROVE IInv'
<1>1. UNCHANGED <<pc, calls, offset, table, extent, splitters, owned, part>> BY DEF vars
<1>2. LogTyped' /\ ValueInv' /\ ViewInv' /\ \A s \in Ranks : Reduced(s)' = Reduced(s)
  BY <1>1, SameLog, SameView
<1>3. PcInv' /\ LogInv' BY <1>1 DEF IInv, PcInv, LogInv, CallsAt, ShuffleCall
<1>4. OwnedInv' BY <1>1, <1>2 DEF IInv, OwnedInv, ShuffleCall
<1>5. PartInv' BY <1>1, SameParts
<1> QED BY <1>2, <1>3, <1>4, <1>5 DEF IInv

-----------------------------------------------------------------------------
\* No rank has entered a collective yet.
LEMMA InitIInv == Init => IInv
<1> SUFFICES ASSUME Init PROVE IInv OBVIOUS
<1>1. PcInv BY DEF Init, PcInv, PcValues
<1>2. ShuffleCall \in {3, 4} BY DEF ShuffleCall
<1>3. \A r \in Ranks : calls[r] = <<>> /\ Len(calls[r]) = 0 BY DEF Init
<1>4. LogTyped
  <2>1. calls \in [Ranks -> Seq({})] BY DEF Init
  <2> QED BY <2>1 DEF LogTyped
<1>5. LogInv /\ ValueInv BY <1>2, <1>3 DEF Init, LogInv, ValueInv, CallsAt
<1>6. ViewInv
  <2>1. 0 # ShuffleCall /\ 0 \notin 2..(ShuffleCall - 1) /\ ~(0 >= 2) /\ ~(0 >= 3) BY <1>2
  <2> QED BY <2>1, <1>3 DEF Init, ViewInv
<1>7. OwnedInv /\ PartInv BY DEF Init, OwnedInv, PartInv
<1> QED BY <1>1, <1>4, <1>5, <1>6, <1>7 DEF IInv

\* Every step of every rank keeps the invariant.
LEMMA NextIInv == IInv /\ [Next]_vars => IInv'
<1> SUFFICES ASSUME IInv, [Next]_vars PROVE IInv' OBVIOUS
<1>1. CASE UNCHANGED vars BY <1>1, StutterStep
<1>2. ASSUME NEW r \in Ranks, Step(r) PROVE IInv'
  <2>1. CASE ScanBbox(r) BY <2>1, ScanStep
  <2>2. CASE MapQuantize(r) BY <2>2, MapStep
  <2>3. CASE MapFails(r) BY <2>3, StopStep DEF MapFails
  <2>4. CASE ChooseSamples(r) BY <2>4, SamplesStep
  <2>5. CASE ShuffleBySamples(r) BY <2>5, BySamplesStep
  <2>6. CASE ShuffleByCode(r) BY <2>6, ByCodeStep
  <2>7. CASE Reduce(r) BY <2>7, ReduceStep
  <2>8. CASE EncodeAndWrite(r) BY <2>8, EncodeStep
  <2>9. CASE EncodeFails(r) BY <2>9, StopStep DEF EncodeFails
  <2>10. CASE Killed(r) BY <2>10, StopStep DEF Killed
  <2>11. CASE WriteManifest(r) BY <2>11, ManifestStep
  <2> QED BY <1>2, <2>1, <2>2, <2>3, <2>4, <2>5, <2>6, <2>7, <2>8, <2>9, <2>10, <2>11 DEF Step
<1> QED BY <1>1, <1>2 DEF Next

\* What the ranks have told each other determines what each of them holds: the
\* inductive invariant of run_mapreduce.
THEOREM Agreement == Spec => []IInv
<1> QED BY InitIInv, NextIInv, PTL DEF Spec

-----------------------------------------------------------------------------
(* Consequences *)

\* A cell is held only by the rank that the agreed extent and splitters name.
LEMMA HeldByOwner ==
  ASSUME IInv, NEW r \in Ranks, NEW c \in CellsHeld(r)
  PROVE  OwnerRank(c, AgreedExtent, AgreedSplitters) = r
<1>1. CASE c \in DOMAIN owned[r] /\ owned[r] = NoTable BY <1>1 DEF NoTable
<1>2. CASE part[r].written /\ part[r] = NoPart BY <1>2 DEF NoPart
<1>3. ASSUME AllEntered(calls, ShuffleCall), c \in DOMAIN Reduced(r)
      PROVE  OwnerRank(c, AgreedExtent, AgreedSplitters) = r
  <2>1. Column(calls, ShuffleCall) =
          [s \in Ranks |-> SendBuckets(AgreedTable(s), AgreedExtent, AgreedSplitters)]
    BY <1>3, AgreedColumns
  <2>2. PICK s \in Ranks : c \in DOMAIN Column(calls, ShuffleCall)[s][r]
    BY <1>3 DEF Reduced, ReduceReceived
  <2>3. Column(calls, ShuffleCall)[s] =
          SendBuckets(AgreedTable(s), AgreedExtent, AgreedSplitters)
    BY <2>1
  <2>4. c \in DOMAIN SendBuckets(AgreedTable(s), AgreedExtent, AgreedSplitters)[r]
    BY <2>2, <2>3
  <2> QED BY <2>4 DEF SendBuckets
<1>4. CASE c \in DOMAIN owned[r] /\ owned[r] # NoTable
  BY <1>3, <1>4 DEF IInv, OwnedInv
<1>5. CASE part[r].written /\ c \in DOMAIN part[r].cells /\ part[r] # NoPart
  <2>1. AllEntered(calls, ShuffleCall) /\ DOMAIN part[r].cells = DOMAIN Reduced(r)
    BY <1>5 DEF IInv, PartInv, AgreedPart
  <2> QED BY <2>1, <1>3, <1>5
<1> QED BY <1>1, <1>2, <1>4, <1>5 DEF CellsHeld

\* Global deduplication: whatever the partition mode, no cell is ever held, in
\* memory or on disk, by two ranks.
THEOREM GlobalDeduplication == Spec => []OneOwner
<1>1. IInv => OneOwner BY HeldByOwner DEF OneOwner
<1> QED BY <1>1, Agreement, PTL

\* The k-th collective of one rank is the k-th collective of every other.
THEOREM MatchedCollectives == Spec => []CollectivesMatch
<1>1. ASSUME IInv PROVE CollectivesMatch
  <2>1. PICK S : calls \in [Ranks -> Seq(S)] BY <1>1 DEF IInv, LogTyped
  <2>2. DOMAIN calls = Ranks /\ \A r \in Ranks : DOMAIN calls[r] = 1..Len(calls[r])
    BY <2>1
  <2>3. \A r \in Ranks : \A k \in DOMAIN calls[r] : calls[r][k].op = OpOf(k)
    BY <1>1, <2>2 DEF IInv, ValueInv
  <2> QED BY <2>2, <2>3 DEF CollectivesMatch, CallsMatch
<1> QED BY <1>1, Agreement, PTL
-----------------------------------------------------------------------------
(* Points and cells *)

\* Every point of the input has integer coordinates, and there are finitely many.
LEMMA PointsLemma ==
  /\ IsFiniteSet(PointIds)
  /\ \A p \in PointIds : At(p) \in Point
<1>1. \A b \in Blocks : Input[b] \in Seq(Point) BY InputAssumption
<1>2. \A b \in Blocks : IsFiniteSet({b} \X DOMAIN Input[b])
  <2> SUFFICES ASSUME NEW b \in Blocks PROVE IsFiniteSet({b} \X DOMAIN Input[b]) OBVIOUS
  <2>1. DOMAIN Input[b] = 1..Len(Input[b]) /\ Len(Input[b]) \in Nat BY <1>1
  <2>2. IsFiniteSet(DOMAIN Input[b]) BY <2>1, FS_Interval
  <2>3. IsFiniteSet({b}) BY FS_Singleton
  <2> QED BY <2>2, <2>3, FS_Product
<1>3. IsFiniteSet(Blocks) BY MapReduceAssumption, FS_Interval DEF Blocks
<1> DEFINE f == [b \in Blocks |-> {b} \X DOMAIN Input[b]]
<1>4. IsFiniteSet(UNION {f[b] : b \in Blocks})
  <2>1. f = [b \in Blocks |-> f[b]] /\ \A b \in Blocks : IsFiniteSet(f[b]) BY <1>2
  <2> HIDE DEF f
  <2> QED BY <2>1, <1>3, UnionLemma
<1>5. IsFiniteSet(PointIds) BY <1>4 DEF PointIds
<1>6. \A p \in PointIds : At(p) \in Point
  <2> SUFFICES ASSUME NEW b \in Blocks, NEW i \in DOMAIN Input[b]
               PROVE  At(<<b, i>>) \in Point
    BY DEF PointIds
  <2>1. Input[b][i] \in Point BY <1>1
  <2> QED BY <2>1 DEF At
<1> QED BY <1>5, <1>6

\* The minimum of finitely many points, axis by axis, is a point.
LEMMA MinPointLemma ==
  ASSUME NEW S \in SUBSET Point, IsFiniteSet(S), S # {}
  PROVE  MinPoint(S) \in Point
<1>1. ASSUME NEW a \in Axes PROVE Min({q[a] : q \in S}) \in Int
  <2> DEFINE f == [q \in S |-> q[a]]
  <2>1. IsFiniteSet({f[q] : q \in S}) BY ImageLemma
  <2>2. {f[q] : q \in S} = {q[a] : q \in S} OBVIOUS
  <2>3. {q[a] : q \in S} \subseteq Int BY DEF Axes, Point
  <2>4. {q[a] : q \in S} # {} OBVIOUS
  <2> HIDE DEF f
  <2> QED BY <2>1, <2>2, <2>3, <2>4, MinLemma
<1> QED BY <1>1 DEF MinPoint, Axes, Point

\* A rank's own minimum, and the one the ranks agree on, are points.
LEMMA OffsetLemma == AgreedOffset \in Point /\ \A r \in Ranks : LocalMin(r) \in Point
<1>1. ASSUME NEW r \in Ranks PROVE LocalMin(r) \in Point
  <2> DEFINE far == <<FloatMax, FloatMax, FloatMax>>
             f == [p \in PointsOf(r) |-> At(p)]
             S == {far} \cup {At(p) : p \in PointsOf(r)}
  <2>1. PointsOf(r) \in SUBSET PointIds BY DEF PointsOf
  <2>2. IsFiniteSet(PointsOf(r)) BY <2>1, PointsLemma, FS_Subset
  <2>3. IsFiniteSet({f[p] : p \in PointsOf(r)}) BY <2>2, ImageLemma
  <2>4. IsFiniteSet({At(p) : p \in PointsOf(r)}) BY <2>3
  <2>5. IsFiniteSet({far}) BY FS_Singleton
  <2>6. IsFiniteSet(S) BY <2>4, <2>5, FS_Union
  <2>7. far \in Point BY MapReduceAssumption DEF Point
  <2>8. S \in SUBSET Point BY <2>1, <2>7, PointsLemma
  <2>9. S # {} OBVIOUS
  <2>10. MinPoint(S) \in Point BY <2>6, <2>8, <2>9, MinPointLemma
  <2> QED BY <2>10 DEF LocalMin
<1>2. AgreedOffset \in Point
  <2> DEFINE f == [s \in Ranks |-> LocalMin(s)]
  <2>1. IsFiniteSet(Ranks) /\ 0 \in Ranks BY MapReduceAssumption, FS_Interval DEF Ranks
  <2>2. IsFiniteSet({f[s] : s \in Ranks}) BY <2>1, ImageLemma
  <2>3. {f[s] : s \in Ranks} \in SUBSET Point /\ {f[s] : s \in Ranks} # {}
    BY <1>1, <2>1
  <2>4. MinPoint({f[s] : s \in Ranks}) \in Point BY <2>2, <2>3, MinPointLemma
  <2> QED BY <2>4 DEF AgreedOffset, GlobalOffset
<1> QED BY <1>1, <1>2

\* A table as it may be sent: every cell in it has at least one point.
IsCount(t) == DOMAIN t \subseteq Cells /\ \A c \in DOMAIN t : t[c] \in Nat \ {0}

\* Counting the points of each cell gives a table without empty cells.
LEMMA TableLemma ==
  ASSUME NEW r \in Ranks
  PROVE  IsCount(AgreedTable(r))
<1> DEFINE place(p) == <<p, QuantizeCell(Shifted(p, AgreedOffset))>>
           f == [p \in PointsOf(r) |-> place(p)]
           placed == Placed(PointsOf(r), AgreedOffset)
<1>1. PointsOf(r) \in SUBSET PointIds BY DEF PointsOf
<1>2. IsFiniteSet(PointsOf(r)) BY <1>1, PointsLemma, FS_Subset
<1>3. IsFiniteSet(placed)
  <2>1. IsFiniteSet({f[p] : p \in PointsOf(r)}) BY <1>2, ImageLemma
  <2>2. {f[p] : p \in PointsOf(r)} = placed BY DEF Placed
  <2> QED BY <2>1, <2>2
<1>4. \A x \in placed : x[2] \in Cells
  <2> SUFFICES ASSUME NEW p \in PointsOf(r)
               PROVE  QuantizeCell(Shifted(p, AgreedOffset)) \in Cells
    BY DEF Placed
  <2>1. At(p) \in Point /\ AgreedOffset \in Point BY <1>1, PointsLemma, OffsetLemma
  <2>2. Shifted(p, AgreedOffset) \in Point BY <2>1 DEF Shifted, Point
  <2> QED BY <2>2, QuantizeLemma
<1> HIDE DEF placed
<1>5. ASSUME NEW c \in {x[2] : x \in placed}
      PROVE  Cardinality({x \in placed : x[2] = c}) \in Nat \ {0}
  <2>1. IsFiniteSet({x \in placed : x[2] = c}) BY <1>3, FS_Subset
  <2>2. {x \in placed : x[2] = c} # {} OBVIOUS
  <2> QED BY <2>1, <2>2, FS_CardinalityType, FS_EmptySet
<1>6. AgreedTable(r) = Histogram(placed) BY DEF AgreedTable, LocalTable, placed
<1> QED BY <1>4, <1>5, <1>6 DEF IsCount, Histogram

-----------------------------------------------------------------------------
(* Counts *)

\* A count cut off at MaxInt is from 1 to MaxInt.
LEMMA SatLemma == \A n \in Nat \ {0} : Sat(n) \in 1..MaxInt
BY MapReduceAssumption DEF Sat

\* What a rank sends to another is a table of counts that fit an int.
LEMMA BucketLemma ==
  ASSUME NEW s \in Ranks, NEW t \in Ranks
  PROVE  IsCount(SendBuckets(AgreedTable(s), AgreedExtent, AgreedSplitters)[t])
<1>1. IsCount(AgreedTable(s)) BY TableLemma
<1>2. \A n \in Nat \ {0} : Sat(n) \in Nat \ {0} BY SatLemma, MapReduceAssumption
<1> HIDE DEF AgreedTable, AgreedExtent, AgreedSplitters
<1>3. SendBuckets(AgreedTable(s), AgreedExtent, AgreedSplitters)[t] =
        [c \in {d \in DOMAIN AgreedTable(s) :
                  OwnerRank(d, AgreedExtent, AgreedSplitters) = t} |-> Sat(AgreedTable(s)[c])]
  BY DEF SendBuckets
<1> QED BY <1>1, <1>2, <1>3 DEF IsCount

\* What a rank reduces is a table without empty cells.
LEMMA ReducedLemma ==
  ASSUME IInv, NEW r \in Ranks, AllEntered(calls, ShuffleCall)
  PROVE  IsCount(Reduced(r))
<1> DEFINE col == Column(calls, ShuffleCall)
           f(c) == [s \in {t \in Ranks : c \in DOMAIN col[t][r]} |-> col[s][r][c]]
<1>1. \A s \in Ranks : IsCount(col[s][r])
  <2>1. col = [s \in Ranks |-> SendBuckets(AgreedTable(s), AgreedExtent, AgreedSplitters)]
    BY AgreedColumns
  <2> HIDE DEF col
  <2> QED BY <2>1, BucketLemma
<1>2. Reduced(r) = [c \in UNION {DOMAIN col[s][r] : s \in Ranks} |-> SumFunction(f(c))]
  BY DEF Reduced, ReduceReceived
<1> HIDE DEF col
<1>3. ASSUME NEW c \in UNION {DOMAIN col[s][r] : s \in Ranks}
      PROVE  c \in Cells /\ SumFunction(f(c)) \in Nat \ {0}
  <2>1. PICK s \in Ranks : c \in DOMAIN col[s][r] OBVIOUS
  <2>2. \A t \in DOMAIN f(c) : f(c)[t] \in Nat \ {0} BY <1>1 DEF IsCount
  <2>3. IsFiniteSet(DOMAIN f(c))
    <3>1. IsFiniteSet(Ranks) BY MapReduceAssumption, FS_Interval DEF Ranks
    <3> QED BY <3>1, FS_Subset
  <2>4. s \in DOMAIN f(c) /\ c \in Cells BY <1>1, <2>1 DEF IsCount
  <2> HIDE DEF f
  <2>5. SumFunction(f(c)) \in Nat /\ f(c)[s] <= SumFunction(f(c)) BY <2>2, <2>3, <2>4, SumType
  <2>6. f(c)[s] \in Nat \ {0} BY <2>2, <2>4
  <2> QED BY <2>4, <2>5, <2>6
<1> QED BY <1>2, <1>3 DEF IsCount

-----------------------------------------------------------------------------
\* The variables have their types: offsets are points, tables map cells to
\* counts, and every count in a part file is from 1 to MaxInt.
THEOREM TypeCorrect == Spec => []TypeOK
<1>1. ASSUME IInv PROVE TypeOK
  <2>1. pc \in [Ranks -> PcValues] BY <1>1 DEF IInv, PcInv
  <2>2. DOMAIN calls = Ranks
    <3>1. PICK S : calls \in [Ranks -> Seq(S)] BY <1>1 DEF IInv, LogTyped
    <3> QED BY <3>1
  <2>3. ASSUME NEW t, IsCount(t) PROVE IsTable(t) BY <2>3 DEF IsCount, IsTable
  <2>4. IsTable(NoTable) BY DEF IsTable, NoTable
  <2>5. ASSUME NEW r \in Ranks PROVE offset[r] \in Point
    <3>1. <<0, 0, 0>> \in Point BY DEF Point
    <3> QED BY <1>1, <3>1, OffsetLemma DEF IInv, ViewInv
  <2>6. ASSUME NEW r \in Ranks PROVE IsTable(table[r])
    <3>1. table[r] = AgreedTable(r) \/ table[r] = NoTable BY <1>1 DEF IInv, ViewInv
    <3> QED BY <3>1, <2>3, <2>4, TableLemma
  <2>7. ASSUME NEW r \in Ranks PROVE IsTable(owned[r])
    <3>1. owned[r] = NoTable \/ (AllEntered(calls, ShuffleCall) /\ owned[r] = Reduced(r))
      BY <1>1 DEF IInv, OwnedInv
    <3> QED BY <1>1, <3>1, <2>3, <2>4, ReducedLemma
  <2>8. ASSUME NEW r \in Ranks, part[r] # NoPart
        PROVE  /\ IsTable(part[r].cells)
               /\ \A c \in DOMAIN part[r].cells : part[r].cells[c] \in 1..MaxInt
    <3>1. AllEntered(calls, ShuffleCall) /\ part[r] = AgreedPart(r)
      BY <1>1, <2>8 DEF IInv, PartInv
    <3>2. IsCount(Reduced(r)) BY <1>1, <3>1, ReducedLemma
    <3>3. part[r].cells = [c \in DOMAIN Reduced(r) |-> Sat(Reduced(r)[c])]
      BY <3>1 DEF AgreedPart
    <3>4. \A c \in DOMAIN Reduced(r) : c \in Cells /\ Sat(Reduced(r)[c]) \in 1..MaxInt
      BY <3>2, SatLemma DEF IsCount
    <3>5. 1..MaxInt \subseteq Nat BY MapReduceAssumption
    <3> QED BY <3>3, <3>4, <3>5 DEF IsTable
  <2> QED BY <2>1, <2>2, <2>5, <2>6, <2>7, <2>8 DEF TypeOK
<1> QED BY <1>1, Agreement, PTL


-----------------------------------------------------------------------------
(* The offset *)

\* The coordinates along an axis of finitely many points.
LEMMA AxisLemma ==
  ASSUME NEW S \in SUBSET Point, IsFiniteSet(S), NEW a \in Axes
  PROVE  IsFiniteSet({q[a] : q \in S}) /\ {q[a] : q \in S} \in SUBSET Int
<1> DEFINE f == [q \in S |-> q[a]]
<1>1. IsFiniteSet({f[q] : q \in S}) BY ImageLemma
<1>2. {f[q] : q \in S} = {q[a] : q \in S} OBVIOUS
<1>3. {q[a] : q \in S} \subseteq Int BY DEF Axes, Point
<1> QED BY <1>1, <1>2, <1>3

LEMMA RankOfPoint == \A p \in PointIds : p[1] % NRanks \in Ranks
<1> SUFFICES ASSUME NEW b \in Blocks PROVE b % NRanks \in Ranks BY DEF PointIds
<1>1. \A m \in Nat, n \in Nat \ {0} : m % n \in 0..(n - 1) OBVIOUS
<1> QED BY <1>1, MapReduceAssumption DEF Blocks, Ranks

\* A rank's own points, and the points of the cloud, are finite sets of points.
Seen(r) == {<<FloatMax, FloatMax, FloatMax>>} \cup {At(p) : p \in PointsOf(r)}

LEMMA SeenLemma ==
  ASSUME NEW r \in Ranks
  PROVE  Seen(r) \in SUBSET Point /\ IsFiniteSet(Seen(r))
<1> DEFINE f == [p \in PointsOf(r) |-> At(p)]
<1>1. PointsOf(r) \in SUBSET PointIds BY DEF PointsOf
<1>2. IsFiniteSet({f[p] : p \in PointsOf(r)})
  <2>1. IsFiniteSet(PointsOf(r)) BY <1>1, PointsLemma, FS_Subset
  <2> QED BY <2>1, ImageLemma
<1>3. IsFiniteSet({At(p) : p \in PointsOf(r)}) BY <1>2
<1>4. <<FloatMax, FloatMax, FloatMax>> \in Point BY MapReduceAssumption DEF Point
<1>5. IsFiniteSet({<<FloatMax, FloatMax, FloatMax>>}) BY FS_Singleton
<1> QED BY <1>1, <1>3, <1>4, <1>5, PointsLemma, FS_Union DEF Seen

LEMMA CloudLemma ==
  LET cloud == {At(p) : p \in PointIds} IN cloud \in SUBSET Point /\ IsFiniteSet(cloud)
<1> DEFINE f == [p \in PointIds |-> At(p)]
<1>1. IsFiniteSet({f[p] : p \in PointIds}) BY PointsLemma, ImageLemma
<1>2. {f[p] : p \in PointIds} = {At(p) : p \in PointIds} OBVIOUS
<1> QED BY <1>1, <1>2, PointsLemma

\* Along each axis the minimum of the ranks' minima is that of the cloud.
LEMMA AxisOffset ==
  ASSUME PointIds # {}, NEW a \in Axes
  PROVE  AgreedOffset[a] = CloudMin[a]
<1> DEFINE cloud == {At(p) : p \in PointIds}
           xs == {q[a] : q \in cloud}
           m == Min(xs)
           own(s) == {q[a] : q \in Seen(s)}
           mins == {LocalMin(s) : s \in Ranks}
           ys == {q[a] : q \in mins}
<1>1. \A S : MinPoint(S)[a] = Min({q[a] : q \in S})
  <2> SUFFICES ASSUME NEW S PROVE MinPoint(S)[a] = Min({q[a] : q \in S}) OBVIOUS
  <2>1. MinPoint(S)[1] = Min({q[1] : q \in S}) BY DEF MinPoint
  <2>2. MinPoint(S)[2] = Min({q[2] : q \in S}) BY DEF MinPoint
  <2>3. MinPoint(S)[3] = Min({q[3] : q \in S}) BY DEF MinPoint
  <2>4. a = 1 \/ a = 2 \/ a = 3 BY DEF Axes
  <2>5. CASE a = 1 BY <2>1, <2>5
  <2>6. CASE a = 2 BY <2>2, <2>6
  <2>7. CASE a = 3 BY <2>3, <2>7
  <2> QED BY <2>4, <2>5, <2>6, <2>7
<1>2. /\ CloudMin[a] = m
      /\ \A s \in Ranks : LocalMin(s)[a] = Min(own(s))
  BY <1>1 DEF CloudMin, LocalMin, Seen
<1>3. AgreedOffset[a] = Min(ys)
  <2>1. {[s \in Ranks |-> LocalMin(s)][t] : t \in Ranks} = mins OBVIOUS
  <2> QED BY <1>1, <2>1 DEF AgreedOffset, GlobalOffset
<1>4. IsFiniteSet(xs) /\ xs \in SUBSET Int /\ xs # {} BY AxisLemma, CloudLemma
<1>5. m \in xs /\ \A y \in xs : m <= y BY <1>4, MinLemma
<1>6. PICK p \in PointIds : At(p)[a] = m BY <1>5
<1>7. \A s \in Ranks : IsFiniteSet(own(s)) /\ own(s) \in SUBSET Int
  BY AxisLemma, SeenLemma
<1>8. \A s \in Ranks : \A y \in own(s) : m <= y
  <2> SUFFICES ASSUME NEW s \in Ranks, NEW q \in Seen(s) PROVE m <= q[a] OBVIOUS
  <2>1. CASE q = <<FloatMax, FloatMax, FloatMax>>
    <3>1. PICK b \in Blocks : \E i \in DOMAIN Input[b] : p = <<b, i>> BY DEF PointIds
    <3>2. PICK i \in DOMAIN Input[b] : p = <<b, i>> BY <3>1
    <3>3. At(p)[a] <= FloatMax BY <3>2, FloatAssumption DEF At
    <3>4. q[a] = FloatMax BY <2>1 DEF Axes
    <3> QED BY <3>3, <3>4, <1>6
  <2>2. ASSUME NEW o \in PointsOf(s), q = At(o) PROVE m <= q[a]
    BY <1>5, <2>2 DEF PointsOf
  <2> QED BY <2>1, <2>2 DEF Seen
<1>9. PICK t \in Ranks : p \in PointsOf(t) BY RankOfPoint DEF PointsOf
<1>10. m \in own(t) BY <1>6, <1>9 DEF Seen
<1> HIDE DEF m, own
<1>11. LocalMin(t)[a] = m
  <2>1. Min(own(t)) = m BY <1>7, <1>8, <1>10, LeastLemma
  <2> QED BY <1>2, <2>1
<1>12. \A s \in Ranks : LocalMin(s)[a] \in own(s)
  <2> SUFFICES ASSUME NEW s \in Ranks PROVE Min(own(s)) \in own(s) BY <1>2
  <2>1. own(s) # {} BY DEF own, Seen
  <2> QED BY <1>7, <2>1, MinLemma
<1>13. IsFiniteSet(ys) /\ ys \in SUBSET Int
  <2> DEFINE f == [s \in Ranks |-> LocalMin(s)]
  <2>1. IsFiniteSet(Ranks) BY MapReduceAssumption, FS_Interval DEF Ranks
  <2>2. IsFiniteSet({f[s] : s \in Ranks}) BY <2>1, ImageLemma
  <2>3. IsFiniteSet(mins) /\ mins \in SUBSET Point BY <2>2, OffsetLemma
  <2> QED BY <2>3, AxisLemma
<1>14. m \in ys /\ \A y \in ys : m <= y BY <1>8, <1>11, <1>12
<1> HIDE DEF ys
<1>15. Min(ys) = m BY <1>13, <1>14, LeastLemma
<1> QED BY <1>2, <1>3, <1>15

LEMMA SameOffset == PointIds # {} => AgreedOffset = CloudMin
<1> SUFFICES ASSUME PointIds # {} PROVE AgreedOffset = CloudMin OBVIOUS
<1>1. AgreedOffset[1] = CloudMin[1] /\ AgreedOffset[2] = CloudMin[2] /\ AgreedOffset[3] = CloudMin[3]
  BY AxisOffset DEF Axes
<1>2. \A S : MinPoint(S) = <<MinPoint(S)[1], MinPoint(S)[2], MinPoint(S)[3]>> BY DEF MinPoint
<1>3. /\ AgreedOffset = <<AgreedOffset[1], AgreedOffset[2], AgreedOffset[3]>>
      /\ CloudMin = <<CloudMin[1], CloudMin[2], CloudMin[3]>>
  BY <1>2 DEF AgreedOffset, GlobalOffset, CloudMin
<1> QED BY <1>1, <1>3

-----------------------------------------------------------------------------
(* The counts *)

\* A count that is cut off is the smaller of it and MaxInt.
LEMMA SatMin == \A n \in Nat : Min({n, MaxInt}) = Sat(n)
<1> SUFFICES ASSUME NEW n \in Nat PROVE Min({n, MaxInt}) = Sat(n) OBVIOUS
<1>1. MaxInt \in Int BY MapReduceAssumption
<1>2. IsFiniteSet({n, MaxInt})
  <2>1. IsFiniteSet({n}) /\ IsFiniteSet({MaxInt}) BY FS_Singleton
  <2>2. {n, MaxInt} = {n} \cup {MaxInt} OBVIOUS
  <2> QED BY <2>1, <2>2, FS_Union
<1>3. Sat(n) \in {n, MaxInt} /\ \A y \in {n, MaxInt} : Sat(n) <= y BY <1>1 DEF Sat
<1> HIDE DEF Sat
<1>4. {n, MaxInt} \in SUBSET Int BY <1>1
<1> QED BY <1>2, <1>3, <1>4, LeastLemma

\* The points of the cloud in a cell, and those of them that a rank reads.
Everywhere(c) == {x \in Placed(PointIds, AgreedOffset) : x[2] = c}
Here(s, c) == {x \in Placed(PointsOf(s), AgreedOffset) : x[2] = c}

LEMMA SplitByRank ==
  ASSUME NEW c
  PROVE  /\ IsFiniteSet(Everywhere(c)) /\ Cardinality(Everywhere(c)) \in Nat
         /\ \A s \in Ranks : /\ Here(s, c) \in SUBSET Everywhere(c)
                             /\ IsFiniteSet(Here(s, c)) /\ Cardinality(Here(s, c)) \in Nat
                             /\ Cardinality(Here(s, c)) <= Cardinality(Everywhere(c))
         /\ \A s, t \in Ranks : s # t => Here(s, c) \cap Here(t, c) = {}
         /\ \A x \in Everywhere(c) : \E s \in Ranks : x \in Here(s, c)
<1> DEFINE place == [p \in PointIds |-> <<p, QuantizeCell(Shifted(p, AgreedOffset))>>]
<1>1. IsFiniteSet(Everywhere(c))
  <2>1. IsFiniteSet({place[p] : p \in PointIds}) BY PointsLemma, ImageLemma
  <2>2. {place[p] : p \in PointIds} = Placed(PointIds, AgreedOffset) BY DEF Placed
  <2>3. Everywhere(c) \in SUBSET Placed(PointIds, AgreedOffset) BY DEF Everywhere
  <2> QED BY <2>1, <2>2, <2>3, FS_Subset
<1>2. \A s \in Ranks : Here(s, c) \in SUBSET Everywhere(c)
  BY DEF Here, Everywhere, Placed, PointsOf
<1>3. \A s, t \in Ranks : s # t => Here(s, c) \cap Here(t, c) = {}
  <2> SUFFICES ASSUME NEW s \in Ranks, NEW t \in Ranks, NEW x \in Here(s, c), x \in Here(t, c)
               PROVE  s = t
    OBVIOUS
  <2>1. x[1] \in PointsOf(s) /\ x[1] \in PointsOf(t) BY DEF Here, Placed
  <2> QED BY <2>1 DEF PointsOf
<1>4. \A x \in Everywhere(c) : \E s \in Ranks : x \in Here(s, c)
  <2> SUFFICES ASSUME NEW p \in PointIds,
                      QuantizeCell(Shifted(p, AgreedOffset)) = c
               PROVE  \E s \in Ranks : <<p, c>> \in Here(s, c)
    BY DEF Everywhere, Placed
  <2>1. PICK s \in Ranks : p \in PointsOf(s) BY RankOfPoint DEF PointsOf
  <2> QED BY <2>1 DEF Here, Placed
<1> QED BY <1>1, <1>2, <1>3, <1>4, FS_Subset, FS_CardinalityType

\* A rank's table has the cells it has points in.
LEMMA TableCounts ==
  ASSUME NEW s \in Ranks, NEW c
  PROVE  /\ c \in DOMAIN AgreedTable(s) <=> Here(s, c) # {}
         /\ c \in DOMAIN AgreedTable(s) => AgreedTable(s)[c] = Cardinality(Here(s, c))
<1>1. AgreedTable(s) = Histogram(Placed(PointsOf(s), AgreedOffset)) BY DEF AgreedTable, LocalTable
<1> HIDE DEF AgreedTable
<1> QED BY <1>1 DEF Histogram, Here

\* What a rank has added up for a cell is the count of the whole cloud, once both are
\* cut off.
LEMMA ReducedCount ==
  ASSUME IInv, AllEntered(calls, ShuffleCall), NEW r \in Ranks, NEW c \in DOMAIN Reduced(r)
  PROVE  Everywhere(c) # {} /\ Sat(Reduced(r)[c]) = Sat(Cardinality(Everywhere(c)))
<1> DEFINE col == Column(calls, ShuffleCall)
           has == {s \in Ranks : c \in DOMAIN col[s][r]}
           f == [s \in has |-> col[s][r][c]]
           h == [s \in has |-> Here(s, c)]
<1>1. Reduced(r) = [d \in UNION {DOMAIN col[s][r] : s \in Ranks} |->
                      SumFunction([s \in {t \in Ranks : d \in DOMAIN col[t][r]} |-> col[s][r][d]])]
  BY DEF Reduced, ReduceReceived
<1>2. \A s \in Ranks : col[s] = SendBuckets(AgreedTable(s), AgreedExtent, AgreedSplitters)
  <2>1. col = [s \in Ranks |-> SendBuckets(AgreedTable(s), AgreedExtent, AgreedSplitters)]
    BY AgreedColumns
  <2> HIDE DEF col
  <2> QED BY <2>1
<1> HIDE DEF col
<1>3. Reduced(r)[c] = SumFunction(f) BY <1>1
<1>4. PICK t \in Ranks : c \in DOMAIN col[t][r] BY <1>1
<1>5. \A s \in Ranks :
        col[s][r] = [d \in {e \in DOMAIN AgreedTable(s) :
                               OwnerRank(e, AgreedExtent, AgreedSplitters) = r} |->
                       Sat(AgreedTable(s)[d])]
  BY <1>2 DEF SendBuckets
<1>6. OwnerRank(c, AgreedExtent, AgreedSplitters) = r BY <1>4, <1>5
<1>7. \A s \in Ranks : /\ c \in DOMAIN col[s][r] <=> Here(s, c) # {}
                       /\ c \in DOMAIN col[s][r] => col[s][r][c] = Sat(Cardinality(Here(s, c)))
  <2> SUFFICES ASSUME NEW s \in Ranks
               PROVE  /\ c \in DOMAIN col[s][r] <=> c \in DOMAIN AgreedTable(s)
                      /\ c \in DOMAIN col[s][r] => col[s][r][c] = Sat(AgreedTable(s)[c])
    BY TableCounts
  <2> QED BY <1>5, <1>6
<1>8. /\ has \in SUBSET Ranks /\ t \in has
      /\ \A s \in has : Here(s, c) # {} /\ f[s] = Sat(Cardinality(Here(s, c)))
      /\ \A s \in Ranks : Here(s, c) # {} => s \in has
  BY <1>4, <1>7
<1>13. DOMAIN f = has /\ IsFiniteSet(has)
  <2>1. IsFiniteSet(Ranks) BY MapReduceAssumption, FS_Interval DEF Ranks
  <2> QED BY <2>1, FS_Subset
<1> HIDE DEF has, f
<1>9. Everywhere(c) # {} BY <1>8, SplitByRank
<1>10. Everywhere(c) = UNION {h[s] : s \in has}
  <2>1. \A x \in Everywhere(c) : \E s \in has : x \in Here(s, c) BY <1>8, SplitByRank
  <2>2. \A s \in has : Here(s, c) \in SUBSET Everywhere(c) BY <1>8, SplitByRank
  <2> QED BY <2>1, <2>2
<1>11. CASE \A s \in has : Cardinality(Here(s, c)) <= MaxInt
  <2>1. \A s \in has : f[s] = Cardinality(Here(s, c))
    <3>1. \A n \in Nat : n <= MaxInt => Sat(n) = n BY MapReduceAssumption DEF Sat
    <3> QED BY <3>1, <1>8, <1>11, SplitByRank
  <2>2. \A s \in has : IsFiniteSet(h[s]) /\ f[s] = Cardinality(h[s])
    BY <2>1, <1>8, SplitByRank
  <2>3. \A s, u \in has : s # u => h[s] \cap h[u] = {} BY <1>8, SplitByRank
  <2>4. IsFiniteSet(UNION {h[s] : s \in has}) BY <1>10, SplitByRank
  <2> HIDE DEF h
  <2>5. SumFunction(f) = Cardinality(UNION {h[s] : s \in has})
    BY <1>13, <2>2, <2>3, <2>4, DisjointSum
  <2> QED BY <1>3, <1>9, <1>10, <2>5
<1>12. CASE ~(\A s \in has : Cardinality(Here(s, c)) <= MaxInt)
  <2>1. PICK u \in has : ~(Cardinality(Here(u, c)) <= MaxInt) BY <1>12
  <2>2. /\ Cardinality(Here(u, c)) \in Nat /\ Cardinality(Everywhere(c)) \in Nat
        /\ Cardinality(Here(u, c)) <= Cardinality(Everywhere(c))
    BY <1>8, <2>1, SplitByRank
  <2>3. f[u] = MaxInt
    <3>1. \A n \in Nat : ~(n <= MaxInt) => Sat(n) = MaxInt BY MapReduceAssumption DEF Sat
    <3> QED BY <3>1, <1>8, <2>1, <2>2
  <2>4. \A s \in has : f[s] \in Nat
    <3>1. \A n \in Nat : Sat(n) \in Nat BY MapReduceAssumption DEF Sat
    <3>2. \A s \in has : s \in Ranks BY <1>8
    <3>3. \A s \in has : Cardinality(Here(s, c)) \in Nat BY <3>2, SplitByRank
    <3> QED BY <3>1, <3>3, <1>8
  <2>5. SumFunction(f) \in Nat /\ MaxInt <= SumFunction(f)
    BY <1>13, <2>1, <2>3, <2>4, SumType
  <2>6. \A n \in Nat : MaxInt <= n => Sat(n) = MaxInt BY MapReduceAssumption DEF Sat
  <2>7. MaxInt <= Cardinality(Everywhere(c)) BY <2>1, <2>2, MapReduceAssumption
  <2> QED BY <1>3, <1>9, <2>2, <2>5, <2>6, <2>7
<1> QED BY <1>11, <1>12

-----------------------------------------------------------------------------
(* What is published *)

\* The true census has the cells that have points, with their counts cut off.
LEMMA CensusCounts ==
  ASSUME NEW c
  PROVE  /\ c \in DOMAIN TrueCensus <=> Everywhere(c) # {}
         /\ c \in DOMAIN TrueCensus => TrueCensus[c] = Sat(Cardinality(Everywhere(c)))
<1> DEFINE placed == Placed(PointIds, CloudMin)
           hist == Histogram(placed)
<1>1. placed = Placed(PointIds, AgreedOffset)
  <2>1. CASE PointIds = {} BY <2>1 DEF Placed
  <2>2. CASE PointIds # {} BY <2>2, SameOffset
  <2> QED BY <2>1, <2>2
<1>2. Everywhere(c) = {x \in placed : x[2] = c} BY <1>1 DEF Everywhere
<1>3. TrueCensus = [d \in DOMAIN hist |-> Min({hist[d], MaxInt})] BY DEF TrueCensus
<1> HIDE DEF placed
<1>4. /\ c \in DOMAIN hist <=> Everywhere(c) # {}
      /\ c \in DOMAIN hist => hist[c] = Cardinality(Everywhere(c))
  BY <1>2 DEF Histogram
<1> HIDE DEF hist
<1>5. c \in DOMAIN hist => TrueCensus[c] = Min({Cardinality(Everywhere(c)), MaxInt})
  BY <1>3, <1>4
<1>6. Min({Cardinality(Everywhere(c)), MaxInt}) = Sat(Cardinality(Everywhere(c)))
  BY SplitByRank, SatMin
<1>7. DOMAIN TrueCensus = DOMAIN hist BY <1>3
<1> QED BY <1>4, <1>5, <1>6, <1>7

\* A part file holds true counts.
LEMMA PartCounts ==
  ASSUME IInv, NEW r \in Written
  PROVE  /\ part[r] = AgreedPart(r) /\ AllEntered(calls, ShuffleCall)
         /\ DOMAIN part[r].cells = DOMAIN Reduced(r)
         /\ \A c \in DOMAIN part[r].cells :
              /\ Everywhere(c) # {}
              /\ part[r].cells[c] = Sat(Cardinality(Everywhere(c)))
<1>1. r \in Ranks /\ part[r].written BY DEF Written
<1>2. part[r] # NoPart BY <1>1 DEF NoPart
<1>3. part[r] = AgreedPart(r) /\ AllEntered(calls, ShuffleCall)
  BY <1>1, <1>2 DEF IInv, PartInv
<1>4. part[r].cells = [c \in DOMAIN Reduced(r) |-> Sat(Reduced(r)[c])] BY <1>3 DEF AgreedPart
<1> QED BY <1>1, <1>3, <1>4, ReducedCount

\* What is published is part of the true census.
LEMMA PublishedCounts ==
  ASSUME IInv
  PROVE  /\ DOMAIN Published = UNION {DOMAIN part[r].cells : r \in Written}
         /\ DOMAIN Published \subseteq DOMAIN TrueCensus
         /\ \A c \in DOMAIN Published : Published[c] = TrueCensus[c]
<1>1. DOMAIN Published = UNION {DOMAIN part[r].cells : r \in Written} BY DEF Published
<1>2. ASSUME NEW c \in DOMAIN Published
      PROVE  c \in DOMAIN TrueCensus /\ Published[c] = TrueCensus[c]
  <2> DEFINE r == CHOOSE s \in Written : c \in DOMAIN part[s].cells
  <2>1. r \in Written /\ c \in DOMAIN part[r].cells BY <1>1
  <2>2. Published[c] = part[r].cells[c] BY <1>1 DEF Published
  <2> HIDE DEF r
  <2>3. Everywhere(c) # {} /\ part[r].cells[c] = Sat(Cardinality(Everywhere(c)))
    BY <2>1, PartCounts
  <2> QED BY <2>2, <2>3, CensusCounts
<1> QED BY <1>1, <1>2

\* A part that is on disk keeps its cells.
LEMMA PartsStay ==
  ASSUME IInv, [Next]_vars
  PROVE  DOMAIN Published \subseteq DOMAIN Published'
<1>1. ASSUME NEW s \in Written
      PROVE  s \in Written' /\ DOMAIN part'[s].cells = DOMAIN part[s].cells
  <2>1. s \in Ranks /\ part[s].written BY DEF Written
  <2>2. CASE part' = part BY <2>1, <2>2 DEF Written
  <2>3. ASSUME NEW r \in Ranks, EncodeAndWrite(r)
        PROVE  s \in Written' /\ DOMAIN part'[s].cells = DOMAIN part[s].cells
    <3>1. part' = [part EXCEPT ![r] = PartOf(r)] /\ pc[r] = "encode"
      BY <2>3 DEF EncodeAndWrite
    <3>2. DOMAIN part = Ranks BY DEF IInv, PartInv
    <3>3. CASE s # r BY <2>1, <3>1, <3>2, <3>3 DEF Written
    <3>4. CASE s = r
      <4>1. owned[r] = Reduced(r) BY <3>1 DEF IInv, OwnedInv
      <4>2. part'[s] = PartOf(r) BY <3>1, <3>2, <3>4
      <4>3. part'[s].written /\ DOMAIN part'[s].cells = DOMAIN Reduced(r)
        BY <4>1, <4>2 DEF PartOf
      <4>4. DOMAIN part[s].cells = DOMAIN Reduced(r) BY <3>4, PartCounts
      <4> QED BY <2>1, <4>3, <4>4 DEF Written
    <3> QED BY <3>3, <3>4
  <2> QED
    BY <2>2, <2>3 DEF Next, Step, vars, ScanBbox, MapQuantize, MapFails, ChooseSamples,
       ShuffleBySamples, ShuffleByCode, Shuffle, Reduce, WriteManifest, EncodeFails, Killed
<1>2. DOMAIN Published' = UNION {DOMAIN part'[s].cells : s \in Written'} BY DEF Published
<1>3. DOMAIN Published = UNION {DOMAIN part[s].cells : s \in Written} BY DEF Published
<1> HIDE DEF Next
<1> QED BY <1>1, <1>2, <1>3

PublishedIsTrue ==
  /\ DOMAIN Published \subseteq DOMAIN TrueCensus
  /\ \A c \in DOMAIN Published : Published[c] = TrueCensus[c]

\* The job publishes the census of the cloud: whatever the number of ranks, the
\* partition mode and the failures are, a cell that appears on disk has at once the
\* number of points of the whole input, and stays.
THEOREM CensusIsPublished == Spec => PublishesCensus
<1>1. Init => Census!Init
  <2> SUFFICES ASSUME Init PROVE Published = [c \in {} |-> 0] BY DEF Census!Init
  <2>1. \A r \in Ranks : part[r] = NoPart BY DEF Init
  <2>2. Written = {} BY <2>1 DEF Written, NoPart
  <2> QED BY <2>2 DEF Published
<1>2. IInv => PublishedIsTrue BY PublishedCounts DEF PublishedIsTrue
<1>3. IInv' => PublishedIsTrue' BY <1>2, PTL
<1>4. ASSUME IInv, IInv', [Next]_vars PROVE Census!Publish
  <2>1. TrueCensus' = TrueCensus BY DEF TrueCensus
  <2>2. DOMAIN Published \subseteq DOMAIN Published' BY <1>4, PartsStay
  <2>3. PublishedIsTrue /\ PublishedIsTrue' BY <1>2, <1>3, <1>4
  <2> QED BY <2>1, <2>2, <2>3 DEF Census!Publish, PublishedIsTrue
<1> QED BY <1>1, <1>4, Agreement, PTL DEF Spec, PublishesCensus, Census!Spec

\* A cell read back from a part file is within the error bound of as many points of
\* the input as its count says.
THEOREM PartsKeepBound == Spec => []PartsWithinBound
<1>1. ASSUME IInv PROVE PartsWithinBound
  <2> SUFFICES ASSUME NEW r \in Written, NEW c \in DOMAIN part[r].cells
               PROVE  Cardinality({p \in PointIds : WithinBound(Shifted(p, part[r].offset), c)})
                        >= part[r].cells[c]
    BY DEF PartsWithinBound
  <2> DEFINE near == {p \in PointIds : WithinBound(Shifted(p, AgreedOffset), c)}
             F == [x \in Everywhere(c) |-> x[1]]
  <2>1. /\ part[r].offset = AgreedOffset
        /\ part[r].cells[c] = Sat(Cardinality(Everywhere(c)))
    <3>1. part[r] = AgreedPart(r) /\ part[r].cells[c] = Sat(Cardinality(Everywhere(c)))
      BY <1>1, PartCounts
    <3>2. AgreedPart(r).offset = AgreedOffset BY DEF AgreedPart
    <3> QED BY <3>1, <3>2
  <2>2. \A p \in PointIds : Shifted(p, AgreedOffset) \in Point
    BY PointsLemma, OffsetLemma DEF Shifted, Point
  <2>3. \A x \in Everywhere(c) : x[1] \in near /\ x = <<x[1], c>>
    BY <2>2, ErrorBound DEF Everywhere, Placed
  <2>4. IsFiniteSet(near) BY PointsLemma, FS_Subset
  <2> HIDE DEF near
  <2>5. F \in Injection(Everywhere(c), near) BY <2>3 DEF Injection, IsInjective
  <2>6. Cardinality(Everywhere(c)) <= Cardinality(near) BY <2>4, <2>5, FS_Injection
  <2>7. Cardinality(near) \in Nat /\ Cardinality(Everywhere(c)) \in Nat
    BY <2>4, FS_CardinalityType, SplitByRank
  <2>8. \A n \in Nat : Sat(n) \in Nat /\ Sat(n) <= n BY MapReduceAssumption DEF Sat
  <2> QED BY <2>1, <2>6, <2>7, <2>8 DEF near
<1> QED BY <1>1, Agreement, PTL

-----------------------------------------------------------------------------
(* Codes *)

\* Spread gives numbers.
LEMMA SpreadLemma == \A k \in Nat : Spread[k] \in [Int -> Nat]
<1>1. \E f : f = SpreadRule(f) BY Spreading
<1>2. Spread = SpreadRule(Spread) BY <1>1, Zenon DEF Spread, SpreadRule
<1> QED BY <1>2, Spreading

\* There is at least one code of any length.
LEMMA CurveLemma == \A k \in Nat : CurveLength[k] \in Nat \ {0}
<1> DEFINE V == Nat \ {0}
           c == [k \in Nat |-> 1]
           D == [k \in Nat |-> [v \in V |-> 8 * v]]
           below == [k \in Nat |-> k - 1]
           Rec(g) == [k \in Nat |-> IF k = 0 THEN 1 ELSE 8 * g[k - 1]]
<1>1. \E f \in [Nat -> V] : Solves(f, Nat, {0}, c, below, D)
  <2>1. \A k \in Nat \cap {0} : c[k] \in V OBVIOUS
  <2>2. \A k \in Nat \ {0} : below[k] \in Nat /\ below[k] < k OBVIOUS
  <2>3. \A k \in Nat \ {0} : \A v \in V : D[k][v] \in V OBVIOUS
  <2> HIDE DEF V, c, below, D
  <2> QED BY <2>1, <2>2, <2>3, Recursion
<1>2. \E f : f = Rec(f)
  <2>1. PICK f \in [Nat -> V] : Solves(f, Nat, {0}, c, below, D) BY <1>1
  <2>2. ASSUME NEW k \in Nat PROVE f[k] = IF k = 0 THEN 1 ELSE 8 * f[k - 1]
    <3>1. CASE k = 0 BY <2>1, <3>1 DEF Solves
    <3>2. CASE k # 0
      <4>1. f[k] = D[k][f[below[k]]] BY <2>1, <3>2 DEF Solves
      <4>2. k - 1 \in Nat /\ below[k] = k - 1 BY <3>2
      <4>3. f[k - 1] \in V BY <2>1, <4>2
      <4> QED BY <4>1, <4>2, <4>3, <3>2
    <3> QED BY <3>1, <3>2
  <2>3. f = [k \in Nat |-> f[k]] BY <2>1
  <2> QED BY <2>2, <2>3
<1>3. CurveLength = Rec(CurveLength) BY <1>2, Zenon DEF CurveLength
<1> DEFINE P == {k \in Nat : CurveLength[k] \in V}
<1>4. 0 \in P BY <1>3
<1>5. ASSUME NEW k \in Nat, k \in P PROVE k + 1 \in P
  <2>1. k + 1 \in Nat /\ (k + 1) - 1 = k /\ k + 1 # 0 OBVIOUS
  <2>2. CurveLength[k + 1] = 8 * CurveLength[k] BY <1>3, <2>1
  <2> QED BY <1>5, <2>1, <2>2
<1> HIDE DEF P
<1>6. \A k \in Nat : k \in P BY <1>4, <1>5, SimpleInduction
<1> QED BY <1>6 DEF P

\* The length of a coordinate is found.
LEMMA AxisBitsLemma == \A n \in Nat : AxisBits[n] \in Nat
<1> DEFINE B == {0, 1}
           c == [n \in Nat |-> 1]
           D == [n \in Nat |-> [v \in Nat |-> 1 + v]]
           below == [n \in Nat |-> n \div 2]
           Rec(g) == [n \in Nat |-> IF n <= 1 THEN 1 ELSE 1 + g[n \div 2]]
<1>1. \A n \in Nat : /\ n <= 1 <=> n \in B
                     /\ n \notin B => n \div 2 \in Nat /\ n \div 2 < n /\ n \div 2 \in 0..(n - 1)
  OBVIOUS
<1>2. \E f \in [Nat -> Nat] : Solves(f, Nat, B, c, below, D)
  <2>1. \A n \in Nat \cap B : c[n] \in Nat OBVIOUS
  <2>2. \A n \in Nat \ B : below[n] \in Nat /\ below[n] < n BY <1>1
  <2>3. \A n \in Nat \ B : \A v \in Nat : D[n][v] \in Nat OBVIOUS
  <2> HIDE DEF B, c, below, D
  <2> QED BY <2>1, <2>2, <2>3, Recursion
<1>3. \E f : f = Rec(f)
  <2>1. PICK f \in [Nat -> Nat] : Solves(f, Nat, B, c, below, D) BY <1>2
  <2>2. ASSUME NEW n \in Nat PROVE f[n] = IF n <= 1 THEN 1 ELSE 1 + f[n \div 2]
    <3>1. CASE n \in B BY <2>1, <3>1, <1>1 DEF Solves
    <3>2. CASE n \notin B
      <4>1. f[n] = D[n][f[below[n]]] BY <2>1, <3>2 DEF Solves
      <4>2. n \div 2 \in Nat /\ below[n] = n \div 2 BY <1>1, <3>2
      <4>3. f[n \div 2] \in Nat BY <2>1, <4>2
      <4> QED BY <4>1, <4>2, <4>3, <3>2, <1>1
    <3> QED BY <3>1, <3>2
  <2>3. f = [n \in Nat |-> f[n]] BY <2>1
  <2> QED BY <2>2, <2>3
<1>4. AxisBits = Rec(AxisBits) BY <1>3, Zenon DEF AxisBits
<1> DEFINE P == {n \in Nat : AxisBits[n] \in Nat}
<1>5. ASSUME NEW n \in Nat, \A k \in 0..(n - 1) : k \in P PROVE n \in P
  <2>1. AxisBits[n] = IF n <= 1 THEN 1 ELSE 1 + AxisBits[n \div 2] BY <1>4
  <2>2. n <= 1 \/ AxisBits[n \div 2] \in Nat BY <1>1, <1>5
  <2> QED BY <2>1, <2>2
<1> HIDE DEF P
<1>6. \A n \in Nat : n \in P BY <1>5, BelowInduction
<1> QED BY <1>6 DEF P

\* Every cell has a code, negative coordinates included.
LEMMA CodeLemma == \A c \in Cells : MortonCode(c) \in Nat
<1>1. \A x \in Int : SplitBy3(x) \in Nat BY SpreadLemma, MapReduceAssumption DEF SplitBy3
<1> SUFFICES ASSUME NEW c \in Cells PROVE MortonCode(c) \in Nat OBVIOUS
<1>2. c[1] \in Int /\ c[2] \in Int /\ c[3] \in Int BY DEF Cells
<1>3. SplitBy3(c[1]) \in Nat /\ SplitBy3(c[2]) \in Nat /\ SplitBy3(c[3]) \in Nat BY <1>1, <1>2
<1> QED BY <1>3 DEF MortonCode

-----------------------------------------------------------------------------
(* The extent and the samples *)

\* A rank's table has finitely many cells.
LEMMA TableFinite ==
  ASSUME NEW r \in Ranks
  PROVE  IsFiniteSet(DOMAIN AgreedTable(r))
<1> DEFINE D == DOMAIN AgreedTable(r)
           placed == Placed(PointsOf(r), AgreedOffset)
           f == [p \in PointsOf(r) |-> QuantizeCell(Shifted(p, AgreedOffset))]
<1>1. PointsOf(r) \in SUBSET PointIds BY DEF PointsOf
<1>5. IsFiniteSet(PointsOf(r)) BY <1>1, PointsLemma, FS_Subset
<1>2. IsFiniteSet({f[p] : p \in PointsOf(r)}) BY <1>5, ImageLemma
<1>3. D = {x[2] : x \in placed} BY DEF AgreedTable, LocalTable, Histogram
<1>4. {x[2] : x \in placed} = {f[p] : p \in PointsOf(r)}
  <2> DEFINE cell(p) == QuantizeCell(Shifted(p, AgreedOffset))
  <2>1. placed = {<<p, cell(p)>> : p \in PointsOf(r)} BY DEF Placed
  <2>2. f = [p \in PointsOf(r) |-> cell(p)] OBVIOUS
  <2>3. \A p \in PointsOf(r) : f[p] = cell(p) OBVIOUS
  <2>4. \A p \in PointsOf(r) : <<p, cell(p)>>[2] = cell(p) OBVIOUS
  <2> HIDE DEF cell, f, placed
  <2>5. \A x \in placed : \E p \in PointsOf(r) : x[2] = f[p] BY <2>1, <2>3, <2>4
  <2>6. \A p \in PointsOf(r) : \E x \in placed : x[2] = f[p] BY <2>1, <2>3, <2>4
  <2> QED BY <2>5, <2>6
<1> QED BY <1>2, <1>3, <1>4

\* The codes of a rank's cells, and the extent of its table, are numbers.
LEMMA LocalExtentLemma ==
  ASSUME NEW r \in Ranks
  PROVE  /\ LocalExtent(AgreedTable(r)).maxq \in Nat
         /\ LocalExtent(AgreedTable(r)).lo \in Nat /\ LocalExtent(AgreedTable(r)).hi \in Nat
<1> DEFINE D == DOMAIN AgreedTable(r)
           code == [c \in D |-> MortonCode(c)]
           coords == [c \in D |-> {c[a] : a \in Axes}]
           all == {0} \cup UNION {coords[c] : c \in D}
<1>1. D \in SUBSET Cells BY TableLemma DEF IsCount
<1>2. IsFiniteSet(D) BY TableFinite
<1> HIDE DEF D
<1>3. IsFiniteSet(Codes(D)) /\ Codes(D) \in SUBSET Nat
  <2>1. IsFiniteSet({code[c] : c \in D}) BY <1>2, ImageLemma
  <2>2. {code[c] : c \in D} = Codes(D) BY DEF Codes
  <2>3. \A c \in D : MortonCode(c) \in Nat BY <1>1, CodeLemma
  <2> QED BY <2>1, <2>2, <2>3 DEF Codes
<1>4. D = {} \/ (Min(Codes(D)) \in Nat /\ Max(Codes(D)) \in Nat)
  <2>1. ASSUME D # {} PROVE Codes(D) # {} BY <2>1 DEF Codes
  <2>2. Codes(D) \in SUBSET Int BY <1>3
  <2> QED BY <1>3, <2>1, <2>2, MinLemma, MaxLemma
<1>5. IsFiniteSet(all) /\ all \in SUBSET Int
  <2>1. \A c \in D : IsFiniteSet(coords[c]) /\ coords[c] \in SUBSET Int
    <3> SUFFICES ASSUME NEW c \in D
                 PROVE  IsFiniteSet({c[a] : a \in Axes}) /\ {c[a] : a \in Axes} \in SUBSET Int
      OBVIOUS
    <3> DEFINE g == [a \in Axes |-> c[a]]
    <3>4. IsFiniteSet(Axes)
      <4>1. 1 \in Int /\ 3 \in Int OBVIOUS
      <4>2. IsFiniteSet(1..3) BY <4>1, FS_Interval
      <4> QED BY <4>2 DEF Axes
    <3>1. IsFiniteSet({g[a] : a \in Axes}) BY <3>4, ImageLemma
    <3>2. {g[a] : a \in Axes} = {c[a] : a \in Axes} OBVIOUS
    <3>3. \A a \in Axes : c[a] \in Int BY <1>1 DEF Cells, Axes
    <3> QED BY <3>1, <3>2, <3>3
  <2>2. coords = [c \in D |-> coords[c]] OBVIOUS
  <2>3. IsFiniteSet({0}) BY FS_Singleton
  <2> HIDE DEF coords
  <2>4. IsFiniteSet(UNION {coords[c] : c \in D}) BY <1>2, <2>1, <2>2, UnionLemma
  <2>5. UNION {coords[c] : c \in D} \in SUBSET Int BY <2>1
  <2>6. IsFiniteSet(all) BY <2>3, <2>4, FS_Union
  <2> QED BY <2>5, <2>6
<1>6. Max(all) \in Nat
  <2>1. 0 \in all OBVIOUS
  <2> HIDE DEF all
  <2>2. Max(all) \in Int /\ 0 <= Max(all) BY <1>5, <2>1, MaxLemma
  <2> QED BY <2>2
<1>7. all = {0} \cup UNION {{c[a] : a \in Axes} : c \in D} OBVIOUS
<1> QED BY <1>4, <1>6, <1>7 DEF LocalExtent, D

LEMMA ExtentLemma == /\ AgreedExtent.maxq \in Nat
                     /\ AgreedExtent.lo \in Nat /\ AgreedExtent.hi \in Nat
<1> DEFINE col == [s \in Ranks |-> LocalExtent(AgreedTable(s))]
           q == [s \in Ranks |-> col[s].maxq]
           l == [s \in Ranks |-> col[s].lo]
           h == [s \in Ranks |-> col[s].hi]
<1>1. \A s \in Ranks : q[s] \in Nat /\ l[s] \in Nat /\ h[s] \in Nat BY LocalExtentLemma
<1>2. IsFiniteSet(Ranks) /\ 0 \in Ranks BY MapReduceAssumption, FS_Interval DEF Ranks
<1>7. IsFiniteSet({q[s] : s \in Ranks}) BY <1>2, ImageLemma
<1>8. IsFiniteSet({l[s] : s \in Ranks}) BY <1>2, ImageLemma
<1>9. IsFiniteSet({h[s] : s \in Ranks}) BY <1>2, ImageLemma
<1>4. /\ {q[s] : s \in Ranks} \in SUBSET Nat /\ {q[s] : s \in Ranks} # {}
      /\ {l[s] : s \in Ranks} \in SUBSET Nat /\ {l[s] : s \in Ranks} # {}
      /\ {h[s] : s \in Ranks} \in SUBSET Nat /\ {h[s] : s \in Ranks} # {}
  BY <1>1, <1>2
<1>5. \A S \in SUBSET Nat : S \in SUBSET Int OBVIOUS
<1>6. /\ AgreedExtent.maxq = Max({q[s] : s \in Ranks})
      /\ AgreedExtent.lo = Min({l[s] : s \in Ranks})
      /\ AgreedExtent.hi = Max({h[s] : s \in Ranks})
  BY DEF AgreedExtent, GlobalExtent
<1> HIDE DEF q, l, h
<1> QED BY <1>4, <1>5, <1>6, <1>7, <1>8, <1>9, MinLemma, MaxLemma

\* A rank contributes codes of its own cells to the samples.
SampleInv ==
  Mode = "samplesort" =>
    \A r \in Ranks : Len(calls[r]) >= 3 =>
      \E cells \in SUBSET DOMAIN AgreedTable(r) : calls[r][3].val = [c \in cells |-> MortonCode(c)]

LEMMA SampleStep == IInv /\ SampleInv /\ [Next]_vars => SampleInv'
<1> SUFFICES ASSUME IInv, SampleInv, [Next]_vars, Mode = "samplesort",
                    NEW s \in Ranks, Len(calls'[s]) >= 3
             PROVE  \E cells \in SUBSET DOMAIN AgreedTable(s) :
                      calls'[s][3].val = [c \in cells |-> MortonCode(c)]
  BY DEF SampleInv, AgreedTable, AgreedOffset
<1>1. PICK S : calls \in [Ranks -> Seq(S)] BY DEF IInv, LogTyped
<1>2. CASE calls' = calls BY <1>2 DEF SampleInv
<1>3. ASSUME NEW r \in Ranks, NEW op, NEW val, calls' = Post(calls, r, op, val),
             s = r /\ Len(calls[s]) = 2 =>
               \E cells \in SUBSET DOMAIN AgreedTable(s) : val = [c \in cells |-> MortonCode(c)]
      PROVE  \E cells \in SUBSET DOMAIN AgreedTable(s) :
               calls'[s][3].val = [c \in cells |-> MortonCode(c)]
  <2>1. /\ \A t \in Ranks \ {r} : calls'[t] = calls[t]
        /\ Len(calls'[r]) = Len(calls[r]) + 1
        /\ \A k \in 1..Len(calls[r]) : calls'[r][k] = calls[r][k]
        /\ calls'[r][Len(calls[r]) + 1] = MpiCall(op, val)
    BY <1>1, <1>3, PostLemma
  <2>2. Len(calls[r]) \in Nat /\ Len(calls[s]) \in Nat BY <1>1
  <2>3. CASE s # r BY <2>1, <2>3 DEF SampleInv
  <2>4. CASE s = r /\ Len(calls[s]) >= 3
    <3>1. 3 \in 1..Len(calls[r]) BY <2>2, <2>4
    <3> QED BY <3>1, <2>1, <2>4 DEF SampleInv
  <2>5. CASE s = r /\ Len(calls[s]) = 2
    <3>1. calls'[s][3].val = val BY <2>1, <2>5 DEF MpiCall
    <3> QED BY <3>1, <2>5, <1>3
  <2>6. s = r => Len(calls[s]) >= 2
    <3>1. s = r => Len(calls[s]) + 1 >= 3 BY <2>1
    <3> QED BY <3>1, <2>2
  <2>7. s # r \/ (s = r /\ Len(calls[s]) >= 3) \/ (s = r /\ Len(calls[s]) = 2)
    <3>1. \A n \in Nat : n >= 2 => n >= 3 \/ n = 2 OBVIOUS
    <3> QED BY <3>1, <2>2, <2>6, Zenon
  <2> QED BY <2>3, <2>4, <2>5, <2>7
<1>4. ASSUME NEW r \in Ranks, ScanBbox(r) PROVE Len(calls[r]) = 0
  BY <1>4, LogLength DEF ScanBbox
<1>5. ASSUME NEW r \in Ranks, MapQuantize(r) PROVE Len(calls[r]) = 1
  BY <1>5, LogLength DEF MapQuantize
<1>6. ASSUME NEW r \in Ranks, ShuffleBySamples(r) PROVE Len(calls[r]) = 3
  BY <1>6, LogLength DEF ShuffleBySamples
<1>7. ASSUME NEW r \in Ranks, ChooseSamples(r)
      PROVE  \E cells \in SUBSET DOMAIN AgreedTable(r) :
               calls' = Post(calls, r, "Allgather samples", [c \in cells |-> MortonCode(c)])
  <2>1. pc[r] = "ranges" BY <1>7 DEF ChooseSamples
  <2>2. Len(calls[r]) = 2 /\ ShuffleCall = 4 BY <2>1, LogLength
  <2>3. table[r] = AgreedTable(r) BY <2>2 DEF IInv, ViewInv
  <2>4. PICK cells \in SampleChoices(DOMAIN table[r]) :
          calls' = Post(calls, r, "Allgather samples", [c \in cells |-> MortonCode(c)])
    BY <1>7 DEF ChooseSamples
  <2>5. cells \in SUBSET DOMAIN table[r] BY DEF SampleChoices, kSubset
  <2> QED BY <2>3, <2>4, <2>5
<1>8. ASSUME NEW r \in Ranks, Step(r)
      PROVE  \/ calls' = calls
             \/ \E op, val : /\ calls' = Post(calls, r, op, val)
                             /\ Len(calls[r]) = 2 =>
                                  \E cells \in SUBSET DOMAIN AgreedTable(r) :
                                    val = [c \in cells |-> MortonCode(c)]
  <2>1. CASE ScanBbox(r)
    <3>3. Len(calls[r]) = 0 BY <2>1, <1>4
    <3>1. Len(calls[r]) # 2 BY <3>3
    <3>2. calls' = Post(calls, r, "Allreduce bbox", LocalMin(r)) BY <2>1 DEF ScanBbox
    <3> QED BY <3>1, <3>2
  <2>2. CASE MapQuantize(r)
    <3>1. Len(calls[r]) # 2 BY <2>2, <1>5
    <3>2. PICK val : calls' = Post(calls, r, "Allreduce ranges", val)
      BY <2>2 DEF MapQuantize
    <3> QED BY <3>1, <3>2
  <2>3. CASE ShuffleBySamples(r)
    <3>1. Len(calls[r]) # 2 BY <2>3, <1>6
    <3>2. PICK val : calls' = Post(calls, r, "Alltoallv cells", val)
      BY <2>3 DEF ShuffleBySamples, Shuffle
    <3> QED BY <3>1, <3>2
  <2>4. CASE ChooseSamples(r) BY <2>4, <1>7
  <2>5. CASE ShuffleByCode(r) BY <2>5 DEF ShuffleByCode
  <2>6. CASE MapFails(r) \/ Reduce(r) \/ EncodeAndWrite(r) \/ WriteManifest(r)
             \/ EncodeFails(r) \/ Killed(r)
    BY <2>6 DEF MapFails, Reduce, EncodeAndWrite, WriteManifest, EncodeFails, Killed
  <2> QED BY <1>8, <2>1, <2>2, <2>3, <2>4, <2>5, <2>6 DEF Step
<1>9. CASE UNCHANGED vars BY <1>2, <1>9 DEF vars
<1> QED BY <1>2, <1>3, <1>8, <1>9 DEF Next

\* The invariant of samplesort as well.
LEMMA Samples == Spec => [](IInv /\ SampleInv)
<1>1. Init => SampleInv
  <2>1. Len(<<>>) = 0 OBVIOUS
  <2> QED BY <2>1 DEF Init, SampleInv
<1> QED BY <1>1, InitIInv, NextIInv, SampleStep, PTL DEF Spec

\* The samples of all ranks are numbers, and finitely many.
LEMMA SamplesLemma ==
  ASSUME IInv, SampleInv, Mode = "samplesort", AllEntered(calls, 3)
  PROVE  LET all == AllSamples(Column(calls, 3))
         IN IsFiniteSet(all) /\ \A x \in all : x[3] \in Nat
<1> DEFINE col == Column(calls, 3)
<1>1. DOMAIN calls = Ranks /\ \A s \in Ranks : Len(calls[s]) \in Nat
  <2>1. PICK S : calls \in [Ranks -> Seq(S)] BY DEF IInv, LogTyped
  <2> QED BY <2>1
<1>2. ASSUME NEW s \in Ranks
      PROVE  IsFiniteSet(DOMAIN col[s]) /\ \A c \in DOMAIN col[s] : col[s][c] \in Nat
  <2>1. Len(calls[s]) >= 3 /\ col[s] = calls[s][3].val BY <1>1 DEF AllEntered, Column
  <2>2. PICK cells \in SUBSET DOMAIN AgreedTable(s) :
          calls[s][3].val = [c \in cells |-> MortonCode(c)]
    BY <2>1 DEF SampleInv
  <2>3. cells \in SUBSET Cells BY TableLemma DEF IsCount
  <2>4. IsFiniteSet(DOMAIN AgreedTable(s)) BY TableFinite
  <2>5. IsFiniteSet(cells) BY <2>4, FS_Subset
  <2>6. col[s] = [c \in cells |-> MortonCode(c)] BY <2>1, <2>2
  <2> HIDE DEF col
  <2> QED BY <2>3, <2>5, <2>6, CodeLemma
<1>3. IsFiniteSet(Ranks) BY MapReduceAssumption, FS_Interval DEF Ranks
<1> HIDE DEF col
<1> DEFINE own == [s \in Ranks |-> {<<s, c, col[s][c]>> : c \in DOMAIN col[s]}]
<1>4. \A s \in Ranks : IsFiniteSet(own[s])
  <2> SUFFICES ASSUME NEW s \in Ranks
               PROVE  IsFiniteSet({<<s, c, col[s][c]>> : c \in DOMAIN col[s]})
    OBVIOUS
  <2> DEFINE D == DOMAIN col[s]
             f == [c \in D |-> <<s, c, col[s][c]>>]
  <2>1. IsFiniteSet(D) BY <1>2
  <2> HIDE DEF D
  <2>2. IsFiniteSet({f[c] : c \in D}) BY <2>1, ImageLemma
  <2>3. {f[c] : c \in D} = {<<s, c, col[s][c]>> : c \in D} OBVIOUS
  <2> QED BY <2>2, <2>3 DEF D
<1>5. own = [s \in Ranks |-> own[s]] OBVIOUS
<1>6. AllSamples(col) = UNION {own[s] : s \in Ranks} BY DEF AllSamples
<1>7. \A s \in Ranks : \A x \in own[s] : x[3] \in Nat BY <1>2
<1> HIDE DEF own
<1>8. IsFiniteSet(UNION {own[s] : s \in Ranks}) BY <1>3, <1>4, <1>5, UnionLemma
<1> QED BY <1>6, <1>7, <1>8 DEF col

\* There is an idx-th sample.
LEMMA SortedSampleLemma ==
  ASSUME NEW all, IsFiniteSet(all), \A x \in all : x[3] \in Nat,
         NEW idx \in Nat, idx < Cardinality(all)
  PROVE  SortedSample(all, idx) \in Nat
<1> DEFINE f == [x \in all |-> x[3]]
           V == {x[3] : x \in all}
           upto(v) == {x \in all : x[3] <= v}
           under(v) == {x \in all : x[3] < v}
           W == {v \in V : Cardinality(upto(v)) > idx}
<1>1. V \in SUBSET Nat /\ V \in SUBSET Int OBVIOUS
<1>2. IsFiniteSet(V)
  <2>1. IsFiniteSet({f[x] : x \in all}) BY ImageLemma
  <2>2. {f[x] : x \in all} = V OBVIOUS
  <2> QED BY <2>1, <2>2
<1>3. \A v \in V : IsFiniteSet(upto(v)) /\ Cardinality(upto(v)) \in Nat
  BY FS_Subset, FS_CardinalityType
<1>4. V # {}
  <2>1. all # {} BY FS_EmptySet
  <2> QED BY <2>1
<1>5. Max(V) \in V /\ upto(Max(V)) = all
  <2> HIDE DEF V
  <2>1. Max(V) \in V /\ \A y \in V : y <= Max(V) BY <1>1, <1>2, <1>4, MaxLemma
  <2> QED BY <2>1 DEF V
<1>6. W # {} /\ W \in SUBSET V BY <1>5
<1> HIDE DEF V
<1>7. W \in SUBSET Int /\ IsFiniteSet(W)
  <2>1. IsFiniteSet(W) BY <1>2, <1>6, FS_Subset
  <2> QED BY <2>1, <1>1, <1>6
<1> DEFINE m == Min(W)
<1>8. m \in W /\ \A y \in W : m <= y
  <2> HIDE DEF W
  <2> QED BY <1>6, <1>7, MinLemma
<1> HIDE DEF m
<1>9. Cardinality(under(m)) <= idx
  <2> DEFINE U == {x[3] : x \in under(m)}
             g == [x \in under(m) |-> x[3]]
  <2>1. IsFiniteSet(under(m)) BY FS_Subset
  <2>2. IsFiniteSet(U) /\ U \in SUBSET V /\ U \in SUBSET Int
    <3>1. IsFiniteSet({g[x] : x \in under(m)})
      <4> HIDE DEF under
      <4> QED BY <2>1, ImageLemma
    <3>2. {g[x] : x \in under(m)} = U OBVIOUS
    <3>3. U \in SUBSET V BY DEF V
    <3> QED BY <3>1, <3>2, <3>3, <1>1
  <2>3. CASE under(m) = {} BY <2>3, FS_EmptySet
  <2>4. CASE under(m) # {}
    <3> DEFINE u == Max(U)
    <3>1. u \in U /\ \A y \in U : y <= u
      <4>1. U # {} BY <2>4
      <4> HIDE DEF U
      <4> QED BY <2>2, <4>1, MaxLemma
    <3> HIDE DEF u
    <3>2. u < m /\ u \in V /\ u \in Nat /\ m \in Nat BY <3>1, <2>2, <1>1, <1>6, <1>8
    <3>3. u \notin W BY <1>8, <3>2
    <3>4. Cardinality(upto(u)) <= idx BY <3>2, <3>3, <1>3
    <3>5. upto(u) = under(m)
      <4>1. \A x \in under(m) : x[3] <= u BY <3>1
      <4>2. \A x \in all : x[3] <= u => x[3] < m BY <3>2
      <4> QED BY <4>1, <4>2
    <3> QED BY <3>4, <3>5
  <2> QED BY <2>3, <2>4
<1>10. /\ m \in {x[3] : x \in all}
       /\ Cardinality({x \in all : x[3] < m}) <= idx
       /\ Cardinality({x \in all : x[3] <= m}) > idx
  BY <1>8, <1>9 DEF V
<1>11. SortedSample(all, idx) \in {x[3] : x \in all} BY <1>10 DEF SortedSample
<1> QED BY <1>11

\* The splitters are a sequence of codes.
LEMMA SplittersLemma ==
  ASSUME IInv, SampleInv, AllEntered(calls, ShuffleCall)
  PROVE  AgreedSplitters \in Seq(Nat)
<1>1. CASE Mode # "samplesort" BY <1>1 DEF AgreedSplitters
<1>2. CASE Mode = "samplesort"
  <2> DEFINE all == AllSamples(Column(calls, 3))
             total == Cardinality(all)
  <2>1. AllEntered(calls, 3)
    <3>1. ShuffleCall = 4 BY <1>2 DEF ShuffleCall
    <3>2. \A s \in Ranks : Len(calls[s]) \in Nat
      <4>1. PICK S : calls \in [Ranks -> Seq(S)] BY DEF IInv, LogTyped
      <4> QED BY <4>1
    <3>3. DOMAIN calls = Ranks
      <4>1. PICK S : calls \in [Ranks -> Seq(S)] BY DEF IInv, LogTyped
      <4> QED BY <4>1
    <3> QED BY <3>1, <3>2, <3>3 DEF AllEntered
  <2>2. IsFiniteSet(all) /\ \A x \in all : x[3] \in Nat BY <1>2, <2>1, SamplesLemma
  <2>3. AgreedSplitters = IF total = 0 \/ NRanks = 1 THEN <<>>
                          ELSE [i \in 1..(NRanks - 1) |->
                                  SortedSample(all, (total * i) \div NRanks)]
    BY <1>2 DEF AgreedSplitters, Splitters
  <2> HIDE DEF all
  <2>4. total \in Nat BY <2>2, FS_CardinalityType
  <2> HIDE DEF total
  <2>5. ASSUME NEW i \in 1..(NRanks - 1), total # 0
        PROVE  (total * i) \div NRanks \in Nat /\ (total * i) \div NRanks < total
    BY <2>4, <2>5, FractionLemma, MapReduceAssumption
  <2>6. ASSUME NEW i \in 1..(NRanks - 1), total # 0
        PROVE  SortedSample(all, (total * i) \div NRanks) \in Nat
    BY <2>2, <2>5, <2>6, SortedSampleLemma DEF total
  <2>7. NRanks - 1 \in Nat BY MapReduceAssumption
  <2>8. CASE total = 0 \/ NRanks = 1 BY <2>3, <2>8
  <2>9. CASE ~(total = 0 \/ NRanks = 1)
    <3>1. AgreedSplitters \in [1..(NRanks - 1) -> Nat] BY <2>3, <2>6, <2>9
    <3> QED BY <3>1, <2>7
  <2> QED BY <2>8, <2>9
<1> QED BY <1>1, <1>2

-----------------------------------------------------------------------------
(* Owners *)

\* A clamped number is a rank, and clamping keeps the order.
LEMMA ClampLemma ==
  ASSUME NEW m \in Int, NEW n \in Int
  PROVE  /\ ClampRank(m) \in Ranks
         /\ m <= n => ClampRank(m) <= ClampRank(n)
BY MapReduceAssumption DEF ClampRank, Ranks

\* The conversion gives an int whatever it is given, and keeps what is one.
LEMMA ToIntLemma ==
  ASSUME NEW m \in Nat
  PROVE  /\ ToInt(m) \in Int
         /\ m <= MaxInt => ToInt(m) = m
BY MapReduceAssumption DEF ToInt

\* The later a code, the more splitters are before it.
LEMMA UpperBoundLemma ==
  ASSUME NEW seq \in Seq(Nat), NEW x \in Nat, NEW y \in Nat, x <= y
  PROVE  /\ UpperBound(seq, x) \in Nat /\ UpperBound(seq, y) \in Nat
         /\ UpperBound(seq, x) <= UpperBound(seq, y)
<1> DEFINE n == Len(seq)
           above(v) == {i \in 1..n : seq[i] > v} \cup {n + 1}
<1>1. n \in Nat /\ n + 1 \in Nat /\ \A i \in 1..n : seq[i] \in Nat OBVIOUS
<1>2. \A v \in Nat : above(v) \in SUBSET (1..(n + 1)) /\ n + 1 \in above(v)
  BY <1>1
<1>3. IsFiniteSet(1..(n + 1)) BY <1>1, FS_Interval
<1>4. 1..(n + 1) \in SUBSET Int OBVIOUS
<1>5. above(y) \in SUBSET above(x) BY <1>1
<1>6. UpperBound(seq, x) = Min(above(x)) - 1 /\ UpperBound(seq, y) = Min(above(y)) - 1
  BY DEF UpperBound
<1> HIDE DEF above, n
<1>7. ASSUME NEW v \in Nat
      PROVE  Min(above(v)) \in above(v) /\ \A z \in above(v) : Min(above(v)) <= z
  <2>1. IsFiniteSet(above(v)) BY <1>2, <1>3, FS_Subset
  <2>2. above(v) \in SUBSET Int /\ above(v) # {} BY <1>2, <1>4
  <2> QED BY <2>1, <2>2, MinLemma
<1>8. Min(above(x)) \in 1..(n + 1) /\ Min(above(y)) \in 1..(n + 1) BY <1>2, <1>7
<1>9. Min(above(x)) <= Min(above(y)) BY <1>5, <1>7
<1> QED BY <1>1, <1>6, <1>8, <1>9

\* Every cell has an owner among the ranks and, unless owners are hashed, a cell that
\* is not later on the curve has no later owner, as long as positions fit an int.
LEMMA OwnerLemma ==
  ASSUME AgreedSplitters \in Seq(Nat), NEW c \in Cells, NEW d \in Cells,
         MortonCode(c) <= MortonCode(d)
  PROVE  /\ OwnerRank(c, AgreedExtent, AgreedSplitters) \in Ranks
         /\ Mode # "hash" /\ HasPosition(d, AgreedExtent) =>
              OwnerRank(c, AgreedExtent, AgreedSplitters)
                <= OwnerRank(d, AgreedExtent, AgreedSplitters)
<1> DEFINE x == MortonCode(c)
           y == MortonCode(d)
           ext == AgreedExtent
           spl == AgreedSplitters
<1>1. x \in Nat /\ y \in Nat /\ x <= y BY CodeLemma
<1>2. ext.maxq \in Nat /\ ext.lo \in Nat /\ ext.hi \in Nat BY ExtentLemma
<1>3. spl \in Seq(Nat) OBVIOUS
<1>4. NRanks \in Nat \ {0} /\ CoordBits \in Nat BY MapReduceAssumption
<1> HIDE DEF x, y, ext, spl
<1>5. ASSUME NEW m \in Nat, NEW n \in Nat, m <= n, NEW k \in Nat \ {0}
      PROVE  /\ (m * NRanks) \div k \in Nat /\ (n * NRanks) \div k \in Nat
             /\ (m * NRanks) \div k <= (n * NRanks) \div k
             /\ ClampRank((m * NRanks) \div k) \in Ranks
             /\ ClampRank((m * NRanks) \div k) <= ClampRank((n * NRanks) \div k)
  <2>1. m * NRanks \in Int /\ n * NRanks \in Int /\ m * NRanks >= 0 BY <1>4, Products
  <2>2. (n - m) * NRanks >= 0 BY <1>4, <1>5, Products
  <2>3. (n - m) * NRanks = n * NRanks - m * NRanks BY <1>4
  <2>4. m * NRanks \in Nat /\ n * NRanks \in Nat /\ m * NRanks <= n * NRanks
    BY <2>1, <2>2, <2>3
  <2>5. /\ (m * NRanks) \div k \in Nat /\ (n * NRanks) \div k \in Nat
        /\ (m * NRanks) \div k <= (n * NRanks) \div k
    BY <2>4, DivMonotone
  <2> QED BY <2>5, ClampLemma
<1>6. CASE Mode = "hash"
  <2>1. CellHash(c) \in Int
    <3>1. c[1] \in Int /\ c[2] \in Int /\ c[3] \in Int BY DEF Cells
    <3>4. \A u, v, w \in Int : u * 73 + v * 19 + w * 83 \in Int OBVIOUS
    <3>2. c[1] * 73 + c[2] * 19 + c[3] * 83 \in Int BY <3>1, <3>4
    <3>3. \A m \in Int : m % 256 \in Int OBVIOUS
    <3> QED BY <3>2, <3>3 DEF CellHash
  <2>2. \A m \in Int, n \in Nat \ {0} : m % n \in 0..(n - 1) OBVIOUS
  <2>3. OwnerRank(c, ext, spl) = CellHash(c) % NRanks BY <1>6 DEF OwnerRank
  <2> QED BY <1>4, <1>6, <2>1, <2>2, <2>3 DEF Ranks, ext, spl
<1>7. CASE Mode = "samplesort"
  <2>1. /\ UpperBound(spl, x) \in Nat /\ UpperBound(spl, y) \in Nat
        /\ UpperBound(spl, x) <= UpperBound(spl, y)
    BY <1>1, <1>3, UpperBoundLemma
  <2>2. /\ OwnerRank(c, ext, spl) = ClampRank(UpperBound(spl, x))
        /\ OwnerRank(d, ext, spl) = ClampRank(UpperBound(spl, y))
    BY <1>7 DEF OwnerRank, x, y
  <2> QED BY <2>1, <2>2, ClampLemma DEF ext, spl
<1>8. CASE Mode = "morton-range"
  <2>1. CASE ext.hi <= ext.lo
    <3>1. OwnerRank(c, ext, spl) = 0 /\ OwnerRank(d, ext, spl) = 0
      BY <1>8, <2>1 DEF OwnerRank
    <3> QED BY <1>4, <3>1 DEF Ranks, ext, spl
  <2>2. CASE ~(ext.hi <= ext.lo)
    <3> DEFINE m == IF x > ext.lo THEN x - ext.lo ELSE 0
               n == IF y > ext.lo THEN y - ext.lo ELSE 0
               k == ext.hi - ext.lo + 1
    <3>1. m \in Nat /\ n \in Nat /\ m <= n /\ k \in Nat \ {0} BY <1>1, <1>2, <2>2
    <3>2. /\ OwnerRank(c, ext, spl) = ClampRank((m * NRanks) \div k)
          /\ OwnerRank(d, ext, spl) = ClampRank((n * NRanks) \div k)
      BY <1>8, <2>2 DEF OwnerRank, x, y
    <3> HIDE DEF m, n, k
    <3> QED BY <1>5, <3>1, <3>2 DEF ext, spl
  <2> QED BY <2>1, <2>2
<1>9. CASE Mode = "morton"
  <2> DEFINE bits == Min({AxisBits[ext.maxq], CoordBits})
             k == CurveLength[bits]
  <2>1. bits \in Nat
    <3>1. AxisBits[ext.maxq] \in Nat BY <1>2, AxisBitsLemma
    <3>2. IsFiniteSet({AxisBits[ext.maxq], CoordBits})
      <4>1. {AxisBits[ext.maxq], CoordBits} = {AxisBits[ext.maxq]} \cup {CoordBits} OBVIOUS
      <4>2. IsFiniteSet({AxisBits[ext.maxq]}) /\ IsFiniteSet({CoordBits}) BY FS_Singleton
      <4> QED BY <4>1, <4>2, FS_Union
    <3>3. {AxisBits[ext.maxq], CoordBits} \in SUBSET Int BY <1>4, <3>1
    <3>4. bits \in {AxisBits[ext.maxq], CoordBits} BY <3>2, <3>3, MinLemma
    <3> QED BY <1>4, <3>1, <3>4
  <2> DEFINE m == (x * NRanks) \div k
             n == (y * NRanks) \div k
  <2>2. /\ OwnerRank(c, ext, spl) = ClampRank(ToInt(m))
        /\ OwnerRank(d, ext, spl) = ClampRank(ToInt(n))
        /\ HasPosition(d, ext) => n <= MaxInt
    BY <1>9 DEF OwnerRank, HasPosition, Position, x, y
  <2> HIDE DEF bits
  <2>3. k \in Nat \ {0} BY <2>1, CurveLemma
  <2> HIDE DEF k
  <2>4. m \in Nat /\ n \in Nat /\ m <= n BY <1>1, <1>5, <2>3
  <2> HIDE DEF m, n
  <2>5. ToInt(m) \in Int /\ ToInt(n) \in Int BY <2>4, ToIntLemma
  <2>6. ClampRank(ToInt(m)) \in Ranks BY <2>5, ClampLemma
  <2>7. ASSUME n <= MaxInt PROVE ClampRank(ToInt(m)) <= ClampRank(ToInt(n))
    <3>1. MaxInt \in Int BY MapReduceAssumption
    <3>2. m <= MaxInt BY <2>4, <2>7, <3>1
    <3>3. ToInt(m) = m /\ ToInt(n) = n BY <2>4, <2>7, <3>2, ToIntLemma
    <3> QED BY <2>4, <2>5, <3>3, ClampLemma
  <2> QED BY <2>2, <2>6, <2>7 DEF ext, spl
<1> QED BY <1>6, <1>7, <1>8, <1>9, MapReduceAssumption DEF Modes

\* A rank holds cells only after the exchange, and what it holds are cells.
LEMMA HeldLemma ==
  ASSUME IInv, NEW r \in Ranks, NEW c \in CellsHeld(r)
  PROVE  AllEntered(calls, ShuffleCall) /\ c \in Cells
<1>1. CASE c \in DOMAIN owned[r]
  <2>1. owned[r] # NoTable BY <1>1 DEF NoTable
  <2>2. AllEntered(calls, ShuffleCall) /\ owned[r] = Reduced(r) BY <2>1 DEF IInv, OwnedInv
  <2> QED BY <1>1, <2>2, ReducedLemma DEF IsCount
<1>2. CASE part[r].written /\ c \in DOMAIN part[r].cells
  <2>1. r \in Written BY <1>2 DEF Written
  <2>2. AllEntered(calls, ShuffleCall) /\ DOMAIN part[r].cells = DOMAIN Reduced(r)
    BY <2>1, PartCounts
  <2> QED BY <1>2, <2>2, ReducedLemma DEF IsCount
<1> QED BY <1>1, <1>2 DEF CellsHeld

\* Everything a rank holds is before everything the next rank holds: the parts,
\* concatenated by rank, follow the curve.  Two ranks that disagreed on a splitter or
\* on the range would show here.  By prefixes this is said of the cells whose position
\* fits an int; the others, with a coordinate of -1, are all on the rank that the value
\* of the overflowing conversion is clamped to.
THEOREM CurveIsCut == Spec => []PartsFollowCurve
<1>1. ASSUME IInv, SampleInv PROVE PartsFollowCurve
  <2> SUFFICES ASSUME Mode # "hash", NEW r \in Ranks, NEW s \in Ranks, r < s,
                      NEW c \in CellsHeld(r), NEW d \in CellsHeld(s)
               PROVE  /\ HasPosition(c, extent[r]) \/ HasPosition(d, extent[s])
                      /\ HasPosition(c, extent[r]) => MortonCode(c) < MortonCode(d)
    BY DEF PartsFollowCurve
  <2>1. /\ OwnerRank(c, AgreedExtent, AgreedSplitters) = r
        /\ OwnerRank(d, AgreedExtent, AgreedSplitters) = s
    BY <1>1, HeldByOwner
  <2>2. c \in Cells /\ d \in Cells /\ AllEntered(calls, ShuffleCall) BY <1>1, HeldLemma
  <2>3. AgreedSplitters \in Seq(Nat) BY <1>1, <2>2, SplittersLemma
  <2>4. MortonCode(c) \in Nat /\ MortonCode(d) \in Nat BY <2>2, CodeLemma
  <2>5. extent[r] = AgreedExtent /\ extent[s] = AgreedExtent
    <3>1. PICK S : calls \in [Ranks -> Seq(S)] BY <1>1 DEF IInv, LogTyped
    <3>2. ASSUME NEW t \in Ranks PROVE Len(calls[t]) >= 3
      <4>1. Len(calls[t]) \in Nat /\ Len(calls[t]) >= ShuffleCall BY <2>2, <3>1 DEF AllEntered
      <4> QED BY <4>1 DEF ShuffleCall
    <3> QED BY <1>1, <3>2 DEF IInv, ViewInv
  <2>6. r \in Int /\ s \in Int BY DEF Ranks
  <2>7. HasPosition(c, AgreedExtent) => MortonCode(c) < MortonCode(d)
    <3>1. MortonCode(d) <= MortonCode(c) /\ HasPosition(c, AgreedExtent) => s <= r
      BY <2>1, <2>2, <2>3, OwnerLemma
    <3> QED BY <2>4, <2>6, <3>1
  <2>8. HasPosition(c, AgreedExtent) \/ HasPosition(d, AgreedExtent)
    <3> SUFFICES ASSUME ~HasPosition(c, AgreedExtent), ~HasPosition(d, AgreedExtent)
                 PROVE  FALSE
      OBVIOUS
    <3>1. Mode = "morton" /\ ~(Position(c, AgreedExtent) <= MaxInt)
                          /\ ~(Position(d, AgreedExtent) <= MaxInt)
      BY DEF HasPosition
    <3>2. r = ClampRank(IntOverflow) /\ s = ClampRank(IntOverflow)
      BY <2>1, <3>1 DEF OwnerRank, ToInt
    <3> QED BY <2>6, <3>2
  <2> QED BY <2>5, <2>7, <2>8
<1> QED BY <1>1, Samples, PTL

\* When every rank has returned nothing is missing: every cell of the cloud is in the
\* part of the rank that owns it, whichever ranks had points in it.
THEOREM NothingIsMissing == Spec => []CompleteWhenDone
<1>1. ASSUME IInv, SampleInv, \A r \in Ranks : pc[r] = "done" PROVE Published = TrueCensus
  <2>1. 0 \in Ranks BY MapReduceAssumption DEF Ranks
  <2>2. \A r \in Ranks : /\ part[r] = AgreedPart(r) /\ part[r].written
                         /\ AllEntered(calls, ShuffleCall)
    <3> SUFFICES ASSUME NEW r \in Ranks
                 PROVE  /\ part[r] = AgreedPart(r) /\ part[r].written
                        /\ AllEntered(calls, ShuffleCall)
      OBVIOUS
    <3>1. part[r] = AgreedPart(r) /\ AllEntered(calls, ShuffleCall)
      BY <1>1 DEF IInv, PartInv
    <3> QED BY <3>1 DEF AgreedPart
  <2>3. Written = Ranks BY <2>2 DEF Written
  <2>4. AllEntered(calls, ShuffleCall) BY <2>1, <2>2
  <2>5. AgreedSplitters \in Seq(Nat) BY <1>1, <2>4, SplittersLemma
  <2>6. ASSUME NEW c \in DOMAIN TrueCensus PROVE c \in DOMAIN Published
    <3>1. PICK s \in Ranks : Here(s, c) # {} BY CensusCounts, SplitByRank
    <3>2. c \in DOMAIN AgreedTable(s) /\ c \in Cells
      BY <3>1, TableCounts, TableLemma DEF IsCount
    <3> DEFINE t == OwnerRank(c, AgreedExtent, AgreedSplitters)
    <3>3. t \in Ranks
      <4>1. MortonCode(c) <= MortonCode(c) BY <3>2, CodeLemma
      <4> QED BY <2>5, <3>2, <4>1, OwnerLemma
    <3>4. c \in DOMAIN SendBuckets(AgreedTable(s), AgreedExtent, AgreedSplitters)[t]
      BY <3>2, <3>3 DEF SendBuckets
    <3> HIDE DEF t
    <3>5. c \in DOMAIN Column(calls, ShuffleCall)[s][t]
      <4>1. Column(calls, ShuffleCall) =
              [u \in Ranks |-> SendBuckets(AgreedTable(u), AgreedExtent, AgreedSplitters)]
        BY <1>1, <2>4, AgreedColumns
      <4> QED BY <3>4, <4>1
    <3>6. c \in DOMAIN Reduced(t) BY <3>5 DEF Reduced, ReduceReceived
    <3>7. c \in DOMAIN part[t].cells BY <1>1, <2>3, <3>3, <3>6, PartCounts
    <3> QED BY <1>1, <2>3, <3>3, <3>7, PublishedCounts
  <2>7. /\ DOMAIN Published = DOMAIN TrueCensus
        /\ \A c \in DOMAIN Published : Published[c] = TrueCensus[c]
    BY <1>1, <2>6, PublishedCounts
  <2>8. Published = [c \in DOMAIN Published |-> Published[c]] BY DEF Published
  <2>9. TrueCensus = [c \in DOMAIN TrueCensus |-> TrueCensus[c]] BY DEF TrueCensus
  <2> QED BY <2>7, <2>8, <2>9
<1>2. IInv /\ SampleInv => CompleteWhenDone BY <1>1 DEF CompleteWhenDone
<1> QED BY <1>2, Samples, PTL
=============================================================================
