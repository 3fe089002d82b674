---------------------------- MODULE StreamCoders ----------------------------
(***************************************************************************)
(* One stream of numbers of a chunk on its way through its coder and back, *)
(* as the compressors and decompressors of src/source/composer use them:   *)
(*   "blocks"   numbers and sizes of blocks: BitPacker                      *)
(*   "patches"  what PForDelta sets aside: GolombRiceCoder                  *)
(*   "deltas"   what it leaves: HuffmanEncoder built from the stream        *)
(*   "shared"   the same with a codebook built from another stream, the    *)
(*              warm-up block's, and completed to the whole alphabet       *)
(*   "counts"   cell counts: HuffmanEncoder built twice, the second time   *)
(*              for exponential Golomb codes if the table is large for     *)
(*              the bits                                                    *)
(* A tree under construction is known by its frequency and the way to each *)
(* of its leaves.  Which of several equally light trees the priority queue *)
(* gives first depends on the order of a hash table and is left open.      *)
(* An operator commented as a fault is a wrong version of the one after    *)
(* it, kept to confirm that the properties notice; nothing else uses it.   *)
(***************************************************************************)
EXTENDS BitStreams, Functions

CONSTANTS Streams,       \* [kind, data, warmup]
          AlphabetMax,   \* the largest number PForDelta leaves, 255 in the code
          EntropyLimit,  \* bits of entropy above which a table is not built, 10 in the code
          MetaHead, MetaEntry   \* bytes of a table's header and of each symbol in it

ASSUME StreamAssumption ==
  /\ AlphabetMax \in Nat /\ EntropyLimit \in Nat /\ MetaHead \in Nat /\ MetaEntry \in Nat
  /\ \A s \in Streams :
       /\ s.kind \in {"blocks", "patches", "deltas", "shared", "counts"}
       /\ s.data \in Seq(Nat) /\ s.warmup \in Seq(Nat)
       /\ s.kind = "blocks" => s.data # <<>>
       /\ s.kind = "shared" => s.warmup # <<>>
       /\ s.kind \in {"deltas", "shared"} => ToSet(s.data \o s.warmup) \subseteq 0..AlphabetMax
       \* Differences of ascending codes of 63 bits, so that their sum has no more
       \* either; the largest parameter is 62.
       /\ s.kind = "patches" => \A i \in DOMAIN s.data : s.data[i] < Pow2[MaxRiceK + 1]

VARIABLES stream,
          pc,
          forest,    \* the priority queue of build_from_freq
          coder,     \* the HuffmanEncoder: mode, parameter and code table
          again,     \* whether the encoder of the counts is being built again
          packed,    \* meta data and bits
          decoded

vars == <<stream, pc, forest, coder, again, packed, decoded>>

NoTable == [v \in {} |-> <<>>]
NewCoder == [exp |-> FALSE, k |-> 0, table |-> NoTable]

Occurrences(s, v) == Cardinality({i \in DOMAIN s : s[i] = v})
FreqOf(s) == [v \in ToSet(s) |-> Occurrences(s, v)]
\* The symbols a warm-up stream does not have count as if each occurred once.
CompleteFreq(s) == [v \in ToSet(s) \cup 0..AlphabetMax |-> Max({1, Occurrences(s, v)})]

\* The entropy of the numbers, sum of f/n * log2(n/f), exceeds the limit: raised to
\* the power of 2 and multiplied out.  At most log2 of the number of symbols.
HighEntropy(s) ==
  /\ Cardinality(ToSet(s)) > 2^EntropyLimit
  /\ Len(s)^Len(s) > 2^(EntropyLimit * Len(s))
                       * FoldFunction(LAMBDA f, p : p * f^f, 1, FreqOf(s))

Leaves(freq) == {[freq |-> freq[v], way |-> [x \in {v} |-> <<>>]] : v \in DOMAIN freq}

\* The symbols of two trees, to the left and to the right of a new node.
Ways(a, b) == [v \in DOMAIN a.way \cup DOMAIN b.way |->
                 IF v \in DOMAIN a.way THEN <<0>> \o a.way[v] ELSE <<1>> \o b.way[v]]
\* Fault: the new node weighs as much as one of its children.
JoinHeavier(a, b) == [freq |-> Max({a.freq, b.freq}), way |-> Ways(a, b)]
Join(a, b) == [freq |-> a.freq + b.freq, way |-> Ways(a, b)]

\* Fault: the second tree is taken from the wrong end of the queue.
Extremes(f) == {p \in f \X f : /\ p[1] # p[2]
                               /\ \A t \in f : p[1].freq <= t.freq
                               /\ \A t \in f \ {p[1]} : t.freq <= p[2].freq}
\* What two pops of the queue can give.
Lightest(f) == {p \in f \X f : /\ p[1] # p[2]
                               /\ \A t \in f : p[1].freq <= t.freq
                               /\ \A t \in f \ {p[1]} : p[2].freq <= t.freq}

\* The codes of a tree; a tree that is a single leaf gives it one bit.
CodeTable(tree) == [v \in DOMAIN tree.way |->
                      IF tree.way[v] = <<>> THEN <<0>> ELSE Kept(tree.way[v])]

Meta(c) == IF c.exp THEN [exp |-> TRUE, k |-> c.k] ELSE [exp |-> FALSE, table |-> c.table]
LoadMeta(m) == IF m.exp THEN [exp |-> TRUE, k |-> m.k, table |-> NoTable]
               ELSE [exp |-> FALSE, k |-> 0, table |-> m.table]
MetaSize(c) == MetaHead + MetaEntry * Cardinality(DOMAIN c.table)

-----------------------------------------------------------------------------
NotPacked == [meta |-> <<>>, bits |-> <<>>]

Init ==
  /\ stream \in Streams
  /\ pc = "start"
  /\ forest = {}
  /\ coder = NewCoder
  /\ again = FALSE
  /\ packed = NotPacked
  /\ decoded = <<>>

Pack(kind, p) ==
  /\ pc = "start" /\ stream.kind = kind
  /\ packed' = p
  /\ pc' = "encoded"
  /\ UNCHANGED <<stream, forest, coder, again, decoded>>

PackBlocks == Pack("blocks", BitPack(stream.data))
PackPatches == Pack("patches", RicePack(stream.data))

Builds == pc = "start" /\ stream.kind \in {"deltas", "counts"}

\* build of no numbers: an empty table, whatever the mode.
BuildNothing ==
  /\ Builds /\ stream.data = <<>>
  /\ coder' = [coder EXCEPT !.table = NoTable]
  /\ pc' = "built"
  /\ UNCHANGED <<stream, forest, again, packed, decoded>>

\* build in the other mode, on request or for the entropy of the numbers.
BuildExpGolomb ==
  /\ Builds /\ stream.data # <<>>
  /\ coder.exp \/ HighEntropy(stream.data)
  /\ coder' = [exp |-> TRUE, k |-> BestExpK(stream.data), table |-> NoTable]
  /\ pc' = "built"
  /\ UNCHANGED <<stream, forest, again, packed, decoded>>

StartTree(freq) ==
  /\ forest' = Leaves(freq)
  /\ coder' = [coder EXCEPT !.table = NoTable]
  /\ pc' = "merging"
  /\ UNCHANGED <<stream, again, packed, decoded>>

Build ==
  /\ Builds /\ stream.data # <<>>
  /\ ~coder.exp /\ ~HighEntropy(stream.data)
  /\ StartTree(FreqOf(stream.data))

BuildComplete ==
  /\ pc = "start" /\ stream.kind = "shared"
  /\ StartTree(CompleteFreq(stream.warmup))

\* Fault: the second tree stays in the queue.
MergeOne ==
  /\ pc = "merging"
  /\ \E pair \in Lightest(forest) : forest' = (forest \ {pair[1]}) \cup {Join(pair[1], pair[2])}
  /\ UNCHANGED <<stream, pc, coder, again, packed, decoded>>

Merge ==
  /\ pc = "merging"
  /\ \E pair \in Lightest(forest) :
       forest' = (forest \ {pair[1], pair[2]}) \cup {Join(pair[1], pair[2])}
  /\ UNCHANGED <<stream, pc, coder, again, packed, decoded>>

EndTree ==
  /\ pc = "merging" /\ Cardinality(forest) = 1
  /\ coder' = [coder EXCEPT !.table = CodeTable(CHOOSE t \in forest : TRUE)]
  /\ forest' = {}
  /\ pc' = "built"
  /\ UNCHANGED <<stream, again, packed, decoded>>

\* encode throws at a symbol that has no code.  The first encoding of the counts
\* is only for its size.
Encode ==
  /\ pc = "built"
  /\ IF coder.exp
     THEN packed' = [meta |-> Meta(coder), bits |-> ExpEncode(stream.data, coder.k)]
     ELSE IF ToSet(stream.data) \subseteq DOMAIN coder.table
     THEN packed' = [meta |-> Meta(coder), bits |-> HuffmanEncode(coder.table, stream.data)]
     ELSE packed' = NotPacked
  /\ pc' = CASE packed' = NotPacked -> "threw"
             [] stream.kind = "counts" /\ ~again -> "measured"
             [] OTHER -> "encoded"
  /\ UNCHANGED <<stream, forest, coder, again, decoded>>

\* The encoder is built once more in either case.
Reconsider ==
  /\ pc = "measured"
  /\ coder' = [coder EXCEPT !.exp = @ \/ 4 * MetaSize(coder) > Bytes(packed.bits)]
  /\ again' = TRUE
  /\ pc' = "start"
  /\ UNCHANGED <<stream, forest, packed, decoded>>

Decoded(s) ==
  /\ decoded' = s
  /\ pc' = "decoded"
  /\ UNCHANGED <<stream, forest, coder, again, packed>>

DecodeBlocks == pc = "encoded" /\ stream.kind = "blocks" /\ Decoded(BitUnpack(packed))
DecodePatches == pc = "encoded" /\ stream.kind = "patches" /\ Decoded(RiceUnpack(packed))
\* The reader has the meta data, and the number of symbols from the chunk's head.
DecodeSymbols ==
  /\ pc = "encoded" /\ stream.kind \in {"deltas", "shared", "counts"}
  /\ LET reader == LoadMeta(packed.meta)
         n == Len(stream.data)
     IN \/ reader.exp /\ Decoded(ExpDecode(packed.bits, reader.k, n))
        \/ ~reader.exp /\ \E map \in DecodeMaps(reader.table) :
                            Decoded(HuffmanDecode(map, packed.bits, n))

Next == \/ PackBlocks \/ PackPatches
        \/ BuildNothing \/ BuildExpGolomb \/ Build \/ BuildComplete
        \/ Merge \/ EndTree
        \/ Encode \/ Reconsider
        \/ DecodeBlocks \/ DecodePatches \/ DecodeSymbols

Spec == Init /\ [][Next]_vars
-----------------------------------------------------------------------------
(* Properties *)

UsesTree == stream.kind \in {"deltas", "shared"} \/ (stream.kind = "counts" /\ ~coder.exp)
Freq == IF stream.kind = "shared" THEN CompleteFreq(stream.warmup) ELSE FreqOf(stream.data)
Weight == SumFunction(Freq)

\* The trees in the queue share out the symbols, and only an encoder of the counts
\* is built twice.
TypeOK ==
  /\ pc \in {"start", "merging", "built", "measured", "encoded", "decoded", "threw"}
  /\ coder.exp \in BOOLEAN /\ coder.k \in 0..MaxExpK
  /\ again => stream.kind = "counts"
  /\ \A t, u \in forest : t = u \/ DOMAIN t.way \cap DOMAIN u.way = {}
  /\ pc = "merging" => UNION {DOMAIN t.way : t \in forest} = DOMAIN Freq
  /\ \A i \in DOMAIN packed.bits : packed.bits[i] \in {0, 1}

LongCode == \E v \in DOMAIN coder.table : Len(coder.table[v]) > CodeBits

\* What was encoded is decoded, with every choice among trees of equal weight,
\* through the table in the meta data, and past the zeros that fill the last byte,
\* as long as no code is longer than the word that holds it.
RoundTrips == pc = "decoded" /\ ~LongCode => decoded = stream.data

\* No stream meets a symbol without a code: a codebook shared by all blocks has one
\* for each symbol PForDelta can leave, whatever the warm-up block had.
EveryoneHasACode == pc # "threw"

Fib[n \in Nat] == IF n <= 2 THEN 1 ELSE Fib[n - 1] + Fib[n - 2]

\* A code longer than its word takes a stream of Fibonacci length: 9227465 numbers
\* for 32 bits, more than a block of 64 MiB has points.
LongCodesNeedMany == LongCode => Weight >= Fib[CodeBits + 3]

\* Whichever trees were merged, no other code with whole bits and without a code
\* that begins another (Kraft's inequality) makes the stream shorter.
ShortestCode ==
  pc = "built" /\ UsesTree /\ Cardinality(DOMAIN coder.table) > 1 =>
    LET symbols == DOMAIN Freq
        n == Cardinality(symbols)
        Cost(len) == MapThenSumSet(LAMBDA v : Freq[v] * len[v], symbols)
    IN \A len \in [symbols -> 1..(n - 1)] :
         MapThenSumSet(LAMBDA v : 2^(n - len[v]), symbols) <= 2^n =>
           Cost([v \in symbols |-> Len(coder.table[v])]) <= Cost(len)

\* The unary quotients cannot run away: a packed number takes less than three bits
\* more than the parameter, on average.
RiceIsShort ==
  pc = "encoded" /\ stream.kind = "patches" /\ stream.data # <<>> =>
    Len(packed.bits) < Len(stream.data) * (packed.meta.k + 3) + ByteBits
=============================================================================
