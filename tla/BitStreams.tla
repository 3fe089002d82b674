----------------------------- MODULE BitStreams -----------------------------
(***************************************************************************)
(* The coders of src/source/encoder as functions on sequences of bits:     *)
(* BitPacker, GolombRiceCoder, exponential Golomb codes, and encoding and  *)
(* decoding with a given Huffman code table.  A packed stream is a record  *)
(* of its meta data and of its bits, filled up with zeros to whole bytes.  *)
(* Numbers fit their machine words, and are not split into bytes in meta   *)
(* data.  An operator commented as a fault is a wrong version of the one   *)
(* after it, kept to confirm that the properties notice.                   *)
(***************************************************************************)
EXTENDS Integers, Sequences, SequencesExt, FiniteSetsExt

CONSTANTS CodeBits,   \* bits of a Huffman prefix, 32 in the code
          ByteBits,   \* bits of a byte of a stream, 8 in the code
          MaxRiceK,   \* the largest parameter of a Rice code, 62 in the code
          MaxExpK     \* kMaxK, 16 in the code

ASSUME BitsAssumption == /\ CodeBits \in Nat \ {0} /\ ByteBits \in Nat \ {0}
                         /\ MaxRiceK \in Nat /\ MaxExpK \in Nat

Pow2[k \in Nat] == IF k = 0 THEN 1 ELSE 2 * Pow2[k - 1]

\* Number of bits of n; 0 has none.
BitLength[n \in Nat] == IF n = 0 THEN 0 ELSE 1 + BitLength[n \div 2]

\* The k lowest bits of n, lowest first, and the number they stand for.
LowFirst(n, k) == [b \in 1..k |-> (n \div Pow2[b - 1]) % 2]
FromLowFirst(bits) == SumFunction([b \in DOMAIN bits |-> bits[b] * Pow2[b - 1]])
HighFirst(n, k) == Reverse(LowFirst(n, k))

Copies(bit, n) == [i \in 1..n |-> bit]
Padded(bits) == bits \o Copies(0, (-Len(bits)) % ByteBits)
Bytes(bits) == Len(bits) \div ByteBits

-----------------------------------------------------------------------------
(* BitPacker: every number with the width of the largest *)

Width(s) == Max({1} \cup {BitLength[s[i]] : i \in DOMAIN s})

BitPack(s) == [meta |-> [n |-> Len(s), width |-> Width(s)],
               bits |-> Padded(FlattenSeq([i \in DOMAIN s |-> LowFirst(s[i], Width(s))]))]

BitUnpack(p) ==
  [i \in 1..p.meta.n |->
     FromLowFirst(SubSeq(p.bits, (i - 1) * p.meta.width + 1, i * p.meta.width))]

-----------------------------------------------------------------------------
(* GolombRiceCoder: quotient in unary, k bits of the remainder *)

Total(s) == SumFunction(s)

\* Fault: the numbers are added up in a byte.
RiceParameterOfByte(s) == LET average == (Total(s) % Pow2[ByteBits]) \div Len(s)
                          IN IF average = 0 THEN 0 ELSE BitLength[average] - 1
\* The logarithm of the average, rounded down; 0 if that is less than 1.
RiceParameter(s) == LET average == Total(s) \div Len(s)
                    IN IF average = 0 THEN 0 ELSE Min({MaxRiceK, BitLength[average] - 1})

RicePack(s) ==
  IF s = <<>> THEN [meta |-> <<>>, bits |-> <<>>]
  ELSE LET k == RiceParameter(s) IN
       [meta |-> [n |-> Len(s), k |-> k],
        bits |-> Padded(FlattenSeq([i \in DOMAIN s |->
                   Copies(1, s[i] \div Pow2[k]) \o <<0>> \o LowFirst(s[i] % Pow2[k], k)]))]

\* The number that starts behind position at, and where it ends.
RiceRead(bits, at, k) ==
  LET stop == Min({i \in (at + 1)..Len(bits) : bits[i] = 0})
  IN [value |-> (stop - at - 1) * Pow2[k] + FromLowFirst(SubSeq(bits, stop + 1, stop + k)),
      at |-> stop + k]

RiceUnpack(p) ==
  IF p.meta = <<>> THEN <<>>
  ELSE LET read[i \in 0..p.meta.n] ==
             IF i = 0 THEN [at |-> 0, values |-> <<>>]
             ELSE LET before == read[i - 1]
                      next == RiceRead(p.bits, before.at, p.meta.k)
                  IN [at |-> next.at, values |-> Append(before.values, next.value)]
       IN read[p.meta.n].values

-----------------------------------------------------------------------------
(* Exponential Golomb codes, the other mode of HuffmanEncoder *)

\* Signed numbers alternate: 0, -1, 1, -2, ...
ToUnsigned(v) == IF v >= 0 THEN 2 * v ELSE -2 * v - 1
FromUnsigned(n) == IF n % 2 = 0 THEN n \div 2 ELSE -((n + 1) \div 2)

\* As many zeros as bits follow the first 1; then the k bits set aside.
ExpCode(v, k) ==
  LET high == ToUnsigned(v) \div Pow2[k] + 1
      w == BitLength[high]
  IN Copies(0, w - 1) \o HighFirst(high, w) \o LowFirst(ToUnsigned(v) % Pow2[k], k)

ExpCost(s, k) == SumFunction([i \in DOMAIN s |-> Len(ExpCode(s[i], k))])
\* select_best_exp_golomb_k: the least parameter of those with the least cost.
BestExpK(s) == Min({k \in 0..MaxExpK : \A j \in 0..MaxExpK : ExpCost(s, k) <= ExpCost(s, j)})

ExpEncode(s, k) == Padded(FlattenSeq([i \in DOMAIN s |-> ExpCode(s[i], k)]))

\* Nothing more is read once n numbers are complete or the stream has ended.
ExpDecode(bits, k, n) ==
  LET read[i \in 0..n] ==
        IF i = 0 THEN [at |-> 0, values |-> <<>>]
        ELSE LET before == read[i - 1]
                 ones == {j \in (before.at + 1)..Len(bits) : bits[j] = 1}
                 zeros == Min(ones) - before.at - 1
                 stop == Min(ones) + zeros + k
                 high == FromLowFirst(Reverse(SubSeq(bits, Min(ones), Min(ones) + zeros))) - 1
                 low == FromLowFirst(SubSeq(bits, stop - k + 1, stop))
             IN IF ones = {} \/ stop > Len(bits) THEN before
                ELSE [at |-> stop, values |-> Append(before.values, FromUnsigned(high * Pow2[k] + low))]
  IN read[n].values

-----------------------------------------------------------------------------
(* Huffman codes: a table maps a symbol to its code *)

\* The way to a leaf of the tree, as a prefix of CodeBits bits keeps it: what is
\* shifted out on the left is lost, and its place is zero.
Kept(path) == [i \in DOMAIN path |-> IF i <= Len(path) - CodeBits THEN 0 ELSE path[i]]

HuffmanEncode(table, s) == Padded(FlattenSeq([i \in DOMAIN s |-> table[s[i]]]))

\* The maps from code to symbol that build_decode_map can make of a table.
DecodeMaps(table) ==
  LET codes == {table[v] : v \in DOMAIN table}
  IN {map \in [codes -> DOMAIN table] : \A c \in codes : table[map[c]] = c}

\* What has been read of a stream after each bit: the codes found, at most n of
\* them, and the beginning of the next one.
Symbols(map, bits, n) ==
  LET walk[i \in 0..Len(bits)] ==
        IF i = 0 THEN [code |-> <<>>, values |-> <<>>]
        ELSE LET before == walk[i - 1]
                 code == Kept(Append(before.code, bits[i]))
             IN IF Len(before.values) = n THEN before
                ELSE IF code \in DOMAIN map
                THEN [code |-> <<>>, values |-> Append(before.values, map[code])]
                ELSE [before EXCEPT !.code = code]
  IN walk[Len(bits)].values

\* Fault: decoding goes on to the end of the last byte.
HuffmanDecodeAll(map, bits, n) == Symbols(map, bits, Len(bits))
\* A table with a single symbol needs no bits.
HuffmanDecode(map, bits, n) ==
  IF Cardinality(DOMAIN map) = 1 THEN Copies(map[CHOOSE c \in DOMAIN map : TRUE], n)
  ELSE Symbols(map, bits, n)
=============================================================================
