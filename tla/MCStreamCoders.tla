--------------------------- MODULE MCStreamCoders ---------------------------
(***************************************************************************)
(* Streams for TLC: an alphabet of 4 symbols, codes of 2 bits, bytes of 4. *)
(***************************************************************************)
EXTENDS StreamCoders

Stream(kind, data) == [kind |-> kind, data |-> data, warmup |-> <<>>]
UpTo(S, n) == UNION {[1..m -> S] : m \in 0..n}
Ascending(S, n) == {s \in [1..n -> S] : \A i \in 2..n : s[i - 1] <= s[i]}

\* Short streams in every order, and longer ones in one order, among them those
\* with frequencies 1, 1, 1, 2 that make a code of 3 bits.
MCDeltas == UpTo(0..3, 3) \cup Ascending(0..3, 5) \cup Ascending(0..3, 7)
MCShared == [kind : {"shared"}, warmup : {<<2>>, <<0, 0, 1>>, <<3, 3, 3, 3, 1>>},
             data : UpTo(0..3, 2) \cup {<<3, 3, 0, 1>>, <<2, 2, 1, 3, 0>>}]
\* Counts: of which the table is small for the bits, or not; of an entropy above
\* and exactly at the limit.
MCCounts == UpTo({1, 3, 20}, 2)
            \cup {Copies(1, 32), Copies(1, 47) \o <<9>>,
                  <<1, 2, 3, 4, 5>>, <<6, 1, 2, 2, 3, 4>>, <<1, 1, 1, 1, 2, 3, 4, 5>>}
MCPatches == UpTo({3, 8, 21, 70}, 3)
MCBlocks == UpTo({0, 1, 6, 12}, 3) \ {<<>>}

MCStreams == {Stream("deltas", s) : s \in MCDeltas} \cup MCShared
             \cup {Stream("counts", s) : s \in MCCounts}
             \cup {Stream("patches", s) : s \in MCPatches}
             \cup {Stream("blocks", s) : s \in MCBlocks}
=============================================================================
