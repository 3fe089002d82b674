---------------------------- MODULE MCPointCodec ----------------------------
(***************************************************************************)
(* Inputs and jobs for TLC, with blocks of edge 2, points of 2 bytes and   *)
(* 12-bit words.                                                           *)
(***************************************************************************)
EXTENDS PointCodec, TLC

MCAlong ==
  <<0, 0, 0>> :> 0 @@ <<1, 0, 0>> :> 1 @@ <<1, 1, 0>> :> 2 @@ <<0, 1, 0>> :> 5
  @@ <<0, 1, 1>> :> 6 @@ <<1, 1, 1>> :> 7 @@ <<1, 0, 1>> :> 9 @@ <<0, 0, 1>> :> 12

\* Two points of one cell, and cells near and far, in every order and with every
\* point repeated.
MCPlaces == {<<-1, 0, 0>>, <<0, 1, 1>>, <<4, 5, 3>>, <<12, 3, 7>>}
MCClouds == UNION {[1..n -> MCPlaces] : n \in {0, 1, 3}}
            \cup {<<p, <<12, 3, 7>>, <<4, 5, 3>>, q>> : p, q \in MCPlaces}

Job(kind, offset, bytes, threshold) ==
  [kind |-> kind, offset |-> offset, bytes |-> bytes, direct_threshold |-> threshold]
MCJobs == {Job("file", 0, 0, 4), Job("chunk", 2, 0, 0), Job("chunk", 2, 4, 4),
           Job("chunk", 4, 8, 4), Job("chunk", 1, 2, 4), Job("chunk", 0, 3, 4),
           Job("sweep", 0, 5, 4), Job("blocks", 0, 4, 4), Job("blocks", 0, 2, 0),
           Job("shared", 0, 4, 4), Job("shared", 0, 2, 0)}
=============================================================================
