---------------------------- MODULE MCMapReduce ----------------------------
(***************************************************************************)
(* Small input files for TLC, over three ranks.  The same point, or two    *)
(* points of one cell, appear in blocks of different ranks.                *)
(***************************************************************************)
EXTENDS MapReduce, TLC

\* Two blocks: rank 2 reads nothing.  Rank 0 has more points of one cell than MaxInt.
\* Samples repeat, so that splitters may, and a rank may come to own nothing.
MCSpread == 0 :> <<<<7, 3, 5>>, <<0, 0, 0>>, <<20, 3, 5>>, <<7, 2, 5>>, <<7, 3, 5>>, <<6, 3, 5>>>>
            @@ 1 :> <<<<0, 6, 9>>, <<7, 3, 6>>, <<21, 14, 30>>>>

\* Two blocks again, for liveness.  Each rank has its own range of Morton codes, and
\* the middle cell is on two of them.
MCRanges == 0 :> <<<<0, 0, 0>>, <<9, 0, 0>>>> @@ 1 :> <<<<9, 0, 0>>, <<20, 0, 0>>>>

\* What a build for x86-64 makes of a double too large for an int.
MCX86 == -MaxInt - 1
=============================================================================
