----------------------------- MODULE MCPartitions -----------------------------
(***************************************************************************)
(* The partitions by code range, by code prefix and by hash, each with a   *)
(* cloud that is hard for it: one job of MapReduce per partition, chosen   *)
(* at the start.  Four blocks over three ranks: rank 0 reads two of them.  *)
(* The partition by prefix is there twice, as two builds convert a number  *)
(* that is too large.                                                      *)
(***************************************************************************)
EXTENDS Integers, TLC

CONSTANTS NRanks, NumBlocks, SamplesPerRank, MaxInt, CoordBits, FloatMax, Pitch

VARIABLES mode,      \* which job it is
          pc, calls, offset, table, extent, splitters, owned, part

\* One cell holds more points than MaxInt, most of them on one rank, and each
\* rank's own range of Morton codes is different.
Heavy == 0 :> <<<<5, 5, 5>>, <<5, 5, 5>>, <<5, 5, 6>>>> @@ 1 :> <<<<5, 5, 5>>>>
         @@ 2 :> <<<<40, 5, 5>>, <<24, 5, 5>>>> @@ 3 :> <<<<5, 5, 5>>, <<24, 5, 5>>>>

\* The truncated octahedron quantizer puts <<4, 4, 0>> and <<12, 4, 0>> in cells with
\* z = -1, whose Morton codes are far above that of the largest coordinate.
Wrap == 0 :> <<<<0, 0, 0>>, <<12, 4, 0>>>> @@ 1 :> <<<<4, 4, 0>>, <<9, 9, 9>>>>
        @@ 2 :> <<<<17, 3, 2>>>> @@ 3 :> <<<<4, 4, 0>>, <<24, 20, 27>>>>

\* Negative coordinates, the minimum on each axis in a different block.
Negative == 0 :> <<<<-4, 9, 2>>>> @@ 1 :> <<<<6, -7, 2>>>>
            @@ 2 :> <<<<6, 9, -11>>, <<6, 9, 2>>>> @@ 3 :> <<<<6, 9, 2>>>>

\* What a build makes of a double too large for an int.
X86 == -MaxInt - 1
AArch64 == MaxInt

Range == INSTANCE MapReduce
           WITH Mode <- "morton-range", Input <- Heavy, Quantizer <- "to", IntOverflow <- X86
Prefix == INSTANCE MapReduce
            WITH Mode <- "morton", Input <- Wrap, Quantizer <- "to", IntOverflow <- X86
Saturating == INSTANCE MapReduce
                WITH Mode <- "morton", Input <- Wrap, Quantizer <- "to", IntOverflow <- AArch64
Hash == INSTANCE MapReduce
          WITH Mode <- "hash", Input <- Negative, Quantizer <- "cube", IntOverflow <- X86

Init == \/ mode = "morton-range" /\ Range!Init
        \/ mode = "morton" /\ Prefix!Init
        \/ mode = "morton, saturating" /\ Saturating!Init
        \/ mode = "hash" /\ Hash!Init

Next == /\ \/ mode = "morton-range" /\ Range!Next
           \/ mode = "morton" /\ Prefix!Next
           \/ mode = "morton, saturating" /\ Saturating!Next
           \/ mode = "hash" /\ Hash!Next
        /\ mode' = mode

vars == <<mode, pc, calls, offset, table, extent, splitters, owned, part>>
Spec == Init /\ [][Next]_vars

-----------------------------------------------------------------------------
\* The properties of MapReduce, for the job that was chosen.

\* No cell is on two ranks.
OneOwner == CASE mode = "morton-range" -> Range!OneOwner
              [] mode = "morton" -> Prefix!OneOwner
              [] mode = "morton, saturating" -> Saturating!OneOwner
              [] mode = "hash" -> Hash!OneOwner

\* When every rank has returned, nothing is missing.
CompleteWhenDone == CASE mode = "morton-range" -> Range!CompleteWhenDone
                      [] mode = "morton" -> Prefix!CompleteWhenDone
                      [] mode = "morton, saturating" -> Saturating!CompleteWhenDone
                      [] mode = "hash" -> Hash!CompleteWhenDone

\* A cell read back is within the bound of as many points as it counts.
PartsWithinBound == CASE mode = "morton-range" -> Range!PartsWithinBound
                      [] mode = "morton" -> Prefix!PartsWithinBound
                      [] mode = "morton, saturating" -> Saturating!PartsWithinBound
                      [] mode = "hash" -> Hash!PartsWithinBound

\* Concatenated parts follow the curve, except for hashing and the cells at z = -1.
PartsFollowCurve == CASE mode = "morton-range" -> Range!PartsFollowCurve
                      [] mode = "morton" -> Prefix!PartsFollowCurve
                      [] mode = "morton, saturating" -> Saturating!PartsFollowCurve
                      [] mode = "hash" -> Hash!PartsFollowCurve

Census ==
  INSTANCE CellCensus WITH
    counts <- CASE mode = "morton-range" -> Range!TrueCensus
                [] mode = "morton" -> Prefix!TrueCensus
                [] mode = "morton, saturating" -> Saturating!TrueCensus
                [] mode = "hash" -> Hash!TrueCensus,
    published <- CASE mode = "morton-range" -> Range!Published
                   [] mode = "morton" -> Prefix!Published
                   [] mode = "morton, saturating" -> Saturating!Published
                   [] mode = "hash" -> Hash!Published

\* The job publishes the census of its input.
PublishesCensus == Census!Spec
=============================================================================
