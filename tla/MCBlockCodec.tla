---------------------------- MODULE MCBlockCodec ----------------------------
(***************************************************************************)
(* Tables for TLC, with blocks of edge 2 and 12-bit words.                 *)
(***************************************************************************)
EXTENDS BlockCodec, TLC

\* A curve through the eight positions of a block: each differs from the one
\* before in one coordinate, and codes are spaced out.
MCAlong ==
  <<0, 0, 0>> :> 0 @@ <<1, 0, 0>> :> 1 @@ <<1, 1, 0>> :> 2 @@ <<0, 1, 0>> :> 5
  @@ <<0, 1, 1>> :> 6 @@ <<1, 1, 1>> :> 7 @@ <<1, 0, 1>> :> 9 @@ <<0, 0, 1>> :> 12

\* Cells of one block and of neighbouring ones, of all quadrants and far away;
\* counts and codes above and below the patch limit.
MCCells == {<<0, 0, 0>>, <<1, 0, 1>>, <<3, 2, 2>>, <<2, 1, 3>>, <<5, 4, 0>>, <<11, 6, 2>>}
MCTables == UNION {[S -> {1, 5}] : S \in {T \in SUBSET MCCells : Cardinality(T) <= 3}}

\* Clouds as the truncated octahedron quantizer packs them, in a grid of 3 by 2
\* pairs of blocks.  Their lowest point, <<4, 4, 0>>, is nearest to an odd lattice
\* node, and its cell has z = -1.
Q == INSTANCE Quantizers WITH Quantizer <- "to", Pitch <- 4
MCOddPoints == {<<0, 0, 8>>, <<4, 4, 0>>, <<88, 48, 8>>}
MCOddTables == {[c \in {Q!QuantizeCell(p) : p \in MCOddPoints \cup S} |-> 1] :
                  S \in SUBSET {<<20, 12, 20>>, <<24, 16, 16>>}}
=============================================================================
