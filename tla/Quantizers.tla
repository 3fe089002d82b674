----------------------------- MODULE Quantizers -----------------------------
(***************************************************************************)
(* The two stateless space-filling quantizers of src/source/quantizer, on  *)
(* integer coordinates.  A point is <<x, y, z>> relative to the offset     *)
(* that was subtracted from the cloud.  One unit is small against Pitch,    *)
(* the lattice step the code divides by:                                   *)
(*    cube  Pitch = 2 * bound / sqrt(3)       (edge of the voxel)           *)
(*    to    Pitch = 2 * bound / sqrt(5)       (half the bcc lattice step)   *)
(* so that 4 * bound^2 is 3 * Pitch^2 or 5 * Pitch^2, an integer.  Rounding  *)
(* of float32 arithmetic is abstracted away: the divisions are exact.      *)
(***************************************************************************)
EXTENDS Integers

CONSTANTS Quantizer,   \* "cube" or "to"
          Pitch         \* the lattice step, in coordinate units

ASSUME QuantizerAssumption == /\ Quantizer \in {"cube", "to"}
                              /\ Pitch \in Nat \ {0}

Axes == 1..3
Point == Int \X Int \X Int
Cells == Int \X Int \X Int

\* std::round of n/d: to the nearest integer, halves away from zero.
RoundAway(n, d) == IF n >= 0 THEN (2*n + d) \div (2*d)
                             ELSE -((d - 2*n) \div (2*d))

SqDist(p, q) == (p[1] - q[1]) * (p[1] - q[1]) + (p[2] - q[2]) * (p[2] - q[2])
                + (p[3] - q[3]) * (p[3] - q[3])
Scale(k, p) == <<k * p[1], k * p[2], k * p[3]>>

-----------------------------------------------------------------------------
(* CubeQuantizer *)

CubeCell(p) == <<p[1] \div Pitch, p[2] \div Pitch, p[3] \div Pitch>>

\* Twice the recovered coordinates: (q + 0.5) * Pitch.
CubeCentre2(c) == Scale(Pitch, <<2*c[1] + 1, 2*c[2] + 1, 2*c[3] + 1>>)

-----------------------------------------------------------------------------
(* TruncatedOctahedronQuantizer *)

\* The nearest lattice node with all coordinates even, and with all odd.
EvenNode(p) == Scale(2, <<RoundAway(p[1], 2*Pitch), RoundAway(p[2], 2*Pitch),
                          RoundAway(p[3], 2*Pitch)>>)
OddNode(p) == LET e == EvenNode(<<p[1] - Pitch, p[2] - Pitch, p[3] - Pitch>>)
              IN <<e[1] + 1, e[2] + 1, e[3] + 1>>

NearestNode(p) == LET e == EvenNode(p)
                      o == OddNode(p)
                  IN IF SqDist(p, Scale(Pitch, e)) <= SqDist(p, Scale(Pitch, o))
                     THEN e ELSE o

\* x and y of a node are halved; z stays and tells an odd node from an even one.
PackNode(n) == IF n[1] % 2 = 1
               THEN <<(n[1] + 1) \div 2, (n[2] + 1) \div 2, n[3]>>
               ELSE <<n[1] \div 2, n[2] \div 2, n[3]>>

UnpackNode(c) == IF c[3] % 2 = 1
                 THEN <<2*c[1] - 1, 2*c[2] - 1, c[3]>>
                 ELSE <<2*c[1], 2*c[2], c[3]>>

ToCell(p) == PackNode(NearestNode(p))
ToCentre2(c) == Scale(2 * Pitch, UnpackNode(c))

-----------------------------------------------------------------------------
QuantizeCell(p) == IF Quantizer = "cube" THEN CubeCell(p) ELSE ToCell(p)
RecoverCell2(c) == IF Quantizer = "cube" THEN CubeCentre2(c) ELSE ToCentre2(c)

\* 4 * bound^2.
Bound2Sq == IF Quantizer = "cube" THEN 3 * Pitch * Pitch ELSE 5 * Pitch * Pitch

\* The recovered centre of cell c is no farther than the bound from point p.
WithinBound(p, c) == SqDist(Scale(2, p), RecoverCell2(c)) <= Bound2Sq
=============================================================================
