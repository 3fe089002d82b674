----------------------------- MODULE CellCensus -----------------------------
(***************************************************************************)
(* What the map / shuffle / reduce job promises, without ranks: there is a *)
(* census of the point cloud (how many points fall in each cell), and the  *)
(* job publishes it piece by piece, each cell once, with its true count.   *)
(***************************************************************************)
VARIABLES counts,      \* the census: cell -> number of points; it does not change
          published    \* the part of it that is on disk

Init == published = [c \in {} |-> 0]

\* Some cells more, each with its true count; what is published stays.
Publish ==
  /\ counts' = counts
  /\ DOMAIN published \subseteq DOMAIN published'
  /\ DOMAIN published' \subseteq DOMAIN counts
  /\ \A c \in DOMAIN published' :
       published'[c] = IF c \in DOMAIN published THEN published[c] ELSE counts[c]

Spec == Init /\ [][Publish]_<<counts, published>>
=============================================================================
