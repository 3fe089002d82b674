----------------------------- MODULE MCMrArchive -----------------------------
(* Up to three ranks; two or three jobs in one directory over small inputs, so    *)
(* that ranks without cells, cells with several points, jobs with fewer ranks     *)
(* than an earlier one and jobs that die at any point all occur.                  *)
EXTENDS MrArchive, TLC

MCTwoJobs == << 1 :> 2 @@ 2 :> 1 @@ 3 :> 1, 1 :> 1 @@ 4 :> 3 >>
MCOneJob  == << 1 :> 2 @@ 2 :> 1 >>
=============================================================================
