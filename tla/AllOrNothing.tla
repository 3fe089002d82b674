---------------------------- MODULE AllOrNothing ----------------------------
(***************************************************************************)
(* What a compression run promises a reader who waits for the summary.json *)
(* of that run: either it is not there yet, or every item of the input can *)
(* be recovered.                                                           *)
(***************************************************************************)
VARIABLES items,        \* the input, fixed
          recoverable   \* what a reader who trusts the summary can recover

Init == recoverable = {}

Publish == items' = items /\ recoverable = {} /\ recoverable' = items

Spec == Init /\ [][Publish]_<<items, recoverable>>
=============================================================================
