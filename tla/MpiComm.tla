------------------------------- MODULE MpiComm -------------------------------
(***************************************************************************)
(* What the drivers use of an MPI communicator.  calls[r] is the sequence  *)
(* of collective calls rank r has entered, each with the contribution it   *)
(* passed.  MPI pairs collectives by their order on the communicator, so   *)
(* the k-th call of one rank meets the k-th call of every other, whatever  *)
(* routine each of them called.                                            *)
(***************************************************************************)
EXTENDS Naturals, Sequences

MpiCall(op, val) == [op |-> op, val |-> val]

\* Rank r enters a collective.
Post(calls, r, op, val) == [calls EXCEPT ![r] = Append(@, MpiCall(op, val))]

\* Every rank has entered its k-th collective: no one is held back in it.
AllEntered(calls, k) == \A r \in DOMAIN calls : Len(calls[r]) >= k

\* Contributions to the k-th collective, by rank.
Column(calls, k) == [r \in DOMAIN calls |-> calls[r][k].val]

\* Calls that meet are calls of the same routine.
CallsMatch(calls) ==
  \A r, s \in DOMAIN calls :
    \A k \in DOMAIN calls[r] \cap DOMAIN calls[s] : calls[r][k].op = calls[s][k].op
=============================================================================
