---------------------------- MODULE BarrierTeam ----------------------------
(***************************************************************************)
(* ggml_barrier alone: a fixed team of threads that meets again and again. *)
(* round[t] counts the barriers that t has left.                           *)
(***************************************************************************)
EXTENDS GgmlBarrier

VARIABLE round

teamVars == <<n_barrier, n_barrier_passed, n_passed, bpc, round>>

TeamInit == BarrierInit /\ round = [t \in Threads |-> 0]

Leave(t) ==
  /\ Release(t) \/ StopSpinning(t)
  /\ round' = [round EXCEPT ![t] = @ + 1]

TeamNext ==
  \E t \in Threads :
    \/ (ReadPassed(t) \/ Arrive(t, Cardinality(Threads)) \/ ResetBarrier(t)) /\ UNCHANGED round
    \/ Leave(t)

TeamSpec == TeamInit /\ [][TeamNext]_teamVars

\* Nobody gets ahead of a thread by more than the barrier that thread is about to leave:
\* when t has left a barrier that u has not, u has arrived there and was let go.
TeamInStep ==
  \A t, u \in Threads :
    round[t] > round[u] =>
      /\ round[t] = round[u] + 1
      /\ bpc[u] = "spinning" /\ n_passed[u] # n_barrier_passed
=============================================================================
