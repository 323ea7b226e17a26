---------------------------- MODULE GgmlBarrier ----------------------------
(***************************************************************************)
(* ggml_barrier of ggml-cpu.c, the reusable barrier of the native engine's *)
(* thread pool: a counter of arrivals, and a counter of the barriers that  *)
(* were passed, on which the threads that arrived spin.  Each access to a  *)
(* shared counter is a step of its own.  Memory is sequentially consistent *)
(* here; the two counters are accessed with full fences at the points where*)
(* a thread arrives and leaves.                                            *)
(*                                                                         *)
(* Threadpool uses the steps below for the threads of a graph, BarrierTeam *)
(* for a fixed team that meets again and again.                            *)
(***************************************************************************)
EXTENDS Integers, FiniteSets

CONSTANT Threads

ASSUME ThreadsAssumption == IsFiniteSet(Threads) /\ Threads # {}

VARIABLES
  n_barrier,          \* arrivals at the present barrier
  n_barrier_passed,   \* barriers passed
  n_passed,           \* per thread: n_barrier_passed as read when it arrived
  bpc                 \* per thread: where it is in ggml_barrier

barrierVars == <<n_barrier, n_barrier_passed, n_passed, bpc>>

BarrierPlaces == {"outside", "arriving", "resetting", "releasing", "spinning"}

BarrierInit ==
  /\ n_barrier = 0
  /\ n_barrier_passed = 0
  /\ n_passed = [t \in Threads |-> 0]
  /\ bpc = [t \in Threads |-> "outside"]

ReadPassed(t) ==
  /\ bpc[t] = "outside"
  /\ n_passed' = [n_passed EXCEPT ![t] = n_barrier_passed]
  /\ bpc' = [bpc EXCEPT ![t] = "arriving"]
  /\ UNCHANGED <<n_barrier, n_barrier_passed>>

\* atomic_fetch_add: the n-th thread to arrive is the last one.
Arrive(t, n) ==
  /\ bpc[t] = "arriving"
  /\ n_barrier' = n_barrier + 1
  /\ bpc' = [bpc EXCEPT ![t] = IF n_barrier = n - 1 THEN "resetting" ELSE "spinning"]
  /\ UNCHANGED <<n_barrier_passed, n_passed>>

\* Mutant: the counter is not reset for the next barrier.
MutantResetBarrier(t) ==
  /\ bpc[t] = "resetting"
  /\ bpc' = [bpc EXCEPT ![t] = "releasing"]
  /\ UNCHANGED <<n_barrier, n_barrier_passed, n_passed>>

ResetBarrier(t) ==
  /\ bpc[t] = "resetting"
  /\ n_barrier' = 0
  /\ bpc' = [bpc EXCEPT ![t] = "releasing"]
  /\ UNCHANGED <<n_barrier_passed, n_passed>>

Release(t) ==
  /\ bpc[t] = "releasing"
  /\ n_barrier_passed' = n_barrier_passed + 1
  /\ bpc' = [bpc EXCEPT ![t] = "outside"]
  /\ UNCHANGED <<n_barrier, n_passed>>

StopSpinning(t) ==
  /\ bpc[t] = "spinning"
  /\ n_barrier_passed # n_passed[t]
  /\ bpc' = [bpc EXCEPT ![t] = "outside"]
  /\ UNCHANGED <<n_barrier, n_barrier_passed, n_passed>>
=============================================================================
