------------------------- MODULE BarrierTeamProofs -------------------------
(***************************************************************************)
(* TeamInStep, for a team of any size that meets any number of times.      *)
(*                                                                         *)
(* The number of barriers passed is the round the team is in.  Arrived are *)
(* those that wait for its end; a thread one round behind can only be one  *)
(* that spins and has been let go.  The counter counts Arrived exactly,    *)
(* which is what makes the N-th arrival the last.                          *)
(***************************************************************************)
EXTENDS BarrierTeam, FiniteSetTheorems, TLAPS

TeamTypeOK ==
  /\ n_barrier \in Nat /\ n_barrier_passed \in Nat
  /\ n_passed \in [Threads -> Nat] /\ bpc \in [Threads -> BarrierPlaces]
  /\ round \in [Threads -> Nat]

LastPlaces == {"resetting", "releasing"}

Arrived == {t \in Threads : round[t] = n_barrier_passed /\ bpc[t] \in LastPlaces \union {"spinning"}}

InRound ==
  \A t \in Threads :
    \/ round[t] = n_barrier_passed
    \/ round[t] + 1 = n_barrier_passed /\ bpc[t] = "spinning" /\ n_passed[t] = round[t]

ReadInRound ==
  \A t \in Threads :
    round[t] = n_barrier_passed /\ bpc[t] # "outside" => n_passed[t] = n_barrier_passed

LastIsAlone ==
  \A t \in Threads : bpc[t] \in LastPlaces =>
    /\ Arrived = Threads
    /\ \A u \in Threads \ {t} : bpc[u] = "spinning"

CounterCounts ==
  /\ (\A t \in Threads : bpc[t] # "releasing") => n_barrier = Cardinality(Arrived)
  /\ (\E t \in Threads : bpc[t] = "releasing") => n_barrier = 0
  /\ (\A t \in Threads : bpc[t] \notin LastPlaces) => n_barrier < Cardinality(Threads)

TeamInv == TeamTypeOK /\ InRound /\ ReadInRound /\ LastIsAlone /\ CounterCounts

-----------------------------------------------------------------------------
LEMMA TeamSize ==
  /\ IsFiniteSet(Threads)
  /\ Cardinality(Threads) \in Nat
  /\ 0 < Cardinality(Threads)
  /\ Cardinality({}) = 0
<1>1. IsFiniteSet(Threads) /\ Threads # {}
  BY ThreadsAssumption
<1>2. Cardinality(Threads) \in Nat
  BY <1>1, FS_CardinalityType
<1>3. Cardinality(Threads) # 0
  BY <1>1, FS_EmptySet
<1>4. QED
  BY <1>1, <1>2, <1>3, FS_EmptySet

\* The invariant holds when nobody has arrived yet.
LEMMA TeamInitially == TeamInit => TeamInv
<1> SUFFICES ASSUME TeamInit PROVE TeamInv
  OBVIOUS
<1> USE DEF TeamInit, BarrierInit
<1>1. TeamTypeOK
  BY DEF TeamTypeOK, BarrierPlaces
<1>2. Arrived = {}
  BY DEF Arrived, LastPlaces
<1>3. InRound /\ ReadInRound /\ LastIsAlone
  BY DEF InRound, ReadInRound, LastIsAlone, LastPlaces
<1>4. CounterCounts
  BY <1>2, TeamSize DEF CounterCounts
<1>5. QED
  BY <1>1, <1>3, <1>4 DEF TeamInv

LEMMA TypeStep == TeamInv /\ [TeamNext]_teamVars => TeamTypeOK'
<1> SUFFICES ASSUME TeamInv, [TeamNext]_teamVars PROVE TeamTypeOK'
  OBVIOUS
<1> USE DEF TeamInv, TeamTypeOK, BarrierPlaces
<1>1. CASE UNCHANGED teamVars
  BY <1>1 DEF teamVars
<1>2. ASSUME NEW t \in Threads, ReadPassed(t), UNCHANGED round PROVE TeamTypeOK'
  BY <1>2 DEF ReadPassed
<1>3. ASSUME NEW t \in Threads, Arrive(t, Cardinality(Threads)), UNCHANGED round PROVE TeamTypeOK'
  BY <1>3 DEF Arrive
<1>4. ASSUME NEW t \in Threads, ResetBarrier(t), UNCHANGED round PROVE TeamTypeOK'
  BY <1>4 DEF ResetBarrier
<1>5. ASSUME NEW t \in Threads, Leave(t) PROVE TeamTypeOK'
  BY <1>5 DEF Leave, Release, StopSpinning
<1>6. QED
  BY <1>1, <1>2, <1>3, <1>4, <1>5 DEF TeamNext

-----------------------------------------------------------------------------
(***************************************************************************)
(* One lemma for each step.                                                *)
(***************************************************************************)
LEMMA ReadKeeps ==
  ASSUME TeamInv, TeamTypeOK', NEW t \in Threads, ReadPassed(t), UNCHANGED round
  PROVE  TeamInv'
<1> USE DEF TeamInv, TeamTypeOK, BarrierPlaces, LastPlaces
<1>1. /\ n_barrier' = n_barrier /\ n_barrier_passed' = n_barrier_passed /\ round' = round
      /\ \A u \in Threads : bpc'[u] = IF u = t THEN "arriving" ELSE bpc[u]
      /\ \A u \in Threads : n_passed'[u] = IF u = t THEN n_barrier_passed ELSE n_passed[u]
      /\ bpc[t] = "outside"
  BY DEF ReadPassed
<1>2. Arrived' = Arrived
  BY <1>1 DEF Arrived
<1>3. InRound' /\ ReadInRound'
  BY <1>1 DEF InRound, ReadInRound
<1>4. LastIsAlone'
  BY <1>1, <1>2 DEF LastIsAlone
<1>5. CounterCounts'
  BY <1>1, <1>2 DEF CounterCounts
<1>6. QED
  BY <1>3, <1>4, <1>5

\* The arrival that completes the count finds everybody else spinning.
LEMMA ArriveKeeps ==
  ASSUME TeamInv, TeamTypeOK', NEW t \in Threads, Arrive(t, Cardinality(Threads)), UNCHANGED round
  PROVE  TeamInv'
<1> USE DEF TeamInv, TeamTypeOK, BarrierPlaces, LastPlaces
<1> DEFINE N == Cardinality(Threads)
<1> DEFINE place == IF n_barrier = N - 1 THEN "resetting" ELSE "spinning"
<1>1. /\ n_barrier' = n_barrier + 1 /\ n_barrier_passed' = n_barrier_passed
      /\ round' = round /\ n_passed' = n_passed /\ bpc[t] = "arriving"
      /\ \A u \in Threads : bpc'[u] = IF u = t THEN place ELSE bpc[u]
  BY DEF Arrive
<1>2. round[t] = n_barrier_passed
  BY <1>1 DEF InRound
<1>3. \A u \in Threads : bpc[u] \notin LastPlaces
  BY <1>1 DEF LastIsAlone
<1>4. n_barrier = Cardinality(Arrived) /\ n_barrier < N
  BY <1>3 DEF CounterCounts
<1>5. t \notin Arrived /\ Arrived \in SUBSET Threads
  BY <1>1 DEF Arrived
<1>6. Arrived' = Arrived \union {t}
  BY <1>1, <1>2 DEF Arrived
<1>7. IsFiniteSet(Arrived)
  BY <1>5, TeamSize, FS_Subset
<1>8. Cardinality(Arrived') = n_barrier + 1
  BY <1>4, <1>5, <1>6, <1>7, FS_AddElement
<1>9. InRound' /\ ReadInRound'
  BY <1>1, <1>2 DEF InRound, ReadInRound
<1>10. CASE n_barrier = N - 1
  <2>1. Cardinality(Arrived') = Cardinality(Threads)
    BY <1>8, <1>10, TeamSize
  <2>2. Arrived' \in SUBSET Threads
    BY <1>5, <1>6
  <2>3. Arrived' = Threads
    BY <2>1, <2>2, TeamSize, FS_Subset
  <2>4. \A u \in Threads \ {t} : bpc[u] = "spinning"
    BY <2>3, <1>3, <1>6 DEF Arrived
  <2>5. LastIsAlone'
    BY <2>3, <2>4, <1>1, <1>10 DEF LastIsAlone
  <2>6. CounterCounts'
    BY <1>1, <1>3, <1>8, <1>10 DEF CounterCounts
  <2>7. QED
    BY <1>9, <2>5, <2>6
<1>11. CASE n_barrier # N - 1
  <2>1. \A u \in Threads : bpc'[u] \notin LastPlaces
    BY <1>1, <1>3, <1>11
  <2>2. LastIsAlone'
    BY <2>1 DEF LastIsAlone
  <2>3. n_barrier' < N
    BY <1>1, <1>4, <1>11, TeamSize
  <2>4. CounterCounts'
    BY <1>1, <1>8, <2>1, <2>3 DEF CounterCounts
  <2>5. QED
    BY <1>9, <2>2, <2>4
<1>12. QED
  BY <1>10, <1>11

LEMMA ResetKeeps ==
  ASSUME TeamInv, TeamTypeOK', NEW t \in Threads, ResetBarrier(t), UNCHANGED round
  PROVE  TeamInv'
<1> USE DEF TeamInv, TeamTypeOK, BarrierPlaces, LastPlaces
<1>1. /\ n_barrier' = 0 /\ n_barrier_passed' = n_barrier_passed
      /\ round' = round /\ n_passed' = n_passed /\ bpc[t] = "resetting"
      /\ \A u \in Threads : bpc'[u] = IF u = t THEN "releasing" ELSE bpc[u]
  BY DEF ResetBarrier
<1>2. Arrived = Threads /\ \A u \in Threads \ {t} : bpc[u] = "spinning"
  BY <1>1 DEF LastIsAlone
<1>3. Arrived' = Arrived
  BY <1>1 DEF Arrived
<1>4. InRound' /\ ReadInRound'
  BY <1>1 DEF InRound, ReadInRound
<1>5. LastIsAlone'
  BY <1>1, <1>2, <1>3 DEF LastIsAlone
<1>6. CounterCounts'
  BY <1>1 DEF CounterCounts
<1>7. QED
  BY <1>4, <1>5, <1>6

\* The release starts a new round in which nobody has arrived; all the others are let go.
LEMMA ReleaseKeeps ==
  ASSUME TeamInv, TeamTypeOK', NEW t \in Threads, Release(t),
         round' = [round EXCEPT ![t] = @ + 1]
  PROVE  TeamInv'
<1> USE DEF TeamInv, TeamTypeOK, BarrierPlaces, LastPlaces
<1>1. /\ n_barrier' = n_barrier /\ n_barrier_passed' = n_barrier_passed + 1
      /\ n_passed' = n_passed /\ bpc[t] = "releasing"
      /\ \A u \in Threads : bpc'[u] = IF u = t THEN "outside" ELSE bpc[u]
      /\ \A u \in Threads : round'[u] = IF u = t THEN round[u] + 1 ELSE round[u]
  BY DEF Release
<1>2. Arrived = Threads /\ \A u \in Threads \ {t} : bpc[u] = "spinning"
  BY <1>1 DEF LastIsAlone
<1>3. \A u \in Threads : round[u] = n_barrier_passed
  BY <1>2 DEF Arrived
<1>4. Arrived' = {}
  BY <1>1, <1>3 DEF Arrived
<1>5. n_barrier = 0
  BY <1>1 DEF CounterCounts
<1>6. InRound' /\ ReadInRound'
  BY <1>1, <1>2, <1>3 DEF InRound, ReadInRound
<1>7. LastIsAlone' /\ CounterCounts'
  BY <1>1, <1>2, <1>4, <1>5, TeamSize DEF LastIsAlone, CounterCounts
<1>8. QED
  BY <1>6, <1>7

LEMMA SpinKeeps ==
  ASSUME TeamInv, TeamTypeOK', NEW t \in Threads, StopSpinning(t),
         round' = [round EXCEPT ![t] = @ + 1]
  PROVE  TeamInv'
<1> USE DEF TeamInv, TeamTypeOK, BarrierPlaces, LastPlaces
<1>1. /\ n_barrier' = n_barrier /\ n_barrier_passed' = n_barrier_passed
      /\ n_passed' = n_passed /\ bpc[t] = "spinning" /\ n_barrier_passed # n_passed[t]
      /\ \A u \in Threads : bpc'[u] = IF u = t THEN "outside" ELSE bpc[u]
      /\ \A u \in Threads : round'[u] = IF u = t THEN round[u] + 1 ELSE round[u]
  BY DEF StopSpinning
<1>2. round[t] # n_barrier_passed /\ round[t] + 1 = n_barrier_passed
  BY <1>1 DEF InRound, ReadInRound
<1>3. Arrived' = Arrived /\ Arrived # Threads
  BY <1>1, <1>2 DEF Arrived
<1>4. \A u \in Threads : bpc[u] \notin LastPlaces
  BY <1>3 DEF LastIsAlone
<1>5. InRound' /\ ReadInRound'
  BY <1>1, <1>2 DEF InRound, ReadInRound
<1>6. LastIsAlone' /\ CounterCounts'
  BY <1>1, <1>3, <1>4 DEF LastIsAlone, CounterCounts
<1>7. QED
  BY <1>5, <1>6

-----------------------------------------------------------------------------
LEMMA TeamStep == TeamInv /\ [TeamNext]_teamVars => TeamInv'
<1> SUFFICES ASSUME TeamInv, [TeamNext]_teamVars PROVE TeamInv'
  OBVIOUS
<1>1. TeamTypeOK'
  BY TypeStep
<1>2. CASE UNCHANGED teamVars
  BY <1>2 DEF teamVars, TeamInv, TeamTypeOK, InRound, ReadInRound, LastIsAlone, CounterCounts, Arrived
<1>3. ASSUME NEW t \in Threads, ReadPassed(t), UNCHANGED round PROVE TeamInv'
  BY <1>1, <1>3, ReadKeeps
<1>4. ASSUME NEW t \in Threads, Arrive(t, Cardinality(Threads)), UNCHANGED round PROVE TeamInv'
  BY <1>1, <1>4, ArriveKeeps
<1>5. ASSUME NEW t \in Threads, ResetBarrier(t), UNCHANGED round PROVE TeamInv'
  BY <1>1, <1>5, ResetKeeps
<1>6. ASSUME NEW t \in Threads, Leave(t) PROVE TeamInv'
  BY <1>1, <1>6, ReleaseKeeps, SpinKeeps DEF Leave
<1>7. QED
  BY <1>2, <1>3, <1>4, <1>5, <1>6 DEF TeamNext

LEMMA InvInStep == TeamInv => TeamInStep
BY DEF TeamInv, TeamTypeOK, InRound, TeamInStep

\* ggml_barrier: no thread of the team, however large, leaves a barrier before all the others
\* have arrived there and are let go, however often the team meets.
THEOREM BarrierKeepsTeamInStep == TeamSpec => []TeamInStep
<1>1. TeamSpec => []TeamInv
  BY TeamInitially, TeamStep, PTL DEF TeamSpec
<1>2. QED
  BY <1>1, InvInStep, PTL
=============================================================================
