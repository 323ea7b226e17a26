-------------------------- MODULE MCRecordingSession --------------------------
(* Model checking of RecordingSession: the configurations give the constants   *)
(* their values.                                                               *)
EXTENDS RecordingSession, TLC

\* Two stops differ in nothing but their names, nor do two starts or two inputs.
SessionSymmetry == Permutations(Stops) \cup Permutations(Starts) \cup Permutations(Inputs)
=============================================================================
