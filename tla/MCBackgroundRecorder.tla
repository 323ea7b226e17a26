------------------------- MODULE MCBackgroundRecorder -------------------------
(* Model checking of BackgroundRecorder: the configurations give the constants *)
(* their values.                                                               *)
EXTENDS BackgroundRecorder, TLC

\* For instances with several recording threads, which differ in nothing but their names.
RecorderSymmetry == Permutations(Recorders)
=============================================================================
