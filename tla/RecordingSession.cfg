SPECIFICATION Spec
CONSTANTS
  Starts = {q1, q2}
  Inputs = {v1}
  Stops = {t1, t2}
  MaxMishaps = 2
  None = None
  StopIntent = StopIntent
INVARIANTS
  SidesAgree
  OneRow
  RowHasAudio
  OneTimer
  OwnAudio
  AudioIsKept
PROPERTIES
  ForgottenWhenSaved
SYMMETRY SessionSymmetry
