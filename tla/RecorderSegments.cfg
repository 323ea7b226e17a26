SPECIFICATION Spec
CONSTANTS
  Segments = {s1, s2}
  NoFile = NoFile
  Torn = Torn
  Recorders = {r1}
  Main = Main
  None = None
  IOErrors = FALSE
  AtomicMove = TRUE
INVARIANTS
  TypeOK
  ListenerHasMicrophone
  NeverTruncated
PROPERTIES
  ManifestGrows
  FinishedWavStays
