SPECIFICATION FairSpec
CONSTANTS
  Segments = {s1}
  NoFile = NoFile
  Torn = Torn
  Recorders = {r1}
  Main = Main
  None = None
  IOErrors = FALSE
  AtomicMove = TRUE
PROPERTIES
  RestartsAfterDeadObject
