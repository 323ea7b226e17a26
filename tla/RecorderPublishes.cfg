SPECIFICATION FairSpec
CONSTANTS
  Segments = {s1}
  NoFile = NoFile
  Torn = Torn
  Recorders = {r1}
  Main = Main
  None = None
  IOErrors = TRUE
  AtomicMove = FALSE
INVARIANTS
  BufferIsFlushed
  NotWedged
PROPERTIES
  ImplementsSource
  SavedIsPublished
