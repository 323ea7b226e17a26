SPECIFICATION Spec
CONSTANTS
  Segments = {s1}
  NoFile = NoFile
  Torn = Torn
  Scanners = {c1, c2}
  Handlers = {}
  Deleters = {d1}
  MaxPending = 0
  MaxRows = 1
  MaxErrors = 1
INVARIANT AtMostOneRowPerScanner
PROPERTY ListDeletionRemovesFile
SYMMETRY LibrarySymmetry
