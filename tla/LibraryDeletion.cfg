SPECIFICATION DeletionSpec
CONSTANTS
  Segments = {s1}
  NoFile = NoFile
  Torn = Torn
  Scanners = {c1}
  Handlers = {}
  Deleters = {}
  MaxPending = 0
  MaxRows = 1
  MaxErrors = 0
PROPERTY DeletionIsFinal
