SPECIFICATION FairSpec
CONSTANTS
  Segments = {s1, s2}
  NoFile = NoFile
  Torn = Torn
  Scanners = {c1}
  Handlers = {h1}
  Deleters = {}
  MaxPending = 1
  MaxRows = 1
  MaxErrors = 0
PROPERTY EventuallyInLibrary
