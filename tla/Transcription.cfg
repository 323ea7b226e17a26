SPECIFICATION FairSpec
CONSTANTS
  Rows = {r1, r2}
  Screens = {d1}
  Voices = {v1}
INVARIANT TypeOK
INVARIANT FlagsAreHeld
INVARIANT ModelStaysLoaded
PROPERTY ImplementsTranscripts
