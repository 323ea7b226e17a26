CONSTANTS
  NThreads = 3
  Threads <- ThreadSet
  Nodes <- GraphNodes
  NChunks = 3
  ChunkFactor = 1
  Nobody = Nobody
  MaxGraphs = 2
SPECIFICATION Spec
INVARIANT TypeOK
INVARIANT QuietBetweenGraphs
PROPERTY ImplementsEvaluation
PROPERTY CallsReturn
