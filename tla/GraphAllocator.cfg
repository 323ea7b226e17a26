CONSTANTS
  MaxChunks = 2
  MaxChunkSize = 3
  Endless = 20
  Sizes <- MCSizes
  Kinds <- MCKinds
  SizeOf <- MCSizeOf
  Outputs = {3}
  MaxSources = 2
  OldBuffers <- MCOldBuffers
SPECIFICATION Spec
INVARIANT NothingShared
INVARIANT NothingLost
INVARIANT PlanIsSafe
INVARIANT MemoryIsReturned
INVARIANT PlanFitsBuffers
PROPERTY UsesAllocator
PROPERTY UsesHeap
