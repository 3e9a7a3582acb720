SPECIFICATION Spec
CONSTANTS
  NTASK = 3
  Frames = {1, 2, 3, 4, 5, 6, 7, 8, 9, 10, 11, 12, 13}
  PGSIZE = 2
  Word = 32
  UHEAP_BASE = 4
  UHEAP_TOP = 10
  Prog = {0, 1}
  Stack = 6
  DMA_BASE = 8
  MaxDma = 1
  Deltas <- SomeDeltas
  MaxSpaces = 2
INVARIANTS
  OneOwner
  NothingLost
  OneBreak
  HeapMapped
PROPERTIES
  FailedSbrkChangesNothing
VIEW Shape
