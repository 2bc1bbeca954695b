SPECIFICATION FairSpec
CONSTANTS
  Tasks = {0, 1}
  MaxTty = 2
  TxSize = 1
  RxSize = 1
  TxChunk = 1
  MaxChunks = 2
  RxLens <- MCRxLens
  MaxStarts = 2
INVARIANTS
  TtyIsolation
  CachedTtyIsOwned
  NoHoles
  BoundedSkips
PROPERTY
  FlushEnds
