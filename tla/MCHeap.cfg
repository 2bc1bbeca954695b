SPECIFICATION Spec
CONSTANTS
  HeapSize = 40
  Header = 5
  Word = 64
  Requests <- MCRequests
INVARIANTS
  Tiled
  Coalesced
  GrantsAreGood
