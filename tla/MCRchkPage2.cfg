SPECIFICATION Spec
CONSTANTS
  Slots <- MCSlots
  PageSize = 3
  ChunkMax = 2
  Home <- MCHome
  DataPage = 2
  Data <- MCData
  CodePages = {0}
  Places <- MCPlacesPage2
  Manifests <- MCManifests
  Bad = {}
INVARIANT AnyPageCanBeTested
\* A lost machine stops.
CHECK_DEADLOCK FALSE
