SPECIFICATION Spec
CONSTANTS
  Slots <- MCSlots
  PageSize = 3
  ChunkMax = 2
  Home <- MCHome
  DataPage = 2
  Data <- MCData
  CodePages = {0}
  Places <- MCPlacesOnData
  Manifests <- MCManifests
  Bad = {}
INVARIANT VariablesKept
\* A lost machine stops.
CHECK_DEADLOCK FALSE
