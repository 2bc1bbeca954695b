SPECIFICATION Spec
CONSTANTS
  Slots <- MCSlots
  PageSize = 3
  ChunkMax = 2
  Home <- MCHome
  DataPage = 2
  Data <- MCData
  CodePages = {0}
  Places <- MCPlaces
  Manifests <- MCManifests
  Bad <- MCBad
INVARIANTS ComesBack StaysInWindow ReportIsTrue LiveBytesKept
\* A lost machine stops.
CHECK_DEADLOCK FALSE
