SPECIFICATION Spec
CONSTANTS
  Tasks = {0, 1, 2}
  Sems <- MCSems
  InitCount <- MCInitCount
  MaxCount = 3
  Capacity = 2
  Items = {"x", "y"}
  MaxKills = 1
INVARIANTS
  TypeOK
  WaitersConsistent
  NoLostWakeup
  PermitsConserved
  NobodyStranded
PROPERTIES
  PermitSurvives
  ImplementsChannel
CHECK_DEADLOCK FALSE
