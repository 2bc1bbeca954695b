SPECIFICATION SemSpec
CONSTANTS
  Tasks = {0, 1, 2}
  Sems = {"a", "b"}
  InitCount <- MCInitCount
  MaxCount = 2
INVARIANTS
  SemTypeOK
  WaitersConsistent
  NoLostWakeup
PROPERTY
  PermitSurvives
CHECK_DEADLOCK FALSE
