SPECIFICATION FairSpec
CONSTANTS
  MaxTasks = 3
  WeightMax = 3
  WeightArgs <- MCWeightArgs
INVARIANTS
  TypeOK
  SlotHygiene
  BoundedWait
PROPERTY
  StarvationFree
