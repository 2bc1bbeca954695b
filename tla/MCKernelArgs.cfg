SPECIFICATION KSpec
CONSTANTS
  Tasks = {0, 1, 2}
  Sems <- MCSems
  InitCount <- MCInitCount
  MaxCount = 3
  Capacity = 1
  Items = {"x"}
  MaxKills = 0
  MaxTasks = 3
  WeightMax = 3
  WeightOf <- MCWeightOf
  Overrides = {"default", "fast"}
INVARIANT
  StartsAsTold
