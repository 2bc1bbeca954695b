SPECIFICATION Spec
CONSTANTS
  MaxTasks = 3
  PerFrame = 2
  Boot <- MCBoot
  Targets <- MCTargets
  MaxQueued = 2
INVARIANTS NoMix JsonIsItsAnswer
PROPERTY JsonComes
