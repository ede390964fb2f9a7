CONSTANTS
  Workers = {w1, w2}
  MaxTasks = 3
  None = None
SPECIFICATION Spec
INVARIANTS
  RunnerInv
PROPERTIES
  ImplementsBenchmarkService
  EveryRunEnds
  StrayWorkersGoAway
CHECK_DEADLOCK FALSE
