CONSTANTS
  N = 4
  TopK = 2
  BatchRepeats = 2
  MinRepeats = 2
  MaxRepeats = 5
  MaxTime = 11
  Means = {1, 3}
  Margins = {0, 2}
  Threads = {t1, t2}
  Keys = {k1}
  MaxCalls = 1
  None = None
SPECIFICATION Spec
INVARIANTS
  AutotuneInv
PROPERTIES
  SelectionIsKept
  EveryCallReturns
CHECK_DEADLOCK FALSE
