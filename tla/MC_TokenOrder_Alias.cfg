CONSTANTS
  a = a
  b = b
  Groups = {a, b}
  Kernels <- ParameterLoops
  MaxTrips = 2
SPECIFICATION Spec
INVARIANT OverlapBeforeParallelStore
CHECK_DEADLOCK FALSE
