CONSTANTS
  a = a
  b = b
  Groups = {a, b}
  Kernels <- MCKernels
  MaxTrips = 2
SPECIFICATION Spec
INVARIANTS
  TokenInv
  AcquireOrdered
  ReleaseOrdered
  ParallelStoresIndependent
CHECK_DEADLOCK FALSE
