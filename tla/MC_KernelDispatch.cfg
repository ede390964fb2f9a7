CONSTANTS
  t1 = t1
  t2 = t2
  k1 = k1
  k2 = k2
  k3 = k3
  f = f
  array = array
  record = record
  Free = Free
  None = None
  Threads = {t1, t2}
  Keys = {k1, k2, k3}
  Hash <- MCHash
  Values <- MCValues
  Paths <- MCPaths
  Yields = {array, record}
  Families = {f}
  FamilyOf <- MCFamilyOf
  Finalizers = TRUE
SPECIFICATION Spec
INVARIANTS
  DispatchInv
PROPERTIES
  ImplementsService
