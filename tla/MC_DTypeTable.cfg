CONSTANTS
  Threads = {t1, t2}
  Kinds = {"pointer"}
  FirstDerived = 1
  BasicName <- MCBasicName
  FirstPageLog2 = 0
  MaxRequests = 3
  None = None
SPECIFICATION Spec
INVARIANTS
  TableInv
PROPERTIES
  ImplementsInternTable
  EveryCallReturns
