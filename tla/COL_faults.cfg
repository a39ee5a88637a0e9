SPECIFICATION Spec
CONSTANTS
  Tabs = {t1, t2}
  t1 = t1
  t2 = t2
  Strays = {o1}
  o1 = o1
  MaxEvents = 3
  RequestBatchLimit = 2
  FlushThreshold = 2
  Invalid = {3}
  Unencodable = {2}
  MaxRestarts = 1
SYMMETRY Symmetry
INVARIANTS
  TypeOK
  InOrder
  AcceptedOnce
  SeenUnlessDropped
CHECK_DEADLOCK FALSE
