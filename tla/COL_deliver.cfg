SPECIFICATION FairSpec
CONSTANTS
  Tabs = {t1}
  t1 = t1
  Strays = {o1}
  o1 = o1
  MaxEvents = 2
  RequestBatchLimit = 2
  FlushThreshold = 2
  Invalid = {}
  Unencodable = {}
  MaxRestarts = 1
INVARIANTS
  Accounted
PROPERTIES
  EventuallyAccepted
CHECK_DEADLOCK FALSE
