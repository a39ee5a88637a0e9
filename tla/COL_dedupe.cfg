SPECIFICATION Spec
CONSTANTS
  Tabs = {t1}
  t1 = t1
  Strays = {}
  MaxEvents = 2
  RequestBatchLimit = 2
  FlushThreshold = 2
  Invalid = {}
  Unencodable = {}
  MaxRestarts = 0
INVARIANTS
  SeenIsTaken
CHECK_DEADLOCK FALSE
