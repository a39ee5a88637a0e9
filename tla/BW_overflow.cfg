\* A full queue leaves a batch in the WAL only.
SPECIFICATION Spec
CONSTANTS
  b1 = b1
  b2 = b2
  b3 = b3
  b4 = b4
  Batches = {b1, b2, b3}
  AppendResidues = {"none"}
  AckFaults = {}
  WalModes = {TRUE}
  Backlogs <- NoBacklog
  QueueCapacity = 1
  MaxItems = 2
  WriteResidues = {"nothing"}
  ConcurrentRequests = FALSE
  FlushOverlap = FALSE
  Overflow = TRUE
  MaxStops = 0
INVARIANTS
  NoLoss
CHECK_DEADLOCK FALSE
