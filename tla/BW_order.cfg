\* Two requests queue their batches in the order opposite to the WAL's.
SPECIFICATION Spec
CONSTANTS
  b1 = b1
  b2 = b2
  b3 = b3
  b4 = b4
  Batches = {b1, b2, b3}
  AppendResidues = {"none"}
  AckFaults = {}
  WalModes = {TRUE}
  Backlogs <- NoBacklog
  QueueCapacity = 3
  MaxItems = 2
  WriteResidues = {"nothing"}
  ConcurrentRequests = TRUE
  FlushOverlap = FALSE
  Overflow = FALSE
  MaxStops = 0
INVARIANTS
  NoLoss
CHECK_DEADLOCK FALSE
