\* A restart may find a backlog larger than the queue; the disk works, the store
\* fails cleanly, the process stops once.
SPECIFICATION FairSpec
CONSTANTS
  b1 = b1
  b2 = b2
  b3 = b3
  b4 = b4
  Batches = {b1, b2, b3}
  AppendResidues = {"none"}
  AckFaults = {}
  WalModes = {TRUE, FALSE}
  Backlogs <- AnyBacklog
  QueueCapacity = 2
  MaxItems = 3
  WriteResidues = {"nothing"}
  ConcurrentRequests = FALSE
  FlushOverlap = FALSE
  Overflow = FALSE
  MaxStops = 1
INVARIANTS
  OnceUntilStop
PROPERTIES
  BacklogFlushed
CHECK_DEADLOCK FALSE
