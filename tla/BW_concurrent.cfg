\* Requests, flushes, faults of every kind and a restart, interleaved freely.
SPECIFICATION Spec
CONSTANTS
  b1 = b1
  b2 = b2
  b3 = b3
  b4 = b4
  Batches = {b1, b2, b3}
  AppendResidues = {"none", "torn", "whole"}
  AckFaults = {"kept", "closed", "swapped", "stale"}
  WalModes = {TRUE, FALSE}
  Backlogs <- NoBacklog
  QueueCapacity = 2
  MaxItems = 2
  WriteResidues = {"nothing", "all"}
  ConcurrentRequests = TRUE
  FlushOverlap = TRUE
  Overflow = TRUE
  MaxStops = 1
SYMMETRY BatchSymmetry
INVARIANTS
  TypeOK
  QueueBounded
  WalIDsMatchQueue
  NoLostWakeup
  PendingIsBacked
  DrainIsComplete
CHECK_DEADLOCK FALSE
