\* One request at a time, none during acknowledge and reload, a queue large enough;
\* disk faults, store faults and a restart.
SPECIFICATION FairSpec
CONSTANTS
  b1 = b1
  b2 = b2
  b3 = b3
  b4 = b4
  Batches = {b1, b2}
  AppendResidues = {"none", "whole"}
  AckFaults = {"kept", "closed"}
  WalModes = {TRUE, FALSE}
  Backlogs <- NoBacklog
  QueueCapacity = 2
  MaxItems = 2
  WriteResidues = {"nothing", "all"}
  ConcurrentRequests = FALSE
  FlushOverlap = FALSE
  Overflow = FALSE
  MaxStops = 1
INVARIANTS
  NoLoss
PROPERTIES
  DeliverySpec
CHECK_DEADLOCK FALSE
