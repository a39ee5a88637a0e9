\* No append tears a record; every fault of a rewrite but a failing rescan.
SPECIFICATION Spec
CONSTANTS
  Batches = {b1, b2, b3, b4}
  AppendResidues = {"none", "whole"}
  AckFaults = {"kept", "closed", "swapped"}
  MaxRestarts = 2
INVARIANTS
  TypeOK
  PromisedIsRecoverable
  EntriesMirrorFile
  IdsAreFresh
  ReleasedNeverReturns
PROPERTIES
  DurableLogSpec
CHECK_DEADLOCK FALSE
