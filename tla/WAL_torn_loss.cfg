\* A failed or interrupted append may also leave a torn record.
SPECIFICATION Spec
CONSTANTS
  Batches = {b1, b2, b3, b4}
  AppendResidues = {"none", "torn", "whole"}
  AckFaults = {"kept", "closed", "swapped"}
  MaxRestarts = 2
INVARIANT
  PromisedIsRecoverable
CHECK_DEADLOCK FALSE
