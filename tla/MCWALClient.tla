---------------------------- MODULE MCWALClient ----------------------------
(* Instances of WALClient for TLC.                                         *)
EXTENDS WALClient, TLC

BatchSymmetry == Permutations(Batches)
=============================================================================
