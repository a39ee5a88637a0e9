--------------------------- MODULE MCBatchWriter ---------------------------
(* Instances of BatchWriter for TLC.                                       *)
EXTENDS BatchWriter, TLC

CONSTANTS b1, b2, b3, b4

BatchSymmetry == Permutations(Batches)

NoBacklog == {<< >>}
AnyBacklog == {<< >>, <<b1>>, <<b1, b2, b3>>}
=============================================================================
