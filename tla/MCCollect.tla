----------------------------- MODULE MCCollect -----------------------------
(***************************************************************************)
(* Small instances of Collect for TLC.                                     *)
(***************************************************************************)
EXTENDS Collect, TLC

(* Tabs are alike, and so are the places for stray requests.  For runs     *)
(* without a liveness property.                                            *)
Symmetry == Permutations(Tabs) \union Permutations(Strays)
=============================================================================
