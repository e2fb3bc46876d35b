--------------------------- MODULE MCProductCache ---------------------------
(* Small instances of ProductCache for TLC.                                *)
EXTENDS ProductCache, TLC

Symmetric == Permutations(Instances) \cup Permutations(Writers) \cup Permutations(Slots)
=============================================================================
