---------------------------- MODULE MCOrderStore ----------------------------
(* Small instances of OrderStore for TLC.                                  *)
EXTENDS OrderStore, TLC

Symmetric == Permutations(Clients) \cup Permutations(Janitors)
=============================================================================
