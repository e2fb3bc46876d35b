------------------------------- MODULE MCPages -------------------------------
(* Small instances of Pages for TLC.                                       *)
EXTENDS Pages
=============================================================================
