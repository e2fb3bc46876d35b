---------------------------- MODULE MCDeployment -----------------------------
(* A small instance of Deployment for TLC.  Durations are in tenths of a   *)
(* millisecond.                                                            *)
EXTENDS Deployment

Symmetric == Permutations(Migrators)

Tenth == 10

(* Settings both binaries accept, settings both refuse, and settings only  *)
(* cmd/storefront refuses: a cmd/migrate reads those of PostgreSQL alone.  *)
MCSettings ==
    {Default(Tenth),
     [Default(Tenth) EXCEPT !.maxIdleConns = 26],
     [Default(Tenth) EXCEPT !.ttl = 9]}
=============================================================================
