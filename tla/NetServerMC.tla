---------------------------- MODULE NetServerMC -----------------------------
(* The server on a small instance: two connections, which are alike. *)
EXTENDS NetServer, TLC

Alike == Permutations(Conns)
=============================================================================
