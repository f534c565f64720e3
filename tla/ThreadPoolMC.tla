---------------------------- MODULE ThreadPoolMC ----------------------------
(***************************************************************************)
(* TLC instances of ThreadPool.                                            *)
(***************************************************************************)
EXTENDS ThreadPool, TLC

(* Workers are interchangeable, and so are clients; only used by runs that *)
(* check no liveness.                                                      *)
Symmetry == Permutations(Workers) \cup Permutations(Clients)
=============================================================================
