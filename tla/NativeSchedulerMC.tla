------------------------- MODULE NativeSchedulerMC -------------------------
(***************************************************************************)
(* TLC instances of NativeScheduler.                                       *)
(***************************************************************************)
EXTENDS NativeScheduler, TLC

Symmetry == Permutations(Workers) \cup Permutations(Cards)
=============================================================================
