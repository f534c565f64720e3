------------------------------ MODULE ChannelMC ------------------------------
(***************************************************************************)
(* TLC instances of Channel.                                               *)
(***************************************************************************)
EXTENDS Channel, TLC

(* Threads other than the main one are interchangeable; used by runs that  *)
(* check no liveness.                                                      *)
Symmetry == Permutations(Threads \ {Main})

CONSTANTS c1, c2

(* What selections are given: one channel, or two.                         *)
OneList  == {<<c1>>}
TwoLists == {<<c1, c2>>}

(* How long calls wait: for ever, or also not at all and for two rounds.   *)
OnlyForever == {-1}
TwoRounds   == {-1, 0, 2}
=============================================================================
