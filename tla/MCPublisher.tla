---------------------------- MODULE MCPublisher ----------------------------
(***************************************************************************)
(* Instances of Publisher: one engine with everything it is asked for, or  *)
(* two engines that share a bot.                                           *)
(***************************************************************************)
EXTENDS Publisher, TLC

CONSTANTS e1, e2

OneEngine == {e1}
TwoEngines == {e1, e2}
Symmetry == Permutations(TwoEngines)
=============================================================================
