---------------------------- MODULE MCTurnKernel ----------------------------
(***************************************************************************)
(* Instances of TurnKernel for TLC.  The messages are interchangeable, so  *)
(* a run that checks no liveness may reduce by their permutations.         *)
(***************************************************************************)
EXTENDS TurnKernel, TLC

TurnSymmetry == Permutations(Turn)
=============================================================================
