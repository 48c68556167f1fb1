-------------------------- MODULE MCContinuations --------------------------
(* Instances of Continuations for TLC.                                     *)
EXTENDS Continuations

CONSTANTS w1, w2, m1, m2, b1
=============================================================================
