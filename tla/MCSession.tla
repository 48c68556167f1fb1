----------------------------- MODULE MCSession ------------------------------
(* One turn driver and one thread of unawaited persists.                    *)
EXTENDS SessionLog, TLC
=============================================================================
