------------------------------- MODULE MCWdl -------------------------------
(* The instances of WdlFencing that TLC checks. *)
EXTENDS WdlFencing

\* Three process starts are the fewest after which an instance comes back to
\* an engine that is neither its last owner nor the one before.
Tokens == 1..3
=============================================================================
