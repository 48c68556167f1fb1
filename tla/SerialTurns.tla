---------------------------- MODULE SerialTurns ----------------------------
(***************************************************************************)
(* What the turn kernel promises to everyone who sends it a message: one   *)
(* turn at a time, in the order of acceptance, and an interruption ends    *)
(* every message still in line.  Nothing of the asyncio lock, the busy     *)
(* predicate or the phases of a turn is visible at this level.             *)
(***************************************************************************)
EXTENDS Sequences

CONSTANTS Turn,     \* the messages handed to process_message
          Nobody    \* no turn is running

VARIABLES line,     \* accepted messages that still wait, oldest first
          current,  \* the turn that is running
          ended     \* messages whose processing is over

promise == <<line, current, ended>>

InLine(t) == \E i \in DOMAIN line : line[i] = t
Fresh(t) == ~InLine(t) /\ t # current /\ t \notin ended

Init ==
  /\ line = <<>>
  /\ current = Nobody
  /\ ended = {}

(* A message is accepted: at once when nothing is running or waiting. *)
Accept(t) ==
  /\ Fresh(t)
  /\ \/ /\ line' = Append(line, t)
        /\ UNCHANGED current
     \/ /\ line = <<>> /\ current = Nobody
        /\ current' = t
        /\ UNCHANGED line
  /\ UNCHANGED ended

(* A message is turned away with a notice. *)
Refuse(t) ==
  /\ Fresh(t)
  /\ ended' = ended \cup {t}
  /\ UNCHANGED <<line, current>>

(* The oldest waiting message becomes the running turn. *)
Start ==
  /\ current = Nobody /\ line # <<>>
  /\ current' = Head(line)
  /\ line' = Tail(line)
  /\ UNCHANGED ended

Finish ==
  /\ current # Nobody
  /\ ended' = ended \cup {current}
  /\ current' = Nobody
  /\ UNCHANGED line

(* An interruption takes everyone out of the line. *)
CancelLine ==
  /\ line # <<>>
  /\ ended' = ended \cup {line[i] : i \in DOMAIN line}
  /\ line' = <<>>
  /\ UNCHANGED current

Next ==
  \/ \E t \in Turn : Accept(t) \/ Refuse(t)
  \/ Start
  \/ Finish
  \/ CancelLine

Spec == Init /\ [][Next]_promise
=============================================================================
