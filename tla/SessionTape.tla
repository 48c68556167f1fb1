---------------------------- MODULE SessionTape -----------------------------
(***************************************************************************)
(* The event tape of a workspace (src/src/session_log: types.py, store.py, *)
(* project.py): an append-only sequence.  One process writes it and draws  *)
(* the next seq under the write lock from the last one on the tape, so the *)
(* seq of an event is its position.                                        *)
(*                                                                         *)
(* A projection is the set of the positions whose messages it holds: the   *)
(* tape never changes a line, so position and message determine each other *)
(***************************************************************************)
EXTENDS Naturals, Sequences, FiniteSets

\* Events of the main session; what takes no part in the projection (turn
\* bounds, tools, usage snapshots) is like its session/meta.
Said(m)   == [kind |-> "message", val |-> m]
Shadow(k) == [kind |-> "shadow", val |-> k]
Meta      == [kind |-> "meta", val |-> 0]
\* The session/meta of another session.  Its other events are skipped by
\* every reader.
Foreign   == [kind |-> "foreign", val |-> 0]

Event == [kind: {"message", "shadow", "meta", "foreign"}, val: Nat]

\* read_events: the events of the main session.
Main(T) == {i \in DOMAIN T : T[i].kind # "foreign"}

\* read_session_events_tail collects backwards the events after min, until a
\* foreign session/meta once it holds one.
Stops(T, min) ==
  {j \in DOMAIN T : T[j].kind = "foreign" /\ \E k \in Main(T) : k > j /\ k > min}

TailRead(T, min) ==
  {i \in Main(T) : i > min /\ \A j \in Stops(T, min) : j < i}

\* project_session over the events R: a shadow drops the messages after the
\* position it keeps.
Project(T, R) ==
  {i \in R : T[i].kind = "message" /\ \A j \in R : (j > i /\ T[j].kind = "shadow") => T[j].val >= i}

\* What the tape holds of the main session.
Surviving(T) == Project(T, Main(T))

\* No other session closed between two events of the main one.
Undivided(T) ==
  \A j \in DOMAIN T : T[j].kind = "foreign" =>
    ~ \E i, k \in Main(T) : i < j /\ j < k

ImageOf(s) == {s[n] : n \in DOMAIN s}
Ascending(s) == \A m, n \in DOMAIN s : m < n => s[m] < s[n]

\* The positions of S from the first to the last, and their messages.
Rank(S, i) == Cardinality({x \in S : x <= i})
InOrder(S) == [n \in 1..Cardinality(S) |-> CHOOSE i \in S : Rank(S, i) = n]
MessagesAt(T, s) == [n \in DOMAIN s |-> T[s[n]].val]
=============================================================================
