----------------------------- MODULE SessionLog -----------------------------
(***************************************************************************)
(* How the conversation of one session reaches the tape and comes back     *)
(* after a death: the recorder that compares the context with what it has  *)
(* written (session_log/recorder.py), the checkpoint and the replay        *)
(* (checkpoint.py, workspace_state.py), the in-flight marker of a turn     *)
(* (turn_orchestrator.py) and the janitor, whose maintenance turns use     *)
(* the tape and the marker of the workspace they maintain.                 *)
(*                                                                         *)
(* Each persist_session_to_disk runs in a thread; one step is what happens *)
(* between two locks.  A crash loses the memory and cuts a write.          *)
(***************************************************************************)
EXTENDS SessionTape

CONSTANTS
  Sides,       \* threads of the persists nobody awaits
  MaxMessages, \* bound on the messages drawn
  MaxSaves,    \* bound on the persists
  MaxTroubles  \* bound on the janitor's turns, the deaths and the failed writes

ASSUME SidesAssumption == "turn" \notin Sides
ASSUME BoundsAssumption == MaxMessages \in Nat /\ MaxSaves \in Nat /\ MaxTroubles \in Nat

VARIABLES
  tape,        \* session_events.jsonl with its archived segments
  checkpoint,  \* [last, kept]; last = 0: none, or of an empty projection
  marker,      \* turn_in_flight.json: "none", "main" or "janitor"
  loaded,      \* is the session in memory?
  history,     \* message_history
  keys,        \* _synced_keys
  seqs,        \* _synced_seqs
  syncing,     \* _syncing
  pending,     \* _pending_sync: a sequence of one snapshot, or empty
  at,          \* where each persisting thread is
  snap,        \* the history it is to write
  plan,        \* [common, batch]: what it has decided to write
  turn,        \* where the turn of the session is
  janitor,     \* where the janitor's turn is
  next,        \* the next fresh message
  said,        \* history: what turns said, or what was lost of it at a death
  mishaps,     \* history: the known ways the record went wrong since the start
  saves, troubles

record  == <<keys, seqs, syncing, pending>>
memory  == <<history, record, at, snap, plan, turn>>
counted == <<saves, troubles>>
vars == <<tape, checkpoint, marker, loaded, memory, janitor, next, said, mishaps, counted>>

Thread == {"turn"} \cup Sides

\* The environment seed and the interruption note; the fresh messages follow.
Seed == 0
Note == 1

Place == {"idle", "called", "diff", "append", "tail", "leave", "meta"}
\* The threads that hold the recorder.
InSync == {"diff", "append", "tail"}

NoPlan == [common |-> 0, batch |-> <<>>]

OnTape(T) == {T[i].val : i \in Surviving(T)}

Init ==
  /\ tape = <<>> /\ checkpoint = [last |-> 0, kept |-> {}] /\ marker = "none"
  /\ loaded = TRUE /\ history = <<Seed>> /\ keys = <<>> /\ seqs = <<>>
  /\ syncing = FALSE /\ pending = <<>>
  /\ at = [p \in Thread |-> "idle"] /\ snap = [p \in Thread |-> <<>>]
  /\ plan = [p \in Thread |-> NoPlan]
  /\ turn = "idle" /\ janitor = "idle" /\ next = 2 /\ said = {} /\ mishaps = {}
  /\ saves = 0 /\ troubles = 0

-----------------------------------------------------------------------------
(* Persisting: persist_session_to_disk with SessionLogRecorder.sync_history *)

disk == <<tape, checkpoint, marker>>

Troubled == troubles < MaxTroubles /\ troubles' = troubles + 1

\* A write to the disk works or fails.
Works == UNCHANGED troubles
Fails == Troubled

\* list(self.message_history), in the thread.
Call(p) ==
  /\ at[p] = "idle" /\ saves < MaxSaves
  /\ at' = [at EXCEPT ![p] = "called"]
  /\ snap' = [snap EXCEPT ![p] = history]
  /\ saves' = saves + 1

\* old holds a message of the context that new lacks.
Forgets(old, new) == (ImageOf(old) \ ImageOf(new)) \cap ImageOf(history) # {}

\* A sync in flight takes the snapshot over; the persist goes on without it.
HandOver(p) ==
  /\ syncing
  /\ pending' = <<snap[p]>>
  /\ mishaps' = IF pending # <<>> /\ Forgets(pending[1], snap[p])
                THEN mishaps \cup {"stale"} ELSE mishaps
  /\ at' = [at EXCEPT ![p] = "meta"] /\ snap' = [snap EXCEPT ![p] = <<>>]
  /\ UNCHANGED syncing

Enter(p) ==
  /\ at[p] = "called"
  /\ \/ HandOver(p)
     \/ /\ ~syncing
        /\ syncing' = TRUE /\ at' = [at EXCEPT ![p] = "diff"]
        /\ UNCHANGED <<pending, snap, mishaps>>
  /\ UNCHANGED <<disk, loaded, history, keys, seqs, plan, turn, janitor, next, said, counted>>

\* The first n messages of the snapshot are written already.
Agree(s, n) == n <= Len(keys) /\ n <= Len(s) /\ \A i \in 1..n : keys[i] = s[i]

\* The events that turn what was written into the snapshot, the first c
\* messages being the same: a shadow over what was replaced, then the rest.
Batch(s, c) ==
  (IF c < Len(keys) THEN <<Shadow(IF c = 0 THEN 0 ELSE seqs[c])>> ELSE <<>>)
    \o [n \in 1..(Len(s) - c) |-> Said(s[c + n])]

\* With the longest common prefix: nothing to do, a prefix whose seq is missing
\* (IndexError: the persist ends without its session/meta), or a batch to write.
Diff(p) ==
  LET s == snap[p] IN
  /\ at[p] = "diff"
  /\ \E c \in 0..Len(keys) :
       /\ Agree(s, c) /\ ~Agree(s, c + 1)
       /\ \/ /\ c = Len(keys) /\ c = Len(s)
             /\ at' = [at EXCEPT ![p] = "tail"]
             /\ UNCHANGED <<syncing, snap, plan>>
          \/ /\ c > Len(seqs) /\ ~(c = Len(keys) /\ c = Len(s))
             /\ at' = [at EXCEPT ![p] = "idle"]
             /\ syncing' = FALSE /\ snap' = [snap EXCEPT ![p] = <<>>]
             /\ UNCHANGED plan
          \/ /\ c <= Len(seqs) /\ ~(c = Len(keys) /\ c = Len(s))
             /\ at' = [at EXCEPT ![p] = "append"]
             /\ plan' = [plan EXCEPT ![p] = [common |-> c, batch |-> Batch(s, c)]]
             /\ UNCHANGED <<syncing, snap>>
  /\ UNCHANGED <<disk, loaded, history, keys, seqs, pending, turn, janitor, next, said, mishaps, counted>>

\* An older snapshot that comes after a newer one undoes it.
Undone(T) ==
  IF (OnTape(tape) \ OnTape(T)) \cap ImageOf(history) # {} THEN {"stale"} ELSE {}

\* append_with_seq: the batch is on the tape and the cursor follows.
Written(p) ==
  LET new == Len(snap[p]) - plan[p].common
      kept == IF plan[p].common <= Len(seqs) THEN plan[p].common ELSE Len(seqs)
  IN /\ Works
     /\ tape' = tape \o plan[p].batch
     /\ keys' = snap[p]
     /\ seqs' = SubSeq(seqs, 1, kept) \o [n \in 1..new |-> Len(tape') - new + n]
     /\ mishaps' = mishaps \cup Undone(tape')

\* An OSError, reported to the user: nothing or a part of the batch is on disk,
\* and the cursor stays.
Failed(p) ==
  /\ Fails
  /\ \E n \in 0..(Len(plan[p].batch) - 1) :
    /\ tape' = tape \o SubSeq(plan[p].batch, 1, n)
    /\ mishaps' = mishaps \cup {"failed"} \cup (IF n > 0 THEN {"torn"} ELSE {})
    /\ UNCHANGED <<keys, seqs>>

\* Mutant: the cursor follows although the write failed.
WriteCursorAnyhow(p) ==
  /\ at[p] = "append"
  /\ Written(p) \/ (Fails /\ tape' = tape /\ keys' = snap[p] /\ UNCHANGED <<seqs, mishaps>>)
  /\ at' = [at EXCEPT ![p] = "tail"] /\ plan' = [plan EXCEPT ![p] = NoPlan]
  /\ UNCHANGED <<checkpoint, marker, loaded, history, syncing, pending, snap, turn, janitor, next, said, saves>>
Write(p) ==
  /\ at[p] = "append"
  /\ Written(p) \/ Failed(p)
  /\ at' = [at EXCEPT ![p] = "tail"] /\ plan' = [plan EXCEPT ![p] = NoPlan]
  /\ UNCHANGED <<checkpoint, marker, loaded, history, syncing, pending, snap, turn, janitor, next, said, saves>>

\* Under the lock: one more round for what was handed over, or the way out.
Drain(p) ==
  /\ at[p] = "tail"
  /\ \/ /\ pending # <<>>
        /\ snap' = [snap EXCEPT ![p] = pending[1]] /\ pending' = <<>>
        /\ at' = [at EXCEPT ![p] = "diff"] /\ UNCHANGED syncing
     \/ /\ pending = <<>>
        /\ snap' = [snap EXCEPT ![p] = <<>>] /\ syncing' = FALSE
        /\ at' = [at EXCEPT ![p] = "leave"] /\ UNCHANGED pending
  /\ UNCHANGED <<disk, loaded, history, keys, seqs, plan, turn, janitor, next, said, mishaps, counted>>

\* The finally clause of sync_history resets the flag a second time, another
\* thread's if one came in between.
Leave(p) ==
  /\ at[p] = "leave"
  /\ at' = [at EXCEPT ![p] = "meta"] /\ syncing' = FALSE
  /\ mishaps' = IF \E q \in Thread : at[q] \in InSync THEN mishaps \cup {"reset"} ELSE mishaps
  /\ UNCHANGED <<disk, loaded, history, keys, seqs, pending, snap, plan, turn, janitor, next, said, counted>>

\* record_session_meta, whose failure goes unnoticed.
Close(p) ==
  /\ at[p] = "meta"
  /\ \/ Works /\ tape' = tape \o <<Meta>>
     \/ Fails /\ tape' = tape
  /\ at' = [at EXCEPT ![p] = "idle"]
  /\ UNCHANGED <<checkpoint, marker, loaded, history, keys, seqs, syncing, pending, snap, plan, turn, janitor, next, said, mishaps, saves>>

-----------------------------------------------------------------------------
(* The turn of the session and what else writes its context                 *)

\* A turn is marked before it begins, if the marker can be written.
Begin ==
  /\ loaded /\ turn = "idle" /\ at["turn"] = "idle"
  /\ turn' = "marked"
  /\ \/ Works /\ marker' = "main" /\ UNCHANGED mishaps
     \/ Fails /\ mishaps' = mishaps \cup {"marker"} /\ UNCHANGED marker
  /\ UNCHANGED <<tape, checkpoint, loaded, history, record, at, snap, plan, janitor, next, said, saves>>

\* A fresh message at the end of the context.
Adds ==
  /\ next < MaxMessages + 2
  /\ next' = next + 1
  /\ history' = history \o <<next>>

\* begin_user_turn.
Hear ==
  /\ turn = "marked" /\ Adds
  /\ turn' = "heard" /\ said' = said \cup {next}
  /\ UNCHANGED <<disk, loaded, record, at, snap, plan, janitor, mishaps, counted>>

\* An interruption before the loop's try: no finally clause runs.
Abandon ==
  /\ turn \in {"marked", "heard"}
  /\ turn' = "idle"
  /\ UNCHANGED <<disk, loaded, history, record, at, snap, plan, janitor, next, said, mishaps, counted>>

\* Answers, tool results, injected input.
Reply ==
  /\ turn \in {"heard", "running"} /\ Adds
  /\ turn' = "running" /\ said' = said \cup {next}
  /\ UNCHANGED <<disk, loaded, record, at, snap, plan, janitor, mishaps, counted>>

\* Compaction puts a summary in the place of what follows the seed, up to k.
Compact ==
  /\ turn \in {"heard", "running"} /\ next < MaxMessages + 2
  /\ \E k \in 3..(Len(history) + 1) :
       history' = <<history[1], next>> \o SubSeq(history, k, Len(history))
  /\ next' = next + 1 /\ said' = said \cup {next} /\ turn' = "running"
  /\ UNCHANGED <<disk, loaded, record, at, snap, plan, janitor, mishaps, counted>>

\* A failed turn cuts the context back to where it began, or to where it last
\* compacted, and leaves a note if it had effects on the disk.
RollBack ==
  /\ turn \in {"heard", "running"} /\ turn' = "failed"
  /\ \E k \in 1..Len(history) :
     /\ turn = "heard" => k = Len(history) - 1
     /\ \/ history' = SubSeq(history, 1, k) /\ UNCHANGED <<next, said>>
        \/ /\ next < MaxMessages + 2
           /\ history' = SubSeq(history, 1, k) \o <<next>>
           /\ next' = next + 1 /\ said' = said \cup {next}
  /\ UNCHANGED <<disk, loaded, record, at, snap, plan, janitor, mishaps, counted>>

\* The end of a turn: it awaits its persist, then clears the marker.
EndTurn ==
  /\ turn \in {"heard", "running", "failed"} /\ turn' = "saving" /\ Call("turn")
  /\ UNCHANGED <<disk, loaded, history, record, plan, janitor, next, said, mishaps, troubles>>
Unlink ==
  \/ Works /\ marker' = "none"
  \/ Fails /\ UNCHANGED marker
ClearEarly ==
  /\ turn = "saving"
  /\ turn' = "idle" /\ Unlink
  /\ UNCHANGED <<tape, checkpoint, loaded, history, record, at, snap, plan, janitor, next, said, mishaps, saves>>
Clear ==
  /\ turn = "saving" /\ at["turn"] = "idle"
  /\ turn' = "idle" /\ Unlink
  /\ UNCHANGED <<tape, checkpoint, loaded, history, record, at, snap, plan, janitor, next, said, mishaps, saves>>

\* The result of a delegate nobody awaits any more lands between two turns.
Park ==
  /\ loaded /\ turn = "idle" /\ Adds
  /\ UNCHANGED <<disk, loaded, record, at, snap, plan, turn, janitor, said, mishaps, counted>>

\* The persists that are not the turn's: after a parked result, a review, a
\* refreshed overview, before a /new.
SideCall(p) ==
  /\ loaded /\ p \in Sides /\ Call(p)
  /\ UNCHANGED <<disk, loaded, history, record, plan, turn, janitor, next, said, mishaps, troubles>>

-----------------------------------------------------------------------------
(* Replay                                                                   *)

Increment == TailRead(tape, checkpoint.last)

NoRebuild == checkpoint.last = 0

\* No checkpoint to start from, or one a shadow may have cut into.
FullRebuild == checkpoint.last = 0 \/ \E j \in Increment : tape[j].kind = "shadow"
Recovered ==
  IF FullRebuild THEN Project(tape, TailRead(tape, 0))
                 ELSE checkpoint.kept \cup Project(tape, Increment)

\* A full rebuild writes the checkpoint anew, if it can: last is the position
\* of the last message, 0 if there is none.
Refreshed ==
  \/ UNCHANGED checkpoint
  \/ /\ FullRebuild
     /\ \E i \in {0} \cup Recovered :
          /\ \A j \in Recovered : j <= i
          /\ checkpoint' = [last |-> i, kept |-> Recovered]

-----------------------------------------------------------------------------
(* The janitor, a crash and the way back                                    *)

\* A maintenance turn of the workspace marks it as a turn of its own.  When
\* the session is not in memory it replays it first and takes its marker.
Visit ==
  /\ janitor = "idle" /\ Troubled
  /\ IF loaded THEN UNCHANGED checkpoint ELSE Refreshed
  /\ janitor' = "visiting" /\ marker' = "janitor"
  /\ mishaps' = IF marker = "main" THEN mishaps \cup {"marker"} ELSE mishaps
  /\ UNCHANGED <<tape, loaded, memory, next, said, saves>>

\* Its own persist ends with a session/meta on the same tape.
VisitSaved ==
  /\ janitor = "visiting" /\ janitor' = "saved"
  /\ \/ Works /\ tape' = tape \o <<Foreign>>
     \/ Fails /\ UNCHANGED tape
  /\ UNCHANGED <<checkpoint, marker, loaded, memory, next, said, mishaps, saves>>

VisitEnds ==
  /\ janitor = "saved" /\ janitor' = "idle" /\ Unlink
  /\ mishaps' = IF marker = "main" THEN mishaps \cup {"marker"} ELSE mishaps
  /\ UNCHANGED <<tape, checkpoint, loaded, memory, next, said, saves>>

\* What was said, is in the context and is not on the tape T.
Unsaved(T) == (said \cap ImageOf(history)) \ OnTape(T)

\* What a sync is about to write.
InFlight ==
  UNION ({ImageOf(snap[p]) : p \in {q \in Thread : at[q] \in {"diff", "append"}}}
         \cup {ImageOf(s) : s \in ImageOf(pending)})

\* Lost at a death with the tape T: what a turn that is over handed to a sync.
Handed(T) ==
  IF turn # "saving" /\ Unsaved(T) \cap InFlight # {} THEN {"handed"} ELSE {}

\* The process dies.  A write may be cut anywhere; half a line is no event.
Crash ==
  /\ Troubled
  /\ \/ tape' = tape /\ mishaps' = mishaps \cup Handed(tape)
     \/ \E p \in Thread : \E n \in 0..Len(plan[p].batch) :
          /\ at[p] = "append"
          /\ tape' = tape \o SubSeq(plan[p].batch, 1, n)
          /\ mishaps' = mishaps \cup Handed(tape') \cup Undone(tape')
               \cup (IF 0 < n /\ n < Len(plan[p].batch) THEN {"torn"} ELSE {})
  /\ said' = IF loaded THEN Unsaved(tape') ELSE said
  /\ loaded' = FALSE /\ history' = <<>> /\ keys' = <<>> /\ seqs' = <<>>
  /\ syncing' = FALSE /\ pending' = <<>>
  /\ at' = [p \in Thread |-> "idle"] /\ snap' = [p \in Thread |-> <<>>]
  /\ plan' = [p \in Thread |-> NoPlan]
  /\ turn' = "idle" /\ janitor' = "idle"
  /\ UNCHANGED <<checkpoint, marker, next, saves>>

\* _restore_from_disk: the replayed messages, a seed if they have none, the
\* note if the session's own marker is found.  What a cut replay brings back of
\* what was dropped needs no record.
Restore ==
  /\ ~loaded /\ loaded' = TRUE
  /\ Refreshed
  /\ seqs' = InOrder(Recovered) /\ keys' = MessagesAt(tape, seqs')
  /\ history' = (IF Seed \in ImageOf(keys') THEN <<>> ELSE <<Seed>>) \o keys'
                  \o (IF marker = "main" THEN <<Note>> ELSE <<>>)
  /\ marker' = "none"
  /\ said' = (ImageOf(keys') \cap OnTape(tape)) \ {Seed, Note}
  /\ mishaps' = IF Recovered = Surviving(tape) THEN {} ELSE {"cut"}
  /\ UNCHANGED <<tape, syncing, pending, at, snap, plan, turn, janitor, next, counted>>

\* The replay raises: recover_session keeps the session's id, and the session
\* starts from its seed, with an empty cursor, beside all that is on the tape.
RestoreFails ==
  /\ ~loaded /\ loaded' = TRUE
  /\ seqs' = <<>> /\ keys' = <<>>
  /\ history' = <<Seed>> \o (IF marker = "main" THEN <<Note>> ELSE <<>>)
  /\ marker' = "none" /\ said' = {} /\ mishaps' = {"unread"}
  /\ UNCHANGED <<tape, checkpoint, syncing, pending, at, snap, plan, turn, janitor, next, counted>>

-----------------------------------------------------------------------------
Next ==
  \/ \E p \in Thread : Enter(p) \/ Diff(p) \/ Write(p) \/ Drain(p) \/ Leave(p) \/ Close(p)
  \/ \E p \in Sides : SideCall(p)
  \/ Begin \/ Hear \/ Abandon \/ Reply \/ Compact \/ RollBack \/ EndTurn \/ Clear \/ Park
  \/ Visit \/ VisitSaved \/ VisitEnds \/ Crash \/ Restore \/ RestoreFails

Spec == Init /\ [][Next]_vars

-----------------------------------------------------------------------------
(* Properties                                                               *)

TypeOK ==
  /\ tape \in Seq(Event)
  /\ checkpoint \in [last: Nat, kept: SUBSET Nat]
  /\ marker \in {"none", "main", "janitor"} /\ loaded \in BOOLEAN
  /\ history \in Seq(Nat) /\ keys \in Seq(Nat) /\ seqs \in Seq(Nat)
  /\ syncing \in BOOLEAN /\ pending \in Seq(Seq(Nat))
  /\ at \in [Thread -> Place] /\ snap \in [Thread -> Seq(Nat)]
  /\ plan \in [Thread -> [common: Nat, batch: Seq(Event)]]
  /\ turn \in {"idle", "marked", "heard", "running", "failed", "saving"}
  /\ janitor \in {"idle", "visiting", "saved"} /\ next \in Nat
  /\ said \subseteq Nat /\ mishaps \subseteq {"stale", "failed", "torn", "reset", "marker", "handed", "cut", "unread"}
  /\ saves \in Nat /\ troubles \in Nat

\* Whatever the checkpoint holds and whenever it was written, a replay gives
\* what the whole tape holds of the session, as long as no other session
\* closed between two of its events (read_session_events_tail, checkpoint.py).
RecoveryIsExact == Undivided(tape) => Recovered = Surviving(tape)

\* The recorder's cursor is the projection of the tape, so the next difference
\* it writes is the right one: unless the second reset of the flag let two
\* syncs in, a failed write left a part of its batch, or the replay that was
\* to set the cursor was cut short or raised.
CursorIsTape ==
  loaded /\ mishaps \cap {"reset", "torn", "cut", "unread"} = {} =>
    Ascending(seqs) /\ ImageOf(seqs) = Surviving(tape) /\ keys = MessagesAt(tape, seqs)

\* What a turn said is on the tape, or the session's marker stands and the
\* next start tells the model so, or a sync another thread runs has it at
\* hand.  The ways it can still go: an older snapshot written over a newer
\* one, a failed write (which the user is told), a cut one, two syncs at once,
\* a marker the janitor took or that could not be written, and a death
\* while the sync it was handed to is still writing.
TurnSavedOrTold ==
  LET lost == IF loaded THEN Unsaved(tape) \ InFlight ELSE said IN
  \/ lost = {} \/ marker = "main"
  \/ mishaps \cap {"stale", "failed", "torn", "reset", "marker", "handed"} # {}

\* "the recovery is the same as a full read_events".
RecoveryIsWhole == Recovered = Surviving(tape)
=============================================================================
