----------------------------- MODULE TurnKernel -----------------------------
(***************************************************************************)
(* The turn kernel of one session: CoaraBase.process_message, the explicit *)
(* TurnQueue, interruption, /new in its two forms and manual /compact.     *)
(*                                                                         *)
(* The kernel runs on one asyncio loop, so a step here is the code between *)
(* two awaits.  The process lock is an asyncio.Lock: release only wakes    *)
(* the first waiter, which takes the lock in a later step, and in between  *)
(* a newcomer still goes behind the woken waiter.                          *)
(*                                                                         *)
(* The context (message_history) is a sequence of writers: who wrote an    *)
(* entry is all the properties tell apart.                                 *)
(***************************************************************************)
EXTENDS Integers, Sequences

CONSTANTS
  Turn,        \* calls of process_message, one per message
  NewSession,  \* calls of start_new_session (/new, idle renewal)
  Compact,     \* calls of the manual /compact command
  Nobody,      \* the lock is free, no turn is active
  Summary,     \* writer of the entry a compaction puts in place of a prefix
  MaxHistory   \* bound: a turn's own appends stop at this length

ASSUME DistinctActors ==
  /\ Turn \cap NewSession = {} /\ Turn \cap Compact = {} /\ NewSession \cap Compact = {}
  /\ Nobody \notin Turn \cup NewSession \cup Compact
  /\ Summary \notin Turn \cup NewSession \cup Compact
ASSUME BoundIsNatural == MaxHistory \in Nat

VARIABLES
  pc,             \* where each process_message call stands
  rpc,            \* where each start_new_session call stands
  kpc,            \* where each /compact call stands
  holder,         \* the turn inside `async with self._process_lock`
  waiters,        \* asyncio.Lock._waiters
  turnQueue,      \* TurnQueue._pending
  cancelled,      \* turns whose QueuedTurn.cancelled is set
  activeTurn,     \* _active_turn
  insideTurn,     \* _inside_turn
  abort,          \* the reason each turn's AbortController was aborted with
  deferredTask,   \* _deferred_new_session_task
  history,        \* message_history
  historyStart,   \* turn_history_start of the active turn
  rollbackFloor,  \* _rollback_floor
  snapshot,       \* the copy of the context a compaction in flight works on
  ticket,         \* history variable: position of each turn in the order of enqueueing
  arrivals,       \* history variable: number of turns enqueued so far
  before          \* history variable: turns that had been submitted when a /new was requested

lockVars == <<holder, waiters>>
queueVars == <<turnQueue, cancelled>>
runtimeVars == <<activeTurn, insideTurn, abort>>
contextVars == <<history, historyStart, rollbackFloor, snapshot>>
ghostVars == <<ticket, arrivals, before>>
vars == <<pc, rpc, kpc, lockVars, queueVars, runtimeVars, deferredTask,
          contextVars, ghostVars>>


NoFloor == -1
Waiter == Turn \cup NewSession
Writer == Turn \cup NewSession \cup {Summary}
Compactor == Turn \cup Compact

TurnPhase == {"idle", "waiting", "discarding", "preparing", "running", "compressing",
              "persisting", "failing", "unwinding", "done", "dropped", "rejected"}
NewPhase == {"idle", "polling", "deferPolling", "locking", "finalizing",
             "done", "abandoned"}
CompactPhase == {"idle", "summarising", "done"}
AbortReason == {"none", "user", "new_session"}

Elements(seq) == {seq[i] : i \in DOMAIN seq}

InLoop(t) == pc[t] \in {"running", "compressing"}
Leaving(t) == pc[t] \in {"persisting", "failing", "unwinding"}
Executing(t) == pc[t] = "preparing" \/ InLoop(t) \/ Leaving(t)
InLock(t) == Executing(t) \/ pc[t] = "discarding"
Ended(t) == pc[t] \in {"done", "dropped", "rejected"}
Settled(r) == rpc[r] \in {"done", "abandoned"}
Cleared(r) == rpc[r] \in {"finalizing", "done"}

(* Mutant: the busy clock forgets the turns that wait.                     *)
HasActiveTurnWithoutQueue ==
  insideTurn \/ activeTurn # Nobody \/ holder # Nobody

HasActiveTurn ==
  insideTurn \/ activeTurn # Nobody \/ holder # Nobody \/ turnQueue # <<>>

(* Mutant: a lock that lets a newcomer barge past the woken waiter.        *)
LockAvailableToAnyone == holder = Nobody

(* asyncio.Lock.acquire returns at once only if nobody waits either.       *)
LockAvailable == holder = Nobody /\ waiters = <<>>
WokenUp(p) == holder = Nobody /\ waiters # <<>> /\ Head(waiters) = p

DeferredAlive ==
  /\ deferredTask # Nobody
  /\ rpc[deferredTask] \in {"deferPolling", "locking", "finalizing"}

Init ==
  /\ pc = [t \in Turn |-> "idle"]
  /\ rpc = [r \in NewSession |-> "idle"]
  /\ kpc = [c \in Compact |-> "idle"]
  /\ holder = Nobody /\ waiters = <<>>
  /\ turnQueue = <<>> /\ cancelled = {}
  /\ activeTurn = Nobody /\ insideTurn = FALSE
  /\ abort = [t \in Turn |-> "none"]
  /\ deferredTask = Nobody
  /\ history = <<>> /\ historyStart = 0 /\ rollbackFloor = NoFloor
  /\ snapshot = [c \in Compactor |-> <<>>]
  /\ ticket = [t \in Turn |-> 0] /\ arrivals = 0
  /\ before = [r \in NewSession |-> {}]

-----------------------------------------------------------------------------
(* process_message: from the call to the lock                              *)

Enqueued(t) ==
  /\ arrivals' = arrivals + 1
  /\ ticket' = [ticket EXCEPT ![t] = arrivals + 1]

(* Mutant: the rollback point is taken after the user message.             *)
BeginOneLate(t) ==
  /\ pc' = [pc EXCEPT ![t] = "preparing"]
  /\ holder' = t
  /\ insideTurn' = TRUE
  /\ activeTurn' = t
  /\ historyStart' = Len(history) + 1

(* The head of the locked block: everything up to the first await of the   *)
(* turn loop.                                                              *)
Begin(t) ==
  /\ pc' = [pc EXCEPT ![t] = "preparing"]
  /\ holder' = t
  /\ insideTurn' = TRUE
  /\ activeTurn' = t
  /\ historyStart' = Len(history)

(* A deferred /new is still winding down: the message is turned away.      *)
SubmitRejected(t) ==
  /\ pc[t] = "idle"
  /\ DeferredAlive
  /\ pc' = [pc EXCEPT ![t] = "rejected"]
  /\ UNCHANGED <<rpc, kpc, lockVars, queueVars, runtimeVars, deferredTask,
                 contextVars, ghostVars>>

(* enqueue, acquire and remove run through without an await.               *)
SubmitStart(t) ==
  /\ pc[t] = "idle"
  /\ ~DeferredAlive
  /\ LockAvailable
  /\ Begin(t)
  /\ Enqueued(t)
  /\ UNCHANGED <<rpc, kpc, waiters, queueVars, abort, deferredTask,
                 history, rollbackFloor, snapshot, before>>

SubmitQueue(t) ==
  /\ pc[t] = "idle"
  /\ ~DeferredAlive
  /\ ~LockAvailable
  /\ pc' = [pc EXCEPT ![t] = "waiting"]
  /\ turnQueue' = Append(turnQueue, t)
  /\ waiters' = Append(waiters, t)
  /\ Enqueued(t)
  /\ UNCHANGED <<rpc, kpc, holder, cancelled, runtimeVars, deferredTask,
                 contextVars, before>>

Submit(t) == SubmitRejected(t) \/ SubmitStart(t) \/ SubmitQueue(t)

(* Mutant: dequeues the oldest entry instead of the turn's own.            *)
WithoutOldest(seq, t) == IF seq = <<>> THEN seq ELSE Tail(seq)

(* TurnQueue.remove: the entry is taken out wherever it stands.            *)
Without(seq, t) ==
  LET at == CHOOSE i \in DOMAIN seq : seq[i] = t
  IN  IF t \in Elements(seq)
      THEN [i \in 1 .. Len(seq) - 1 |-> IF i < at THEN seq[i] ELSE seq[i + 1]]
      ELSE seq

(* Mutant: the cancelled flag is not looked at.                            *)
GetLockUnchecked(t) ==
  /\ pc[t] = "waiting"
  /\ WokenUp(t)
  /\ Begin(t)
  /\ waiters' = Tail(waiters)
  /\ turnQueue' = Without(turnQueue, t)
  /\ UNCHANGED <<rpc, kpc, cancelled, abort, deferredTask, history,
                 rollbackFloor, snapshot, ghostVars>>

GetLock(t) ==
  /\ pc[t] = "waiting"
  /\ WokenUp(t)
  /\ t \notin cancelled
  /\ Begin(t)
  /\ waiters' = Tail(waiters)
  /\ turnQueue' = Without(turnQueue, t)
  /\ UNCHANGED <<rpc, kpc, cancelled, abort, deferredTask, history,
                 rollbackFloor, snapshot, ghostVars>>

(* A message cancelled while it waited takes the lock only to leave a note *)
(* in the context.                                                         *)
GetLockCancelled(t) ==
  /\ pc[t] = "waiting"
  /\ WokenUp(t)
  /\ t \in cancelled
  /\ pc' = [pc EXCEPT ![t] = "discarding"]
  /\ holder' = t
  /\ waiters' = Tail(waiters)
  /\ turnQueue' = Without(turnQueue, t)
  /\ history' = Append(history, t)
  /\ UNCHANGED <<rpc, kpc, cancelled, runtimeVars, deferredTask, historyStart,
                 rollbackFloor, snapshot, ghostVars>>

LeaveDiscard(t) ==
  /\ pc[t] = "discarding"
  /\ pc' = [pc EXCEPT ![t] = "dropped"]
  /\ holder' = Nobody
  /\ UNCHANGED <<rpc, kpc, waiters, queueVars, runtimeVars, deferredTask,
                 contextVars, ghostVars>>

-----------------------------------------------------------------------------
(* run_turn_loop                                                           *)

(* The user message enters the context; an interruption that came first    *)
(* leaves before the loop's own exception handling is in place.            *)
Prepare(t) ==
  /\ pc[t] = "preparing"
  /\ history' = Append(history, t)
  /\ pc' = [pc EXCEPT ![t] = IF abort[t] = "none" THEN "running" ELSE "unwinding"]
  /\ UNCHANGED <<rpc, kpc, lockVars, queueVars, runtimeVars, deferredTask,
                 historyStart, rollbackFloor, snapshot, ghostVars>>

(* An assistant message, a tool result or a continuation is appended.      *)
Write(t) ==
  /\ pc[t] = "running"
  /\ Len(history) < MaxHistory
  /\ history' = Append(history, t)
  /\ UNCHANGED <<pc, rpc, kpc, lockVars, queueVars, runtimeVars, deferredTask,
                 historyStart, rollbackFloor, snapshot, ghostVars>>

(* Automatic compaction works on a copy while the LLM summarises.          *)
BeginCompress(t) ==
  /\ pc[t] = "running"
  /\ history # <<>>
  /\ pc' = [pc EXCEPT ![t] = "compressing"]
  /\ snapshot' = [snapshot EXCEPT ![t] = history]
  /\ UNCHANGED <<rpc, kpc, lockVars, queueVars, runtimeVars, deferredTask,
                 history, historyStart, rollbackFloor, ghostVars>>

(* The contexts a compaction can make of a copy: a prefix is replaced.     *)
Compressed(seq) ==
  {<<Summary>> \o SubSeq(seq, k + 1, Len(seq)) : k \in 1 .. Len(seq)}

Rewrite(c) ==
  /\ history' \in Compressed(snapshot[c])
  /\ rollbackFloor' = Len(history')

EndCompress(t) ==
  /\ pc[t] = "compressing"
  /\ pc' = [pc EXCEPT ![t] = "running"]
  /\ \/ Rewrite(t)
     \/ UNCHANGED <<history, rollbackFloor>>
  /\ snapshot' = [snapshot EXCEPT ![t] = <<>>]
  /\ UNCHANGED <<rpc, kpc, lockVars, queueVars, runtimeVars, deferredTask,
                 historyStart, ghostVars>>

(* Mutant: the rollback floor survives the turn.                           *)
LeaveLoopKeepingFloor(t, phase) ==
  /\ pc' = [pc EXCEPT ![t] = phase]
  /\ activeTurn' = Nobody
  /\ snapshot' = [snapshot EXCEPT ![t] = <<>>]
  /\ UNCHANGED rollbackFloor

(* The loop's `finally`, up to its first await.                            *)
LeaveLoop(t, phase) ==
  /\ pc' = [pc EXCEPT ![t] = phase]
  /\ activeTurn' = Nobody
  /\ rollbackFloor' = NoFloor
  /\ snapshot' = [snapshot EXCEPT ![t] = <<>>]

Complete(t) ==
  /\ pc[t] = "running"
  /\ LeaveLoop(t, "persisting")
  /\ UNCHANGED <<rpc, kpc, lockVars, queueVars, insideTurn, abort, deferredTask,
                 history, historyStart, ghostVars>>

(* Interruption by the user closes the turn with a note; by /new it does   *)
(* not, the context is about to be cleared.                                *)
Interrupted(t) ==
  /\ InLoop(t)
  /\ abort[t] # "none"
  /\ history' = IF abort[t] = "user" THEN Append(history, t) ELSE history
  /\ LeaveLoop(t, "persisting")
  /\ UNCHANGED <<rpc, kpc, lockVars, queueVars, insideTurn, abort, deferredTask,
                 historyStart, ghostVars>>

(* _rollback_partial_turn_history *)
RolledBack ==
  LET start == IF rollbackFloor # NoFloor THEN rollbackFloor ELSE historyStart
  IN  SubSeq(history, 1, IF start > Len(history) THEN Len(history) ELSE start)

(* An exception: the turn's part of the context is deleted, a note on side *)
(* effects that stay on disk may replace it.                               *)
Fail(t) ==
  /\ InLoop(t)
  /\ history' \in {RolledBack, Append(RolledBack, t)}
  /\ LeaveLoop(t, "failing")
  /\ UNCHANGED <<rpc, kpc, lockVars, queueVars, insideTurn, abort, deferredTask,
                 historyStart, ghostVars>>

(* Mutant: a turn that failed keeps the lock.                              *)
EndTurnLocked(t) ==
  /\ Leaving(t)
  /\ pc' = [pc EXCEPT ![t] = "done"]
  /\ holder' = IF pc[t] = "failing" THEN t ELSE Nobody
  /\ insideTurn' = FALSE
  /\ activeTurn' = Nobody
  /\ UNCHANGED <<rpc, kpc, waiters, queueVars, abort, deferredTask,
                 contextVars, ghostVars>>

(* process_message's own `finally`, and the release of the lock.           *)
EndTurn(t) ==
  /\ Leaving(t)
  /\ pc' = [pc EXCEPT ![t] = "done"]
  /\ holder' = Nobody
  /\ insideTurn' = FALSE
  /\ activeTurn' = Nobody
  /\ UNCHANGED <<rpc, kpc, waiters, queueVars, abort, deferredTask,
                 contextVars, ghostVars>>

-----------------------------------------------------------------------------
(* interrupt_current_turn *)

(* Mutant: everyone in line for the lock is cancelled, resets included.    *)
CancelWaiters ==
  /\ turnQueue' = <<>>
  /\ cancelled' = cancelled \cup Elements(waiters)

CancelQueue ==
  /\ turnQueue' = <<>>
  /\ cancelled' = cancelled \cup Elements(turnQueue)

AbortActive(reason) ==
  abort' = IF activeTurn # Nobody /\ abort[activeTurn] = "none"
           THEN [abort EXCEPT ![activeTurn] = reason]
           ELSE abort

Interrupt ==
  /\ HasActiveTurn
  /\ CancelQueue
  /\ AbortActive("user")
  /\ UNCHANGED <<pc, rpc, kpc, lockVars, activeTurn, insideTurn, deferredTask,
                 contextVars, ghostVars>>

-----------------------------------------------------------------------------
(* start_new_session *)

Requested(r) == before' = [before EXCEPT ![r] = {t \in Turn : pc[t] # "idle"}]

(* Mutant: the reset clears the context in place.                          *)
NewInPlace(r) ==
  /\ rpc[r] = "idle"
  /\ insideTurn
  /\ CancelQueue
  /\ AbortActive("new_session")
  /\ rpc' = [rpc EXCEPT ![r] = "deferPolling"]
  /\ deferredTask' = r
  /\ Requested(r)
  /\ history' = <<>>
  /\ UNCHANGED <<pc, kpc, lockVars, activeTurn, insideTurn, historyStart,
                 rollbackFloor, snapshot, ticket, arrivals>>

(* Asked for from inside a turn: the reset is left to a task of its own.   *)
NewInsideTurn(r) ==
  /\ rpc[r] = "idle"
  /\ insideTurn
  /\ CancelQueue
  /\ AbortActive("new_session")
  /\ rpc' = [rpc EXCEPT ![r] = "deferPolling"]
  /\ deferredTask' = r
  /\ Requested(r)
  /\ UNCHANGED <<pc, kpc, lockVars, activeTurn, insideTurn, contextVars,
                 ticket, arrivals>>

(* Busy outside a turn: interrupt, then wait for the lock to be released.  *)
NewWhileBusy(r) ==
  /\ rpc[r] = "idle"
  /\ ~insideTurn
  /\ HasActiveTurn
  /\ CancelQueue
  /\ AbortActive("new_session")
  /\ rpc' = [rpc EXCEPT ![r] = "polling"]
  /\ Requested(r)
  /\ UNCHANGED <<pc, kpc, lockVars, activeTurn, insideTurn, deferredTask,
                 contextVars, ticket, arrivals>>

(* `async with self._process_lock: _clear_session_state()` runs through    *)
(* when nobody waits, so a reset never holds the lock across an await.     *)
ClearSession(r) ==
  /\ history' = <<>>
  /\ insideTurn' = FALSE
  /\ rpc' = [rpc EXCEPT ![r] = "finalizing"]
  /\ UNCHANGED <<pc, kpc, holder, queueVars, activeTurn, abort, deferredTask,
                 historyStart, rollbackFloor, snapshot, ticket, arrivals>>

QueueForLock(r) ==
  /\ rpc' = [rpc EXCEPT ![r] = "locking"]
  /\ waiters' = Append(waiters, r)
  /\ UNCHANGED <<pc, kpc, holder, queueVars, runtimeVars, deferredTask,
                 contextVars, ticket, arrivals>>

(* Mutant: the reset does not take the lock.                               *)
EnterWithoutLock(r) == ClearSession(r) /\ UNCHANGED waiters

EnterLock(r) ==
  \/ LockAvailable /\ ClearSession(r) /\ UNCHANGED waiters
  \/ ~LockAvailable /\ QueueForLock(r)

NewWhileIdle(r) ==
  /\ rpc[r] = "idle"
  /\ ~HasActiveTurn
  /\ EnterLock(r)
  /\ Requested(r)

(* _wait_for_process_lock_release sees the lock free.                      *)
PollFree(r) ==
  /\ rpc[r] \in {"polling", "deferPolling"}
  /\ holder = Nobody
  /\ EnterLock(r)
  /\ UNCHANGED before

(* It gave up: the deferred form abandons the reset, the other one goes on *)
(* to wait for the lock itself.                                            *)
PollTimeout(r) ==
  /\ holder # Nobody
  /\ \/ /\ rpc[r] = "polling"
        /\ QueueForLock(r)
     \/ /\ rpc[r] = "deferPolling"
        /\ rpc' = [rpc EXCEPT ![r] = "abandoned"]
        /\ UNCHANGED <<pc, kpc, lockVars, queueVars, runtimeVars, deferredTask,
                       contextVars, ticket, arrivals>>
  /\ UNCHANGED before

(* Mutant: the woken reset stays at the head of the waiters.               *)
ResetStaysQueued(r) ==
  /\ rpc[r] = "locking"
  /\ WokenUp(r)
  /\ ClearSession(r)
  /\ UNCHANGED <<waiters, before>>

ResetGetsLock(r) ==
  /\ rpc[r] = "locking"
  /\ WokenUp(r)
  /\ waiters' = Tail(waiters)
  /\ ClearSession(r)
  /\ UNCHANGED before

(* _finalize_new_session: after several awaits, and without the lock, the  *)
(* environment seed is appended; or the setup raises before it.            *)
Finalize(r) ==
  /\ rpc[r] = "finalizing"
  /\ rpc' = [rpc EXCEPT ![r] = "done"]
  /\ history' \in {history, Append(history, r)}
  /\ UNCHANGED <<pc, kpc, lockVars, queueVars, runtimeVars, deferredTask,
                 historyStart, rollbackFloor, snapshot, ghostVars>>

Reset(r) ==
  \/ NewInsideTurn(r) \/ NewWhileBusy(r) \/ NewWhileIdle(r)
  \/ PollFree(r) \/ PollTimeout(r) \/ ResetGetsLock(r) \/ Finalize(r)

-----------------------------------------------------------------------------
(* manual /compact *)

(* _compress_inflight lets one manual compaction work at a time.           *)
StartCompact(c) ==
  /\ kpc[c] = "idle"
  /\ ~HasActiveTurn
  /\ history # <<>>
  /\ \A d \in Compact : kpc[d] # "summarising"
  /\ kpc' = [kpc EXCEPT ![c] = "summarising"]
  /\ snapshot' = [snapshot EXCEPT ![c] = history]
  /\ UNCHANGED <<pc, rpc, lockVars, queueVars, runtimeVars, deferredTask,
                 history, historyStart, rollbackFloor, ghostVars>>

(* Summarised, or nothing to compress, or the LLM call failed.             *)
FinishCompact(c) ==
  /\ kpc[c] = "summarising"
  /\ kpc' = [kpc EXCEPT ![c] = "done"]
  /\ \/ Rewrite(c)
     \/ UNCHANGED <<history, rollbackFloor>>
  /\ snapshot' = [snapshot EXCEPT ![c] = <<>>]
  /\ UNCHANGED <<pc, rpc, lockVars, queueVars, runtimeVars, deferredTask,
                 historyStart, ghostVars>>

-----------------------------------------------------------------------------
TurnExit(t) == Complete(t) \/ Interrupted(t) \/ Fail(t)

TurnStep(t) ==
  \/ Submit(t)
  \/ GetLock(t) \/ GetLockCancelled(t) \/ LeaveDiscard(t)
  \/ Prepare(t) \/ Write(t) \/ BeginCompress(t) \/ EndCompress(t)
  \/ TurnExit(t)
  \/ EndTurn(t)

Next ==
  \/ \E t \in Turn : TurnStep(t)
  \/ Interrupt
  \/ \E r \in NewSession : Reset(r)
  \/ \E c \in Compact : StartCompact(c) \/ FinishCompact(c)

Spec == Init /\ [][Next]_vars

(* A woken waiter runs, the awaits of preparation, note and persistence    *)
(* return, the loop is left in the end (iteration cap, provider timeouts), *)
(* polling has a deadline.  Users owe nothing: Submit, Interrupt and the   *)
(* request of a /new carry no fairness.                                    *)
FairSpec ==
  /\ Spec
  /\ \A t \in Turn :
       /\ WF_vars(GetLock(t) \/ GetLockCancelled(t))
       /\ WF_vars(LeaveDiscard(t) \/ Prepare(t) \/ EndTurn(t))
       /\ WF_vars(TurnExit(t))
  /\ \A r \in NewSession :
       WF_vars(PollFree(r) \/ PollTimeout(r) \/ ResetGetsLock(r) \/ Finalize(r))

-----------------------------------------------------------------------------
(* Every variable stays in its range.                                      *)
TypeOK ==
  /\ pc \in [Turn -> TurnPhase]
  /\ rpc \in [NewSession -> NewPhase]
  /\ kpc \in [Compact -> CompactPhase]
  /\ holder \in Turn \cup {Nobody}
  /\ waiters \in Seq(Waiter)
  /\ turnQueue \in Seq(Turn)
  /\ cancelled \subseteq Turn
  /\ activeTurn \in Turn \cup {Nobody}
  /\ insideTurn \in BOOLEAN
  /\ abort \in [Turn -> AbortReason]
  /\ deferredTask \in NewSession \cup {Nobody}
  /\ history \in Seq(Writer)
  /\ historyStart \in Nat
  /\ rollbackFloor \in Nat \cup {NoFloor}
  /\ snapshot \in [Compactor -> Seq(Writer)]
  /\ ticket \in [Turn -> Nat]
  /\ arrivals \in Nat
  /\ before \in [NewSession -> SUBSET Turn]

(* A message that waits is never overtaken: whoever was enqueued later is  *)
(* still waiting (the docstring of TurnQueue: first come, first served).   *)
FirstComeFirstServed ==
  \A t, u \in Turn :
    (pc[t] = "waiting" /\ ticket[t] < ticket[u]) => pc[u] = "waiting"

(* A message cancelled by an interruption never becomes a turn, whatever   *)
(* the order in which lock, queue and interruption meet.                   *)
CancelledNeverRuns == \A t \in cancelled : ~Executing(t) /\ pc[t] # "done"

(* The busy clock is exact: it says busy as long as an accepted message    *)
(* waits or holds the lock, the hand-off of the lock from one turn to the  *)
(* next included, and never after the last one has left.                   *)
BusyIsExact ==
  HasActiveTurn <=>
    \E t \in Turn : InLock(t) \/ (pc[t] = "waiting" /\ t \notin cancelled)

(* After /new has cleared the session, nothing that a message submitted    *)
(* before the request writes, its interruption note or the note of a       *)
(* cancelled message included, is part of the new context.                 *)
NewSessionIsFresh ==
  \A r \in NewSession : Cleared(r) =>
    \A t \in before[r] : t \notin Elements(history)

(* What the copy of a compaction in flight holds of the conversation is    *)
(* what the context holds, so putting the result in place loses nothing:   *)
(* the context is still that copy, grown at most by the seed of a /new.    *)
CompactionLosesNothing ==
  \A t \in Turn : pc[t] = "compressing" =>
    /\ Len(snapshot[t]) <= Len(history)
    /\ \A i \in 1 .. Len(snapshot[t]) : history[i] = snapshot[t][i]
    /\ \A i \in Len(snapshot[t]) + 1 .. Len(history) : history[i] \notin Turn

(* The rollback of a failed turn deletes nothing another turn said: every  *)
(* entry of another turn keeps its place, and none appears.                *)
RollbackKeepsOthers ==
  [][\A t \in Turn : (InLoop(t) /\ pc'[t] = "failing") =>
       \A u \in Turn \ {t} :
         {i \in DOMAIN history' : history'[i] = u} = {i \in DOMAIN history : history[i] = u}]_vars

(* A failed turn that did not compact leaves at most its side-effect note. *)
FailureLeavesOnlyNote ==
  [][\A t \in Turn : (pc[t] = "running" /\ pc'[t] = "failing" /\ Summary \notin Elements(history)) =>
       \A i, j \in DOMAIN history' : (history'[i] = t /\ history'[j] = t) => i = j]_vars

(* While a turn runs, only that turn appends to the context and nobody     *)
(* replaces it.                                                            *)
ContextOnlyByHolder ==
  [][\A t \in Turn : (pc[t] = "running" /\ pc'[t] = "running") =>
       history' \in {history, Append(history, t)}]_vars

(* Every message handed in is answered, turned away or dropped with a note *)
(* in the end.                                                             *)
EveryMessageSettles == \A t \in Turn : (pc[t] # "idle") ~> Ended(t)

(* Every /new comes to an end: the session is new, or the caller was told. *)
EveryResetSettles == \A r \in NewSession : (rpc[r] # "idle") ~> Settled(r)

(* The kernel keeps the promise of SerialTurns.                            *)
Promise == INSTANCE SerialTurns WITH
  line <- turnQueue,
  current <- IF holder \in cancelled THEN Nobody ELSE holder,
  ended <- {t \in Turn : Ended(t)} \cup cancelled
ServesInOrder == Promise!Spec
=============================================================================
