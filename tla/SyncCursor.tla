----------------------------- MODULE SyncCursor -----------------------------
(***************************************************************************)
(* The cursor of the Matrix timeline: a /sync hands the events after       *)
(* next_batch to handlers that run as tasks of their own, and the token is *)
(* saved when the handlers of its sync (its generation) are through, in    *)
(* the order of the syncs.  After a death the timeline is delivered again  *)
(* from the saved token.                                                   *)
(*                                                                         *)
(* An event is its position on the server's timeline, and a token "s<n>"   *)
(* is the number of events it covers.  The cursor is parked already; the   *)
(* homeserver rejects no token of this form, so the recovery from one that *)
(* is rejected is left out.                                                *)
(***************************************************************************)
EXTENDS Naturals, Sequences, FiniteSetsExt

CONSTANTS MaxEvents,  \* bound: events posted to the rooms
          MaxIdle,    \* bound: generations in flight when an empty sync opens one
          MaxErrors,  \* bound: syncs that raise
          MaxDeaths   \* bound: ends of the process, orderly or not

ASSUME BoundsAreNatural == MaxEvents \in Nat /\ MaxErrors \in Nat /\ MaxDeaths \in Nat
ASSUME IdleIsPositive == MaxIdle \in Nat \ {0}

VARIABLES
  tip,        \* events on the server
  process,    \* "boot": catch-up to come; "loop": run_matrix_sync_loop; "down"
  nextBatch,  \* client.next_batch
  handler,    \* the task of each event in this process
  generations,\* from _next_flush_gen on: token, events, whether failed, how far
  durable,    \* the token file
  errors, deaths,
  settled,    \* history variable: events a handler has finished with, somehow
  holes,      \* history variable: events of the generations that failed in
              \* this process
  unguarded,  \* history variable: delivered by a catch-up, or cut off by a
              \* stop or a death inside a flush
  stopped     \* history variable: delivered before the last orderly stop

vars == <<tip, process, nextBatch, handler, generations, durable, errors, deaths,
          settled, holes, unguarded, stopped>>

Event == 1 .. MaxEvents
HandlerState == {"none", "running", "raised", "ended"}

(* "pending": schedule_token_persist waits for the handlers; "applied" and *)
(* "failed": in _gen_results; "abandoned": no one will ever put it there.  *)
Generation == [token : 0 .. MaxEvents, events : SUBSET Event, marked : BOOLEAN,
               state : {"pending", "applied", "failed", "abandoned"}]

(* Mutant: the token of a later sync is taken.                             *)
OpenedOneAhead(events, token, state) ==
  [token |-> token + 1, events |-> events, marked |-> FALSE, state |-> state]

Opened(events, token, state) ==
  [token |-> token, events |-> events, marked |-> FALSE, state |-> state]

Running == {e \in Event : handler[e] = "running"}

Init ==
  /\ tip = 0
  /\ process = "boot"
  /\ nextBatch = 0 /\ durable = 0
  /\ handler = [e \in Event |-> "none"]
  /\ generations = <<>>
  /\ errors = 0 /\ deaths = 0
  /\ settled = {} /\ holes = {} /\ unguarded = {} /\ stopped = {}

(* A user posts to a room: the homeserver's part.                          *)
Post ==
  /\ tip < MaxEvents
  /\ tip' = tip + 1
  /\ UNCHANGED <<process, nextBatch, handler, generations, durable, errors,
                 deaths, settled, holes, unguarded, stopped>>

-----------------------------------------------------------------------------
(* The sync loop *)

Deliver(events) ==
  /\ handler' = [e \in Event |-> IF e \in events THEN "running" ELSE handler[e]]
  /\ nextBatch' = tip

(* bootstrap_matrix_catchup: the callbacks are registered, but no          *)
(* generation is open, so nobody waits for these handlers.                 *)
CatchUp ==
  /\ process = "boot"
  /\ process' = "loop"
  /\ \/ /\ Deliver(nextBatch + 1 .. tip)
        /\ unguarded' = unguarded \cup (nextBatch + 1 .. tip)
     \/ UNCHANGED <<handler, nextBatch, unguarded>>
  /\ UNCHANGED <<tip, generations, durable, errors, deaths, settled, holes,
                 stopped>>

(* Mutant: the generation is closed before nio has called back.            *)
SyncUntagged ==
  /\ process = "loop"
  /\ nextBatch = tip => Len(generations) < MaxIdle
  /\ Deliver(nextBatch + 1 .. tip)
  /\ generations' = Append(generations, Opened({}, tip, "pending"))
  /\ UNCHANGED <<tip, process, durable, errors, deaths, settled, holes,
                 unguarded, stopped>>

(* A sync returns, be it after 30 seconds without events; its generation   *)
(* waits for the handlers the callbacks have scheduled.                    *)
Sync ==
  /\ process = "loop"
  /\ nextBatch = tip => Len(generations) < MaxIdle
  /\ Deliver(nextBatch + 1 .. tip)
  /\ generations' = Append(generations, Opened(nextBatch + 1 .. tip, tip, "pending"))
  /\ UNCHANGED <<tip, process, durable, errors, deaths, settled, holes,
                 unguarded, stopped>>

(* client.sync raises: its generation is closed, and no token comes for it. *)
SyncRaises ==
  /\ process = "loop"
  /\ errors < MaxErrors
  /\ errors' = errors + 1
  /\ generations' = Append(generations, Opened({}, nextBatch, "abandoned"))
  /\ UNCHANGED <<tip, process, nextBatch, handler, durable, deaths, settled,
                 holes, unguarded, stopped>>

-----------------------------------------------------------------------------
(* The handlers *)

Ends(e, state) ==
  /\ handler[e] = "running"
  /\ handler' = [handler EXCEPT ![e] = state]
  /\ settled' = settled \cup {e}
  /\ UNCHANGED <<tip, process, nextBatch, durable, errors, deaths, holes,
                 unguarded, stopped>>

(* mark_generation_failed for the generation of event e                    *)
Marked(e) ==
  [i \in DOMAIN generations |->
     IF e \in generations[i].events
     THEN [generations[i] EXCEPT !.marked = TRUE]
     ELSE generations[i]]

Handled(e) == Ends(e, "ended") /\ UNCHANGED generations

(* 120 seconds behind the session's lock: dropped, the sender is told.     *)
BusyDropped(e) == Ends(e, "ended") /\ generations' = Marked(e)

(* The task is done; its done callback runs in a later step of the loop.   *)
Raises(e) == Ends(e, "raised") /\ UNCHANGED generations

DoneCallback(e) ==
  /\ handler[e] = "raised"
  /\ handler' = [handler EXCEPT ![e] = "ended"]
  /\ generations' = Marked(e)
  /\ UNCHANGED <<tip, process, nextBatch, durable, errors, deaths, settled,
                 holes, unguarded, stopped>>

-----------------------------------------------------------------------------
(* The token *)

Outcome(g) == [g EXCEPT !.state = IF g.marked THEN "failed" ELSE "applied"]

Decided(g) == g.state \in {"applied", "failed"}

(* _next_flush_gen goes on until a generation has no result.               *)
Flushable(gs) ==
  Max({k \in 0 .. Len(gs) : \A i \in 1 .. k : Decided(gs[i])})

(* A failed generation's own token is skipped, not held on to.             *)
Saved(gs) ==
  LET ok == {i \in 1 .. Flushable(gs) : gs[i].state = "applied"}
  IN  IF ok = {} THEN durable ELSE gs[Max(ok)].token

(* Mutant: results are flushed in the order in which they come in.         *)
FlushAtOnce(gs) ==
  \E g \in {gs[i] : i \in DOMAIN gs} :
    /\ Decided(g)
    /\ durable' = IF g.state = "applied" THEN g.token ELSE durable
    /\ generations' = SelectSeq(gs, LAMBDA h : h # g)

Flush(gs) ==
  /\ durable' = Saved(gs)
  /\ generations' = SubSeq(gs, Flushable(gs) + 1, Len(gs))

(* Mutant: the token does not wait for the handlers.                       *)
PersistAtOnce(i) ==
  /\ i \in DOMAIN generations
  /\ generations[i].state = "pending"
  /\ Flush([generations EXCEPT ![i] = Outcome(@)])
  /\ holes' = holes \cup {e \in generations[i].events : generations[i].marked}
  /\ UNCHANGED <<tip, process, nextBatch, handler, errors, deaths, settled,
                 unguarded, stopped>>

(* Mutant: a generation without handlers is waited for.                    *)
PersistIfHandled(i) ==
  /\ i \in DOMAIN generations
  /\ generations[i].state = "pending" /\ generations[i].events # {}
  /\ generations[i].events \cap Running = {}
  /\ Flush([generations EXCEPT ![i] = Outcome(@)])
  /\ holes' = holes \cup {e \in generations[i].events : generations[i].marked}
  /\ UNCHANGED <<tip, process, nextBatch, handler, errors, deaths, settled,
                 unguarded, stopped>>

(* wait_generation_applied returns and the results are flushed.            *)
Persist(i) ==
  /\ i \in DOMAIN generations
  /\ generations[i].state = "pending"
  /\ generations[i].events \cap Running = {}
  /\ Flush([generations EXCEPT ![i] = Outcome(@)])
  /\ holes' = holes \cup {e \in generations[i].events : generations[i].marked}
  /\ UNCHANGED <<tip, process, nextBatch, handler, errors, deaths, settled,
                 unguarded, stopped>>

-----------------------------------------------------------------------------
(* The process *)

(* Every task and the dispatcher die with it.                              *)
Down ==
  /\ deaths < MaxDeaths
  /\ deaths' = deaths + 1
  /\ process' = "down"
  /\ handler' = [e \in Event |-> "none"]
  /\ generations' = <<>> /\ holes' = {}
  /\ UNCHANGED <<tip, nextBatch, errors, settled>>

(* Also the stop of the stand-alone bot, which saves nothing.              *)
Crash ==
  /\ process # "down"
  /\ Down
  /\ UNCHANGED <<durable, unguarded, stopped>>

(* A death inside a flush: on_batch_saved has written next_batch, and the  *)
(* flushed token has not overwritten it yet.                               *)
CrashInFlush ==
  /\ process = "loop"
  /\ \E i \in DOMAIN generations :
       LET gs == [generations EXCEPT ![i] = Outcome(@)] IN
       /\ generations[i].state = "pending"
       /\ generations[i].events \cap Running = {}
       /\ \E k \in 1 .. Flushable(gs) : gs[k].state = "applied"
  /\ Down
  /\ unguarded' = unguarded \cup Running
  /\ durable' = nextBatch
  /\ UNCHANGED stopped

(* Mutant: the token is left where the flush has brought it.               *)
StopUnsaved ==
  /\ process = "loop"
  /\ Down
  /\ unguarded' = unguarded \cup Running
  /\ stopped' = 1 .. nextBatch
  /\ UNCHANGED durable

(* The command line's bridge waits one second for the handlers, cancels    *)
(* the ones still running and saves next_batch.                            *)
Stop ==
  /\ process = "loop"
  /\ Down
  /\ unguarded' = unguarded \cup Running
  /\ stopped' = 1 .. nextBatch
  /\ durable' = nextBatch

Restart ==
  /\ process = "down"
  /\ process' = "boot"
  /\ nextBatch' = durable
  /\ UNCHANGED <<tip, handler, generations, durable, errors, deaths, settled,
                 holes, unguarded, stopped>>

-----------------------------------------------------------------------------

HandlerStep(e) == Handled(e) \/ BusyDropped(e) \/ Raises(e) \/ DoneCallback(e)

Next ==
  \/ Post
  \/ CatchUp \/ Sync \/ SyncRaises
  \/ \E e \in Event : HandlerStep(e)
  \/ \E i \in DOMAIN generations : Persist(i)
  \/ Crash \/ CrashInFlush \/ Stop \/ Restart

(* The long poll returns after 30 seconds, a handler comes to its end, a   *)
(* woken task runs, and the supervisor starts a new kernel.                *)
Fairness ==
  /\ WF_vars(CatchUp) /\ WF_vars(Sync) /\ WF_vars(Restart)
  /\ \A e \in Event : WF_vars(HandlerStep(e))
  /\ WF_vars(\E i \in DOMAIN generations : Persist(i))

Safety == Init /\ [][Next]_vars
Spec == Safety /\ Fairness

-----------------------------------------------------------------------------
(* Properties *)

TypeOK ==
  /\ tip \in 0 .. MaxEvents /\ nextBatch \in 0 .. MaxEvents /\ durable \in 0 .. MaxEvents
  /\ process \in {"boot", "loop", "down"}
  /\ handler \in [Event -> HandlerState]
  /\ generations \in Seq(Generation)
  /\ errors \in 0 .. MaxErrors /\ deaths \in 0 .. MaxDeaths
  /\ settled \subseteq Event /\ holes \subseteq Event
  /\ unguarded \subseteq Event /\ stopped \subseteq Event

(* The saved token covers no event of the loop whose handler has not come  *)
(* to an end, in whatever order handlers, failures and their callbacks     *)
(* finish: after a crash such an event is delivered again.  The catch-up   *)
(* at start, the orderly stop and a death between the two writes of a      *)
(* flush give no such promise.                                             *)
NothingSkipped == \A e \in 1 .. durable : e \in settled \cup unguarded

(* The saved token never goes back, so no event that was behind it is      *)
(* delivered again: generations that finish out of order are flushed in    *)
(* the order of the syncs.                                                 *)
CursorNeverGoesBack == [][durable' >= durable]_vars

(* What was delivered before an orderly stop is not delivered again, above *)
(* all the /restart that caused it and never ends its handler.             *)
StopIsNotReplayed ==
  [][\A e \in Event : handler'[e] = "running" /\ handler[e] = "none" => e \notin stopped]_vars

(* Every event is handled in the end, through crashes and failed syncs,    *)
(* unless it was unguarded when the process ended.                         *)
EveryEventHandled ==
  \A e \in Event : tip >= e ~> e \in settled \cup unguarded

(* The token catches up with every event, in whatever order generations    *)
(* come to an end.  After a sync that raised it stays where it is until    *)
(* the process ends, and of a generation that failed nothing is said here: *)
(* FailedSyncFreezes.                                                      *)
Stuck == \E i \in DOMAIN generations : generations[i].state = "abandoned"
CursorCatchesUp ==
  \A e \in Event : tip >= e ~> durable >= e \/ Stuck \/ holes # {}

(* What the docstrings at sync_helpers.py:135 and :275 and the test        *)
(* test_busy_drop_freezes_durable_token say: the saved token does not      *)
(* advance past a generation that failed.  The code skips no more than the *)
(* token of that very generation (sync_helpers.py:286).                    *)
FailedSyncFreezes == \A e \in holes : durable < e
=============================================================================
