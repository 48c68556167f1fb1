# coara-open: TLA+ models, checks and proofs

coara is a personal agent: a Python process ("the kernel") that owns sessions
with an LLM and serves them to a command line, a web page and phones over
Matrix.  It is one asyncio process with a few threads, so its hazards are not
memory races but everything that can happen at an `await` or between two locks:
a message arrives while a turn runs, an interruption meets a lock that is being
handed on, a compaction returns to a session that has been reset, an approval is
answered as its timer fires, two threads write one log, a second engine recovers
a workflow whose first engine is still alive, a process dies with a cursor half
advanced.  These modules model that.

Contents: 1 the system, 2 the modules, 3 the runs, 4 bounds and fairness,
5 the proofs, 6 what the checks found, 7 what is left out of the modelled parts,
8 what is not modelled.

To check a run: `tlc -config KernelOrder.cfg MCTurnKernel`; a proof:
`tlapm TurnKernelProofs.tla`.  All paths below are relative to `src/` of the
repository, where the Python package itself is `src/src/`.

## 1. The system

| Component | State it keeps | Operations | Hard behaviour |
|---|---|---|---|
| **Turn kernel** (`coara/base.py`, `turn_queue.py`, `turn_orchestrator.py`) | `_process_lock` and its waiters, `TurnQueue`, `_active_turn`, `_inside_turn`, abort controllers, the context (`message_history`), rollback indices | `process_message`, `interrupt_current_turn`, `start_new_session` (two forms) | hand-off of the lock, cancellation by flag, a deferred reset, rollback by index |
| **Compaction** (`turn_orchestrator.py`, `commands/compact.py`) | single-flight flag, the copy it works on, rollback floor | automatic (in a turn), manual `/compact` | an LLM call between copying the context and replacing it |
| **Continuation queue and drivers** (`base_mixins/continuation.py`, `ui/web_server.py`, `matrix_client/inbound_handlers.py`, `root.py`) | `_continuation_inputs`, chain tails, dispatcher lock, local lists of leftovers | submit, inject, drain, dispatch, requeue, clear | a message that is too late for the running turn; three ends with three ways to serialise |
| **Approval centre** (`coara/approval_center.py`, `core/abort.py`) | records, futures, `_live`, `approvals.json` | request, resolve, cancel_all, load | a record settled by several coroutines; timers; restart |
| **Matrix sync cursor** (`matrix_client/sync_helpers.py`, `cli/matrix_runner.py`, `bot.py`) | `next_batch`, generations, token file | sync, handler tasks, ordered flush, catch-up, stop | at-least-once delivery across crashes |
| **Flow coordinator** (`coara/flow_coordinator.py`, `workflow/core/`) | graph, arrival queues, activation counts, node status, node tasks, epoch, done event | spawn, load, rebuild, edit, run, wait, rerun, resume, reset | a node whose status is final while its task still lives; `/new` under running tasks |
| **wdl engine** (`wdl/src/wdl/`) | the instance row with its fencing token, one set of tasks per process | execute, resume, cancel, rounds of progress, recovery at start | two engines on one SQLite file; a dead or merely slow owner |
| **Session log, checkpoint, restart** (`session_log/`, `coara/workspace_state.py`) | the event tape, the recorder's cursor, checkpoint, in-flight marker | persist, hand over, shadow, replay, restore | several threads, failed and cut writes, another session on the same tape |
| Background tasks (`background/`) | status files, completion events | start, poll, complete, wake | completion against a busy session |
| Reminders (`reminders/service.py`) | JSON schedule, next_run | tick, fire, advance | death between advance and fire |
| Workspace registry and updates (`workspace/`) | JSON files shared by processes | compare-and-swap, prune | lost update |
| Web views and turn streams (`ui/`, `coara/end_registry.py`) | numbered frames, open streams | emit, replay, close | reconnect during a turn |
| Event sources (`event_sources/`) | dedupe window, source state | poll, emit | duplicate or skipped event across a restart |
| Tool executor (`tools/registry.py`, `agent/`) | per-resource locks | parallel calls of one answer | lock order |
| **gomatrix** (`gomatrix/`) | rooms, stream positions | a homeserver in Go | transaction deduplication, stream order |
| Delegates, janitor, mobile status, providers, front ends | | | see section 8 |

How they interact.  An end hands a message to the *driver* of its lane.  The
driver asks the busy clock (`has_active_turn`): busy means the message joins the
continuation queue, idle means a turn.  A turn is a call of `process_message`:
it enters the `TurnQueue`, waits for the process lock, marks itself in flight,
runs the loop of LLM and tool calls, takes queued messages in at the head of each
iteration, hands its context to the session log, clears the marker and releases
the lock.  Tools that need consent wait in the approval centre under the abort
signal of the turn.  A tool may also weave a flow, whose nodes are sub-agents run
by tasks of the same process; the wdl engine runs the same kind of graph in
processes of its own.  `/stop` aborts the turn, cancels the `TurnQueue` and
settles all live approvals; `/new` interrupts, clears the context and the
continuation queue, and starts a new generation of flows; `/compact` replaces the
context.  Matrix messages come from the sync loop, which may save its token only
when the handler of each event, and so the driver above, is through.

What makes each part correct:

- *Turn kernel*: one turn at a time in the order of acceptance; a cancelled
  message never runs; the busy clock is exact; only the running turn writes the
  context; what a reset cleared does not come back; a failed turn takes its own
  messages out and nobody else's; everything accepted comes to an end.
- *Continuations*: a message accepted is said once, or its sender is told, or the
  turn that raised beside it took it along; one driver per lane; nothing stays in a
  queue nobody looks at.
- *Approvals*: never a yes against the record; outcomes are final; an open card
  has someone waiting for it, unless an exception ended the request; every
  requester comes back.
- *Sync cursor*: the saved token covers nothing unhandled, never goes back, and
  catches up as long as no sync and no handler fails.
- *Flows*: no work that can start is left lying, no loop waits for itself, a
  released flow is left alone, a wait comes to its end.
- *wdl*: the outcome is written by whoever claimed the instance last, a finished
  instance stays finished, nothing runs for ever.
- *Session log*: a replay gives what the tape holds, the recorder's cursor is the
  tape's projection, and what was said is saved or reported missing.

## 2. The modules

| Module | What it is |
|---|---|
| `SerialTurns` | abstract specification of the turn kernel: a line, a current turn, a set of ended turns |
| `TurnKernel` | the kernel with its lock, queue, interruption, both `/new`, compaction and rollback |
| `TurnKernelProofs`, `TurnKernelRefinement` | theorems about `TurnKernel`, and that it implements `SerialTurns` |
| `Continuations`, `ContinuationsProofs` | queue, drivers and lanes on top of `SerialTurns`, and theorems about them |
| `Approvals`, `ApprovalsProofs` | the approval centre and theorems about it |
| `SyncCursor`, `SyncCursorProofs` | generations and the saved Matrix token, and theorems about it |
| `FlowGraph` | the graph: classification of edges, activation and arrivals, as operators |
| `FlowCoordinator`, `FlowCoordinatorProofs` | the in-session host of such graphs: tasks, tool calls, edits, `/new`; theorems about it |
| `WdlFencing`, `WdlFencingProofs` | one workflow instance and the engines that share its row, and theorems about it |
| `SessionTape` | the event tape and how it is read and projected, as operators |
| `SessionLog`, `SessionLogProofs` | recorder, checkpoint, marker and replay of one session, and theorems about them |
| `MC*` | instances for TLC |

`TurnKernel` implements `SerialTurns` (property `ServesInOrder`, checked and
proved), and `Continuations` composes its own state with `INSTANCE SerialTurns`:
the drivers are checked against what the kernel promises, and the kernel against
the same promise, so the two models meet at one interface.

### TurnKernel

One step is the code between two awaits.  `pc[t]` is where the call of
`process_message` for message `t` stands, `rpc[r]` a call of
`start_new_session`, `kpc[c]` a call of `/compact`.

- The lock is `asyncio.Lock`: `holder` and the FIFO `waiters`.  `release` only
  wakes the first waiter; until it runs the lock is free, and a newcomer still
  queues, because `acquire` returns at once only when nobody waits
  (`LockAvailable`, `WokenUp`).  The gap between the two is where most of the
  kernel's hazards live.
- `SubmitStart` is `enqueue`, `acquire` and `remove` in one step, since they run
  through without suspension on a free lock.  `GetLockCancelled` is the early
  return of a message that was cancelled in the queue (`base.py`: it takes the
  lock only to leave a note).
- `LeaveLoop` is the `finally` of the turn loop, `EndTurn` the `finally` of
  `process_message`; `Leaving` is the time in between.
- `history` holds *who wrote* each entry.  `Write` stands for everything a turn
  appends (answers, tool results, continuations); LLM and tools appear only as
  the time between steps and as the choice between `Complete` and `Fail`.
- `NewInsideTurn` is the deferred form, whose task polls for the lock and gives
  up after its deadline; `NewWhileBusy` polls and then queues.  The session is
  cleared in one step (`ClearSession`) because the locked block has no await;
  `Finalize` appends the environment seed later and without the lock.
- `before` (what had been submitted when a `/new` was requested), `ticket` and
  `arrivals` are history variables.

### Continuations

A driver is named after the message that created it; `stage[d]` is where it
stands, `job[d]` the message it currently runs as a turn, `leftover[d]` its local
list.  Web drivers form a chain (`tail`, `previous` = `_turn_tails`), Matrix
drivers queue for the dispatcher lock, a background completion starts a turn that
nobody drains after.  `/new` clears context and queue at once when the session is
idle (`NewSession`); otherwise it interrupts first, without touching the queue,
and clears once the lock is free (`ClearSession`): between the two the driver of
the interrupted turn may drain, and what it holds in its local list outlives the
reset.  Simplifications, each on the side of more behaviours or of no consequence
for the properties:

- the context is split into `earlier` (a set: what was said before the running
  turn) and `saying` (a sequence: the running turn's part), which is what the
  rollback index distinguishes;
- the ways out of the loop that do not look at the queue (stalled todos, a
  cancelled tool, the iteration cap) are one action `GiveUp`, and an aborted
  turn is one that is "closing";
- a driver's locals are reset when it leaves, as they are garbage then;
- `withdrawn` (cancelled, rolled back, cleared or refused, in each case with a
  notice), `dropped` (in the local list of a driver whose turn raised, without one)
  and `looked` (the last driver that left found the queue empty) are history
  variables.

Any turn of `Fallible` may raise.  What runs as a web turn swallows the exception;
what runs as a Matrix turn passes it on to its driver, a web driver that holds it as a
leftover included (`Raises`), and the driver's list goes with it.

### Approvals

`record` is what every end is shown and the file keeps, `future` what the
requester waits for, `task` where the requester's coroutine stands.  A timer
cancels the future some steps before the requester resumes (`TimerFires`,
`ResumeExpired`), and which of an answer and a timeout wins when both have
happened depends on the Python version (3.12 raises, 3.11 looks at the future
first): both are allowed.  `CancelAll(S)` raises the abort signal of the turn
interrupted and cancels *every* live request of the process, as the code does.
`request` settles its record on some failures of the send and of the modal
(`SendFails`, `ModalEnds`); any other exception leaves it with the record pending
(`SendRaises`, `ModalRaises`).
`Restart` loads the file and turns pending records into cancelled ones without
saving.

### SyncCursor

A generation is one `/sync`: token, events, whether a handler failed, and how far
its persisting is.  `generations` holds those from `_next_flush_gen` on, so the
counter itself needs no bound.  A handler that raised is "raised" until its done
callback marks the generation; the waiting persist task may run in between.
`holes`, the events of the generations that failed in this process, is a history
variable.
A flush writes `next_batch`, then the flushed token (`matrix_runner.py`:743), and
the process may die between the two (`CrashInFlush`).  Timeline positions are
numbers, as they are for gomatrix ("s<n>").  A message the callback disposes of
without a task (a continuation input, a batched image) is a handler that ends at
once: what becomes of it in memory is the continuations' matter and is lost with
the process.  `Post` is the homeserver.  `Stop` is the command line's bridge,
which saves `next_batch`; the stand-alone bot saves nothing at its end and is
covered by `Crash`.

### FlowGraph and FlowCoordinator

`FlowGraph` is the workflow kernel both hosts share (`workflow/core/`, and the
same code in `wdl/src/wdl/core/`): `KickEdges` is `classify_edges`, a depth-first
search written as a recursive function over its turns, and `Ready`, `Consume`,
`RecordArrivals` are the activation engine.  A node is a number, so that the order
the code sorts identifiers by is the order of numbers; the texts that wait on an
edge are their number.

`FlowCoordinator` is the host in the session.  A flow object is a record, `flows`
the sequence of those ever made and `cur` the one registered, because `load`, a
rebuild from a draft and `/new` replace the object while tasks of the old one live
on.  A node task is "body" until `process_message` ends, "shutdown" while it
awaits its sub-agent's shutdown with the status already final, then "over" until
its done callback has run.  `_launch` overwrites `running_task`, so a node started
again in its shutdown window has two tasks: `tasks[n]` is the sequence of those that
still live, oldest first, and `held` the nodes whose `running_task` is the newest of
them.  `building` is the set of `spawn_node` calls across their await: the calls of
one answer run concurrently, and each ends in a node (`SpawnEnds`) or in an exception
that leaves the graph as it is (`SpawnFails`).  `relight` is the await in
`rerun_node` and `resume_flow`.  `parked` is a history variable: the nodes that an
edit and no arrival made ready, which nobody starts until `run()`.  Another one is
`replaced`: the flows whose name a `load` took.

Cancelling a task of a released flow only shortens its life, and its end changes
nothing; it is not modelled.

### WdlFencing

One instance is one `row` (instances share nothing), an engine is its fencing
token, and every statement of `persistence.py` is one step because it commits by
itself.  `Start` is a process start with its recovery of running rows, `Submit` to
`Complete` a task from the request to the last write of `_drive`, with the rounds
of the graph abstracted to a counter; `Cancel`/`CancelWrite` are the engine's
cancellation and the two writes it makes; `Shutdown` and `Crash` end a process,
the former with a last write of its tasks.  `MayWrite` and `MayEnd` are the WHERE
clauses of `save_state` and of `complete_instance`/`cancel_instance`.  `seen` is
the status a resume read before its claim.  `last` (who claimed the row last) and
`row.by` (who wrote its context last, the `context_json` column) are what the
properties compare.  Nothing calls `suspend`, so no row waits.

### SessionTape and SessionLog

The tape is append-only and one process writes it, so a sequence number is a
position and a projection is the set of positions whose messages survive the
shadows.  `TailRead` is the backward read with its stop rule, `Project` the
replay.  In `SessionLog` a persist is a thread that goes called → diff → append →
tail → leave → meta, one step per stretch between two locks: `Enter` takes the
recorder or hands its snapshot over, `Diff` finds the longest common prefix with
the cursor (`keys`, `seqs`), `Write` appends, whole, in part or not at all,
`Drain` takes what was handed over, `Leave` is the `finally` that resets the flag
a second time, `Close` the session/meta.  The turn marks itself, hears, replies,
may compact or roll back, awaits its persist and clears the marker; `SideCall` is
every persist nobody awaits.  `Visit` to `VisitEnds` is a maintenance turn of the
janitor on the same workspace, which uses the same tape and the same marker file.
`Crash` cuts a write anywhere, `Restore` is `_restore_from_disk`.  `RestoreFails` is
the same with a replay that raises: `recover_session` then keeps the session's id, and
the new recorder starts with an empty cursor beside all that is on the tape.

`said` and `mishaps` are history variables.  `mishaps` names the known ways in
which the record goes wrong, so that the properties can say: *in no other way*.

## 3. The runs

| Run | States | Shows |
|---|---|---|
| `kernel_order` | 407 194 | three messages, one `/new`, one `/compact`, any number of interruptions: types, `FirstComeFirstServed`, `CancelledNeverRuns`, `BusyIsExact`, refinement of `SerialTurns` |
| `kernel_context` | 223 585 | two messages, two `/new`, automatic compaction: a new session is fresh, compaction and rollback lose nothing of others, every message and every `/new` settles |
| `kernel_writer` | violation | `/compact` replaces the context of a turn that started meanwhile |
| `continuations` | 1 035 028 | two web, two Matrix messages, a background completion, an interruption or a `/new`, turns of both ends that raise: nothing lost but the list of a driver whose turn raised, nothing twice, one driver per lane, no forgotten message, every driver comes to its end |
| `approvals` | 47 355 | two requests, one on a task that may be cancelled, sends and modals that raise, two interruptions, a restart: fail-closed, final outcomes, only an exception leaves a card open, every requester returns |
| `sync_cursor` | 24 798 | two events, two ends of the process (one perhaps inside a flush), one failed sync: nothing skipped, cursor monotone, no replay after a stop, every event handled, cursor catches up |
| `sync_freeze` | violation | the saved token passes a generation that failed as soon as the next one is applied |
| `flow` | 384 590 | a loop with an error edge woven node by node, two spawns at a time, and a join loaded whole, with tool calls, edits and `/new`: nothing stranded, loops cut, a released flow stays quiet, a wait ends |
| `wdl` | 217 843 | three process starts, two tasks each, cancels, shutdowns and deaths between any two statements: the claim is held, the outcome is the claimant's, a finished instance stays so, nothing runs for ever |
| `wdl_orphan` | violation | an orphan writes its progress into an instance that changed hands twice |
| `session` | 2 012 041 | a turn, an unawaited persist, the janitor, failed writes, failed replays and deaths: exact recovery, cursor = tape, saved or told |
| `session_tail` | violation | a maintenance turn between two turns cuts the recovery short |

Every property of a passing run has a mutant of the code (an operator beside the
one it replaces, marked "Mutant") that breaks it under the run's own
configuration.

Exceptions are stated in the properties, not hidden in the models:

- `NothingVanishes` names the local list of a driver whose turn raised (`dropped`).
- `NoForgottenMessage` names the three drivers that leave without an empty queue:
  an awakened background turn, a Matrix driver after its last round, one whose turn
  raised.
- `NothingSkipped` names the events of the start-up catch-up, of an orderly stop
  that cut their handlers off, and of a death inside a flush (`unguarded`);
  `CursorCatchesUp` names the sync that raised (`Stuck`) and says nothing once a
  generation has failed (`holes`): there the code does what `sync_freeze` shows.
- `OnlyExceptionsDangle` names the cancelled task and the exception of a send or a
  modal that `request` does not catch.
- `ReleasedStaysQuiet` names the one start of a `spawn_node` with auto_run that was
  building when `/new` came.  `WaitEndsOrUnmet` names a flow whose name `load` took
  (`replaced`) and one that has come to rest with a node pending, removed or not yet
  spawned.  A flow that `/new` or a rebuilt draft took away is no exception: both set
  the done event, and a wait must end by it.
- `FinishedStays` names the claim by a task that read the row before it ended.
- `RecoveryIsExact` is about a tape no other session closed on between two events
  (`Undivided`; `session_tail` shows the other case).  `CursorIsTape` names the
  second reset of the flag, a torn write, and a replay that was cut or raised;
  `TurnSavedOrTold` those except the replay, and a stale snapshot, a failed write, a
  marker that was taken or not written, and a snapshot handed to a sync that died.
- `kernel_context` runs without manual compaction (`Compact = {}`), because with it
  its properties fail: `kernel_writer` shows the root of it.

What a property names as its exception it does not guard: PROJECT.json lists such a
hazard without a property, or says in its note which part of it is not caught.

## 4. Bounds and fairness

*Bounds.*  Each module names its own, and the guards use them.

- Kernel: `MaxHistory` stops a turn's own appends (notes and rollbacks are not
  bounded by it).  Three messages are needed to see a lock holder, a woken waiter
  and a newcomer at once; two `/new` to see a deferred and a direct one meet;
  `MaxHistory = 2` lets a turn have a message of its own beside its user message
  when it fails.
- Continuations: `MaxRounds` is the code's `_MAX_LEFTOVER_ITERATIONS` (8) made 1, so
  that the Matrix driver tires with something left; `MaxCommands` is shared by
  interruptions and `/new`.  Four typed messages plus a background one let a
  leftover list have two entries while a third message is injected.  One web and one
  Matrix message may raise, as the head of a driver and as a leftover.
  The other two begin with a slash: they are never continuations and open a driver
  whenever they come.
- Approvals: `MaxInterrupts`, `MaxRestarts`.  Two requests show that an interruption
  of one turn touches the other's request.
- Sync cursor: `MaxEvents`, `MaxErrors`, `MaxDeaths`, and `MaxIdle`, the empty syncs
  in flight.  Two events in two generations finish out of order, and two ends of the
  process show a crash after an orderly stop.
- Flow: `MaxSpawns` = 2 calls of `spawn_node` at a time, for two nodes or for the same
  one; `Cap` activations of a node (2, so that a loop goes round once and is
  stopped), `MaxHops` for the whole graph (3, so that it is reached), `MaxFlows` = 2
  objects (the second without nodes: nothing happens in it that does not happen in
  the first), `MaxOps` = 1 rerun, resume, edit or `/new`.
- wdl: three tokens are the fewest after which an instance comes back to an engine
  that is neither its last owner nor the one before; two tasks alive at once see two
  resumes, or a resume against a cancel.  `MaxRounds` is 1, and 2 where the orphan
  must write progress of its own after it was overtaken.  An engine stops only while
  a token is left to start again.
- Session: one thread beside the turn's, `MaxMessages` = 2 drawn messages beside seed
  and note, `MaxSaves` = 2 persists (3 in `session_tail`, which needs a turn on each
  side of the visit), `MaxTroubles` = 2 visits, deaths and failed writes together.

*Deadlock checking* is off (`CHECK_DEADLOCK FALSE`) in every run: messages,
requests, events, nodes and saves are finitely many, so each model really does stop
when all of them are done.  That nothing stops too early is what the liveness
properties say.

*Symmetry* is used in `kernel_order`, which checks no liveness.

*Fairness.*  Weak fairness throughout, of coroutines that can go on and of timers
that have a deadline:

- kernel: a woken waiter runs; preparation and persistence return; the loop is
  left (iteration cap, provider timeouts); the poll for the lock ends after its
  deadline.  Users owe nothing: submitting, interrupting and requesting `/new`
  carry no fairness.  Neither do `Write` and compaction.
- continuations: as long as some coroutine can go on (the turn to its end, the next in
  line, a driver, a `/new` that waits for the free lock), some coroutine does; which
  one is left open.  The 120-second drop of a waiting Matrix
  message has no fairness.
- approvals: a send has a 30-second limit, a wait and a modal have timeouts, a
  woken requester resumes; each ends in a result or an exception (`Deliver`, `Resume`,
  `Modal`).  Nobody has to answer.
- sync cursor: the long poll returns after 30 seconds, a handler comes to its end,
  woken tasks run, the supervisor respawns the kernel.  Nobody has to post.
- flow: the waiter of a set event wakes, and the node tasks there are move on (a
  sub-agent's rounds are limited and its provider times out).  The second is written
  "no task infinitely often, or some task step infinitely often", which is weak
  fairness of the task steps with ENABLED spelt out.  No tool call is owed.
- wdl: tasks move on, a cancellation makes its writes, and an engine is started
  again some day.  Nobody has to resume or to cancel.
- session: safety only; nobody has to save.

## 5. The proofs

Proved with TLAPS for every value of the constants.

`TurnKernelProofs` (any number of messages, resets and compactions):
`TypeCorrect`, `KernelInvariant`, `ServedInOrderOfArrival`, `CancelledStaysOut`,
`BusyClockIsExact`.  The safety properties are not inductive: that no waiting
message is overtaken depends on the order of the *lock's* waiters, about which the
`TurnQueue` says nothing once an interruption has emptied it.  `KernelInv` is
built in layers, each proved with the help of the ones before:

- `TypeOK`;
- `LockInv`: the turn inside the lock is its holder, `_inside_turn` is true exactly
  while a turn executes, and `_active_turn` is a turn that executes;
- `QueueInv`: the `TurnQueue` holds, once each, the messages that wait and are not
  cancelled; a cancelled message is waiting or on its way out;
- `ArrivalInv`: the turns among the lock's waiters are exactly the waiting
  messages, oldest ticket first (the resets in between keep their places), tickets
  never exceed `arrivals`, and whoever came after a waiting message waits too.

The library has no lemma on removing an element, so the module first proves what
`Without`, `Append` and `Tail` do to the elements and to the order of a sequence.

The properties about the context are theorems under the hypothesis
`[]NoManualCompaction`, no `/compact` awaits its summary: `NewSessionStaysFresh`,
`AutomaticCompactionLosesNothing`, `RollbackSparesOthers`, `FailureLeavesANote`.
With a manual compaction they are false (`kernel_writer`), so the hypothesis is the
exact line between what the code keeps and what it does not.  Their invariant has
two layers more.  `ContextInv` speaks of positions: from the index at which the
running turn would cut (`historyStart`, or the rollback floor that a compaction left),
every entry is the turn's own, and before it none is; a message not yet heard has no
entry.  `FreshInv` says which messages the lock can still bring behind a pending
`/new`: those submitted before it have left the lock's line or stand in front of it.

`TurnKernelRefinement` proves `KernelKeepsItsPromise`: the kernel implements
`SerialTurns`, for any number of messages, resets and compactions.  Submitting,
beginning, ending a turn and cancelling the line map to the abstract steps; every
other step stutters.  That a lock hand-off maps to the abstract "the oldest begins"
needs two facts more than `KernelInv`: the `TurnQueue` is sorted by ticket, and a
message that discards itself was cancelled (`PromiseInv`).

`ContinuationsProofs` (any number of messages from any end, any of whose turns may
raise): `HandoverTyped`, `OneDriverAtATime`, `NobodyForgotten`, `NobodyTwice`,
`NobodyVanishes`.

- `OneDriverPerLane` is strengthened to `Lanes`: each Matrix driver stands once in
  the dispatcher's line and only its head works (`MatrixLane`); the web drivers form
  a chain whose first alone is past waiting and whose last is the tail (`WebLane`,
  stated as the existence of such a sequence).
- `NoForgottenMessage` is strengthened to `Handover`: whatever the kernel has in line
  or in hand is the job of a driver in its turn (`Owned`), the line holds each
  message once (`LineInv`), and when the queue is not empty either someone is at work
  who will look or the last one that left did not look (`Attended`).
- `NothingTwice` and `NothingVanishes` are an account: `Total(m)` counts the places a
  message is in (queue, jobs, local lists, both halves of the context) and adds
  whether it is withdrawn, dropped or not yet sent.  It is exactly 1 for ever
  (`Complete`), since every step leaves each total as it is: a step moves a message
  from one place to one other, and a turn that raises moves the list of its driver to
  `dropped`.

`ApprovalsProofs` (any number of requests, interruptions and restarts):
`RequestsTyped`, `ApprovalInvariant`, `NeverApprovedAgainstTheRecord`,
`FinalForGood`, `PendingIsWaitedFor`.  The strengthening is `Consistent`: an
answered future agrees with its record; a modal has a pending record and no future;
the file is the record, or is pending where the record is cancelled.  The last
clause is what makes outcomes final across a restart that does not save.
`PendingIsWaitedFor` needs besides that a requester that came back, other than by an
exception, left its record settled.

`SyncCursorProofs` (any number of events, failed syncs and ends of the process):
`CursorTyped`, `NothingIsSkipped`, `CursorIsMonotone`, `StopIsForGood`.
`NothingSkipped` says nothing of the tokens still in flight, so it is strengthened
to `CursorInv`: the tokens in flight lie between the saved one and `next_batch`, in
the order of the syncs (`Ordered`); each covers only events that are dealt with or
belong to a generation no later than its own (`TokensCover`); a decided generation
has no handler at work (`AtWork`).  A flush takes a decided prefix, so what its last
token covers is dealt with, and what remains keeps the invariant.  That the token is
monotone is `Ordered`; that a stop is not replayed needs `StopSaved`, kept because
the token is monotone.

`FlowCoordinatorProofs` (any graph, any number of flow objects, tasks and calls):
`FlowInvariant`, `TypeCorrect`, `NothingStranded`, `LoopsAreAlwaysCut`,
`ReleasedFlowsStayQuiet`.

`NoStrandedWork` looks at the registered flow when nothing stirs in it, which says
nothing of the states in between, so `FlowInv` has four parts.  `Registry`: `flows`
is well typed and `cur` one of it, or none.  `AllHealthy`: in *every* object ever made
a node that is running has a task in its body, and a task, and the callback it may
leave, are of the flow's own generation or a later one (`Healthy`).
`CurrentIsOfNow`: the registered flow was born in this epoch, which is what makes
a late task of an older one return early.  `CurrentIsSettled`: while the registered
flow is not being relit and its hops are not used up, either one of its tasks is
alive, whose end will look (`_check_complete`), or no node is ready but those an edit
made so (`Settled`).  A task's end either starts what is ready, which leaves a
body, or leaves nothing ready (`Busied`); that is proved of the fold over the nodes by
what each single start keeps (`Kept`), not by induction over the fold.  `TypeCorrect`
adds that `replaced` holds flows that were made (`Replacements`).

`LoopsAreCut` is about what the depth-first search of `classify_edges` returns, so
it needs that every flow object carries the answer for the graph it has
(`f.kick = KickEdges(f.order, f.edges)`, part of `Sound`) and what the search keeps
from turn to turn (`Searching`): the grey nodes are the stack, each once; of a node
left every edge was seen; an edge seen that was not found to go back leads to a node
left or to one above its own on the stack; and no set of nodes left waits only for
each other (`Acyclic`).  When a node is left, an edge into it that does not go back
comes from below it on the stack, or was not seen yet and so comes from no node left:
adding it to the nodes left closes no loop.
Each turn meets a node, leaves one or sees an edge, until nothing remains
(`TurnKeeps`), so the turns `KickEdges` allows are enough (`SearchEnds`).  Both are
inductions over the turns of a recursive function.  The library's induction theorem
takes an operator; here the induction is over a *set* of numbers (`SetInduction`, from
the well-foundedness of their order), and `SearchUnfolds` constructs the function
that unfolds so.

The proof did not go through at first, because the property was false for graphs the
run does not have: it took a node to be reached through a node an edge names but
nobody has spawned yet, where the search stops.  `Reached` is now the least set that
holds the sources and is closed under the edges of nodes that are *there*; nodes
beyond a missing one are not claimed to be free of loops until it is spawned and the
edges are classified again.

`WdlFencingProofs` (any number of engines, tasks and rounds): `SpecInvariant`,
`ClaimIsHeld`, `OutcomeIsTheClaimants`, `FinishedIsFinal`.  `ClaimInvariant` is
inductive as it stands, and the two action properties follow from it step by step:
an end is accepted only from the owner or on a row without one, and a running row's
owner is the last claim.

`SessionLogProofs` (any number of messages, threads, failures and deaths):
`LogStaysRight`, `RecoveryIsAlwaysExact`, `CursorIsAlwaysTape`,
`TurnsAreSavedOrTold`.

- `RecoveryIsExact` needs `LogInvariant`: types, every planned batch fits its
  snapshot (`PlanFits`), the checkpoint lies within the tape (`CheckpointFits`), and
  `CheckpointRight`: it holds what a replay of the tape up to its last position
  gives, as far as an undivided tape is concerned.  The lemmas say how `Project` and
  `TailRead` split at a position: a tail without a shadow only adds to what was
  there before.
- `CursorIsTape` needs `CursorInvariant`: outside a sync nothing is in hand, at most
  one thread is in a sync, the batch it plans is the difference from the present
  cursor, and the cursor is the projection, all outside the mishaps the property names;
  a replay that raised is one of them for the life of the process.  The core is that
  writing a shadow over the position kept and then the rest of the snapshot turns one projection into the
  other.
- `TurnSavedOrTold` needs two more.  `FreshInvariant`: messages are drawn in order, a
  snapshot handed over waits alone, what a checkpoint keeps are messages.
  `SavedInvariant`, outside the mishaps the property names: the marker stands as long
  as a turn is under way (`Marked`); the persist of a turn's end carries the whole
  context (`EndHasAll`); what the cursor and the context both hold is on the tape
  (`Known`), since a difference never writes it; what is missing from the tape is in
  the snapshot of the one sync (`Covered`); a death leaves the marker (`Told`).
  Looking for this invariant showed that the property was false outside the run's
  bounds: after a replay cut short, messages that an earlier shadow had taken out
  were counted as said again.  The history variable was wrong and not the code;
  `Restore` now counts what the new process both knows and finds on the tape.

The assumptions are those the modules declare: kinds of actors are disjoint,
`Nobody`, `Summary` and `None` are none of them, engines are numbered, the nodes of
a graph are numbers and finitely many, bounds are natural numbers.

Every invariant and every safety property of a step that a passing run checks is a
theorem.  Only model-checked is liveness (`EveryMessageSettles`, `EveryResetSettles`,
`EveryDriverLeaves`, `EveryRequestReturns`, `EveryEventHandled`, `CursorCatchesUp`,
`WaitEndsOrUnmet`, `RunningEnds`), which is beyond the prover, as is ENABLED.

## 6. What the checks found

Four runs end in a violation of a sentence the repository states of itself;
PROJECT.json quotes it.

- *Manual compaction is a second writer* (`kernel_writer`): `/compact` looks at the
  busy clock once and then awaits the LLM without the lock.
- *A failed generation does not freeze the token* (`sync_freeze`): the docstrings
  (`sync_helpers.py`:135, :275), a test's name and the list of races say that the
  durable token stays behind a generation that failed; the flush (:286) skips that
  generation's own token only, and the next one covers its events.
- *An orphan's progress goes through* (`wdl_orphan`): the guard of `save_state` lets
  any engine but the row's own write on a row that is not running, so the owner
  before last writes into an instance that a third start has interrupted.
- *The backward read stops too early* (`session_tail`): a maintenance turn leaves its
  session/meta between two turns of the session, and without a usable checkpoint the
  conversation before it is not recovered.

Seen while modelling; each is either an exception a property names or behaviour the
model has and no sentence of the repository denies.

*Kernel.*  A compaction in flight outlives `/new` and assigns the old session's
summary, and the messages it kept, to the new one (`turn_orchestrator.py`:93): with a
`/compact`, `NewSessionIsFresh` is violated.  Its rollback floor outlives `/new` too:
only the next turn's `finally` clears it, so a turn that fails after `/compact` and
`/new` is cut at the wrong index (`base.py`:551).

*Continuations.*  An exception in one leftover's turn ends the driver's loop and the
rest of its list with it (`inbound_handlers.py`:123, `web_server.py`:1697), and nobody
is told.  What waits in a driver's list is
older than what the running turn injects from the queue, so messages overtake each
other.  The interruption of `/new` leaves the queue alone: the driver of the
interrupted turn may drain it, and its local list enters the new session.  Nobody
drains after an awakened background turn.

*Approvals.*  A cancelled requester leaves its card open until the process ends, and so
does an exception of the send other than `TimeoutError` and `AttributeError`, or of the
modal other than `RuntimeError` and `TimeoutError` (`approval_center.py`:269, :318):
the card can still be answered, to nobody.  A reply between timer and resumption is recorded as
approved although the tool was refused.

*Sync cursor.*  A sync that raises freezes the saved token until the next restart.
The start-up catch-up runs outside any
generation.  An orderly stop saves past handlers it cancelled.  A death between the
two writes of a flush loses what the newer token covers.

*Flow.*  `source_ids` returns insertion order although the docstring in
`semantics.py` says sorted.  `_check_complete` and `run` launch without the guard of
`_maybe_start`, so a node in its shutdown window gets a second task, and a `wait` in
that window fails nodes that were about to be delivered to.  `_launch`'s branch for a
cap already reached is not reachable, as `ready` asks first.  The done event is never
cleared.  `load` replaces a flow without releasing its waiters.  Removing the last
pending node does not look whether the flow is complete.  Removing an edge keeps what
waits on it.  A reset delivers the text of a failed upstream again as a success.  A
`wait` that began while a step ran hangs when that step ends without delivering to
the nodes still pending.

*wdl.*  `resume` reads and claims in two statements, so an instance that finished in
between is started again, and two resumes give two drivers.  A driver announces
completion even when its `complete_instance` was refused.  A progress write on a
cancelled row succeeds.  A death between creation and claim leaves a row pending for
ever.  The server offers to resume a failed instance, which the runner refuses.  The
`run` command starts an engine, which interrupts the rows of a live server.  An engine
cannot resume an instance that was interrupted under it.  The set of cancelled
instances is never emptied.

*Session log.*  The comment in `turn_orchestrator.py` that saving before clearing
guarantees "marker stands ⇒ not on disk" gives the wrong direction: what the order
gives is that a *missing* marker means saved, and even that fails when the persist
handed its snapshot to another thread's sync, or failed.  Snapshots reach the recorder
in any order, so an older one can be written over a newer one.  The second reset of
`_syncing` lets two syncs overlap.  After a cut recovery the seed that is prepended
makes the next sync shadow the lost part for good.  A replay that raises starts the
session empty under its old id (`workspace_state.py`:518); the next sync writes beside
the old messages, which the start after it reads again.  The janitor of a workspace that is
not loaded takes the session's marker.  A failed append that reached the disk in part
is written again, although its docstring says nothing was written.

## 7. What is left out of the modelled parts

- *Turn kernel*: the account gate, LLM and tool calls as such, the tail strip when a
  workspace switch interrupts, cancellation of the task that consumes
  `process_message`.
- *Continuations*: the attached command line, whose client drains the queue itself
  and may withdraw single entries; a driver detached by a workspace switch; a `/new`
  called by the running turn itself and the messages refused while it waits.
- *Approvals*: the actor a request is bound to (a foreign reply changes nothing),
  rebinding after a reconnect, frames to the ends.
- *Sync cursor*: the recovery from a rejected token, which gomatrix never asks for
  (it rejects only malformed tokens and the client saves none), the first parking, the
  watchdog, a callback that raises inside `client.sync`.
- *Flow*: prompts and results as text, the binding to a draft (an edit of the canvas
  appears as a rebuild), `update_node`, sub-agents kept parked.
- *wdl*: the graph behind the rounds (the same activation engine as `FlowGraph`),
  suspend and the wake scanner, pruning, templates, the tool-calling executor, the
  origin column.
- *Session log*: rotation into archives, stale sessions and `/new`'s new session id,
  the overview spliced into the context, usage snapshots, the restart notice, the
  tape of the flow subject.

No component is called "modelled" in PROJECT.json, since each leaves out one of
these.

## 8. Not modelled

The modules cover the parts that decide what becomes of a message, of a decision and
of a running workflow.  By lines of code that is a small part of the repository; the
rest is of three kinds.

*Input and output.*  The command line, the spinner, the web server's routes and
dashboards, the mobile client, usage queries, documentation builders, the tools
themselves and the providers: formatting, HTTP and file access whose state is derived
from the parts above and whose correctness is wording and layout.  They hold most of
the lines.

*Programs of their own.*  gomatrix is a homeserver in Go, and its stream positions and
transaction deduplication deserve a development of their own; here it appears as
`Post` and as tokens that grow.  Providers appear as steps that end in a result or an
exception.

*Small stores and timers.*  Background tasks, reminders, the registry and update store,
event sources, janitor and schedulers, mobile status, the delegates' ledger, the tool
executor's locks, web views.  Each is a file or a table with a periodic task, and each
meets the modelled parts at one point only, which *is* modelled: a background
completion is `CompleteBackground`, a janitor's turn is `Visit`, a delegate is a
session of its own and obeys `TurnKernel`, and its late result is `Park`, a reminder or
event source is one more message.  What is inside them (a reminder that fires after a
death between its advance and its save, a lost compare-and-swap, the order of resource
locks) is not claimed here.
