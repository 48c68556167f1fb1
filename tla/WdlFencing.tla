----------------------------- MODULE WdlFencing -----------------------------
(***************************************************************************)
(* One workflow instance of the wdl engine: its row in the SQLite file the *)
(* engines share, and the engines that execute, resume, cancel and recover *)
(* it (src/wdl/src/wdl: persistence.py, core/kernel_runner.py, engine.py,  *)
(* server.py).  Instances share no state, so one row is enough.            *)
(*                                                                         *)
(* An engine is a fencing token: a process that starts anew draws a new    *)
(* one, so a token starts at most once.  The workbench server and a `run`  *)
(* of the command line are two engines alive at once on the same file.  A  *)
(* driver is one _execute_workflow or _resume_workflow task of an engine.  *)
(*                                                                         *)
(* Every statement of persistence.py commits by itself and is one step.    *)
(* The nodes of the graph are abstracted to the rounds of _drive, each of  *)
(* which starts or awaits nodes; suspend has no caller, so no row waits    *)
(* and the wake scanner has nothing to resume.                             *)
(***************************************************************************)
EXTENDS Naturals, FiniteSets

CONSTANTS
  Engine,     \* the fencing tokens, numbered in the order they are drawn
  Slot,       \* bound on the tasks of one engine alive at once
  MaxTasks,   \* bound on those of all engines
  MaxRounds,  \* bound on the rounds of one _drive
  None        \* owner_id NULL

ASSUME EngineAssumption == Engine \subseteq Nat /\ None \notin Engine
ASSUME RoundsAssumption == MaxRounds \in Nat

VARIABLES
  row,        \* [status, owner, by]: by is the engine that wrote context_json last
  started,    \* the tokens of the processes started so far
  alive,      \* those whose process runs
  phase,      \* where each task of an engine is
  seen,       \* the status a resume read before it claims
  round,      \* rounds persisted by a driver
  told,       \* engines whose _cancelled holds the instance
  cancelling, \* cancel_instance calls: the writes an engine still has to make
  last        \* history: the engine that claimed the row last, or None

vars == <<row, started, alive, phase, seen, round, told, cancelling, last>>

Driver == Engine \X Slot

Terminal == {"completed", "failed", "cancelled"}
InstanceState == {"absent", "pending", "running", "interrupted"} \cup Terminal

Phase == {"idle", "submitted", "asked", "loaded", "driving", "awaiting", "dying"}

\* The tasks that have claimed the row.
InDrive == {"driving", "awaiting", "dying"}

-----------------------------------------------------------------------------
(* The statements of persistence.py                                         *)

\* The guard of save_state: a running row is advanced by its owner alone; any
\* other row may be claimed, not by the engine it was taken from.
MayWrite(e) ==
  \/ row.status = "running" /\ row.owner = e
  \/ row.status \notin {"absent", "running"} /\ row.owner # e

\* Mutant: any engine may end the instance.
MayEndForeign(e) == row.status \notin Terminal \cup {"absent"}

\* The guard of complete_instance and cancel_instance.
MayEnd(e) ==
  /\ row.owner \in {None, e}
  /\ row.status \notin Terminal \cup {"absent"}

\* The row after an end that was accepted, or refused without a trace.
Ended(e, status) ==
  IF MayEnd(e) THEN [row EXCEPT !.status = status, !.owner = None] ELSE row

\* Mutant: only rows of the engine itself are recovered.
RecoveredOwn(e) ==
  IF row.status = "running" /\ row.owner = e THEN [row EXCEPT !.status = "interrupted"] ELSE row

\* Mutant: recovery releases the row.
RecoveredReleased(e) ==
  IF row.status = "running" THEN [row EXCEPT !.status = "interrupted", !.owner = None] ELSE row

\* recover_orphaned_running, run by an engine that starts: whoever owns it.
Recovered(e) ==
  IF row.status = "running" THEN [row EXCEPT !.status = "interrupted"] ELSE row

-----------------------------------------------------------------------------
Init ==
  /\ row = [status |-> "absent", owner |-> None, by |-> None]
  /\ started = {} /\ alive = {} /\ told = {} /\ last = None
  /\ phase = [d \in Driver |-> "idle"] /\ seen = [d \in Driver |-> "absent"]
  /\ round = [d \in Driver |-> 0] /\ cancelling = [e \in Engine |-> 0]

\* WdlEngine.start: a new token recovers what runs, whether its engine died or not.
Start(e) ==
  /\ e \notin started /\ \A f \in Engine : f < e => f \in started
  /\ started' = started \cup {e} /\ alive' = alive \cup {e}
  /\ row' = Recovered(e)
  /\ UNCHANGED <<phase, seen, round, told, cancelling, last>>

\* The tasks alive, and the bound a new one must keep.
Busy == {d \in Driver : phase[d] # "idle"}
MayAsk == Cardinality(Busy) < MaxTasks

\* start_workflow: the id is drawn at random, so an instance is submitted once.
Submit(e, s) ==
  /\ e \in alive /\ row.status = "absent"
  /\ Busy = {}
  /\ phase' = [phase EXCEPT ![<<e, s>>] = "submitted"]
  /\ UNCHANGED <<row, started, alive, seen, round, told, cancelling, last>>

\* KernelGraphRunner.execute finds no row and inserts one.
Create(e, s) ==
  /\ phase[<<e, s>>] = "submitted" /\ row.status = "absent"
  /\ row' = [status |-> "pending", owner |-> None, by |-> None]
  /\ phase' = [phase EXCEPT ![<<e, s>>] = "loaded"]
  /\ seen' = [seen EXCEPT ![<<e, s>>] = "pending"]
  /\ UNCHANGED <<started, alive, round, told, cancelling, last>>

\* _handle_instance_resume reads the status and starts a task.
AskResume(e, s) ==
  /\ e \in alive /\ phase[<<e, s>>] = "idle" /\ MayAsk
  /\ row.status \in {"interrupted", "failed"}
  /\ phase' = [phase EXCEPT ![<<e, s>>] = "asked"]
  /\ UNCHANGED <<row, started, alive, seen, round, told, cancelling, last>>

\* Mutant: resume does not look at the status.
LoadUnchecked(e, s) ==
  /\ phase[<<e, s>>] = "asked"
  /\ phase' = [phase EXCEPT ![<<e, s>>] = "loaded"]
  /\ seen' = [seen EXCEPT ![<<e, s>>] = row.status]
  /\ UNCHANGED <<row, started, alive, round, told, cancelling, last>>

\* KernelGraphRunner.resume reads the row and refuses a terminal one.
Load(e, s) ==
  /\ phase[<<e, s>>] = "asked"
  /\ phase' = [phase EXCEPT ![<<e, s>>] = IF row.status \in Terminal THEN "idle" ELSE "loaded"]
  /\ seen' = [seen EXCEPT ![<<e, s>>] = IF row.status \in Terminal THEN @ ELSE row.status]
  /\ UNCHANGED <<row, started, alive, round, told, cancelling, last>>

\* save_state(RUNNING) of execute and resume: the claim, or WorkflowOwnershipLost.
Claim(e, s) ==
  /\ phase[<<e, s>>] = "loaded"
  /\ seen' = [seen EXCEPT ![<<e, s>>] = "absent"]
  /\ \/ /\ MayWrite(e)
        /\ row' = [status |-> "running", owner |-> e, by |-> e] /\ last' = e
        /\ phase' = [phase EXCEPT ![<<e, s>>] = "driving"]
     \/ /\ ~MayWrite(e)
        /\ phase' = [phase EXCEPT ![<<e, s>>] = "idle"] /\ UNCHANGED <<row, last>>
  /\ UNCHANGED <<started, alive, round, told, cancelling>>

-----------------------------------------------------------------------------
(* _drive                                                                   *)

\* A round that was told to cancel raises, and its handler cancels the row.
Raise(e, s) ==
  /\ phase[<<e, s>>] = "driving" /\ e \in told
  /\ row' = Ended(e, "cancelled")
  /\ phase' = [phase EXCEPT ![<<e, s>>] = "idle"] /\ round' = [round EXCEPT ![<<e, s>>] = 0]
  /\ UNCHANGED <<started, alive, seen, told, cancelling, last>>

\* A round with nodes ready or running persists its progress, the owner kept,
\* and awaits a node; a write refused ends the driver.
Persist(e, s) ==
  /\ phase[<<e, s>>] = "driving" /\ e \notin told /\ round[<<e, s>>] < MaxRounds
  /\ \/ /\ MayWrite(e)
        /\ row' = [row EXCEPT !.by = e]
        /\ phase' = [phase EXCEPT ![<<e, s>>] = "awaiting"]
        /\ round' = [round EXCEPT ![<<e, s>>] = @ + 1]
     \/ /\ ~MayWrite(e)
        /\ phase' = [phase EXCEPT ![<<e, s>>] = "idle"] /\ UNCHANGED row
        /\ round' = [round EXCEPT ![<<e, s>>] = 0]
  /\ UNCHANGED <<started, alive, seen, told, cancelling, last>>

\* A node ends.
NodeEnds(e, s) ==
  /\ phase[<<e, s>>] = "awaiting"
  /\ phase' = [phase EXCEPT ![<<e, s>>] = "driving"]
  /\ UNCHANGED <<row, started, alive, seen, round, told, cancelling, last>>

\* No node runs or is ready: complete_instance, whose refusal only changes
\* what the driver returns.
Complete(e, s) ==
  /\ phase[<<e, s>>] = "driving" /\ e \notin told /\ round[<<e, s>>] > 0
  /\ \E status \in {"completed", "failed"} :
       row' = IF MayEnd(e) THEN [Ended(e, status) EXCEPT !.by = e] ELSE row
  /\ phase' = [phase EXCEPT ![<<e, s>>] = "idle"] /\ round' = [round EXCEPT ![<<e, s>>] = 0]
  /\ UNCHANGED <<started, alive, seen, told, cancelling, last>>

\* The handler of CancelledError, in an engine that shuts down.
Cancelled(e, s) ==
  /\ phase[<<e, s>>] = "dying"
  /\ row' = Ended(e, "cancelled")
  /\ phase' = [phase EXCEPT ![<<e, s>>] = "idle"] /\ round' = [round EXCEPT ![<<e, s>>] = 0]
  /\ UNCHANGED <<started, alive, seen, told, cancelling, last>>

-----------------------------------------------------------------------------
(* Commands and the life of a process                                       *)

\* cancel_instance of the engine: the runner's set, then two fenced writes.
\* The set is never emptied.
Cancel(e) ==
  /\ e \in alive /\ row.status # "absent" /\ cancelling[e] = 0
  /\ told' = told \cup {e} /\ cancelling' = [cancelling EXCEPT ![e] = 2]
  /\ UNCHANGED <<row, started, alive, phase, seen, round, last>>

CancelWrite(e) ==
  /\ cancelling[e] > 0
  /\ cancelling' = [cancelling EXCEPT ![e] = @ - 1]
  /\ row' = Ended(e, "cancelled")
  /\ UNCHANGED <<started, alive, phase, seen, round, told, last>>

\* Bound: an engine stops only while a token is left to start again.
MayStop(e) == e \in alive /\ started # Engine

\* What an engine that ends kept in memory.
Forgotten(mine, e) ==
  /\ told' = told \ {e} /\ cancelling' = [cancelling EXCEPT ![e] = 0]
  /\ seen' = [d \in Driver |-> IF d \in mine THEN "absent" ELSE seen[d]]
  /\ round' = [d \in Driver |-> IF d \in mine THEN 0 ELSE round[d]]

\* shutdown cancels the tasks: one that drives will write a cancellation;
\* one cancelled in its claim may have written it and drives nothing.
Shutdown(e) ==
  LET mine == {d \in Driver : d[1] = e} IN
  /\ MayStop(e)
  /\ alive' = alive \ {e}
  /\ phase' = [d \in Driver |-> IF d \notin mine THEN phase[d]
                                ELSE IF phase[d] \in InDrive THEN "dying" ELSE "idle"]
  /\ \/ UNCHANGED <<row, last>>
     \/ /\ MayWrite(e) /\ \E d \in mine : phase[d] = "loaded"
        /\ row' = [status |-> "running", owner |-> e, by |-> e] /\ last' = e
  /\ Forgotten(mine, e)
  /\ UNCHANGED started

\* The process dies, or its shutdown is cut short.
Crash(e) ==
  LET mine == {d \in Driver : d[1] = e} IN
  /\ e \in alive \/ \E d \in mine : phase[d] = "dying"
  /\ started # Engine
  /\ alive' = alive \ {e}
  /\ phase' = [d \in Driver |-> IF d \in mine THEN "idle" ELSE phase[d]]
  /\ Forgotten(mine, e)
  /\ UNCHANGED <<row, started, last>>

DriverStep(e, s) ==
  \/ Create(e, s) \/ Load(e, s) \/ Claim(e, s) \/ Raise(e, s) \/ Persist(e, s)
  \/ NodeEnds(e, s) \/ Complete(e, s) \/ Cancelled(e, s)

Next ==
  \E e \in Engine :
    \/ Start(e) \/ Cancel(e) \/ CancelWrite(e) \/ Shutdown(e) \/ Crash(e)
    \/ \E s \in Slot : Submit(e, s) \/ AskResume(e, s) \/ DriverStep(e, s)

Spec == Init /\ [][Next]_vars

\* The event loop runs every task, a node's execution ends (its model and tool
\* calls have timeouts), and sooner or later an engine is started again: a row
\* orphaned beside a live engine waits for that start.
Fairness ==
  /\ \A e \in Engine : WF_vars(Start(e))
  /\ \A e \in Engine : WF_vars(CancelWrite(e))
  /\ \A e \in Engine, s \in Slot : WF_vars(DriverStep(e, s))

FairSpec == Spec /\ Fairness

-----------------------------------------------------------------------------
(* Properties                                                               *)

\* An instance that is running or was interrupted keeps the token of the last
\* claim, every other one has none, and no task drives before the first claim
\* (what save_state, recover_orphaned_running and complete_instance each
\* assume of the others).
ClaimInvariant ==
  /\ row \in [status : InstanceState, owner : Engine \cup {None}, by : Engine \cup {None}]
  /\ last \in Engine \cup {None}
  /\ alive \subseteq started /\ started \subseteq Engine /\ told \subseteq Engine
  /\ phase \in [Driver -> Phase] /\ seen \in [Driver -> InstanceState]
  /\ round \in [Driver -> 0..MaxRounds] /\ cancelling \in [Engine -> 0..2]
  /\ row.owner = IF row.status \in {"running", "interrupted"} THEN last ELSE None
  /\ row.status \in {"absent", "pending"} => last = None
  /\ last = None => \A d \in Driver : phase[d] \notin InDrive
  /\ row.status \in {"running", "interrupted"} => last # None

\* The outcome of a workflow is written by the engine that claimed it last: an
\* orphan whose instance another engine resumed never completes it, however
\* often it changed hands (complete_instance, save_state, recover_orphaned_running).
OutcomeByLastClaimant ==
  [][\A e \in Engine, s \in Slot :
       Complete(e, s) /\ row' # row => last = e]_vars

\* A finished workflow is written anew only by a task that read it before it
\* finished and had not claimed it yet: its status changes through nothing but
\* such a claim (complete_instance against cancel_instance, resume).
FinishedStays ==
  [][row.status \in Terminal /\ row'.status # row.status =>
       /\ row'.status = "running"
       /\ \E d \in Driver : /\ phase[d] = "loaded" /\ seen[d] \notin Terminal
                            /\ d[1] = row'.owner]_vars

\* No instance is running for ever: whatever crashes, its driver ends it or the
\* next engine to start interrupts it (recover_orphaned_running, _drive).
RunningEnds == row.status = "running" ~> row.status # "running"

\* persistence.py on save_state: the next write of an old engine that is not
\* quite dead necessarily fails to match, so what a row holds was written by
\* the engine that claimed it last.
ContextByLastClaimant == row.by \in {None, last}
=============================================================================
