--------------------------- MODULE Continuations ---------------------------
(***************************************************************************)
(* How a message finds its way into the conversation of a session.  While  *)
(* the session is busy a message joins the continuation queue and the      *)
(* running turn takes it in; what arrives too late for that turn is left   *)
(* over, and the coroutine that drove the turn (its driver) opens a new    *)
(* turn for each leftover.  Web messages share a chain of drivers, Matrix  *)
(* messages a dispatcher lock, and a finished background task wakes the    *)
(* session with a turn nobody drains after.                                *)
(*                                                                         *)
(* The turn kernel is taken at its word: SerialTurns, which TurnKernel     *)
(* implements, is the kernel here.  A driver is named after the message    *)
(* that created it.                                                        *)
(***************************************************************************)
EXTENDS Integers, Sequences, SequencesExt, FiniteSets

CONSTANTS
  Web, Matrix, Background,  \* messages by where they come from
  Slash,                    \* messages that begin with "/": never a continuation
  Fallible,                 \* messages whose turn may end with an exception
  Nobody,                   \* no turn is running, no driver
  MaxRounds,                \* _MAX_LEFTOVER_ITERATIONS
  MaxCommands               \* bound: interruptions and calls of /new

Msg == Web \cup Matrix \cup Background

ASSUME DistinctOrigins ==
  /\ Web \cap Matrix = {} /\ Web \cap Background = {} /\ Matrix \cap Background = {}
  /\ Nobody \notin Msg
ASSUME SlashIsTyped == Slash \subseteq Web \cup Matrix
ASSUME RoundsArePositive == MaxRounds \in Nat \ {0}
ASSUME CommandsAreBounded == MaxCommands \in Nat

VARIABLES
  line, current, ended,  \* the turn kernel, see SerialTurns
  phase,      \* where the running turn stands
  failed,     \* the running turn ended with an exception
  earlier,    \* message_history up to turn_history_start: its messages
  saying,     \* message_history from there on, the running turn's part
  queue,      \* _continuation_inputs
  stage,      \* what became of each message, and where its driver stands
  job,        \* the message each driver runs as a turn
  leftover,   \* the local list a driver works through
  rounds,     \* how often a Matrix driver has drained
  tail,       \* _turn_tails: the newest web driver
  previous,   \* prev_tail of each web driver
  dispatcher, \* the Matrix dispatcher lock: its holder first, then who waits
  commands,   \* interruptions and calls of /new so far
  renewing,   \* a /new waits for the process lock
  withdrawn,  \* history variable: cancelled, rolled back, cleared by /new or
              \* refused with a notice
  dropped,    \* history variable: in the local list of a driver whose turn
              \* raised; nobody is told
  looked      \* history variable: the last driver found the queue empty

kernelVars == <<line, current, ended>>
turnVars == <<phase, failed>>
context == <<earlier, saying>>
driverVars == <<stage, job, leftover, rounds>>
laneVars == <<tail, previous, dispatcher>>
userVars == <<commands, renewing>>
vars == <<kernelVars, turnVars, context, queue, driverVars, laneVars, userVars,
          withdrawn, dropped, looked>>

Kernel == INSTANCE SerialTurns WITH Turn <- Msg

Stage == {"idle", "followup", "chained", "locking", "calling", "turn", "after",
          "gone"}
Phase == {"none", "looping", "closing"}

Holds(seq, m) == \E i \in DOMAIN seq : seq[i] = m

(* has_active_turn, at the level of SerialTurns.                           *)
Busy == current # Nobody \/ line # <<>>

Init ==
  /\ Kernel!Init
  /\ phase = "none" /\ failed = FALSE
  /\ earlier = {} /\ saying = <<>> /\ queue = <<>>
  /\ stage = [m \in Msg |-> "idle"]
  /\ job = [m \in Msg |-> m]
  /\ leftover = [m \in Msg |-> <<>>]
  /\ rounds = [m \in Msg |-> 0]
  /\ tail = Nobody /\ previous = [m \in Msg |-> Nobody]
  /\ dispatcher = <<>>
  /\ commands = 0 /\ renewing = FALSE
  /\ withdrawn = {} /\ dropped = {}
  /\ looked = TRUE

-----------------------------------------------------------------------------
(* A message arrives *)

(* submit_continuation_input *)
FollowUp(m) ==
  /\ queue' = Append(queue, m)
  /\ stage' = [stage EXCEPT ![m] = "followup"]
  /\ UNCHANGED <<kernelVars, turnVars, context, job, leftover, rounds,
                 laneVars, userVars, withdrawn, dropped, looked>>

(* A web message follows up while a turn runs or a driver has leftovers.   *)
WebBusy(m) == m \notin Slash /\ (Busy \/ tail # Nobody)

(* Mutant: the new driver does not wait for the one before it.             *)
OpenWebAtOnce(m) ==
  /\ stage' = [stage EXCEPT ![m] = "calling"]
  /\ tail' = m
  /\ UNCHANGED <<kernelVars, turnVars, context, queue, job, leftover,
                 rounds, previous, dispatcher, userVars, withdrawn, dropped,
                 looked>>

OpenWeb(m) ==
  /\ stage' = [stage EXCEPT ![m] = IF tail = Nobody THEN "calling" ELSE "chained"]
  /\ previous' = [previous EXCEPT ![m] = tail]
  /\ tail' = m
  /\ UNCHANGED <<kernelVars, turnVars, context, queue, job, leftover,
                 rounds, dispatcher, userVars, withdrawn, dropped, looked>>

OpenMatrix(m) ==
  /\ dispatcher' = Append(dispatcher, m)
  /\ stage' = [stage EXCEPT ![m] = "locking"]
  /\ UNCHANGED <<kernelVars, turnVars, context, queue, job, leftover,
                 rounds, tail, previous, userVars, withdrawn, dropped,
                 looked>>

(* A task of its own: two completions may both find the session idle.      *)
Awaken(m) ==
  /\ stage' = [stage EXCEPT ![m] = "calling"]
  /\ UNCHANGED <<kernelVars, turnVars, context, queue, job, leftover,
                 rounds, laneVars, userVars, withdrawn, dropped, looked>>

SendWeb(m) ==
  /\ m \in Web
  /\ stage[m] = "idle"
  /\ \/ WebBusy(m) /\ FollowUp(m)
     \/ ~WebBusy(m) /\ OpenWeb(m)

SendMatrix(m) ==
  /\ m \in Matrix
  /\ stage[m] = "idle"
  /\ \/ m \notin Slash /\ Busy /\ FollowUp(m)
     \/ (m \in Slash \/ ~Busy) /\ OpenMatrix(m)

CompleteBackground(m) ==
  /\ m \in Background
  /\ stage[m] = "idle"
  /\ \/ Busy /\ FollowUp(m)
     \/ ~Busy /\ Awaken(m)

-----------------------------------------------------------------------------
(* The turn *)

(* The kernel begins message m: its text enters the context, the loop runs. *)
Begun(m) ==
  /\ phase' = "looping"
  /\ saying' = <<m>>
  /\ UNCHANGED <<failed, earlier>>

(* A driver calls process_message for its message.                         *)
Call(d) ==
  /\ stage[d] = "calling"
  /\ Kernel!Accept(job[d])
  /\ stage' = [stage EXCEPT ![d] = "turn"]
  /\ \/ /\ current' = job[d]
        /\ Begun(job[d])
     \/ /\ current' = current
        /\ UNCHANGED <<turnVars, context>>
  /\ UNCHANGED <<queue, job, leftover, rounds, laneVars, userVars,
                 withdrawn, dropped, looked>>

BeginNext ==
  /\ Kernel!Start
  /\ Begun(Head(line))
  /\ UNCHANGED <<queue, driverVars, laneVars, userVars, withdrawn, dropped,
                 looked>>

(* The head of an iteration takes in everything that waits.                *)
Inject ==
  /\ phase = "looping"
  /\ queue # <<>>
  /\ saying' = saying \o queue
  /\ queue' = <<>>
  /\ UNCHANGED <<kernelVars, turnVars, earlier, driverVars, laneVars,
                 userVars, withdrawn, dropped, looked>>

(* A final answer: the loop looks once more for late inputs.               *)
Answer ==
  /\ phase = "looping"
  /\ queue = <<>>
  /\ phase' = "closing"
  /\ UNCHANGED <<kernelVars, failed, context, queue, driverVars, laneVars,
                 userVars, withdrawn, dropped, looked>>

(* Stalled todos, a cancelled tool, the iteration cap or an interruption:  *)
(* the loop is left without a look at the queue.                           *)
GiveUp ==
  /\ phase = "looping"
  /\ phase' = "closing"
  /\ UNCHANGED <<kernelVars, failed, context, queue, driverVars, laneVars,
                 userVars, withdrawn, dropped, looked>>

(* An exception rolls the turn back, the inputs it has taken in included.  *)
Fail ==
  /\ phase = "looping"
  /\ current \in Fallible
  /\ phase' = "closing" /\ failed' = TRUE
  /\ withdrawn' = withdrawn \cup ToSet(saying)
  /\ saying' = <<>>
  /\ UNCHANGED <<kernelVars, earlier, queue, driverVars, laneVars, userVars,
                 dropped, looked>>

-----------------------------------------------------------------------------
(* The drivers *)

(* Mutant: the Matrix lock stays with a driver that has left.              *)
ReleasedLanesButLock(d) ==
  /\ tail' = IF tail = d THEN Nobody ELSE tail
  /\ UNCHANGED <<dispatcher, previous>>

(* Mutant: the tail of the chain is not released.                          *)
ReleasedLanesButTail(d) ==
  /\ \/ ~Holds(dispatcher, d) /\ UNCHANGED dispatcher
     \/ \E i \in DOMAIN dispatcher :
          dispatcher[i] = d /\ dispatcher' = RemoveAt(dispatcher, i)
  /\ UNCHANGED <<tail, previous>>

ReleasedLanes(d) ==
  /\ tail' = IF tail = d THEN Nobody ELSE tail
  /\ \/ ~Holds(dispatcher, d) /\ UNCHANGED dispatcher
     \/ \E i \in DOMAIN dispatcher :
          dispatcher[i] = d /\ dispatcher' = RemoveAt(dispatcher, i)
  /\ UNCHANGED previous

(* A driver returns, whatever the way out; its locals die with it.         *)
Leave(d) ==
  /\ stage' = [stage EXCEPT ![d] = "gone"]
  /\ job' = [job EXCEPT ![d] = d]
  /\ leftover' = [leftover EXCEPT ![d] = <<>>]
  /\ rounds' = [rounds EXCEPT ![d] = 0]
  /\ ReleasedLanes(d)

(* The web driver before this one has left, its leftovers included.        *)
ChainReached(d) ==
  /\ stage[d] = "chained" /\ stage[previous[d]] = "gone"
  /\ stage' = [stage EXCEPT ![d] = "calling"]
  /\ UNCHANGED <<kernelVars, turnVars, context, queue, job, leftover,
                 rounds, laneVars, userVars, withdrawn, dropped, looked>>

(* The dispatcher lock goes to the Matrix message that waited longest.     *)
LockReached(d) ==
  /\ stage[d] = "locking" /\ Head(dispatcher) = d
  /\ stage' = [stage EXCEPT ![d] = "calling"]
  /\ UNCHANGED <<kernelVars, turnVars, context, queue, job, leftover,
                 rounds, laneVars, userVars, withdrawn, dropped, looked>>

(* A Matrix message that waited 120 seconds is refused with a notice.      *)
BusyDrop(d) ==
  /\ stage[d] = "locking" /\ Head(dispatcher) # d
  /\ Leave(d)
  /\ withdrawn' = withdrawn \cup {d}
  /\ UNCHANGED <<kernelVars, turnVars, context, queue, userVars, dropped,
                 looked>>

(* Web turns swallow every exception; what runs as a Matrix turn passes it *)
(* on to its driver, leftovers or not.                                     *)
Raises(d) ==
  failed /\ (job[d] \in Matrix \/ (d \in Matrix /\ job[d] \in Background))

(* The turn is over for its driver; nobody drains after an awakened turn.  *)
Returned(d) ==
  \/ /\ d \in Background
     /\ Leave(d) /\ looked' = FALSE
  \/ /\ d \notin Background
     /\ stage' = [stage EXCEPT ![d] = "after"]
     /\ UNCHANGED <<job, leftover, rounds, laneVars, looked>>

EndTurn ==
  /\ phase = "closing"
  /\ Kernel!Finish
  /\ phase' = "none" /\ failed' = FALSE
  /\ earlier' = earlier \cup ToSet(saying) /\ saying' = <<>>
  /\ \E d \in Msg :
       /\ stage[d] = "turn" /\ job[d] = current
       /\ \/ /\ Raises(d)
             /\ Leave(d) /\ looked' = FALSE
             /\ dropped' = dropped \cup ToSet(leftover[d])
          \/ ~Raises(d) /\ Returned(d) /\ UNCHANGED dropped
  /\ UNCHANGED <<queue, userVars, withdrawn>>

(* A message cancelled in line gets the lock, finds out and returns.       *)
ReturnCancelled(d) ==
  /\ stage[d] = "turn" /\ job[d] \in ended /\ current = Nobody
  /\ Returned(d)
  /\ UNCHANGED <<kernelVars, turnVars, context, queue, userVars, withdrawn,
                 dropped>>

(* A driver with leftovers opens the next turn.                            *)
Dispatch(d) ==
  /\ stage[d] = "after" /\ leftover[d] # <<>>
  /\ stage' = [stage EXCEPT ![d] = "calling"]
  /\ job' = [job EXCEPT ![d] = Head(leftover[d])]
  /\ leftover' = [leftover EXCEPT ![d] = Tail(leftover[d])]
  /\ UNCHANGED <<kernelVars, turnVars, context, queue, rounds, laneVars,
                 userVars, withdrawn, dropped, looked>>

(* Mutants: the Matrix driver never tires; it forgets what it put back.    *)
NeverTired(d) == FALSE
ForgottenInputs == <<>>

(* A Matrix driver drains MaxRounds times, a web driver without limit.     *)
Tired(d) == d \in Matrix /\ rounds[d] = MaxRounds

(* What the queue holds when a tired driver has put back what it drained.  *)
PutBack == queue

Drain(d) ==
  /\ stage[d] = "after" /\ leftover[d] = <<>>
  /\ \/ /\ queue = <<>>
        /\ Leave(d) /\ looked' = TRUE
        /\ UNCHANGED queue
     \/ /\ queue # <<>> /\ Tired(d)
        /\ queue' = PutBack
        /\ Leave(d) /\ looked' = FALSE
     \/ /\ queue # <<>> /\ ~Tired(d)
        /\ queue' = <<>>
        /\ leftover' = [leftover EXCEPT ![d] = queue]
        /\ rounds' = [rounds EXCEPT ![d] = IF d \in Matrix THEN @ + 1 ELSE 0]
        /\ UNCHANGED <<stage, job, laneVars, looked>>
  /\ UNCHANGED <<kernelVars, turnVars, context, userVars, withdrawn,
                 dropped>>

-----------------------------------------------------------------------------
(* The user interrupts, or asks for a new session *)

(* interrupt_current_turn: the line is cancelled in any case; the queue is *)
(* cleared only with a turn to abort, and with it what it has delegated.   *)
Interrupted(cancel_delegates) ==
  /\ Busy
  /\ \/ Kernel!CancelLine
     \/ line = <<>> /\ UNCHANGED kernelVars
  /\ \/ /\ phase = "looping"
        /\ phase' = "closing"
        /\ queue' = IF cancel_delegates THEN <<>> ELSE queue
        /\ withdrawn' = withdrawn \cup ToSet(line)
                          \cup IF cancel_delegates THEN ToSet(queue) ELSE {}
     \/ /\ phase # "looping"
        /\ withdrawn' = withdrawn \cup ToSet(line)
        /\ UNCHANGED <<phase, queue>>
  /\ UNCHANGED <<failed, context, driverVars, laneVars, dropped, looked>>

Interrupt ==
  /\ commands < MaxCommands
  /\ commands' = commands + 1
  /\ Interrupted(TRUE)
  /\ UNCHANGED renewing

(* Mutant: what waits in the queue outlives the session.                   *)
ClearedButQueue ==
  /\ earlier' = {}
  /\ withdrawn' = withdrawn \cup earlier \cup ToSet(queue)
  /\ UNCHANGED <<kernelVars, turnVars, saying, queue, driverVars, laneVars,
                 dropped, looked>>

(* _clear_session_state: the context and the queue, not the local lists of *)
(* the drivers nor the messages on their way into a lane.                  *)
Cleared ==
  /\ earlier' = {} /\ queue' = <<>>
  /\ withdrawn' = withdrawn \cup earlier \cup ToSet(queue)
  /\ UNCHANGED <<kernelVars, turnVars, saying, driverVars, laneVars,
                 dropped, looked>>

(* start_new_session: at once when the session is idle; otherwise what     *)
(* runs and stands in line is interrupted first.  What waits in the queue  *)
(* stays, and the driver of that turn may drain it before the lock is free. *)
NewSession ==
  /\ commands < MaxCommands /\ ~renewing
  /\ commands' = commands + 1
  /\ \/ ~Busy /\ Cleared /\ UNCHANGED renewing
     \/ Interrupted(FALSE) /\ renewing' = TRUE

(* The process lock is free: before, between or after the turns called     *)
(* meanwhile.                                                              *)
ClearSession ==
  /\ renewing /\ current = Nobody
  /\ renewing' = FALSE
  /\ Cleared
  /\ UNCHANGED commands

-----------------------------------------------------------------------------

Arrive == \E m \in Msg : SendWeb(m) \/ SendMatrix(m) \/ CompleteBackground(m)
Loop == Inject \/ Answer \/ GiveUp \/ Fail
Drive(d) ==
  \/ ChainReached(d) \/ LockReached(d)
  \/ Call(d) \/ ReturnCancelled(d)
  \/ Dispatch(d) \/ Drain(d)

Next ==
  \/ Arrive
  \/ BeginNext \/ Loop \/ EndTurn
  \/ \E d \in Msg : Drive(d) \/ BusyDrop(d)
  \/ Interrupt \/ NewSession \/ ClearSession

(* As long as some coroutine can go on, some coroutine does, and a loop     *)
(* comes to its end: iterations are capped and every provider call has a   *)
(* timeout.  Nobody has to send or to interrupt, and no timer has to fire. *)
GoOn ==
  \/ BeginNext \/ Answer \/ GiveUp \/ EndTurn
  \/ \E d \in Msg : Drive(d)
  \/ ClearSession

Spec == Init /\ [][Next]_vars /\ WF_vars(GoOn)

-----------------------------------------------------------------------------
(* Properties *)

TypeOK ==
  /\ line \in Seq(Msg) /\ current \in Msg \cup {Nobody} /\ ended \subseteq Msg
  /\ phase \in Phase /\ failed \in BOOLEAN
  /\ earlier \subseteq Msg /\ saying \in Seq(Msg) /\ queue \in Seq(Msg)
  /\ stage \in [Msg -> Stage] /\ job \in [Msg -> Msg]
  /\ leftover \in [Msg -> Seq(Msg)] /\ rounds \in [Msg -> 0 .. MaxRounds]
  /\ tail \in Web \cup {Nobody} /\ previous \in [Msg -> Web \cup {Nobody}]
  /\ dispatcher \in Seq(Matrix)
  /\ commands \in 0 .. MaxCommands /\ renewing \in BOOLEAN
  /\ withdrawn \subseteq Msg /\ dropped \subseteq Msg
  /\ looked \in BOOLEAN

(* The drivers that still have to hand message m to the kernel.            *)
Carriers(m) == {d \in Msg : stage[d] \in {"chained", "locking", "calling"} /\ job[d] = m}

(* How many copies of m there are outside the memory of its sender.        *)
Occurrences(seq, m) == Cardinality({i \in DOMAIN seq : seq[i] = m})
Copies(m) ==
  Occurrences(queue, m) + Occurrences(saying, m) + Occurrences(line, m)
  + Cardinality(earlier \cap {m})
  + Cardinality(Carriers(m))
  + Cardinality(UNION {{d} \X {i \in DOMAIN leftover[d] : leftover[d][i] = m} : d \in Msg})

(* A message that was sent is in the context, or waits where someone will  *)
(* find it, unless its sender was told that it is withdrawn.  Guards the   *)
(* hand-over between queue, drain, leftovers, lanes and kernel             *)
(* (continuation.py, web_server.py, inbound_handlers.py).  One exception,  *)
(* and nobody is told of it: a turn that raises takes the local list of    *)
(* its driver with it (inbound_handlers.py:121, web_server.py:1694).       *)
NothingVanishes ==
  \A m \in Msg : \/ stage[m] = "idle"
                 \/ m \in withdrawn \cup dropped
                 \/ Copies(m) > 0

(* No message is said twice, and none that was withdrawn or dropped is     *)
(* said at all: what the loop injects, a driver must not dispatch too, and *)
(* what an interruption or a /new cleared must not come back.              *)
NothingTwice ==
  \A m \in Msg : Copies(m) <= (IF m \in withdrawn \cup dropped THEN 0 ELSE 1)

Working(d) == stage[d] \in {"calling", "turn", "after"}
AtWork(d) == stage[d] \in {"chained", "locking"} \/ Working(d)

(* Within a lane one driver works at a time, its leftovers included: the   *)
(* next web message waits for the chain, the next Matrix message for the   *)
(* dispatcher lock (web_server.py:1673, sync_helpers.py:180).              *)
OneDriverPerLane ==
  \A lane \in {Web, Matrix} : \A d, e \in lane : Working(d) /\ Working(e) => d = e

(* Nothing waits in the queue of a session where nobody is at work, except *)
(* after a driver that leaves without a look at it or with something in    *)
(* it: an awakened background turn, a Matrix driver after MaxRounds, one   *)
(* whose turn raised an exception.                                         *)
Quiet == ~Busy /\ \A d \in Msg : ~AtWork(d)
NoForgottenMessage ==
  Quiet /\ looked => queue = <<>>

(* Every driver comes to its end: no chain, lock or turn holds a later     *)
(* message for ever.  Drivers are finitely many and start once, so that    *)
(* is: from some time on none is at work.                                  *)
EveryDriverLeaves ==
  <>[](\A d \in Msg : ~AtWork(d))
=============================================================================
