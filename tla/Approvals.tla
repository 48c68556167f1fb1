------------------------------ MODULE Approvals ------------------------------
(***************************************************************************)
(* The approval centre: a tool call that needs a human's consent sends a   *)
(* card to the end of its turn and waits for the answer, the timeout or an *)
(* interruption.  The record of a request is the truth every end is shown; *)
(* the future is what the requester waits for.  They are settled by        *)
(* different coroutines, and the process may die between any two steps.    *)
(*                                                                         *)
(* Replies of an actor the request is not bound to change nothing and are  *)
(* left out, and with them the rebinding of a reconnected end.             *)
(***************************************************************************)
EXTENDS Naturals

CONSTANTS Request,        \* approval ids
          Cancellable,    \* requests whose asyncio task may be cancelled
          MaxInterrupts,  \* bound: interruptions by the user
          MaxRestarts     \* bound: deaths of the process

ASSUME CancellableRequests == Cancellable \subseteq Request

VARIABLES
  task,        \* where the requester's coroutine stands
  result,      \* what request() returned or raised
  record,      \* state and outcome of the ApprovalRecord
  future,      \* the future the requester waits for
  live,        \* _live: requests with a requester in this process
  expired,     \* the timer of the wait has fired
  signalled,   \* the AbortSignal of the request's turn is raised
  stored,      \* approvals.json
  interrupts, restarts

vars == <<task, result, record, future, live, expired, signalled, stored,
          interrupts, restarts>>

Task == {"idle", "sending", "waiting", "modal", "returned"}
Answer == {"approved", "rejected"}
Terminal == Answer \cup {"timeout", "cancelled"}
Record == {"none", "pending"} \cup Terminal
Future == {"none", "pending", "aborted", "cancelled"} \cup Answer
Result == {"none", "undelivered", "raised", "dead"} \cup Terminal

Init ==
  /\ task = [r \in Request |-> "idle"]
  /\ result = [r \in Request |-> "none"]
  /\ record = [r \in Request |-> "none"]
  /\ future = [r \in Request |-> "none"]
  /\ live = {}
  /\ expired = {} /\ signalled = {}
  /\ stored = [r \in Request |-> "none"]
  /\ interrupts = 0 /\ restarts = 0

-----------------------------------------------------------------------------

(* Mutant: the outcome is shown and not saved.                             *)
SettleUnsaved(r, outcome) ==
  /\ record' = [record EXCEPT ![r] = IF @ = "pending" THEN outcome ELSE @]
  /\ UNCHANGED stored

(* The record moves to outcome and is saved, unless it is terminal already. *)
Settle(r, outcome) ==
  \/ /\ record[r] = "pending"
     /\ record' = [record EXCEPT ![r] = outcome]
     /\ stored' = record'
  \/ /\ record[r] # "pending"
     /\ UNCHANGED <<record, stored>>

(* request() ends; its finally takes r out of _live and cancels the future. *)
Return(r, what) ==
  /\ task' = [task EXCEPT ![r] = "returned"]
  /\ result' = [result EXCEPT ![r] = what]
  /\ live' = live \ {r}
  /\ future' = [future EXCEPT ![r] = IF @ = "pending" THEN "cancelled" ELSE @]

-----------------------------------------------------------------------------
(* The requester *)

Opened(r) ==
  /\ task[r] = "idle"
  /\ record' = [record EXCEPT ![r] = "pending"]
  /\ stored' = record'
  /\ UNCHANGED <<result, expired, signalled, interrupts, restarts>>

(* A request with a channel: registered before the card is sent.           *)
Ask(r) ==
  /\ r \notin signalled
  /\ Opened(r)
  /\ task' = [task EXCEPT ![r] = "sending"]
  /\ future' = [future EXCEPT ![r] = "pending"]
  /\ live' = live \cup {r}

(* No channel: the modal of the command line, which nobody else can answer. *)
AskModal(r) ==
  /\ r \notin signalled
  /\ Opened(r)
  /\ task' = [task EXCEPT ![r] = "modal"]
  /\ UNCHANGED <<future, live>>

Sent(r) ==
  /\ task[r] = "sending" /\ r \notin signalled
  /\ task' = [task EXCEPT ![r] = "waiting"]
  /\ UNCHANGED <<result, record, future, live, expired, signalled, stored,
                 interrupts, restarts>>

(* The channel says no, cannot send cards, or took more than 30 seconds.   *)
SendFails(r) ==
  /\ task[r] = "sending"
  /\ Settle(r, "cancelled")
  /\ Return(r, "undelivered")
  /\ UNCHANGED <<expired, signalled, interrupts, restarts>>

(* The send ends with an exception request() does not catch.               *)
SendRaises(r) ==
  /\ task[r] = "sending"
  /\ Return(r, "raised")
  /\ UNCHANGED <<record, expired, signalled, stored, interrupts, restarts>>

(* wait_for's timer cancels the future; the requester has yet to resume.   *)
TimerFires(r) ==
  /\ task[r] = "waiting" /\ r \notin expired
  /\ expired' = expired \cup {r}
  /\ future' = [future EXCEPT ![r] = IF @ = "pending" THEN "cancelled" ELSE @]
  /\ UNCHANGED <<task, result, record, live, signalled, stored, interrupts,
                 restarts>>

ResumeAborted(r) ==
  /\ \/ task[r] = "waiting" /\ future[r] = "aborted"
     \/ task[r] \in {"sending", "waiting"} /\ r \in signalled
  /\ Settle(r, "cancelled")
  /\ Return(r, "cancelled")
  /\ UNCHANGED <<expired, signalled, interrupts, restarts>>

(* Python 3.12 raises TimeoutError even when the answer came in time.      *)
ResumeExpired(r) ==
  /\ task[r] = "waiting" /\ r \in expired /\ r \notin signalled
  /\ Settle(r, "timeout")
  /\ Return(r, "timeout")
  /\ UNCHANGED <<expired, signalled, interrupts, restarts>>

(* Mutant: the requester reads the future before it is done.               *)
ResumeUnanswered(r) ==
  /\ task[r] = "waiting" /\ r \notin signalled
  /\ Return(r, future[r])
  /\ UNCHANGED <<record, expired, signalled, stored, interrupts, restarts>>

(* Python 3.11 looks at the future first.                                  *)
ResumeAnswered(r) ==
  /\ task[r] = "waiting" /\ future[r] \in Answer /\ r \notin signalled
  /\ Return(r, future[r])
  /\ UNCHANGED <<record, expired, signalled, stored, interrupts, restarts>>

(* Mutant: the requester does not notice that its time is over.            *)
ResumeWithoutTimer(r) == ResumeAborted(r) \/ ResumeAnswered(r)

Resume(r) == ResumeAborted(r) \/ ResumeExpired(r) \/ ResumeAnswered(r)

(* The modal is answered, runs out of time or does not exist.              *)
ModalEnds(r) ==
  /\ task[r] = "modal"
  /\ \E outcome \in Terminal :
       /\ Settle(r, outcome)
       /\ Return(r, IF outcome = "cancelled" THEN "undelivered" ELSE outcome)
  /\ UNCHANGED <<expired, signalled, interrupts, restarts>>

(* The modal ends with an exception that is neither its absence nor its    *)
(* timeout.                                                                *)
ModalRaises(r) ==
  /\ task[r] = "modal"
  /\ Return(r, "raised")
  /\ UNCHANGED <<record, expired, signalled, stored, interrupts, restarts>>

(* CancelledError: only the finally runs.                                  *)
TaskCancelled(r) ==
  /\ r \in Cancellable
  /\ task[r] = "modal" \/ (task[r] \in {"sending", "waiting"} /\ r \notin signalled)
  /\ Return(r, "dead")
  /\ UNCHANGED <<record, expired, signalled, stored, interrupts, restarts>>

-----------------------------------------------------------------------------
(* The ends and the user *)

(* Only what was sent to an end can be answered there, be it too late.     *)
Answerable(r) == future[r] # "none"

(* Mutant: an answered or settled request may be answered again.           *)
ReplyAgain(r, answer) ==
  /\ Answerable(r) /\ record[r] # "none"
  /\ record' = [record EXCEPT ![r] = answer]
  /\ stored' = record'
  /\ future' = [future EXCEPT ![r] = IF @ = "pending" THEN answer ELSE @]
  /\ UNCHANGED <<task, result, live, expired, signalled, interrupts, restarts>>

(* resolve: the first reply settles the record and wakes the requester.    *)
Reply(r, answer) ==
  /\ Answerable(r) /\ record[r] = "pending"
  /\ Settle(r, answer)
  /\ future' = [future EXCEPT ![r] = IF @ = "pending" THEN answer ELSE @]
  /\ UNCHANGED <<task, result, live, expired, signalled, interrupts, restarts>>

(* An interruption raises the signal of one turn and cancels every live    *)
(* request of the process, whatever session it belongs to.                 *)
CancelAll(S) ==
  /\ interrupts < MaxInterrupts
  /\ interrupts' = interrupts + 1
  /\ signalled' = signalled \cup S
  /\ record' = [r \in Request |->
                  IF r \in live /\ record[r] = "pending" THEN "cancelled" ELSE record[r]]
  /\ stored' = IF record' = record THEN stored ELSE record'
  /\ future' = [r \in Request |->
                  IF r \in live /\ future[r] = "pending" THEN "aborted" ELSE future[r]]
  /\ UNCHANGED <<task, result, live, expired, restarts>>

-----------------------------------------------------------------------------
(* The process *)

(* Mutant: what was pending stays pending.                                 *)
LoadedAsIs == stored

(* _load: what was pending is over, its future died with the process.      *)
Loaded == [r \in Request |-> IF stored[r] = "pending" THEN "cancelled" ELSE stored[r]]

(* The process dies and a new one loads the file, without saving it.       *)
Restart ==
  /\ restarts < MaxRestarts
  /\ restarts' = restarts + 1
  /\ record' = Loaded
  /\ task' = [r \in Request |-> IF task[r] = "idle" THEN "idle" ELSE "returned"]
  /\ result' = [r \in Request |->
                  IF task[r] \in {"idle", "returned"} THEN result[r] ELSE "dead"]
  /\ live' = {} /\ expired' = {} /\ signalled' = {}
  /\ future' = [r \in Request |-> IF future[r] = "none" THEN "none" ELSE "cancelled"]
  /\ UNCHANGED <<stored, interrupts>>

-----------------------------------------------------------------------------

Deliver(r) == Sent(r) \/ SendFails(r) \/ SendRaises(r)
Modal(r) == ModalEnds(r) \/ ModalRaises(r)

Next ==
  \/ \E r \in Request :
       \/ Ask(r) \/ AskModal(r)
       \/ Deliver(r) \/ TimerFires(r) \/ Resume(r) \/ Modal(r)
       \/ TaskCancelled(r)
       \/ \E answer \in Answer : Reply(r, answer)
  \/ \E r \in Request : CancelAll({r})
  \/ Restart

(* Sends, waits and modals have timeouts; a woken coroutine resumes.       *)
Fairness ==
  \A r \in Request :
    /\ WF_vars(Deliver(r)) /\ WF_vars(TimerFires(r))
    /\ WF_vars(Resume(r)) /\ WF_vars(Modal(r))

Safety == Init /\ [][Next]_vars
Spec == Safety /\ Fairness

-----------------------------------------------------------------------------
(* Properties *)

TypeOK ==
  /\ task \in [Request -> Task] /\ result \in [Request -> Result]
  /\ record \in [Request -> Record] /\ future \in [Request -> Future]
  /\ live \subseteq Request /\ expired \subseteq Request /\ signalled \subseteq Request
  /\ stored \in [Request -> Record]
  /\ interrupts \in Nat /\ restarts \in Nat

(* A tool is told "yes" only when the record every end is shown says       *)
(* approved, through late replies, timeouts, interruptions and restarts    *)
(* (approval_center.py:287, 373).                                          *)
FailClosed == \A r \in Request : result[r] = "approved" => record[r] = "approved"

(* What an end has been shown as final stays final, a restart included:    *)
(* no second reply, timer or reload changes the outcome (_settle, _load).  *)
OutcomeIsFinal ==
  [][\A r \in Request : record[r] \in Terminal => record'[r] = record[r]]_vars

(* Someone waits for the answer to the card.                               *)
Waited(r) == task[r] \in {"sending", "waiting", "modal"}

(* A card without anyone who waits for the answer: no reply, timer, failed *)
(* send, interruption or restart leaves one.  Two ways out of request() do *)
(* (approval_center.py:269, 318): the cancellation of its task, and an     *)
(* exception of the send or the modal that it does not catch.              *)
OnlyExceptionsDangle ==
  \A r \in Request : record[r] = "pending" =>
    \/ Waited(r)
    \/ r \in Cancellable /\ result[r] = "dead"
    \/ result[r] = "raised"

(* No requester waits for ever.                                            *)
EveryRequestReturns ==
  \A r \in Request : Waited(r) ~> task[r] = "returned"
=============================================================================
