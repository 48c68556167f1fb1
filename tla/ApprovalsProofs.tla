--------------------------- MODULE ApprovalsProofs ---------------------------
(***************************************************************************)
(* Proofs about Approvals for any number of requests, interruptions and    *)
(* restarts, whatever tasks may be cancelled.                              *)
(***************************************************************************)
EXTENDS Approvals, TLAPS

(* An answer in the future is the answer in the record; a modal request is *)
(* settled by nobody else; the file lags behind the record only after a    *)
(* restart, and then it would be read the same way again.                  *)
Consistent ==
  /\ \A r \in Request : future[r] \in Answer => record[r] = future[r]
  /\ \A r \in Request : task[r] = "modal" => record[r] = "pending" /\ future[r] = "none"
  /\ \A r \in Request : task[r] = "idle" =>
       record[r] = "none" /\ result[r] = "none" /\ future[r] = "none"
  /\ \A r \in Request : r \in live => future[r] # "none"
  /\ \A r \in Request : stored[r] = record[r] \/ (stored[r] = "pending" /\ record[r] = "cancelled")
  /\ FailClosed

Inv == TypeOK /\ Consistent

(* Settling touches one record and never a terminal one.                   *)
LEMMA SettleFacts ==
  ASSUME TypeOK, NEW r \in Request, NEW outcome \in Terminal, Settle(r, outcome)
  PROVE  /\ record' \in [Request -> Record] /\ stored' \in [Request -> Record]
         /\ \A q \in Request : q # r => record'[q] = record[q]
         /\ record'[r] = IF record[r] = "pending" THEN outcome ELSE record[r]
         /\ \/ stored' = record'
            \/ stored' = stored /\ record' = record
  <1>1. CASE record[r] = "pending"
    BY <1>1 DEF Settle, TypeOK, Record
  <1>2. CASE record[r] # "pending"
    BY <1>2 DEF Settle, TypeOK
  <1> QED BY <1>1, <1>2

(* request() ends: one task, one result; no future gets an answer.         *)
LEMMA ReturnFacts ==
  ASSUME TypeOK, NEW r \in Request, NEW what \in Result, Return(r, what)
  PROVE  /\ task' \in [Request -> Task] /\ result' \in [Request -> Result]
         /\ future' \in [Request -> Future] /\ live' \subseteq Request
         /\ task'[r] = "returned" /\ result'[r] = what
         /\ live' = live \ {r}
         /\ \A q \in Request : q # r => /\ task'[q] = task[q] /\ result'[q] = result[q]
                                        /\ future'[q] = future[q]
         /\ future'[r] = IF future[r] = "pending" THEN "cancelled" ELSE future[r]
  BY DEF Return, TypeOK, Task, Future

LEMMA InitInv == Init => Inv
  BY DEF Init, Inv, TypeOK, Consistent, FailClosed, Task, Result, Record, Future, Answer, Terminal

LEMMA TypePreserved == ASSUME TypeOK, [Next]_vars PROVE TypeOK'
  <1> USE DEF Answer, Terminal
  <1>1. ASSUME NEW r \in Request, Ask(r) PROVE TypeOK'
    BY <1>1 DEF Ask, Opened, TypeOK, Task, Record, Future
  <1>2. ASSUME NEW r \in Request, AskModal(r) PROVE TypeOK'
    BY <1>2 DEF AskModal, Opened, TypeOK, Task, Record, Future
  <1>3. ASSUME NEW r \in Request, Sent(r) PROVE TypeOK'
    BY <1>3 DEF Sent, TypeOK, Task
  <1>4. ASSUME NEW r \in Request, SendFails(r) PROVE TypeOK'
    BY <1>4, SettleFacts, ReturnFacts DEF SendFails, TypeOK, Result
  <1>5. ASSUME NEW r \in Request, TimerFires(r) PROVE TypeOK'
    BY <1>5 DEF TimerFires, TypeOK, Future
  <1>6. ASSUME NEW r \in Request, ResumeAborted(r) PROVE TypeOK'
    BY <1>6, SettleFacts, ReturnFacts DEF ResumeAborted, TypeOK, Result
  <1>7. ASSUME NEW r \in Request, ResumeExpired(r) PROVE TypeOK'
    BY <1>7, SettleFacts, ReturnFacts DEF ResumeExpired, TypeOK, Result
  <1>8. ASSUME NEW r \in Request, ResumeAnswered(r) PROVE TypeOK'
    BY <1>8, ReturnFacts DEF ResumeAnswered, TypeOK, Result
  <1>9. ASSUME NEW r \in Request, ModalEnds(r) PROVE TypeOK'
    <2>1. PICK outcome \in Terminal :
            /\ Settle(r, outcome)
            /\ Return(r, IF outcome = "cancelled" THEN "undelivered" ELSE outcome)
      BY <1>9 DEF ModalEnds
    <2> QED BY <1>9, <2>1, SettleFacts, ReturnFacts DEF ModalEnds, TypeOK, Result
  <1>10. ASSUME NEW r \in Request, TaskCancelled(r) PROVE TypeOK'
    BY <1>10, ReturnFacts DEF TaskCancelled, TypeOK, Result
  <1>11. ASSUME NEW r \in Request, NEW answer \in Answer, Reply(r, answer) PROVE TypeOK'
    BY <1>11, SettleFacts DEF Reply, TypeOK, Future
  <1>12. ASSUME NEW r \in Request, CancelAll({r}) PROVE TypeOK'
    BY <1>12 DEF CancelAll, TypeOK, Record, Future
  <1>13. CASE Restart
    BY <1>13 DEF Restart, Loaded, TypeOK, Task, Result, Record, Future
  <1>14. CASE UNCHANGED vars
    BY <1>14 DEF vars, TypeOK
  <1>15. ASSUME NEW r \in Request, SendRaises(r) \/ ModalRaises(r) PROVE TypeOK'
    BY <1>15, ReturnFacts DEF SendRaises, ModalRaises, TypeOK, Result
  <1> QED BY <1>1, <1>2, <1>3, <1>4, <1>5, <1>6, <1>7, <1>8, <1>9, <1>10, <1>11, <1>12,
             <1>13, <1>14, <1>15 DEF Next, Deliver, Resume, Modal

(* No step changes a terminal record.                                      *)
Final == \A r \in Request : record[r] \in Terminal => record'[r] = record[r]

LEMMA ConsistentPreserved ==
  ASSUME TypeOK, Consistent, [Next]_vars PROVE Consistent' /\ Final
  <1> USE DEF Answer, Terminal, Consistent, FailClosed, Final
  <1>1. ASSUME NEW r \in Request, Ask(r) PROVE Consistent' /\ Final
    BY <1>1 DEF Ask, Opened, TypeOK, Record
  <1>2. ASSUME NEW r \in Request, AskModal(r) PROVE Consistent' /\ Final
    BY <1>2 DEF AskModal, Opened, TypeOK, Record
  <1>3. ASSUME NEW r \in Request, Sent(r) PROVE Consistent' /\ Final
    BY <1>3 DEF Sent, TypeOK
  <1>4. ASSUME NEW r \in Request, SendFails(r) PROVE Consistent' /\ Final
    BY <1>4, SettleFacts, ReturnFacts DEF SendFails, Result
  <1>5. ASSUME NEW r \in Request, TimerFires(r) PROVE Consistent' /\ Final
    BY <1>5 DEF TimerFires, TypeOK, Future
  <1>6. ASSUME NEW r \in Request, ResumeAborted(r) PROVE Consistent' /\ Final
    BY <1>6, SettleFacts, ReturnFacts DEF ResumeAborted, Result
  <1>7. ASSUME NEW r \in Request, ResumeExpired(r) PROVE Consistent' /\ Final
    BY <1>7, SettleFacts, ReturnFacts DEF ResumeExpired, Result
  <1>8. ASSUME NEW r \in Request, ResumeAnswered(r) PROVE Consistent' /\ Final
    BY <1>8, ReturnFacts DEF ResumeAnswered, Result
  <1>9. ASSUME NEW r \in Request, ModalEnds(r) PROVE Consistent' /\ Final
    <2>1. PICK outcome \in Terminal :
            /\ Settle(r, outcome)
            /\ Return(r, IF outcome = "cancelled" THEN "undelivered" ELSE outcome)
      BY <1>9 DEF ModalEnds
    <2> QED BY <1>9, <2>1, SettleFacts, ReturnFacts DEF ModalEnds, Result
  <1>10. ASSUME NEW r \in Request, TaskCancelled(r) PROVE Consistent' /\ Final
    BY <1>10, ReturnFacts DEF TaskCancelled, Result
  <1>11. ASSUME NEW r \in Request, NEW answer \in Answer, Reply(r, answer)
         PROVE Consistent' /\ Final
    BY <1>11, SettleFacts DEF Reply, Answerable, TypeOK, Future
  <1>12. ASSUME NEW r \in Request, CancelAll({r}) PROVE Consistent' /\ Final
    BY <1>12 DEF CancelAll, TypeOK
  <1>13. CASE Restart
    BY <1>13 DEF Restart, Loaded, TypeOK
  <1>14. CASE UNCHANGED vars
    BY <1>14 DEF vars
  <1>15. ASSUME NEW r \in Request, SendRaises(r) \/ ModalRaises(r) PROVE Consistent' /\ Final
    BY <1>15, ReturnFacts DEF SendRaises, ModalRaises, Result
  <1> QED BY <1>1, <1>2, <1>3, <1>4, <1>5, <1>6, <1>7, <1>8, <1>9, <1>10, <1>11, <1>12,
             <1>13, <1>14, <1>15 DEF Next, Deliver, Resume, Modal

(* Every way out but an exception that nobody catches settles the record.  *)
LEMMA RequesterPreserved ==
  ASSUME TypeOK, Consistent, OnlyExceptionsDangle, [Next]_vars
  PROVE  OnlyExceptionsDangle'
  <1> USE DEF Answer, Terminal, OnlyExceptionsDangle, Waited
  <1>1. ASSUME NEW r \in Request, Ask(r) \/ AskModal(r) PROVE OnlyExceptionsDangle'
    BY <1>1 DEF Ask, AskModal, Opened, TypeOK
  <1>2. ASSUME NEW r \in Request, Sent(r) \/ TimerFires(r) PROVE OnlyExceptionsDangle'
    BY <1>2 DEF Sent, TimerFires, TypeOK
  <1>3. ASSUME NEW r \in Request, SendFails(r) PROVE OnlyExceptionsDangle'
    BY <1>3, SettleFacts, ReturnFacts DEF SendFails, Result
  <1>4. ASSUME NEW r \in Request, ResumeAborted(r) PROVE OnlyExceptionsDangle'
    BY <1>4, SettleFacts, ReturnFacts DEF ResumeAborted, Result
  <1>5. ASSUME NEW r \in Request, ResumeExpired(r) PROVE OnlyExceptionsDangle'
    BY <1>5, SettleFacts, ReturnFacts DEF ResumeExpired, Result
  <1>6. ASSUME NEW r \in Request, ResumeAnswered(r) PROVE OnlyExceptionsDangle'
    BY <1>6, ReturnFacts DEF ResumeAnswered, Consistent, Result
  <1>7. ASSUME NEW r \in Request, ModalEnds(r) PROVE OnlyExceptionsDangle'
    <2>1. PICK outcome \in Terminal :
            /\ Settle(r, outcome)
            /\ Return(r, IF outcome = "cancelled" THEN "undelivered" ELSE outcome)
      BY <1>7 DEF ModalEnds
    <2> QED BY <2>1, SettleFacts, ReturnFacts DEF Result
  <1>8. ASSUME NEW r \in Request, TaskCancelled(r) PROVE OnlyExceptionsDangle'
    BY <1>8, ReturnFacts DEF TaskCancelled, Result
  <1>9. ASSUME NEW r \in Request, NEW answer \in Answer, Reply(r, answer)
        PROVE OnlyExceptionsDangle'
    BY <1>9, SettleFacts DEF Reply
  <1>10. ASSUME NEW r \in Request, CancelAll({r}) PROVE OnlyExceptionsDangle'
    BY <1>10 DEF CancelAll, TypeOK
  <1>11. CASE Restart
    BY <1>11 DEF Restart, Loaded, TypeOK
  <1>12. CASE UNCHANGED vars
    BY <1>12 DEF vars
  <1>13. ASSUME NEW r \in Request, SendRaises(r) \/ ModalRaises(r)
         PROVE OnlyExceptionsDangle'
    BY <1>13, ReturnFacts DEF SendRaises, ModalRaises, Result
  <1> QED BY <1>1, <1>2, <1>3, <1>4, <1>5, <1>6, <1>7, <1>8, <1>9, <1>10, <1>11, <1>12,
             <1>13 DEF Next, Deliver, Resume, Modal

(* The variables keep their types and the invariant holds throughout.      *)
THEOREM ApprovalInvariant == Spec => []Inv
  <1>1. Init => Inv BY InitInv
  <1>2. Inv /\ [Next]_vars => Inv' BY TypePreserved, ConsistentPreserved DEF Inv
  <1> QED BY <1>1, <1>2, PTL DEF Spec, Safety

(* Every variable of the centre keeps its type, over restarts as well.     *)
THEOREM RequestsTyped == Spec => []TypeOK
  <1>1. Inv => TypeOK BY DEF Inv
  <1> QED BY <1>1, ApprovalInvariant, PTL

(* A tool is never told "yes" against the record.                          *)
THEOREM NeverApprovedAgainstTheRecord == Spec => []FailClosed
  <1>1. Inv => FailClosed BY DEF Inv, Consistent
  <1> QED BY <1>1, ApprovalInvariant, PTL

(* Once terminal, an outcome never changes, not by a restart either.       *)
THEOREM FinalForGood == Spec => OutcomeIsFinal
  <1>1. Inv /\ [Next]_vars
          => [\A r \in Request : record[r] \in Terminal => record'[r] = record[r]]_vars
    BY ConsistentPreserved DEF Inv, Final
  <1> QED BY <1>1, ApprovalInvariant, PTL DEF Spec, Safety, OutcomeIsFinal

(* No card stays answerable without someone who waits for the answer,      *)
(* unless the requester's task was cancelled or its send or modal ended    *)
(* with an exception that request() does not catch.                        *)
THEOREM PendingIsWaitedFor == Spec => []OnlyExceptionsDangle
  <1>1. Init => OnlyExceptionsDangle BY DEF Init, OnlyExceptionsDangle
  <1>2. Inv /\ OnlyExceptionsDangle /\ [Next]_vars => OnlyExceptionsDangle'
    BY RequesterPreserved DEF Inv
  <1> QED BY <1>1, <1>2, ApprovalInvariant, PTL DEF Spec, Safety
=============================================================================
