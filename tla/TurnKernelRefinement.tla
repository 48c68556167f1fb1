------------------------ MODULE TurnKernelRefinement ------------------------
(***************************************************************************)
(* The kernel keeps the promise of SerialTurns, for any number of          *)
(* messages, resets and compactions: every step of TurnKernel is a step of *)
(* SerialTurns or changes nothing that SerialTurns shows.                  *)
(*                                                                         *)
(* The line of SerialTurns is the TurnQueue, the next turn is whoever the  *)
(* lock wakes.  That the two agree needs the order of the TurnQueue beside *)
(* KernelInv, which knows the order of the lock's waiters.                 *)
(***************************************************************************)
EXTENDS TurnKernelProofs

(* Removing the oldest entry is taking the tail.                           *)
LEMMA WithoutHead ==
  ASSUME NEW S, NEW seq \in Seq(S), seq # <<>>, NoRepeats(seq)
  PROVE  Without(seq, seq[1]) = Tail(seq)
<1> DEFINE at == CHOOSE i \in DOMAIN seq : seq[i] = seq[1]
<1>1. Len(seq) \in Nat \ {0} /\ DOMAIN seq = 1 .. Len(seq)
  BY EmptySeq, LenProperties
<1>2. at \in DOMAIN seq /\ seq[at] = seq[1]
  BY <1>1
<1>3. at = 1
  BY <1>1, <1>2 DEF NoRepeats
<1>4. seq[1] \in Elements(seq)
  BY <1>1 DEF Elements
<1>5. Without(seq, seq[1]) = [i \in 1 .. Len(seq) - 1 |-> IF i < at THEN seq[i] ELSE seq[i + 1]]
  BY <1>4 DEF Without
<1> HIDE DEF at
<1>6. Without(seq, seq[1]) = [i \in 1 .. Len(seq) - 1 |-> seq[i + 1]]
  <2>1. \A i \in 1 .. Len(seq) - 1 : ~(i < at)
    BY <1>1, <1>3
  <2> QED
    BY <1>5, <2>1, Zenon
<1>7. Tail(seq) = [i \in 1 .. Len(seq) - 1 |-> seq[i + 1]]
  <2> DEFINE rest == [i \in 1 .. Len(seq) - 1 |-> seq[i + 1]]
  <2>1. /\ Tail(seq) \in Seq(S) /\ Len(Tail(seq)) = Len(seq) - 1
        /\ \A i \in 1 .. Len(seq) - 1 : Tail(seq)[i] = seq[i + 1]
    BY HeadTailProperties
  <2>2. \A i \in 1 .. Len(seq) - 1 : seq[i + 1] \in S
    BY <1>1
  <2>3. rest \in Seq(S)
    BY <1>1, <2>2, IsASeq
  <2>4. Len(rest) = Len(seq) - 1
    BY <1>1, <2>3, LenProperties
  <2>5. \A i \in 1 .. Len(seq) - 1 : rest[i] = seq[i + 1]
    OBVIOUS
  <2> HIDE DEF rest
  <2>6. Tail(seq) = rest
    BY <2>1, <2>3, <2>4, <2>5, SeqEqual
  <2> QED
    BY <2>6 DEF rest
<1> QED
  BY <1>6, <1>7

(* What is left of a sorted queue is sorted.                               *)
LEMMA SortedWithout ==
  ASSUME NEW S, NEW seq \in Seq(S), NEW t, Sorted(seq)
  PROVE  Sorted(Without(seq, t))
<1>1. CASE t \notin Elements(seq)
  BY <1>1 DEF Without
<1>2. CASE t \in Elements(seq)
  <2> DEFINE at == CHOOSE i \in DOMAIN seq : seq[i] = t
             rest == [i \in 1 .. Len(seq) - 1 |-> IF i < at THEN seq[i] ELSE seq[i + 1]]
             old(k) == IF k < at THEN k ELSE k + 1
  <2>1. Len(seq) \in Nat /\ DOMAIN seq = 1 .. Len(seq)
    OBVIOUS
  <2>2. at \in 1 .. Len(seq)
    BY <1>2, <2>1 DEF Elements
  <2>3. Without(seq, t) = rest
    BY <1>2 DEF Without
  <2> HIDE DEF at
  <2>4. \A k \in 1 .. Len(seq) - 1 : old(k) \in 1 .. Len(seq) /\ rest[k] = seq[old(k)]
    BY <2>1, <2>2
  <2>5. \A i, j \in 1 .. Len(seq) - 1 : i < j => old(i) < old(j)
    BY <2>1, <2>2
  <2>6. DOMAIN rest = 1 .. Len(seq) - 1
    OBVIOUS
  <2> HIDE DEF rest, old
  <2>7. Sorted(rest)
    BY <2>1, <2>4, <2>5, <2>6 DEF Sorted
  <2> QED
    BY <2>3, <2>7
<1> QED
  BY <1>1, <1>2

(* A step that leaves the queue and its tickets alone leaves it sorted.    *)
LEMMA SortedFrame ==
  ASSUME TypeOK, Sorted(turnQueue), turnQueue' = turnQueue,
         \A t \in Elements(turnQueue) : ticket'[t] = ticket[t]
  PROVE  Sorted(turnQueue)'
  BY DEF Sorted, Elements

(* The message that the lock wakes is the first of the queue.              *)
LEMMA WokenIsFirst ==
  ASSUME KernelInv, Sorted(turnQueue),
         NEW t \in Turn, pc[t] = "waiting", t \notin cancelled, WokenUp(t)
  PROVE  /\ turnQueue # <<>> /\ Head(turnQueue) = t
         /\ Without(turnQueue, t) = Tail(turnQueue)
<1>1. t \in Elements(turnQueue)
  BY DEF KernelInv, QueueInv
<1>2. turnQueue \in Seq(Turn) /\ turnQueue # <<>>
  BY <1>1, ElementsOfEmpty DEF KernelInv, TypeOK
<1>3. Len(turnQueue) \in Nat \ {0} /\ DOMAIN turnQueue = 1 .. Len(turnQueue)
  BY <1>2, EmptySeq, LenProperties
<1>4. /\ waiters \in Seq(Waiter) /\ waiters # <<>> /\ waiters[1] = t
  BY DEF KernelInv, TypeOK, WokenUp
<1>5. Len(waiters) \in Nat \ {0} /\ DOMAIN waiters = 1 .. Len(waiters)
  BY <1>4, EmptySeq, LenProperties
<1>6. turnQueue[1] \in Turn /\ turnQueue[1] \in Elements(waiters)
  <2>1. turnQueue[1] \in Elements(turnQueue) /\ turnQueue[1] \in Turn
    BY <1>2, <1>3 DEF Elements
  <2> QED
    BY <2>1 DEF KernelInv, QueueInv, ArrivalInv
<1>7. PICK i \in 1 .. Len(turnQueue) : turnQueue[i] = t
  BY <1>1, <1>3 DEF Elements
<1>8. PICK j \in 1 .. Len(waiters) : waiters[j] = turnQueue[1]
  BY <1>5, <1>6 DEF Elements
<1>9. turnQueue[1] = t
  <2> SUFFICES ASSUME turnQueue[1] # t PROVE FALSE
    OBVIOUS
  <2>1. 1 < i /\ 1 < j
    BY <1>4, <1>7, <1>8
  <2>2. ticket[t] < ticket[turnQueue[1]]
    BY <2>1, <1>4, <1>5, <1>6, <1>8 DEF KernelInv, ArrivalInv, Sorted
  <2>3. ticket[turnQueue[1]] < ticket[t]
    BY <2>1, <1>3, <1>6, <1>7 DEF Sorted
  <2>4. ticket[t] \in Nat /\ ticket[turnQueue[1]] \in Nat
    BY <1>6 DEF KernelInv, TypeOK
  <2> QED
    BY <2>2, <2>3, <2>4
<1> QED
  BY <1>2, <1>9, WithoutHead DEF KernelInv, QueueInv

-----------------------------------------------------------------------------
(* Whoever gets the lock only to leave a note was cancelled before.        *)
Discarding == \A t \in Turn : pc[t] = "discarding" => t \in cancelled

PromiseInv == KernelInv /\ Sorted(turnQueue) /\ Discarding

(* What a step of the kernel is for SerialTurns.                           *)
Simulated == [Promise!Next]_(Promise!promise)

Kept == Simulated /\ Sorted(turnQueue)' /\ Discarding'

(* What SerialTurns does not see: the phases of a turn, the resets, the    *)
(* compactions and the context.                                            *)
LEMMA UnseenStep ==
  ASSUME TypeOK, Sorted(turnQueue), Discarding,
         UNCHANGED <<holder, turnQueue, cancelled, ticket>>,
         \A t \in Turn : /\ Ended(t)' <=> Ended(t)
                         /\ pc'[t] = "discarding" => pc[t] = "discarding"
  PROVE  Kept
<1>1. Sorted(turnQueue)'
  BY SortedFrame
<1>2. {t \in Turn : Ended(t)}' = {t \in Turn : Ended(t)}
  <2>1. \A t \in Turn : Ended(t)' <=> Ended(t)
    BY DEF Ended
  <2> QED
    BY <2>1, Zenon
<1> QED
  BY <1>1, <1>2 DEF Kept, Simulated, Discarding, Promise!promise

(* An interruption cancels the line, or finds nobody in it.                *)
LEMMA CancelStep ==
  ASSUME PromiseInv, CancelQueue, UNCHANGED <<pc, holder>>
  PROVE  Kept
<1>1. turnQueue' = <<>> /\ cancelled' = cancelled \cup Elements(turnQueue)
  BY DEF CancelQueue
<1>2. Sorted(turnQueue)'
  BY <1>1 DEF Sorted
<1> KernelInv
  BY DEF PromiseInv
<1>7. Discarding'
  BY <1>1 DEF PromiseInv, Discarding
<1>3. (holder \in cancelled') = (holder \in cancelled)
  <2>1. ASSUME holder \in Elements(turnQueue) PROVE FALSE
    <3>1. holder \in Turn
      BY <2>1, ElementsAreMembers DEF KernelInv, TypeOK
    <3>2. InLock(holder) /\ pc[holder] = "waiting"
      BY <2>1, <3>1 DEF KernelInv, LockInv, QueueInv
    <3> QED
      BY <3>2 DEF InLock, Executing, InLoop, Leaving
  <2> QED
    BY <1>1, <2>1
<1>4. \A t \in Turn : Ended(t)' <=> Ended(t)
  BY DEF Ended
<1>5. CASE turnQueue = <<>>
  <2>1. turnQueue' = turnQueue /\ cancelled' = cancelled
    BY <1>1, <1>5, ElementsOfEmpty
  <2>2. {t \in Turn : Ended(t)}' = {t \in Turn : Ended(t)}
    BY <1>4, Zenon
  <2>3. UNCHANGED Promise!promise
    BY <2>1, <2>2 DEF Promise!promise
  <2> QED
    BY <1>2, <1>7, <2>3 DEF Kept, Simulated
<1>6. CASE turnQueue # <<>>
  <2>1. Promise!CancelLine
    BY <1>1, <1>3, <1>4, <1>6 DEF Promise!CancelLine, Elements
  <2> QED
    BY <1>2, <1>7, <2>1 DEF Kept, Simulated, Promise!Next
<1> QED
  BY <1>5, <1>6

(* Every step of the kernel keeps the promise, and the queue sorted.       *)
LEMMA StepSimulated ==
  ASSUME PromiseInv, [Next]_vars
  PROVE  Kept
<1> USE DEF lockVars, queueVars, runtimeVars, contextVars, ghostVars
<1> KernelInv /\ TypeOK /\ Sorted(turnQueue) /\ Discarding
  BY DEF PromiseInv, KernelInv
<1>1. ASSUME NEW t \in Turn, SubmitRejected(t) PROVE Kept
  <2>1. Sorted(turnQueue)'
    BY <1>1, SortedFrame DEF SubmitRejected
  <2>2. ~Ended(t) /\ t \notin cancelled /\ t \notin Elements(turnQueue) /\ t # holder /\ t # Nobody
    BY <1>1, DistinctActors DEF SubmitRejected, KernelInv, QueueInv, LockInv, Ended, InLock, Executing, InLoop, Leaving
  <2>3. \A u \in Turn : Ended(u)' <=> Ended(u) \/ u = t
    BY <1>1 DEF SubmitRejected, Ended, TypeOK
  <2>4. Promise!Refuse(t)
    BY <1>1, <2>2, <2>3 DEF SubmitRejected, Promise!Refuse, Promise!Fresh, Promise!InLine, Elements
  <2>9. Discarding'
    BY <1>1 DEF SubmitRejected, Discarding, TypeOK
  <2> QED
    BY <2>1, <2>4, <2>9 DEF Kept, Simulated, Promise!Next
<1>2. ASSUME NEW t \in Turn, SubmitStart(t) PROVE Kept
  <2>1. ~Ended(t) /\ t \notin cancelled /\ t \notin Elements(turnQueue) /\ t # Nobody
    BY <1>2, DistinctActors DEF SubmitStart, KernelInv, QueueInv, Ended
  <2>2. Sorted(turnQueue)'
    BY <1>2, <2>1, SortedFrame, ElementsAreMembers DEF SubmitStart, Enqueued, TypeOK
  <2>3. turnQueue = <<>> /\ holder = Nobody
    <3>1. waiters = <<>> /\ holder = Nobody
      BY <1>2 DEF SubmitStart, LockAvailable
    <3>2. \A u \in Turn : u \notin Elements(turnQueue)
      BY <3>1, ElementsOfEmpty DEF KernelInv, QueueInv, ArrivalInv
    <3>3. Elements(turnQueue) = {}
      BY <3>2, ElementsAreMembers DEF TypeOK
    <3>4. turnQueue = <<>> \/ turnQueue[1] \in Elements(turnQueue)
      BY EmptySeq, LenProperties DEF TypeOK, Elements
    <3> QED
      BY <3>1, <3>3, <3>4
  <2>4. \A u \in Turn : Ended(u)' <=> Ended(u)
    BY <1>2 DEF SubmitStart, Begin, Ended, TypeOK
  <2>5. Promise!Accept(t)
    BY <1>2, <2>1, <2>3, <2>4 DEF SubmitStart, Begin, Promise!Accept, Promise!Fresh, Promise!InLine, Elements
  <2>9. Discarding'
    BY <1>2 DEF SubmitStart, Begin, Discarding, TypeOK
  <2> QED
    BY <2>2, <2>5, <2>9 DEF Kept, Simulated, Promise!Next
<1>3. ASSUME NEW t \in Turn, SubmitQueue(t) PROVE Kept
  <2>1. ~Ended(t) /\ t \notin cancelled /\ t \notin Elements(turnQueue) /\ t # holder /\ t # Nobody
    BY <1>3, DistinctActors DEF SubmitQueue, KernelInv, QueueInv, LockInv, Ended, InLock, Executing, InLoop, Leaving
  <2>2. \A u \in Turn : Ended(u)' <=> Ended(u)
    BY <1>3 DEF SubmitQueue, Ended, TypeOK
  <2>3. Promise!Accept(t)
    BY <1>3, <2>1, <2>2 DEF SubmitQueue, Promise!Accept, Promise!Fresh, Promise!InLine, Elements
  <2>4. Sorted(turnQueue)'
    <3> DEFINE n == Len(turnQueue)
    <3>1. /\ n \in Nat /\ DOMAIN turnQueue = 1 .. n /\ DOMAIN turnQueue' = 1 .. n + 1
          /\ turnQueue'[n + 1] = t /\ \A i \in 1 .. n : turnQueue'[i] = turnQueue[i]
      BY <1>3, AppendProperties DEF SubmitQueue, TypeOK
    <3>2. \A i \in 1 .. n : /\ turnQueue[i] \in Turn /\ turnQueue[i] # t
                            /\ ticket[turnQueue[i]] \in Nat
                            /\ ticket[turnQueue[i]] <= arrivals
                            /\ ticket'[turnQueue[i]] = ticket[turnQueue[i]]
      <4> SUFFICES ASSUME NEW i \in 1 .. n
                   PROVE  /\ turnQueue[i] \in Turn /\ turnQueue[i] # t
                          /\ ticket[turnQueue[i]] \in Nat
                          /\ ticket[turnQueue[i]] <= arrivals
                          /\ ticket'[turnQueue[i]] = ticket[turnQueue[i]]
        OBVIOUS
      <4>1. turnQueue[i] \in Elements(turnQueue)
        BY <3>1 DEF Elements
      <4>2. turnQueue[i] \in Turn /\ turnQueue[i] # t
        BY <2>1, <4>1, ElementsAreMembers DEF TypeOK
      <4> QED
        BY <1>3, <4>2 DEF SubmitQueue, Enqueued, KernelInv, ArrivalInv, TypeOK
    <3>3. ticket'[t] = arrivals + 1 /\ arrivals \in Nat
      BY <1>3 DEF SubmitQueue, Enqueued, TypeOK
    <3> HIDE DEF n
    <3> SUFFICES ASSUME NEW i \in 1 .. n + 1, NEW j \in 1 .. n + 1, i < j
                 PROVE  ticket'[turnQueue'[i]] < ticket'[turnQueue'[j]]
      BY <3>1 DEF Sorted
    <3>4. i \in 1 .. n
      BY <3>1
    <3>5. CASE j = n + 1
      BY <3>1, <3>2, <3>3, <3>4, <3>5
    <3>6. CASE j \in 1 .. n
      BY <3>1, <3>2, <3>4, <3>6 DEF Sorted
    <3> QED
      BY <3>1, <3>5, <3>6
  <2>9. Discarding'
    BY <1>3 DEF SubmitQueue, Discarding, TypeOK
  <2> QED
    BY <2>3, <2>4, <2>9 DEF Kept, Simulated, Promise!Next
<1>4. ASSUME NEW t \in Turn, GetLock(t) PROVE Kept
  <2>1. /\ turnQueue # <<>> /\ Head(turnQueue) = t /\ turnQueue' = Tail(turnQueue)
    BY <1>4, WokenIsFirst DEF GetLock
  <2>2. Sorted(turnQueue)'
    <3>1. Sorted(Without(turnQueue, t))
      BY SortedWithout DEF TypeOK
    <3> QED
      BY <1>4, <3>1 DEF GetLock, Sorted
  <2>3. \A u \in Turn : Ended(u)' <=> Ended(u)
    BY <1>4 DEF GetLock, Begin, Ended, TypeOK
  <2>4. Promise!Start
    BY <1>4, <2>1, <2>3 DEF GetLock, Begin, WokenUp, Promise!Start
  <2>9. Discarding'
    BY <1>4 DEF GetLock, Begin, Discarding, TypeOK
  <2> QED
    BY <2>2, <2>4, <2>9 DEF Kept, Simulated, Promise!Next
<1>5. ASSUME NEW t \in Turn, GetLockCancelled(t) PROVE Kept
  <2>1. turnQueue' = turnQueue
    BY <1>5 DEF GetLockCancelled, KernelInv, QueueInv, Without
  <2>2. Sorted(turnQueue)'
    BY <1>5, <2>1, SortedFrame DEF GetLockCancelled
  <2>3. \A u \in Turn : Ended(u)' <=> Ended(u)
    BY <1>5 DEF GetLockCancelled, Ended, TypeOK
  <2>4. UNCHANGED Promise!promise
    BY <1>5, <2>1, <2>3 DEF GetLockCancelled, WokenUp, Promise!promise
  <2>9. Discarding'
    BY <1>5 DEF GetLockCancelled, Discarding, TypeOK
  <2> QED
    BY <2>2, <2>4, <2>9 DEF Kept, Simulated
<1>6. ASSUME NEW t \in Turn, LeaveDiscard(t) PROVE Kept
  <2>1. Sorted(turnQueue)'
    BY <1>6, SortedFrame DEF LeaveDiscard
  <2>2. holder = t /\ t \in cancelled
    BY <1>6 DEF LeaveDiscard, KernelInv, LockInv , Discarding, InLock
  <2>3. \A u \in Turn : Ended(u)' <=> Ended(u) \/ u = t
    BY <1>6 DEF LeaveDiscard, Ended, TypeOK
  <2>4. UNCHANGED Promise!promise
    BY <1>6, <2>2, <2>3 DEF LeaveDiscard, Promise!promise
  <2>9. Discarding'
    BY <1>6 DEF LeaveDiscard, Discarding, TypeOK
  <2> QED
    BY <2>1, <2>4, <2>9 DEF Kept, Simulated
<1>7. ASSUME NEW t \in Turn, Prepare(t) PROVE Kept
  BY <1>7, UnseenStep DEF Prepare, Ended, TypeOK
<1>8. ASSUME NEW t \in Turn, Write(t) PROVE Kept
  BY <1>8, UnseenStep DEF Write, Ended, TypeOK
<1>9. ASSUME NEW t \in Turn, BeginCompress(t) PROVE Kept
  BY <1>9, UnseenStep DEF BeginCompress, Ended, TypeOK
<1>10. ASSUME NEW t \in Turn, EndCompress(t) PROVE Kept
  BY <1>10, UnseenStep DEF EndCompress, Ended, TypeOK
<1>11. ASSUME NEW t \in Turn, Complete(t) PROVE Kept
  BY <1>11, UnseenStep DEF Complete, LeaveLoop, Ended, TypeOK
<1>12. ASSUME NEW t \in Turn, Interrupted(t) PROVE Kept
  BY <1>12, UnseenStep DEF Interrupted, LeaveLoop, InLoop, Ended, TypeOK
<1>13. ASSUME NEW t \in Turn, Fail(t) PROVE Kept
  BY <1>13, UnseenStep DEF Fail, LeaveLoop, InLoop, Ended, TypeOK
<1>14. ASSUME NEW t \in Turn, EndTurn(t) PROVE Kept
  <2>1. holder = t /\ t \notin cancelled /\ t # Nobody
    BY <1>14, DistinctActors DEF EndTurn, KernelInv, LockInv, QueueInv, InLock, Executing, Leaving
  <2>2. \A u \in Turn : Ended(u)' <=> Ended(u) \/ u = t
    BY <1>14 DEF EndTurn, Ended, TypeOK
  <2>3. Nobody \notin cancelled
    BY DistinctActors DEF TypeOK
  <2>4. Promise!Finish
    BY <1>14, <2>1, <2>2, <2>3 DEF EndTurn, Promise!Finish
  <2>5. Sorted(turnQueue)'
    BY <1>14, SortedFrame DEF EndTurn
  <2>6. Discarding'
    BY <1>14 DEF EndTurn, Discarding, TypeOK
  <2> QED
    BY <2>4, <2>5, <2>6 DEF Kept, Simulated, Promise!Next
<1>15. CASE Interrupt
  BY <1>15, CancelStep DEF Interrupt
<1>16. ASSUME NEW r \in NewSession, NewInsideTurn(r) PROVE Kept
  BY <1>16, CancelStep DEF NewInsideTurn
<1>17. ASSUME NEW r \in NewSession, NewWhileBusy(r) PROVE Kept
  BY <1>17, CancelStep DEF NewWhileBusy
<1>18. ASSUME NEW r \in NewSession, NewWhileIdle(r) PROVE Kept
  BY <1>18, UnseenStep DEF NewWhileIdle, EnterLock, ClearSession, QueueForLock, Ended
<1>19. ASSUME NEW r \in NewSession, PollFree(r) PROVE Kept
  BY <1>19, UnseenStep DEF PollFree, EnterLock, ClearSession, QueueForLock, Ended
<1>20. ASSUME NEW r \in NewSession, PollTimeout(r) PROVE Kept
  BY <1>20, UnseenStep DEF PollTimeout, QueueForLock, Ended
<1>21. ASSUME NEW r \in NewSession, ResetGetsLock(r) PROVE Kept
  BY <1>21, UnseenStep DEF ResetGetsLock, ClearSession, Ended
<1>22. ASSUME NEW r \in NewSession, Finalize(r) PROVE Kept
  BY <1>22, UnseenStep DEF Finalize, Ended
<1>23. ASSUME NEW c \in Compact, StartCompact(c) PROVE Kept
  BY <1>23, UnseenStep DEF StartCompact, Ended
<1>24. ASSUME NEW c \in Compact, FinishCompact(c) PROVE Kept
  BY <1>24, UnseenStep DEF FinishCompact, Ended
<1>25. CASE UNCHANGED vars
  BY <1>25, UnseenStep DEF vars, Ended
<1> QED
  BY <1>1, <1>2, <1>3, <1>4, <1>5, <1>6, <1>7, <1>8, <1>9, <1>10, <1>11, <1>12,
     <1>13, <1>14, <1>15, <1>16, <1>17, <1>18, <1>19, <1>20, <1>21, <1>22, <1>23, <1>24, <1>25
  DEF Next, TurnStep, Submit, TurnExit, Reset

(* A fresh kernel is a fresh line.                                         *)
LEMMA InitSimulated == Init => Promise!Init /\ Sorted(turnQueue) /\ Discarding
  BY DistinctActors DEF Init, Promise!Init, Sorted, Discarding, Ended

(* The kernel keeps the promise the other components rely on: one turn at  *)
(* a time, in the order of acceptance, and an interruption ends everyone   *)
(* in line (base.py, turn_queue.py).                                       *)
THEOREM KernelKeepsItsPromise == Spec => ServesInOrder
<1>1. Init => PromiseInv /\ Promise!Init
  BY InitSimulated, InitTyped, InitLock, InitQueue, InitArrival DEF PromiseInv, KernelInv
<1>2. PromiseInv /\ [Next]_vars => PromiseInv' /\ [Promise!Next]_(Promise!promise)
  <2> SUFFICES ASSUME PromiseInv, [Next]_vars
               PROVE  PromiseInv' /\ [Promise!Next]_(Promise!promise)
    OBVIOUS
  <2>1. KernelInv'
    BY NextTyped, NextLock, NextQueue, NextArrival DEF PromiseInv, KernelInv
  <2> QED
    BY <2>1, StepSimulated DEF PromiseInv, Kept, Simulated
<1> QED
  BY <1>1, <1>2, PTL DEF Spec, ServesInOrder, Promise!Spec
=============================================================================
