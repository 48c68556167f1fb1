-------------------------- MODULE TurnKernelProofs --------------------------
(***************************************************************************)
(* Theorems about TurnKernel, for any set of messages, resets and          *)
(* compactions.                                                            *)
(***************************************************************************)
EXTENDS TurnKernel, SequenceTheorems, TLAPS

(* An element of a sequence over S is an element of S.                     *)
LEMMA ElementsAreMembers ==
  ASSUME NEW S, NEW seq \in Seq(S)
  PROVE  Elements(seq) \subseteq S
  BY DEF Elements

(* Removing from a sequence leaves a sequence over the same set.           *)
LEMMA WithoutType ==
  ASSUME NEW S, NEW seq \in Seq(S), NEW t
  PROVE  Without(seq, t) \in Seq(S)
<1>1. CASE t \notin Elements(seq)
  BY <1>1 DEF Without
<1>2. CASE t \in Elements(seq)
  <2> DEFINE at == CHOOSE i \in DOMAIN seq : seq[i] = t
             rest == [i \in 1 .. Len(seq) - 1 |-> IF i < at THEN seq[i] ELSE seq[i + 1]]
  <2>1. Len(seq) \in Nat /\ DOMAIN seq = 1 .. Len(seq)
    OBVIOUS
  <2>2. Len(seq) - 1 \in Nat
    BY <1>2, <2>1 DEF Elements
  <2>3. \A i \in 1 .. Len(seq) - 1 : rest[i] \in S
    BY <2>1
  <2>4. rest \in [1 .. Len(seq) - 1 -> S]
    BY <2>3
  <2>5. rest \in Seq(S)
    BY <2>2, <2>4, SeqDef
  <2> QED
    BY <1>2, <2>5 DEF Without
<1> QED
  BY <1>1, <1>2

(* What a compaction makes of a copy is again a context.                   *)
LEMMA CompressedType ==
  ASSUME NEW seq \in Seq(Writer), NEW res \in Compressed(seq)
  PROVE  res \in Seq(Writer)
<1>1. PICK k \in 1 .. Len(seq) : res = <<Summary>> \o SubSeq(seq, k + 1, Len(seq))
  BY DEF Compressed
<1>2. SubSeq(seq, k + 1, Len(seq)) \in Seq(Writer)
  BY SubSeqProperties
<1>3. <<Summary>> \in Seq(Writer)
  BY DEF Writer
<1> QED
  BY <1>1, <1>2, <1>3, ConcatProperties

(* Rolling back leaves a prefix of the context.                            *)
LEMMA RolledBackType ==
  ASSUME TypeOK
  PROVE  RolledBack \in Seq(Writer)
  BY SubSeqProperties DEF TypeOK, RolledBack, NoFloor

LEMMA InitTyped == Init => TypeOK
<1> SUFFICES ASSUME Init PROVE TypeOK
  OBVIOUS
<1>1. pc \in [Turn -> TurnPhase] /\ rpc \in [NewSession -> NewPhase] /\ kpc \in [Compact -> CompactPhase]
  BY DEF Init, TurnPhase, NewPhase, CompactPhase
<1>2. /\ holder \in Turn \cup {Nobody} /\ activeTurn \in Turn \cup {Nobody}
      /\ cancelled \subseteq Turn /\ insideTurn \in BOOLEAN /\ deferredTask \in NewSession \cup {Nobody}
      /\ historyStart \in Nat /\ rollbackFloor \in Nat \cup {NoFloor} /\ arrivals \in Nat
  BY DEF Init
<1>5. waiters \in Seq(Waiter) /\ turnQueue \in Seq(Turn) /\ history \in Seq(Writer)
  BY EmptySeq DEF Init
<1>3. abort \in [Turn -> AbortReason] /\ ticket \in [Turn -> Nat] /\ before \in [NewSession -> SUBSET Turn]
  BY DEF Init, AbortReason
<1>4. snapshot \in [Compactor -> Seq(Writer)]
  BY EmptySeq DEF Init
<1> QED
  BY <1>1, <1>2, <1>3, <1>4, <1>5 DEF TypeOK
(* The three ways a /new can go on keep the types.                         *)
LEMMA ClearTyped ==
  ASSUME TypeOK, NEW r \in NewSession, ClearSession(r),
         waiters' \in Seq(Waiter), before' \in [NewSession -> SUBSET Turn]
  PROVE  TypeOK'
<1>1. history' \in Seq(Writer)
  BY EmptySeq DEF ClearSession
<1> QED
  BY <1>1 DEF TypeOK, ClearSession, NewPhase, queueVars

LEMMA QueueTyped ==
  ASSUME TypeOK, NEW r \in NewSession, QueueForLock(r),
         before' \in [NewSession -> SUBSET Turn]
  PROVE  TypeOK'
<1>1. waiters' \in Seq(Waiter)
  BY AppendProperties DEF TypeOK, QueueForLock, Waiter
<1> QED
  BY <1>1 DEF TypeOK, QueueForLock, NewPhase, queueVars, runtimeVars, contextVars

LEMMA EnterTyped ==
  ASSUME TypeOK, NEW r \in NewSession, EnterLock(r),
         before' \in [NewSession -> SUBSET Turn]
  PROVE  TypeOK'
<1>1. CASE LockAvailable /\ ClearSession(r) /\ UNCHANGED waiters
  BY <1>1, ClearTyped DEF TypeOK
<1>2. CASE ~LockAvailable /\ QueueForLock(r)
  BY <1>2, QueueTyped
<1> QED
  BY <1>1, <1>2 DEF EnterLock

(* Putting the result of a compaction in place keeps the types.            *)
LEMMA RewriteTyped ==
  ASSUME TypeOK, NEW c \in Compactor, Rewrite(c)
  PROVE  history' \in Seq(Writer) /\ rollbackFloor' \in Nat
<1>1. snapshot[c] \in Seq(Writer)
  BY DEF TypeOK
<1>2. history' \in Seq(Writer)
  BY <1>1, CompressedType DEF Rewrite
<1> QED
  BY <1>2, LenProperties DEF Rewrite

(* The type invariant is inductive.                                        *)
LEMMA NextTyped == TypeOK /\ [Next]_vars => TypeOK'
<1> SUFFICES ASSUME TypeOK, [Next]_vars PROVE TypeOK'
  OBVIOUS
<1> USE DEF lockVars, queueVars, runtimeVars, contextVars, ghostVars
<1>1. ASSUME NEW t \in Turn, SubmitRejected(t) PROVE TypeOK'
  BY <1>1 DEF TypeOK, SubmitRejected, TurnPhase
<1>2. ASSUME NEW t \in Turn, SubmitStart(t) PROVE TypeOK'
  BY <1>2 DEF TypeOK, SubmitStart, Begin, Enqueued, TurnPhase
<1>3. ASSUME NEW t \in Turn, SubmitQueue(t) PROVE TypeOK'
  BY <1>3 DEF TypeOK, SubmitQueue, Enqueued, TurnPhase, Waiter
<1>4. ASSUME NEW t \in Turn, GetLock(t) PROVE TypeOK'
  <2>1. waiters' \in Seq(Waiter)
    BY <1>4, HeadTailProperties DEF TypeOK, GetLock, WokenUp
  <2>2. turnQueue' \in Seq(Turn)
    BY <1>4, WithoutType DEF TypeOK, GetLock
  <2> QED
    BY <1>4, <2>1, <2>2 DEF TypeOK, GetLock, Begin, TurnPhase
<1>5. ASSUME NEW t \in Turn, GetLockCancelled(t) PROVE TypeOK'
  <2>1. waiters' \in Seq(Waiter)
    BY <1>5, HeadTailProperties DEF TypeOK, GetLockCancelled, WokenUp
  <2>2. turnQueue' \in Seq(Turn)
    BY <1>5, WithoutType DEF TypeOK, GetLockCancelled
  <2>3. history' \in Seq(Writer)
    BY <1>5, AppendProperties DEF TypeOK, GetLockCancelled, Writer
  <2> QED
    BY <1>5, <2>1, <2>2, <2>3 DEF TypeOK, GetLockCancelled, TurnPhase
<1>6. ASSUME NEW t \in Turn, LeaveDiscard(t) PROVE TypeOK'
  BY <1>6 DEF TypeOK, LeaveDiscard, TurnPhase
<1>7. ASSUME NEW t \in Turn, Prepare(t) PROVE TypeOK'
  BY <1>7 DEF TypeOK, Prepare, TurnPhase, Writer
<1>8. ASSUME NEW t \in Turn, Write(t) PROVE TypeOK'
  BY <1>8 DEF TypeOK, Write, Writer
<1>9. ASSUME NEW t \in Turn, BeginCompress(t) PROVE TypeOK'
  BY <1>9 DEF TypeOK, BeginCompress, TurnPhase, Compactor
<1>10. ASSUME NEW t \in Turn, EndCompress(t) PROVE TypeOK'
  <2>1. history' \in Seq(Writer) /\ rollbackFloor' \in Nat \cup {NoFloor}
    BY <1>10, RewriteTyped DEF TypeOK, EndCompress, Compactor
  <2>2. snapshot' \in [Compactor -> Seq(Writer)]
    BY <1>10, EmptySeq DEF TypeOK, EndCompress
  <2> QED
    BY <1>10, <2>1, <2>2 DEF TypeOK, EndCompress, TurnPhase
<1>11. ASSUME NEW t \in Turn, Complete(t) PROVE TypeOK'
  BY <1>11 DEF TypeOK, Complete, LeaveLoop, TurnPhase, Compactor
<1>12. ASSUME NEW t \in Turn, Interrupted(t) PROVE TypeOK'
  BY <1>12 DEF TypeOK, Interrupted, LeaveLoop, TurnPhase, Compactor, Writer
<1>13. ASSUME NEW t \in Turn, Fail(t) PROVE TypeOK'
  <2>1. history' \in Seq(Writer)
    BY <1>13, RolledBackType, AppendProperties DEF Fail, Writer
  <2>2. snapshot' \in [Compactor -> Seq(Writer)]
    BY <1>13, EmptySeq DEF TypeOK, Fail, LeaveLoop
  <2> QED
    BY <1>13, <2>1, <2>2 DEF TypeOK, Fail, LeaveLoop, TurnPhase
<1>14. ASSUME NEW t \in Turn, EndTurn(t) PROVE TypeOK'
  BY <1>14 DEF TypeOK, EndTurn, TurnPhase
<1>15. CASE Interrupt
  BY <1>15, ElementsAreMembers DEF TypeOK, Interrupt, CancelQueue, AbortActive, AbortReason
<1>16. ASSUME NEW r \in NewSession, NewInsideTurn(r) PROVE TypeOK'
  BY <1>16, ElementsAreMembers DEF TypeOK, NewInsideTurn, CancelQueue, AbortActive, Requested, NewPhase, AbortReason
<1>17. ASSUME NEW r \in NewSession, NewWhileBusy(r) PROVE TypeOK'
  BY <1>17, ElementsAreMembers DEF TypeOK, NewWhileBusy, CancelQueue, AbortActive, Requested, NewPhase, AbortReason
<1>18. ASSUME NEW r \in NewSession, NewWhileIdle(r) PROVE TypeOK'
  <2>1. before' \in [NewSession -> SUBSET Turn]
    BY <1>18 DEF TypeOK, NewWhileIdle, Requested
  <2> QED
    BY <1>18, <2>1, EnterTyped DEF NewWhileIdle
<1>19. ASSUME NEW r \in NewSession, PollFree(r) PROVE TypeOK'
  BY <1>19, EnterTyped DEF PollFree, TypeOK
<1>20. ASSUME NEW r \in NewSession, PollTimeout(r) PROVE TypeOK'
  <2>1. CASE QueueForLock(r)
    BY <1>20, <2>1, QueueTyped DEF PollTimeout, TypeOK
  <2>2. CASE ~QueueForLock(r)
    BY <1>20, <2>2 DEF PollTimeout, TypeOK, NewPhase
  <2> QED
    BY <2>1, <2>2
<1>21. ASSUME NEW r \in NewSession, ResetGetsLock(r) PROVE TypeOK'
  <2>1. waiters' \in Seq(Waiter)
    BY <1>21, HeadTailProperties DEF TypeOK, ResetGetsLock, WokenUp
  <2> QED
    BY <1>21, <2>1, ClearTyped DEF ResetGetsLock, TypeOK
<1>22. ASSUME NEW r \in NewSession, Finalize(r) PROVE TypeOK'
  <2>1. history \in Seq(Writer) /\ r \in Writer
    BY DEF TypeOK, Writer
  <2>2. Append(history, r) \in Seq(Writer)
    BY <2>1, AppendProperties
  <2>3. history' \in Seq(Writer)
    BY <1>22, <2>1, <2>2 DEF Finalize
  <2> QED
    BY <1>22, <2>3 DEF TypeOK, Finalize, NewPhase
<1>23. ASSUME NEW c \in Compact, StartCompact(c) PROVE TypeOK'
  BY <1>23 DEF TypeOK, StartCompact, CompactPhase, Compactor
<1>24. ASSUME NEW c \in Compact, FinishCompact(c) PROVE TypeOK'
  <2>1. history' \in Seq(Writer) /\ rollbackFloor' \in Nat \cup {NoFloor}
    BY <1>24, RewriteTyped DEF TypeOK, FinishCompact, Compactor
  <2>2. snapshot' \in [Compactor -> Seq(Writer)]
    BY <1>24, EmptySeq DEF TypeOK, FinishCompact
  <2> QED
    BY <1>24, <2>1, <2>2 DEF TypeOK, FinishCompact, CompactPhase
<1>25. CASE UNCHANGED vars
  BY <1>25 DEF TypeOK, vars
<1> QED
  BY <1>1, <1>2, <1>3, <1>4, <1>5, <1>6, <1>7, <1>8, <1>9, <1>10, <1>11, <1>12, <1>13,
     <1>14, <1>15, <1>16, <1>17, <1>18, <1>19, <1>20, <1>21, <1>22, <1>23, <1>24, <1>25
  DEF Next, TurnStep, Submit, TurnExit, Reset

(* The variables of the kernel stay in their ranges.                       *)
THEOREM TypeCorrect == Spec => []TypeOK
  BY InitTyped, NextTyped, PTL DEF Spec

-----------------------------------------------------------------------------
(* The lock and the flags that shadow it: the turn that is inside the lock *)
(* is its holder, _inside_turn is true exactly while a turn executes, and  *)
(* _active_turn is a turn that executes.                                   *)
LockInv ==
  /\ \A t \in Turn : InLock(t) <=> holder = t
  /\ insideTurn <=> \E t \in Turn : Executing(t)
  /\ activeTurn # Nobody => activeTurn \in Turn /\ Executing(activeTurn)

LEMMA InitLock == Init => LockInv
  BY DistinctActors DEF Init, LockInv, InLock, Executing, InLoop, Leaving

LEMMA NextLock == TypeOK /\ LockInv /\ [Next]_vars => LockInv'
<1> SUFFICES ASSUME TypeOK, LockInv, [Next]_vars PROVE LockInv'
  OBVIOUS
<1> USE DistinctActors DEF lockVars, queueVars, runtimeVars, contextVars, ghostVars,
        InLock, Executing, InLoop, Leaving, TypeOK, LockInv
<1>1. ASSUME NEW t \in Turn, SubmitRejected(t) PROVE LockInv'
  BY <1>1 DEF SubmitRejected
<1>2. ASSUME NEW t \in Turn, SubmitStart(t) PROVE LockInv'
  BY <1>2 DEF SubmitStart, Begin, LockAvailable
<1>3. ASSUME NEW t \in Turn, SubmitQueue(t) PROVE LockInv'
  BY <1>3 DEF SubmitQueue
<1>4. ASSUME NEW t \in Turn, GetLock(t) PROVE LockInv'
  BY <1>4 DEF GetLock, Begin, WokenUp
<1>5. ASSUME NEW t \in Turn, GetLockCancelled(t) PROVE LockInv'
  BY <1>5 DEF GetLockCancelled, WokenUp
<1>6. ASSUME NEW t \in Turn, LeaveDiscard(t) PROVE LockInv'
  BY <1>6 DEF LeaveDiscard
<1>7. ASSUME NEW t \in Turn, Prepare(t) PROVE LockInv'
  BY <1>7 DEF Prepare
<1>8. ASSUME NEW t \in Turn, Write(t) PROVE LockInv'
  BY <1>8 DEF Write
<1>9. ASSUME NEW t \in Turn, BeginCompress(t) PROVE LockInv'
  BY <1>9 DEF BeginCompress
<1>10. ASSUME NEW t \in Turn, EndCompress(t) PROVE LockInv'
  BY <1>10 DEF EndCompress
<1>11. ASSUME NEW t \in Turn, Complete(t) PROVE LockInv'
  BY <1>11 DEF Complete, LeaveLoop
<1>12. ASSUME NEW t \in Turn, Interrupted(t) PROVE LockInv'
  BY <1>12 DEF Interrupted, LeaveLoop
<1>13. ASSUME NEW t \in Turn, Fail(t) PROVE LockInv'
  BY <1>13 DEF Fail, LeaveLoop
<1>14. ASSUME NEW t \in Turn, EndTurn(t) PROVE LockInv'
  BY <1>14 DEF EndTurn
<1>15. CASE Interrupt
  BY <1>15 DEF Interrupt
<1>16. ASSUME NEW r \in NewSession, NewInsideTurn(r) PROVE LockInv'
  BY <1>16 DEF NewInsideTurn
<1>17. ASSUME NEW r \in NewSession, NewWhileBusy(r) PROVE LockInv'
  BY <1>17 DEF NewWhileBusy
<1>18. ASSUME NEW r \in NewSession, NewWhileIdle(r) PROVE LockInv'
  BY <1>18 DEF NewWhileIdle, EnterLock, LockAvailable, ClearSession, QueueForLock
<1>19. ASSUME NEW r \in NewSession, PollFree(r) PROVE LockInv'
  BY <1>19 DEF PollFree, EnterLock, LockAvailable, ClearSession, QueueForLock
<1>20. ASSUME NEW r \in NewSession, PollTimeout(r) PROVE LockInv'
  BY <1>20 DEF PollTimeout, QueueForLock
<1>21. ASSUME NEW r \in NewSession, ResetGetsLock(r) PROVE LockInv'
  BY <1>21 DEF ResetGetsLock, WokenUp, ClearSession
<1>22. ASSUME NEW r \in NewSession, Finalize(r) PROVE LockInv'
  BY <1>22 DEF Finalize
<1>23. ASSUME NEW c \in Compact, StartCompact(c) PROVE LockInv'
  BY <1>23 DEF StartCompact
<1>24. ASSUME NEW c \in Compact, FinishCompact(c) PROVE LockInv'
  BY <1>24 DEF FinishCompact
<1>25. CASE UNCHANGED vars
  BY <1>25 DEF vars
<1> QED
  BY <1>1, <1>2, <1>3, <1>4, <1>5, <1>6, <1>7, <1>8, <1>9, <1>10, <1>11, <1>12, <1>13,
     <1>14, <1>15, <1>16, <1>17, <1>18, <1>19, <1>20, <1>21, <1>22, <1>23, <1>24, <1>25
  DEF Next, TurnStep, Submit, TurnExit, Reset

-----------------------------------------------------------------------------
(* Elements of the sequences the kernel builds.                            *)
NoRepeats(seq) == \A i, j \in DOMAIN seq : seq[i] = seq[j] => i = j

LEMMA ElementsOfEmpty == Elements(<<>>) = {} /\ NoRepeats(<<>>)
  BY DEF Elements, NoRepeats

LEMMA ElementsOfAppend ==
  ASSUME NEW S, NEW seq \in Seq(S), NEW e \in S
  PROVE  /\ Elements(Append(seq, e)) = Elements(seq) \cup {e}
         /\ NoRepeats(seq) /\ e \notin Elements(seq) => NoRepeats(Append(seq, e))
<1> DEFINE app == Append(seq, e)
<1>1. /\ Len(seq) \in Nat /\ DOMAIN seq = 1 .. Len(seq)
      /\ DOMAIN app = 1 .. Len(seq) + 1
      /\ app[Len(seq) + 1] = e
      /\ \A i \in 1 .. Len(seq) : app[i] = seq[i]
  BY AppendProperties
<1>2. Elements(app) = Elements(seq) \cup {e}
  BY <1>1 DEF Elements
<1>3. ASSUME NoRepeats(seq), e \notin Elements(seq) PROVE NoRepeats(app)
  BY <1>1, <1>3 DEF NoRepeats, Elements
<1> QED
  BY <1>2, <1>3

LEMMA ElementsOfTail ==
  ASSUME NEW S, NEW seq \in Seq(S), seq # <<>>
  PROVE  Elements(seq) = {Head(seq)} \cup Elements(Tail(seq))
<1>1. /\ Len(seq) \in Nat \ {0} /\ DOMAIN seq = 1 .. Len(seq)
      /\ DOMAIN Tail(seq) = 1 .. Len(seq) - 1
      /\ Head(seq) = seq[1]
      /\ \A i \in 1 .. Len(seq) - 1 : Tail(seq)[i] = seq[i + 1]
  BY EmptySeq, HeadTailProperties
<1>2. ASSUME NEW x \in Elements(seq) PROVE x \in {Head(seq)} \cup Elements(Tail(seq))
  <2>1. PICK i \in 1 .. Len(seq) : seq[i] = x
    BY <1>1, <1>2 DEF Elements
  <2>2. CASE i = 1
    BY <1>1, <2>1, <2>2
  <2>3. CASE i # 1
    <3>1. i - 1 \in 1 .. Len(seq) - 1 /\ Tail(seq)[i - 1] = x
      BY <1>1, <2>1, <2>3
    <3> QED
      BY <1>1, <3>1 DEF Elements
  <2> QED
    BY <2>2, <2>3
<1>3. ASSUME NEW x \in {Head(seq)} \cup Elements(Tail(seq)) PROVE x \in Elements(seq)
  BY <1>1, <1>3 DEF Elements
<1> QED
  BY <1>2, <1>3

(* TurnQueue.remove takes out the turn's entry and nothing else.           *)
LEMMA ElementsOfWithout ==
  ASSUME NEW S, NEW seq \in Seq(S), NEW t, NoRepeats(seq)
  PROVE  /\ Elements(Without(seq, t)) = Elements(seq) \ {t}
         /\ NoRepeats(Without(seq, t))
<1>1. CASE t \notin Elements(seq)
  BY <1>1 DEF Without
<1>2. CASE t \in Elements(seq)
  <2> DEFINE at == CHOOSE i \in DOMAIN seq : seq[i] = t
             rest == [i \in 1 .. Len(seq) - 1 |-> IF i < at THEN seq[i] ELSE seq[i + 1]]
  <2>1. Len(seq) \in Nat /\ DOMAIN seq = 1 .. Len(seq)
    OBVIOUS
  <2>2. at \in 1 .. Len(seq) /\ seq[at] = t
    BY <1>2, <2>1 DEF Elements
  <2>3. Without(seq, t) = rest
    BY <1>2 DEF Without
  <2> HIDE DEF at
  <2>4. DOMAIN rest = 1 .. Len(seq) - 1
    OBVIOUS
  <2>5. \A i \in 1 .. Len(seq) - 1 : rest[i] = IF i < at THEN seq[i] ELSE seq[i + 1]
    OBVIOUS
  <2> HIDE DEF rest
  <2>6. NoRepeats(rest)
    <3> SUFFICES ASSUME NEW i \in 1 .. Len(seq) - 1, NEW j \in 1 .. Len(seq) - 1,
                        rest[i] = rest[j]
                 PROVE  i = j
      BY <2>4 DEF NoRepeats
    <3> DEFINE old(k) == IF k < at THEN k ELSE k + 1
    <3>1. \A k \in 1 .. Len(seq) - 1 : old(k) \in 1 .. Len(seq) /\ rest[k] = seq[old(k)]
      BY <2>1, <2>2, <2>5
    <3>2. old(i) = old(j)
      BY <2>1, <3>1 DEF NoRepeats
    <3> QED
      BY <2>1, <2>2, <3>2
  <2>7. ASSUME NEW x \in Elements(rest) PROVE x \in Elements(seq) /\ x # t
    <3>1. PICK i \in 1 .. Len(seq) - 1 : rest[i] = x
      BY <2>4, <2>7 DEF Elements
    <3> QED
      BY <2>1, <2>2, <2>5, <3>1 DEF Elements, NoRepeats
  <2>8. ASSUME NEW x \in Elements(seq), x # t PROVE x \in Elements(rest)
    <3>1. PICK i \in 1 .. Len(seq) : seq[i] = x
      BY <2>1, <2>8 DEF Elements
    <3>2. CASE i < at
      <4>1. i \in 1 .. Len(seq) - 1 /\ rest[i] = x
        BY <2>1, <2>2, <2>5, <3>1, <3>2
      <4> QED
        BY <2>4, <4>1 DEF Elements
    <3>3. CASE i > at
      <4>1. i - 1 \in 1 .. Len(seq) - 1 /\ rest[i - 1] = x
        BY <2>1, <2>2, <2>5, <3>1, <3>3
      <4> QED
        BY <2>4, <4>1 DEF Elements
    <3>4. i # at
      BY <2>2, <2>8, <3>1
    <3> QED
      BY <2>1, <2>2, <3>2, <3>3, <3>4
  <2> QED
    BY <2>3, <2>6, <2>7, <2>8
<1> QED
  BY <1>1, <1>2

-----------------------------------------------------------------------------
(* The explicit queue holds, once each, the messages that wait and were    *)
(* not cancelled; a cancelled message is on its way out.                   *)
QueueInv ==
  /\ NoRepeats(turnQueue)
  /\ \A t \in Turn : t \in Elements(turnQueue) <=> pc[t] = "waiting" /\ t \notin cancelled
  /\ \A t \in cancelled : pc[t] \in {"waiting", "discarding", "dropped"}

LEMMA InitQueue == Init => QueueInv
  BY ElementsOfEmpty DEF Init, QueueInv

(* An interruption empties the queue and nothing of it is left waiting.    *)
LEMMA CancelKeepsQueue ==
  ASSUME TypeOK, QueueInv, CancelQueue, UNCHANGED pc
  PROVE  QueueInv'
<1>1. Elements(turnQueue') = {} /\ NoRepeats(turnQueue')
  BY ElementsOfEmpty DEF CancelQueue
<1>2. \A t \in Turn : t \in cancelled' <=> t \in cancelled \/ t \in Elements(turnQueue)
  BY DEF CancelQueue
<1>3. cancelled' \subseteq Turn
  BY ElementsAreMembers DEF CancelQueue, TypeOK
<1> QED
  BY <1>1, <1>2, <1>3 DEF QueueInv

LEMMA NextQueue == TypeOK /\ QueueInv /\ [Next]_vars => QueueInv'
<1> SUFFICES ASSUME TypeOK, QueueInv, [Next]_vars PROVE QueueInv'
  OBVIOUS
<1> USE DEF lockVars, queueVars, runtimeVars, contextVars, ghostVars, TypeOK, QueueInv
<1>1. ASSUME NEW t \in Turn, SubmitRejected(t) PROVE QueueInv'
  BY <1>1 DEF SubmitRejected
<1>2. ASSUME NEW t \in Turn, SubmitStart(t) PROVE QueueInv'
  BY <1>2 DEF SubmitStart, Begin
<1>3. ASSUME NEW t \in Turn, SubmitQueue(t) PROVE QueueInv'
  <2>1. t \notin Elements(turnQueue) /\ t \notin cancelled
    BY <1>3 DEF SubmitQueue
  <2>2. Elements(turnQueue') = Elements(turnQueue) \cup {t} /\ NoRepeats(turnQueue')
    BY <1>3, <2>1, ElementsOfAppend DEF SubmitQueue
  <2> QED
    BY <1>3, <2>1, <2>2 DEF SubmitQueue
<1>4. ASSUME NEW t \in Turn, GetLock(t) PROVE QueueInv'
  BY <1>4, ElementsOfWithout DEF GetLock, Begin
<1>5. ASSUME NEW t \in Turn, GetLockCancelled(t) PROVE QueueInv'
  BY <1>5, ElementsOfWithout DEF GetLockCancelled
<1>6. ASSUME NEW t \in Turn, LeaveDiscard(t) PROVE QueueInv'
  BY <1>6 DEF LeaveDiscard
<1>7. ASSUME NEW t \in Turn, Prepare(t) PROVE QueueInv'
  BY <1>7 DEF Prepare
<1>8. ASSUME NEW t \in Turn, Write(t) PROVE QueueInv'
  BY <1>8 DEF Write
<1>9. ASSUME NEW t \in Turn, BeginCompress(t) PROVE QueueInv'
  BY <1>9 DEF BeginCompress
<1>10. ASSUME NEW t \in Turn, EndCompress(t) PROVE QueueInv'
  BY <1>10 DEF EndCompress
<1>11. ASSUME NEW t \in Turn, Complete(t) PROVE QueueInv'
  BY <1>11 DEF Complete, LeaveLoop
<1>12. ASSUME NEW t \in Turn, Interrupted(t) PROVE QueueInv'
  BY <1>12 DEF Interrupted, LeaveLoop, InLoop
<1>13. ASSUME NEW t \in Turn, Fail(t) PROVE QueueInv'
  BY <1>13 DEF Fail, LeaveLoop, InLoop
<1>14. ASSUME NEW t \in Turn, EndTurn(t) PROVE QueueInv'
  BY <1>14 DEF EndTurn, Leaving
<1>15. CASE Interrupt
  BY <1>15, CancelKeepsQueue DEF Interrupt
<1>16. ASSUME NEW r \in NewSession, NewInsideTurn(r) PROVE QueueInv'
  BY <1>16, CancelKeepsQueue DEF NewInsideTurn
<1>17. ASSUME NEW r \in NewSession, NewWhileBusy(r) PROVE QueueInv'
  BY <1>17, CancelKeepsQueue DEF NewWhileBusy
<1>18. ASSUME NEW r \in NewSession, NewWhileIdle(r) PROVE QueueInv'
  BY <1>18 DEF NewWhileIdle, EnterLock, ClearSession, QueueForLock
<1>19. ASSUME NEW r \in NewSession, PollFree(r) PROVE QueueInv'
  BY <1>19 DEF PollFree, EnterLock, ClearSession, QueueForLock
<1>20. ASSUME NEW r \in NewSession, PollTimeout(r) PROVE QueueInv'
  BY <1>20 DEF PollTimeout, QueueForLock
<1>21. ASSUME NEW r \in NewSession, ResetGetsLock(r) PROVE QueueInv'
  BY <1>21 DEF ResetGetsLock, ClearSession
<1>22. ASSUME NEW r \in NewSession, Finalize(r) PROVE QueueInv'
  BY <1>22 DEF Finalize
<1>23. ASSUME NEW c \in Compact, StartCompact(c) PROVE QueueInv'
  BY <1>23 DEF StartCompact
<1>24. ASSUME NEW c \in Compact, FinishCompact(c) PROVE QueueInv'
  BY <1>24 DEF FinishCompact
<1>25. CASE UNCHANGED vars
  BY <1>25 DEF vars
<1> QED
  BY <1>1, <1>2, <1>3, <1>4, <1>5, <1>6, <1>7, <1>8, <1>9, <1>10, <1>11, <1>12, <1>13,
     <1>14, <1>15, <1>16, <1>17, <1>18, <1>19, <1>20, <1>21, <1>22, <1>23, <1>24, <1>25
  DEF Next, TurnStep, Submit, TurnExit, Reset

-----------------------------------------------------------------------------
(* The line for the lock: the turns in it are the waiting ones, oldest     *)
(* ticket first, and whoever came after a waiting message waits too.       *)
Sorted(seq) ==
  \A i, j \in DOMAIN seq :
    (i < j /\ seq[i] \in Turn /\ seq[j] \in Turn) => ticket[seq[i]] < ticket[seq[j]]

ArrivalInv ==
  /\ \A t \in Turn : t \in Elements(waiters) <=> pc[t] = "waiting"
  /\ Sorted(waiters)
  /\ \A t \in Turn : ticket[t] <= arrivals
  /\ \A t \in Turn : pc[t] \in {"idle", "rejected"} <=> ticket[t] = 0
  /\ FirstComeFirstServed

LEMMA InitArrival == Init => ArrivalInv
  BY ElementsOfEmpty DEF Init, ArrivalInv, Sorted, FirstComeFirstServed

(* Joining the line with the newest ticket, or as a reset, keeps it sorted.*)
LEMMA SortedAppend ==
  ASSUME TypeOK, TypeOK', Sorted(waiters), NEW e \in Waiter,
         waiters' = Append(waiters, e),
         \A t \in Turn \ {e} : ticket'[t] = ticket[t],
         e \in Turn => (e \notin Elements(waiters) /\ \A t \in Turn \ {e} : ticket[t] < ticket'[e]),
         e \notin Turn => ticket' = ticket
  PROVE  Sorted(waiters)'
<1>1. /\ Len(waiters) \in Nat /\ DOMAIN waiters = 1 .. Len(waiters)
      /\ DOMAIN waiters' = 1 .. Len(waiters) + 1
      /\ waiters'[Len(waiters) + 1] = e
      /\ \A i \in 1 .. Len(waiters) : waiters'[i] = waiters[i]
  <2>1. waiters \in Seq(Waiter)
    BY DEF TypeOK
  <2> QED
    BY <2>1, AppendProperties
<1> SUFFICES ASSUME NEW i \in DOMAIN waiters', NEW j \in DOMAIN waiters', i < j,
                    waiters'[i] \in Turn, waiters'[j] \in Turn
             PROVE  ticket'[waiters'[i]] < ticket'[waiters'[j]]
  BY DEF Sorted
<1>2. i \in 1 .. Len(waiters) /\ waiters'[i] = waiters[i]
  BY <1>1
<1>5. waiters[i] \in Elements(waiters)
  BY <1>1, <1>2 DEF Elements
<1>3. CASE j = Len(waiters) + 1
  <2>1. waiters'[j] = e /\ e \in Turn /\ waiters[i] \in Turn \ {e}
    BY <1>1, <1>2, <1>3, <1>5
  <2>2. ticket[waiters[i]] < ticket'[e] /\ ticket'[waiters[i]] = ticket[waiters[i]]
    BY <2>1
  <2> QED
    BY <1>2, <2>1, <2>2
<1>4. CASE j # Len(waiters) + 1
  <2>1. j \in 1 .. Len(waiters) /\ waiters'[j] = waiters[j] /\ waiters[j] \in Elements(waiters)
    BY <1>1, <1>4 DEF Elements
  <2>2. ticket[waiters[i]] < ticket[waiters[j]]
    BY <1>1, <1>2, <2>1 DEF Sorted
  <2>3. ticket'[waiters[i]] = ticket[waiters[i]] /\ ticket'[waiters[j]] = ticket[waiters[j]]
    BY <1>2, <1>5, <2>1
  <2> QED
    BY <1>2, <2>1, <2>2, <2>3
<1> QED
  BY <1>3, <1>4

(* Leaving the head of the line keeps it sorted.                           *)
LEMMA SortedTail ==
  ASSUME TypeOK, Sorted(waiters), waiters # <<>>,
         waiters' = Tail(waiters), ticket' = ticket
  PROVE  /\ Sorted(waiters)'
         /\ \A t \in Turn : (t \in Elements(waiters') /\ Head(waiters) \in Turn)
              => ticket[Head(waiters)] < ticket[t]
<1>1. /\ Len(waiters) \in Nat \ {0} /\ DOMAIN waiters = 1 .. Len(waiters)
      /\ DOMAIN waiters' = 1 .. Len(waiters) - 1
      /\ Head(waiters) = waiters[1]
      /\ \A i \in 1 .. Len(waiters) - 1 : waiters'[i] = waiters[i + 1]
  BY EmptySeq, HeadTailProperties DEF TypeOK
<1>2. Sorted(waiters)'
  <2> SUFFICES ASSUME NEW i \in 1 .. Len(waiters) - 1, NEW j \in 1 .. Len(waiters) - 1, i < j,
                      waiters'[i] \in Turn, waiters'[j] \in Turn
               PROVE  ticket[waiters'[i]] < ticket[waiters'[j]]
    BY <1>1 DEF Sorted
  <2>1. i + 1 \in DOMAIN waiters /\ j + 1 \in DOMAIN waiters /\ i + 1 < j + 1
    BY <1>1
  <2> QED
    BY <1>1, <2>1 DEF Sorted
<1>3. ASSUME NEW t \in Turn, t \in Elements(waiters'), Head(waiters) \in Turn
      PROVE  ticket[Head(waiters)] < ticket[t]
  <2>1. PICK i \in 1 .. Len(waiters) - 1 : waiters'[i] = t
    BY <1>1, <1>3 DEF Elements
  <2>2. 1 \in DOMAIN waiters /\ i + 1 \in DOMAIN waiters /\ 1 < i + 1 /\ waiters[i + 1] = t
    BY <1>1, <2>1
  <2> QED
    BY <1>1, <1>3, <2>2 DEF Sorted
<1> QED
  BY <1>2, <1>3

(* A step that touches neither the line nor a ticket keeps the order.      *)
LEMMA ArrivalFrame ==
  ASSUME TypeOK, ArrivalInv, waiters' = waiters, ticket' = ticket, arrivals' = arrivals,
         \A t \in Turn : /\ pc[t] = "waiting" <=> pc'[t] = "waiting"
                         /\ pc[t] \in {"idle", "rejected"} <=> pc'[t] \in {"idle", "rejected"}
  PROVE  ArrivalInv'
<1>1. Sorted(waiters)' /\ Elements(waiters') = Elements(waiters)
  BY DEF ArrivalInv, Sorted
<1>3. FirstComeFirstServed'
  <2> SUFFICES ASSUME NEW t \in Turn, NEW u \in Turn, pc'[t] = "waiting", ticket'[t] < ticket'[u]
               PROVE  pc'[u] = "waiting"
    BY DEF FirstComeFirstServed
  <2>1. pc[t] = "waiting" /\ ticket[t] < ticket[u]
    OBVIOUS
  <2>2. pc[u] = "waiting"
    BY <2>1 DEF ArrivalInv, FirstComeFirstServed
  <2> QED
    BY <2>2
<1>4. \A t \in Turn : t \in Elements(waiters') <=> pc'[t] = "waiting"
  BY <1>1 DEF ArrivalInv
<1>5. \A t \in Turn : ticket'[t] <= arrivals'
  BY DEF ArrivalInv
<1>6. \A t \in Turn : pc'[t] \in {"idle", "rejected"} <=> ticket'[t] = 0
  BY DEF ArrivalInv
<1> QED
  BY <1>1, <1>3, <1>4, <1>5, <1>6 DEF ArrivalInv

(* A turn that takes the lock was the oldest one waiting.                  *)
LEMMA TakeLockArrival ==
  ASSUME TypeOK, TypeOK', ArrivalInv, NEW t \in Turn, WokenUp(t), waiters' = Tail(waiters),
         ticket' = ticket, arrivals' = arrivals,
         NEW phase \in TurnPhase \ {"idle", "rejected", "waiting"},
         pc[t] = "waiting", pc' = [pc EXCEPT ![t] = phase]
  PROVE  ArrivalInv'
<1>1. waiters # <<>> /\ Head(waiters) = t /\ waiters \in Seq(Waiter)
  BY DEF WokenUp, TypeOK
<1>2. /\ Sorted(waiters)'
      /\ \A u \in Turn : u \in Elements(waiters') => ticket[t] < ticket[u]
  BY <1>1, SortedTail DEF ArrivalInv
<1>3. Elements(waiters) = {t} \cup Elements(waiters')
  BY <1>1, ElementsOfTail
<1>4. t \notin Elements(waiters')
  BY <1>2 DEF TypeOK
<1>5. \A u \in Turn : u \in Elements(waiters') <=> pc'[u] = "waiting"
  BY <1>3, <1>4 DEF ArrivalInv, TypeOK
<1>6. FirstComeFirstServed'
  <2> SUFFICES ASSUME NEW u \in Turn, NEW w \in Turn, pc'[u] = "waiting", ticket[u] < ticket[w]
               PROVE  pc'[w] = "waiting"
    BY DEF FirstComeFirstServed
  <2>1. ticket[t] < ticket[u] /\ pc[u] = "waiting"
    BY <1>2, <1>5 DEF TypeOK
  <2>2. w # t
    BY <2>1 DEF TypeOK
  <2> QED
    BY <2>1, <2>2 DEF ArrivalInv, FirstComeFirstServed, TypeOK
<1> QED
  BY <1>2, <1>5, <1>6 DEF ArrivalInv, TypeOK

(* Entering or leaving the line as a reset does not change it for turns.   *)
LEMMA ResetArrival ==
  ASSUME TypeOK, TypeOK', ArrivalInv, NEW r \in NewSession,
         pc' = pc, ticket' = ticket, arrivals' = arrivals,
         \/ waiters' = Append(waiters, r)
         \/ WokenUp(r) /\ waiters' = Tail(waiters)
  PROVE  ArrivalInv'
<1>1. r \notin Turn /\ r \in Waiter /\ waiters \in Seq(Waiter)
  BY DistinctActors DEF Waiter, TypeOK
<1>2. CASE waiters' = Append(waiters, r)
  <2>0. Elements(Append(waiters, r)) = Elements(waiters) \cup {r}
    BY <1>1, ElementsOfAppend
  <2>1. Elements(waiters') = Elements(waiters) \cup {r}
    BY <1>2, <2>0
  <2>2. Sorted(waiters)'
    BY <1>1, <1>2, SortedAppend DEF ArrivalInv
  <2> QED
    BY <1>1, <2>1, <2>2 DEF ArrivalInv, FirstComeFirstServed
<1>3. CASE WokenUp(r) /\ waiters' = Tail(waiters)
  <2>1. waiters # <<>> /\ Head(waiters) = r
    BY <1>3 DEF WokenUp
  <2>2. Elements(waiters) = {r} \cup Elements(waiters')
    BY <1>1, <1>3, <2>1, ElementsOfTail
  <2>3. Sorted(waiters)'
    BY <1>3, <2>1, SortedTail DEF ArrivalInv
  <2> QED
    BY <1>1, <2>2, <2>3 DEF ArrivalInv, FirstComeFirstServed
<1> QED
  BY <1>2, <1>3

LEMMA NextArrival == TypeOK /\ TypeOK' /\ ArrivalInv /\ [Next]_vars => ArrivalInv'
<1> SUFFICES ASSUME TypeOK, TypeOK', ArrivalInv, [Next]_vars PROVE ArrivalInv'
  OBVIOUS
<1> USE DEF lockVars, queueVars, runtimeVars, contextVars, ghostVars
<1>1. ASSUME NEW t \in Turn, SubmitRejected(t) PROVE ArrivalInv'
  BY <1>1, ArrivalFrame DEF SubmitRejected, TypeOK
<1>2. ASSUME NEW t \in Turn, SubmitStart(t) PROVE ArrivalInv'
  <2>1. \A u \in Turn : pc[u] # "waiting"
    BY <1>2, ElementsOfEmpty DEF SubmitStart, LockAvailable, ArrivalInv
  <2>2. \A u \in Turn : pc'[u] # "waiting"
    BY <1>2, <2>1 DEF SubmitStart, Begin, TypeOK
  <2>3. waiters' = <<>> /\ waiters = <<>>
    BY <1>2 DEF SubmitStart, LockAvailable
  <2>4. Sorted(waiters)' /\ Elements(waiters') = {}
    BY <2>3, ElementsOfEmpty DEF Sorted
  <2>5. /\ ticket' = [ticket EXCEPT ![t] = arrivals + 1] /\ arrivals' = arrivals + 1
        /\ pc' = [pc EXCEPT ![t] = "preparing"]
    BY <1>2 DEF SubmitStart, Begin, Enqueued
  <2> QED
    BY <2>2, <2>4, <2>5 DEF ArrivalInv, FirstComeFirstServed, TypeOK
<1>3. ASSUME NEW t \in Turn, SubmitQueue(t) PROVE ArrivalInv'
  <2>1. /\ ticket' = [ticket EXCEPT ![t] = arrivals + 1] /\ arrivals' = arrivals + 1
        /\ pc[t] = "idle" /\ pc' = [pc EXCEPT ![t] = "waiting"]
        /\ waiters' = Append(waiters, t) /\ t \in Waiter /\ waiters \in Seq(Waiter)
    BY <1>3 DEF SubmitQueue, Enqueued, Waiter, TypeOK
  <2>2. Elements(waiters') = Elements(waiters) \cup {t} /\ t \notin Elements(waiters)
    BY <2>1, ElementsOfAppend DEF ArrivalInv
  <2>3. \A u \in Turn \ {t} : ticket'[u] = ticket[u] /\ ticket[u] < ticket'[t]
    BY <2>1 DEF ArrivalInv, TypeOK
  <2>4. Sorted(waiters)'
    BY <2>1, <2>2, <2>3, SortedAppend DEF ArrivalInv
  <2>5. FirstComeFirstServed'
    <3> SUFFICES ASSUME NEW u \in Turn, NEW w \in Turn, pc'[u] = "waiting", ticket'[u] < ticket'[w]
                 PROVE  pc'[w] = "waiting"
      BY DEF FirstComeFirstServed
    <3>1. CASE w = t
      BY <2>1, <3>1 DEF TypeOK
    <3>2. CASE w # t
      <4>1. u # t
        BY <2>3, <3>2 DEF TypeOK
      <4> QED
        BY <2>1, <2>3, <3>2, <4>1 DEF ArrivalInv, FirstComeFirstServed, TypeOK
    <3> QED
      BY <3>1, <3>2
  <2> QED
    BY <2>1, <2>2, <2>3, <2>4, <2>5 DEF ArrivalInv, TypeOK
<1>4. ASSUME NEW t \in Turn, GetLock(t) PROVE ArrivalInv'
  BY <1>4, TakeLockArrival DEF GetLock, Begin, TurnPhase
<1>5. ASSUME NEW t \in Turn, GetLockCancelled(t) PROVE ArrivalInv'
  BY <1>5, TakeLockArrival DEF GetLockCancelled, TurnPhase
<1>6. ASSUME NEW t \in Turn, LeaveDiscard(t) PROVE ArrivalInv'
  BY <1>6, ArrivalFrame DEF LeaveDiscard, TypeOK
<1>7. ASSUME NEW t \in Turn, Prepare(t) PROVE ArrivalInv'
  BY <1>7, ArrivalFrame DEF Prepare, TypeOK
<1>8. ASSUME NEW t \in Turn, Write(t) PROVE ArrivalInv'
  BY <1>8, ArrivalFrame DEF Write, TypeOK
<1>9. ASSUME NEW t \in Turn, BeginCompress(t) PROVE ArrivalInv'
  BY <1>9, ArrivalFrame DEF BeginCompress, TypeOK
<1>10. ASSUME NEW t \in Turn, EndCompress(t) PROVE ArrivalInv'
  BY <1>10, ArrivalFrame DEF EndCompress, TypeOK
<1>11. ASSUME NEW t \in Turn, Complete(t) PROVE ArrivalInv'
  BY <1>11, ArrivalFrame DEF Complete, LeaveLoop, TypeOK
<1>12. ASSUME NEW t \in Turn, Interrupted(t) PROVE ArrivalInv'
  BY <1>12, ArrivalFrame DEF Interrupted, LeaveLoop, InLoop, TypeOK
<1>13. ASSUME NEW t \in Turn, Fail(t) PROVE ArrivalInv'
  BY <1>13, ArrivalFrame DEF Fail, LeaveLoop, InLoop, TypeOK
<1>14. ASSUME NEW t \in Turn, EndTurn(t) PROVE ArrivalInv'
  BY <1>14, ArrivalFrame DEF EndTurn, Leaving, TypeOK
<1>15. CASE Interrupt
  BY <1>15, ArrivalFrame DEF Interrupt
<1>16. ASSUME NEW r \in NewSession, NewInsideTurn(r) PROVE ArrivalInv'
  BY <1>16, ArrivalFrame DEF NewInsideTurn
<1>17. ASSUME NEW r \in NewSession, NewWhileBusy(r) PROVE ArrivalInv'
  BY <1>17, ArrivalFrame DEF NewWhileBusy
<1>18. ASSUME NEW r \in NewSession, NewWhileIdle(r) PROVE ArrivalInv'
  <2>1. CASE LockAvailable /\ ClearSession(r) /\ UNCHANGED waiters
    BY <2>1, ArrivalFrame DEF ClearSession
  <2>2. CASE ~LockAvailable /\ QueueForLock(r)
    BY <2>2, ResetArrival DEF QueueForLock
  <2> QED
    BY <1>18, <2>1, <2>2 DEF NewWhileIdle, EnterLock
<1>19. ASSUME NEW r \in NewSession, PollFree(r) PROVE ArrivalInv'
  <2>1. CASE LockAvailable /\ ClearSession(r) /\ UNCHANGED waiters
    BY <2>1, ArrivalFrame DEF ClearSession
  <2>2. CASE ~LockAvailable /\ QueueForLock(r)
    BY <2>2, ResetArrival DEF QueueForLock
  <2> QED
    BY <1>19, <2>1, <2>2 DEF PollFree, EnterLock
<1>20. ASSUME NEW r \in NewSession, PollTimeout(r) PROVE ArrivalInv'
  <2>1. CASE QueueForLock(r)
    BY <1>20, <2>1, ResetArrival DEF PollTimeout, QueueForLock
  <2>2. CASE ~QueueForLock(r)
    BY <1>20, <2>2, ArrivalFrame DEF PollTimeout
  <2> QED
    BY <2>1, <2>2
<1>21. ASSUME NEW r \in NewSession, ResetGetsLock(r) PROVE ArrivalInv'
  BY <1>21, ResetArrival DEF ResetGetsLock, ClearSession
<1>22. ASSUME NEW r \in NewSession, Finalize(r) PROVE ArrivalInv'
  BY <1>22, ArrivalFrame DEF Finalize
<1>23. ASSUME NEW c \in Compact, StartCompact(c) PROVE ArrivalInv'
  BY <1>23, ArrivalFrame DEF StartCompact
<1>24. ASSUME NEW c \in Compact, FinishCompact(c) PROVE ArrivalInv'
  BY <1>24, ArrivalFrame DEF FinishCompact
<1>25. CASE UNCHANGED vars
  BY <1>25, ArrivalFrame DEF vars
<1> QED
  BY <1>1, <1>2, <1>3, <1>4, <1>5, <1>6, <1>7, <1>8, <1>9, <1>10, <1>11, <1>12, <1>13,
     <1>14, <1>15, <1>16, <1>17, <1>18, <1>19, <1>20, <1>21, <1>22, <1>23, <1>24, <1>25
  DEF Next, TurnStep, Submit, TurnExit, Reset

-----------------------------------------------------------------------------
KernelInv == TypeOK /\ LockInv /\ QueueInv /\ ArrivalInv

(* The strengthened invariant of the kernel.                               *)
THEOREM KernelInvariant == Spec => []KernelInv
<1>1. Init => KernelInv
  BY InitTyped, InitLock, InitQueue, InitArrival DEF KernelInv
<1>2. KernelInv /\ [Next]_vars => KernelInv'
  BY NextTyped, NextLock, NextQueue, NextArrival DEF KernelInv
<1> QED
  BY <1>1, <1>2, PTL DEF Spec

(* No message overtakes one that waits (TurnQueue: first come, first       *)
(* served), for any number of messages, resets and compactions.            *)
THEOREM ServedInOrderOfArrival == Spec => []FirstComeFirstServed
<1>1. KernelInv => FirstComeFirstServed
  BY DEF KernelInv, ArrivalInv
<1> QED
  BY <1>1, KernelInvariant, PTL

(* A message that interrupt_current_turn cancelled never becomes a turn.   *)
THEOREM CancelledStaysOut == Spec => []CancelledNeverRuns
<1>1. KernelInv => CancelledNeverRuns
  BY DEF KernelInv, QueueInv, TypeOK, CancelledNeverRuns, Executing, InLoop, Leaving
<1> QED
  BY <1>1, KernelInvariant, PTL

(* has_active_turn is true exactly while an accepted message waits or a    *)
(* turn is inside the lock.                                                *)
THEOREM BusyClockIsExact == Spec => []BusyIsExact
<1>1. KernelInv => BusyIsExact
  <2> SUFFICES ASSUME KernelInv PROVE BusyIsExact
    OBVIOUS
  <2>1. turnQueue # <<>> <=> \E t \in Turn : pc[t] = "waiting" /\ t \notin cancelled
    <3>3. turnQueue \in Seq(Turn)
      BY DEF KernelInv, TypeOK
    <3>4. ASSUME turnQueue # <<>> PROVE turnQueue[1] \in Elements(turnQueue)
      BY <3>3, <3>4, EmptySeq, LenProperties DEF Elements
    <3>1. turnQueue # <<>> <=> Elements(turnQueue) # {}
      BY <3>4, ElementsOfEmpty
    <3>2. Elements(turnQueue) \subseteq Turn
      BY ElementsAreMembers DEF KernelInv, TypeOK
    <3> QED
      BY <3>1, <3>2 DEF KernelInv, QueueInv
  <2>2. insideTurn \/ activeTurn # Nobody \/ holder # Nobody <=> \E t \in Turn : InLock(t)
    BY DistinctActors DEF KernelInv, LockInv, InLock, TypeOK
  <2> QED
    BY <2>1, <2>2 DEF BusyIsExact, HasActiveTurn
<1> QED
  BY <1>1, KernelInvariant, PTL

-----------------------------------------------------------------------------
(* The context.  The kernel's lock keeps everyone but a manual /compact    *)
(* from changing it under a running turn.                                  *)
(* Nobody compacts by hand: a manual /compact takes no lock, and without   *)
(* this hypothesis it puts back a context that others have changed since.  *)
NoManualCompaction == \A c \in Compact : kpc[c] # "summarising"

(* Where the rollback of the running turn would cut (RolledBack).          *)
Cut == IF rollbackFloor # NoFloor THEN rollbackFloor ELSE historyStart

Unheard(t) == pc[t] \in {"idle", "waiting", "rejected", "preparing"}
Own(t) == pc[t] = "preparing" \/ InLoop(t)

(* The context of the running turn: the floor belongs to a turn in its     *)
(* loop and comes with a summary; behind the cut only the turn itself and  *)
(* a seed have written; and before its start the turn has said nothing.    *)
ContextInv ==
  /\ rollbackFloor # NoFloor =>
       (\E t \in Turn : InLoop(t)) /\ \E i \in DOMAIN history : history[i] = Summary
  /\ \A t \in Turn : Own(t) =>
       /\ Cut <= Len(history)
       /\ \A i \in DOMAIN history : history[i] \in Turn \ {t} => i <= Cut
  /\ \A t \in Turn : Unheard(t) => \A i \in DOMAIN history : history[i] # t
  /\ \A t \in Turn : (InLoop(t) /\ rollbackFloor = NoFloor) =>
       \A i \in DOMAIN history : history[i] = t => historyStart < i
  /\ CompactionLosesNothing

(* A reset in the line stands behind every message of its past.            *)
Behind(line, past) ==
  \A i, j \in DOMAIN line :
    (line[i] \in NewSession /\ line[j] \in past[line[i]]) => j < i

(* The messages submitted before a reset was asked for: they stand before  *)
(* it in the line for the lock, so none is left when it clears.            *)
FreshInv ==
  /\ \A r \in NewSession : \A t \in before[r] : pc[t] # "idle"
  /\ \A r \in Elements(waiters) \cap NewSession : rpc[r] # "idle"
  /\ Behind(waiters, before)
  /\ \A r \in NewSession : Cleared(r) =>
       \A t \in before[r] : Ended(t) /\ \A i \in DOMAIN history : history[i] # t


LEMMA InitContext == Init => ContextInv /\ FreshInv
<1> SUFFICES ASSUME Init PROVE ContextInv /\ FreshInv
  OBVIOUS
<1>1. ContextInv
  BY DEF Init, ContextInv, CompactionLosesNothing, InLoop, Own, NoFloor
<1>2. Elements(waiters) = {} /\ Behind(waiters, before)
  BY ElementsOfEmpty DEF Init, Behind
<1> QED
  BY <1>1, <1>2 DEF Init, FreshInv, Cleared

(* One turn at a time, and none while the lock is free.                    *)
LEMMA OneInside ==
  ASSUME KernelInv
  PROVE  /\ \A t, u \in Turn : InLock(t) /\ InLock(u) => t = u
         /\ holder = Nobody => \A t \in Turn : ~InLock(t)
  BY DistinctActors DEF KernelInv, LockInv

LEMMA AppendFacts ==
  ASSUME NEW S, NEW seq \in Seq(S), NEW e \in S
  PROVE  /\ Len(seq) \in Nat /\ DOMAIN seq = 1 .. Len(seq)
         /\ Len(Append(seq, e)) = Len(seq) + 1 /\ DOMAIN Append(seq, e) = 1 .. Len(seq) + 1
         /\ Append(seq, e)[Len(seq) + 1] = e
         /\ \A i \in 1 .. Len(seq) : Append(seq, e)[i] = seq[i]
  BY AppendProperties

(* What a compaction puts in place begins with a summary and repeats only  *)
(* entries of the copy.                                                    *)
LEMMA CompressedFacts ==
  ASSUME NEW seq \in Seq(Writer), NEW res \in Compressed(seq)
  PROVE  /\ res \in Seq(Writer) /\ Len(res) \in Nat /\ DOMAIN res = 1 .. Len(res)
         /\ 1 \in DOMAIN res /\ res[1] = Summary
         /\ \A i \in DOMAIN res : res[i] = Summary \/ \E j \in DOMAIN seq : seq[j] = res[i]
<1>1. PICK k \in 1 .. Len(seq) : res = <<Summary>> \o SubSeq(seq, k + 1, Len(seq))
  BY DEF Compressed
<1> DEFINE rest == SubSeq(seq, k + 1, Len(seq))
<1>2. /\ rest \in Seq(Writer) /\ Len(rest) = Len(seq) - k
      /\ \A i \in 1 .. Len(seq) - k : rest[i] = seq[k + i]
  BY SubSeqProperties
<1>3. <<Summary>> \in Seq(Writer) /\ Len(<<Summary>>) = 1 /\ <<Summary>>[1] = Summary
  BY DEF Writer
<1> HIDE DEF rest
<1>4. /\ res \in Seq(Writer) /\ Len(res) = 1 + Len(rest)
      /\ \A i \in 1 .. Len(res) : res[i] = IF i <= 1 THEN <<Summary>>[i] ELSE rest[i - 1]
  BY <1>1, <1>2, <1>3, ConcatProperties DEF rest
<1>5. ASSUME NEW i \in 1 .. Len(res), i # 1 PROVE \E j \in DOMAIN seq : seq[j] = res[i]
  <2>0. Len(seq) \in Nat /\ DOMAIN seq = 1 .. Len(seq)
    OBVIOUS
  <2>1. i - 1 \in 1 .. Len(seq) - k
    BY <1>2, <1>4, <1>5, <2>0
  <2>2. res[i] = rest[i - 1]
    <3>1. ~(i <= 1)
      BY <1>5
    <3>2. res[i] = IF i <= 1 THEN <<Summary>>[i] ELSE rest[i - 1]
      BY <1>4
    <3> QED
      BY <3>1, <3>2
  <2>3. rest[i - 1] = seq[k + (i - 1)]
    BY <1>2, <2>1
  <2>4. k + (i - 1) \in DOMAIN seq
    BY <2>0, <2>1
  <2> QED
    BY <2>2, <2>3, <2>4
<1>6. Len(res) \in Nat /\ DOMAIN res = 1 .. Len(res)
  BY <1>4
<1>7. 1 \in DOMAIN res /\ res[1] = Summary
  <2>1. Len(rest) \in Nat
    BY <1>2
  <2>2. 1 \in 1 .. Len(res)
    BY <1>4, <1>6, <2>1
  <2> QED
    BY <1>3, <1>4, <1>6, <2>2
<1> QED
  BY <1>4, <1>5, <1>6, <1>7

(* What a rollback leaves is the context up to the cut.                    *)
LEMMA RolledBackFacts ==
  ASSUME TypeOK, Cut <= Len(history)
  PROVE  /\ RolledBack \in Seq(Writer) /\ Len(RolledBack) = Cut /\ Cut \in Nat
         /\ \A i \in 1 .. Cut : RolledBack[i] = history[i]
<1>1. Cut \in Nat /\ RolledBack = SubSeq(history, 1, Cut)
  BY DEF TypeOK, RolledBack, Cut, NoFloor
<1> QED
  BY <1>1, SubSeqProperties DEF TypeOK

(* A step that does not touch the context.                                 *)
LEMMA ContextFrame ==
  ASSUME ContextInv, UNCHANGED <<history, historyStart, rollbackFloor>>,
         \A t \in Turn : /\ Own(t)' <=> Own(t)
                         /\ InLoop(t)' <=> InLoop(t)
                         /\ Unheard(t)' => Unheard(t)
                         /\ pc'[t] = "compressing" => pc[t] = "compressing" /\ snapshot'[t] = snapshot[t]
  PROVE  ContextInv'
<1>1. Cut' = Cut
  BY DEF Cut
<1>2. CompactionLosesNothing'
  BY DEF ContextInv, CompactionLosesNothing
<1> QED
  BY <1>1, <1>2 DEF ContextInv

(* A turn that enters the lock: the context so far is all before its start.*)
LEMMA ContextBegin ==
  ASSUME KernelInv, ContextInv, NEW t \in Turn, holder = Nobody, Unheard(t), Begin(t),
         UNCHANGED <<history, rollbackFloor, snapshot>>
  PROVE  ContextInv'
<1>1. \A u \in Turn : ~InLock(u)
  BY OneInside
<1>2. rollbackFloor = NoFloor /\ Cut' = Len(history)
  BY <1>1 DEF ContextInv, InLock, Executing, Cut, Begin
<1>3. /\ history \in Seq(Writer) /\ Len(history) \in Nat /\ DOMAIN history = 1 .. Len(history)
      /\ pc \in [Turn -> TurnPhase] /\ pc' = [pc EXCEPT ![t] = "preparing"]
  BY DEF KernelInv, TypeOK, Begin
<1>4. \A u \in Turn : ~InLoop(u)' /\ pc'[u] # "compressing" /\ (Unheard(u)' => Unheard(u))
  BY <1>1, <1>3 DEF InLock, Executing, InLoop, Unheard
<1> QED
  BY <1>2, <1>3, <1>4 DEF ContextInv, CompactionLosesNothing, Own

(* An entry of the turn that is inside, or of a seed, goes to the end.     *)
LEMMA ContextAppend ==
  ASSUME KernelInv, ContextInv, NEW e \in Writer, history' = Append(history, e),
         UNCHANGED <<historyStart, rollbackFloor, snapshot>>,
         \A t \in Turn : /\ Own(t)' => Own(t) /\ (e \in Turn => e = t)
                         /\ InLoop(t)' => Own(t)
                         /\ InLoop(t) => InLoop(t)' \/ rollbackFloor = NoFloor
                         /\ Unheard(t)' => Unheard(t) /\ t # e
                         /\ pc'[t] = "compressing" => pc[t] = "compressing" /\ e \notin Turn
  PROVE  ContextInv'
<1>1. /\ history \in Seq(Writer) /\ Len(history) \in Nat /\ DOMAIN history = 1 .. Len(history)
      /\ Len(history') = Len(history) + 1 /\ DOMAIN history' = 1 .. Len(history) + 1
      /\ history'[Len(history) + 1] = e
      /\ \A i \in 1 .. Len(history) : history'[i] = history[i]
  BY AppendFacts DEF KernelInv, TypeOK
<1>2. Cut' = Cut /\ Cut \in Int /\ historyStart \in Nat
  BY DEF Cut, KernelInv, TypeOK, NoFloor
<1>3. rollbackFloor' # NoFloor =>
        (\E t \in Turn : InLoop(t)') /\ \E i \in DOMAIN history' : history'[i] = Summary
  BY <1>1 DEF ContextInv
<1>4. ASSUME NEW t \in Turn, Own(t)'
      PROVE  /\ Cut' <= Len(history')
             /\ \A i \in DOMAIN history' : history'[i] \in Turn \ {t} => i <= Cut'
  <2>1. Cut <= Len(history) /\ \A i \in DOMAIN history : history[i] \in Turn \ {t} => i <= Cut
    BY <1>4 DEF ContextInv
  <2>2. e \notin Turn \ {t}
    BY <1>4
  <2> QED
    BY <1>1, <1>2, <2>1, <2>2
<1>5. ASSUME NEW t \in Turn, Unheard(t)' PROVE \A i \in DOMAIN history' : history'[i] # t
  BY <1>1, <1>5 DEF ContextInv
<1>6. ASSUME NEW t \in Turn, InLoop(t)', rollbackFloor' = NoFloor
      PROVE  \A i \in DOMAIN history' : history'[i] = t => historyStart' < i
  <2>1. Own(t) /\ historyStart = Cut /\ historyStart <= Len(history)
    BY <1>6 DEF ContextInv, Cut
  <2>2. \A i \in DOMAIN history : history[i] = t => historyStart < i
    <3>1. CASE InLoop(t)
      BY <1>6, <3>1 DEF ContextInv
    <3>2. CASE Unheard(t)
      BY <3>2 DEF ContextInv
    <3> QED
      BY <2>1, <3>1, <3>2 DEF Own, Unheard
  <2> QED
    BY <1>1, <1>2, <2>1, <2>2
<1>7. CompactionLosesNothing'
  <2> SUFFICES ASSUME NEW t \in Turn, pc'[t] = "compressing"
               PROVE  /\ Len(snapshot[t]) <= Len(history')
                      /\ \A i \in 1 .. Len(snapshot[t]) : history'[i] = snapshot[t][i]
                      /\ \A i \in Len(snapshot[t]) + 1 .. Len(history') : history'[i] \notin Turn
    BY DEF CompactionLosesNothing
  <2>1. /\ Len(snapshot[t]) <= Len(history) /\ e \notin Turn
        /\ \A i \in 1 .. Len(snapshot[t]) : history[i] = snapshot[t][i]
        /\ \A i \in Len(snapshot[t]) + 1 .. Len(history) : history[i] \notin Turn
    BY DEF ContextInv, CompactionLosesNothing
  <2>2. Len(snapshot[t]) \in Nat
    BY DEF KernelInv, TypeOK, Compactor
  <2> QED
    BY <1>1, <2>1, <2>2
<1> QED
  BY <1>3, <1>4, <1>5, <1>6, <1>7 DEF ContextInv

(* Leaving the loop leaves nothing to cut: no turn is inside its loop.     *)
LEMMA ContextLeave ==
  ASSUME KernelInv, ContextInv, NEW t \in Turn, InLoop(t),
         NEW phase \in {"persisting", "failing"}, LeaveLoop(t, phase),
         \A i \in DOMAIN history' : history'[i] = t \/ \E j \in DOMAIN history : history[j] = history'[i]
  PROVE  ContextInv'
<1>1. \A u \in Turn : u # t => ~Own(u) /\ ~InLoop(u)
  BY OneInside DEF InLock, Executing, Own, InLoop
<1>2. pc \in [Turn -> TurnPhase] /\ pc' = [pc EXCEPT ![t] = phase] /\ rollbackFloor' = NoFloor
  BY DEF KernelInv, TypeOK, LeaveLoop
<1>3. \A u \in Turn : ~Own(u)' /\ ~InLoop(u)' /\ pc'[u] # "compressing" /\ (Unheard(u)' => Unheard(u) /\ u # t)
  BY <1>1, <1>2 DEF Own, InLoop, Unheard
<1>4. ASSUME NEW u \in Turn, Unheard(u)' PROVE \A i \in DOMAIN history' : history'[i] # u
  BY <1>3, <1>4 DEF ContextInv
<1> QED
  BY <1>2, <1>3, <1>4 DEF ContextInv, CompactionLosesNothing

(* An empty context, and nobody inside.                                    *)
LEMMA ContextClear ==
  ASSUME KernelInv, ContextInv, holder = Nobody, NEW r \in NewSession, ClearSession(r)
  PROVE  ContextInv'
<1>1. \A t \in Turn : ~Own(t) /\ ~InLoop(t)
  BY OneInside DEF InLock, Executing, Own, InLoop
<1>2. rollbackFloor' = NoFloor /\ pc' = pc /\ DOMAIN history' = {}
  BY <1>1 DEF ContextInv, ClearSession
<1> QED
  BY <1>1, <1>2 DEF ContextInv, CompactionLosesNothing, Own, InLoop, Unheard

LEMMA ContextEndCompress ==
  ASSUME KernelInv, ContextInv, NEW t \in Turn, EndCompress(t)
  PROVE  ContextInv'
<1>1. \A u \in Turn : u # t => ~Own(u) /\ ~InLoop(u)
  BY OneInside DEF InLock, Executing, Own, InLoop, EndCompress
<1>2. /\ pc \in [Turn -> TurnPhase] /\ pc[t] = "compressing" /\ pc' = [pc EXCEPT ![t] = "running"]
      /\ historyStart' = historyStart
  BY DEF KernelInv, TypeOK, EndCompress, contextVars
<1>3. \A u \in Turn : /\ Own(u)' <=> Own(u)
                      /\ InLoop(u)' <=> InLoop(u)
                      /\ Unheard(u)' => Unheard(u)
                      /\ pc'[u] # "compressing"
  BY <1>1, <1>2 DEF Own, InLoop, Unheard
<1>4. CASE Rewrite(t)
  <2>1. snapshot[t] \in Seq(Writer) /\ history' \in Compressed(snapshot[t]) /\ rollbackFloor' = Len(history')
    BY <1>4 DEF Rewrite, KernelInv, TypeOK, Compactor
  <2>2. /\ Len(history') \in Nat /\ DOMAIN history' = 1 .. Len(history')
        /\ 1 \in DOMAIN history' /\ history'[1] = Summary
        /\ \A i \in DOMAIN history' :
             history'[i] = Summary \/ \E j \in DOMAIN snapshot[t] : snapshot[t][j] = history'[i]
    BY <2>1, CompressedFacts
  <2>3. Cut' = Len(history') /\ rollbackFloor' # NoFloor
    BY <2>1, <2>2 DEF Cut, NoFloor
  <2>4. \A j \in DOMAIN snapshot[t] : j \in DOMAIN history /\ history[j] = snapshot[t][j]
    <3>1. /\ Len(snapshot[t]) <= Len(history)
          /\ \A i \in 1 .. Len(snapshot[t]) : history[i] = snapshot[t][i]
      BY <1>2 DEF ContextInv, CompactionLosesNothing
    <3>2. /\ Len(history) \in Nat /\ DOMAIN history = 1 .. Len(history)
          /\ Len(snapshot[t]) \in Nat /\ DOMAIN snapshot[t] = 1 .. Len(snapshot[t])
      BY <2>1 DEF KernelInv, TypeOK
    <3> QED
      BY <3>1, <3>2
  <2>5. ASSUME NEW u \in Turn, Unheard(u)' PROVE \A i \in DOMAIN history' : history'[i] # u
    <3>1. \A j \in DOMAIN snapshot[t] : snapshot[t][j] # u
      BY <1>3, <2>4, <2>5 DEF ContextInv
    <3> QED
      BY <2>2, <3>1, DistinctActors
  <2>6. InLoop(t)'
    BY <1>2 DEF InLoop
  <2> QED
    BY <1>3, <2>2, <2>3, <2>5, <2>6 DEF ContextInv, CompactionLosesNothing
<1>5. CASE UNCHANGED <<history, rollbackFloor>>
  BY <1>2, <1>3, <1>5, ContextFrame
<1> QED
  BY <1>4, <1>5 DEF EndCompress

LEMMA NextContext ==
  KernelInv /\ ContextInv /\ NoManualCompaction /\ [Next]_vars => ContextInv'
<1> SUFFICES ASSUME KernelInv, ContextInv, NoManualCompaction, [Next]_vars PROVE ContextInv'
  OBVIOUS
<1>0. /\ TypeOK /\ pc \in [Turn -> TurnPhase] /\ history \in Seq(Writer)
      /\ \A t, u \in Turn : (Own(t) \/ InLoop(t) \/ pc[t] = "discarding") /\ (Own(u) \/ InLoop(u) \/ pc[u] = "discarding") => t = u
      /\ holder = Nobody => \A t \in Turn : ~Own(t) /\ ~InLoop(t)
  BY OneInside DEF KernelInv, TypeOK, InLock, Executing, Own, InLoop
<1> USE DEF lockVars, queueVars, runtimeVars, contextVars, ghostVars
<1>1. ASSUME NEW t \in Turn, SubmitRejected(t) PROVE ContextInv'
  BY <1>0, <1>1, ContextFrame DEF SubmitRejected, Own, InLoop, Unheard
<1>2. ASSUME NEW t \in Turn, SubmitStart(t) PROVE ContextInv'
  BY <1>2, ContextBegin DEF SubmitStart, LockAvailable, Unheard
<1>3. ASSUME NEW t \in Turn, SubmitQueue(t) PROVE ContextInv'
  BY <1>0, <1>3, ContextFrame DEF SubmitQueue, Own, InLoop, Unheard
<1>4. ASSUME NEW t \in Turn, GetLock(t) PROVE ContextInv'
  BY <1>4, ContextBegin DEF GetLock, WokenUp, Unheard
<1>5. ASSUME NEW t \in Turn, GetLockCancelled(t) PROVE ContextInv'
  <2>1. \A u \in Turn : ~Own(u) /\ ~InLoop(u)
    BY <1>0, <1>5 DEF GetLockCancelled, WokenUp
  <2>2. pc' = [pc EXCEPT ![t] = "discarding"] /\ t \in Writer
    BY <1>5 DEF GetLockCancelled, Writer
  <2>3. \A u \in Turn : ~Own(u)' /\ ~InLoop(u)' /\ pc'[u] # "compressing" /\ (Unheard(u)' => Unheard(u) /\ u # t)
    BY <1>0, <2>1, <2>2 DEF Own, InLoop, Unheard
  <2> QED
    BY <1>5, <2>1, <2>2, <2>3, ContextAppend DEF GetLockCancelled
<1>6. ASSUME NEW t \in Turn, LeaveDiscard(t) PROVE ContextInv'
  BY <1>0, <1>6, ContextFrame DEF LeaveDiscard, Own, InLoop, Unheard
<1>7. ASSUME NEW t \in Turn, Prepare(t) PROVE ContextInv'
  <2>1. Own(t) /\ ~InLoop(t) /\ t \in Writer
    BY <1>7 DEF Prepare, Own, InLoop, Writer
  <2>2. \A u \in Turn : u # t => ~Own(u) /\ ~InLoop(u)
    BY <1>0, <2>1
  <2>3. PICK phase \in {"running", "unwinding"} : pc' = [pc EXCEPT ![t] = phase]
    BY <1>7 DEF Prepare
  <2>4. rollbackFloor = NoFloor
    BY <2>1, <2>2 DEF ContextInv
  <2>5. \A u \in Turn : /\ Own(u)' => u = t
                        /\ InLoop(u)' => u = t
                        /\ pc'[u] # "compressing"
                        /\ Unheard(u)' => Unheard(u) /\ u # t
    BY <1>0, <2>2, <2>3 DEF Own, InLoop, Unheard
  <2> QED
    BY <1>7, <2>1, <2>4, <2>5, ContextAppend DEF Prepare
<1>8. ASSUME NEW t \in Turn, Write(t) PROVE ContextInv'
  <2>1. InLoop(t) /\ Own(t) /\ ~Unheard(t) /\ t \in Writer /\ pc' = pc
    BY <1>8 DEF Write, Own, InLoop, Unheard, Writer
  <2>2. \A u \in Turn : /\ Own(u) \/ InLoop(u) => u = t
                        /\ pc[u] # "compressing"
    BY <1>0, <1>8, <2>1 DEF Write, Own, InLoop
  <2>3. \A u \in Turn : /\ Own(u)' <=> Own(u)
                        /\ InLoop(u)' <=> InLoop(u)
                        /\ Unheard(u)' <=> Unheard(u)
    BY <2>1 DEF Own, InLoop, Unheard
  <2> QED
    BY <1>8, <2>1, <2>2, <2>3, ContextAppend DEF Write, Own
<1>9. ASSUME NEW t \in Turn, BeginCompress(t) PROVE ContextInv'
  <2>1. /\ pc' = [pc EXCEPT ![t] = "compressing"] /\ pc[t] = "running"
        /\ snapshot' = [snapshot EXCEPT ![t] = history] /\ t \in Compactor
        /\ UNCHANGED <<history, historyStart, rollbackFloor>>
    BY <1>9 DEF BeginCompress, Compactor
  <2>2. \A u \in Turn : u # t => ~InLoop(u)
    BY <1>0, <2>1 DEF InLoop
  <2>3. \A u \in Turn : /\ Own(u)' <=> Own(u)
                        /\ InLoop(u)' <=> InLoop(u)
                        /\ Unheard(u)' => Unheard(u)
                        /\ pc'[u] = "compressing" => u = t
    BY <1>0, <2>1, <2>2 DEF Own, InLoop, Unheard
  <2>4. snapshot'[t] = history
    BY <2>1 DEF KernelInv, TypeOK
  <2>5. Len(history) \in Nat
    BY <1>0
  <2>6. CompactionLosesNothing'
    BY <2>1, <2>3, <2>4, <2>5 DEF CompactionLosesNothing
  <2>7. Cut' = Cut
    BY <2>1 DEF Cut
  <2> QED
    BY <2>1, <2>3, <2>6, <2>7 DEF ContextInv
<1>10. ASSUME NEW t \in Turn, EndCompress(t) PROVE ContextInv'
  BY <1>10, ContextEndCompress
<1>11. ASSUME NEW t \in Turn, Complete(t) PROVE ContextInv'
  BY <1>11, ContextLeave DEF Complete, InLoop
<1>12. ASSUME NEW t \in Turn, Interrupted(t) PROVE ContextInv'
  <2>1. \A i \in DOMAIN history' : history'[i] = t \/ \E j \in DOMAIN history : history[j] = history'[i]
    <3>1. CASE history' = history
      BY <3>1
    <3>2. CASE history' = Append(history, t)
      BY <1>0, <3>2, AppendFacts DEF Writer
    <3> QED
      BY <1>12, <3>1, <3>2 DEF Interrupted
  <2> QED
    BY <1>12, <2>1, ContextLeave DEF Interrupted
<1>13. ASSUME NEW t \in Turn, Fail(t) PROVE ContextInv'
  <2>1. /\ RolledBack \in Seq(Writer) /\ Cut \in Nat /\ Cut <= Len(history) /\ Len(RolledBack) = Cut
        /\ \A i \in 1 .. Cut : RolledBack[i] = history[i]
    BY <1>0, <1>13, RolledBackFacts DEF Fail, ContextInv, Own
  <2>2. \A i \in DOMAIN RolledBack : \E j \in DOMAIN history : history[j] = RolledBack[i]
    BY <1>0, <2>1
  <2>3. \A i \in DOMAIN history' : history'[i] = t \/ \E j \in DOMAIN history : history[j] = history'[i]
    <3>1. CASE history' = RolledBack
      BY <2>2, <3>1
    <3>2. CASE history' = Append(RolledBack, t)
      BY <2>1, <2>2, <3>2, AppendFacts DEF Writer
    <3> QED
      BY <1>13, <3>1, <3>2 DEF Fail
  <2> QED
    BY <1>13, <2>3, ContextLeave DEF Fail
<1>14. ASSUME NEW t \in Turn, EndTurn(t) PROVE ContextInv'
  BY <1>0, <1>14, ContextFrame DEF EndTurn, Leaving, Own, InLoop, Unheard
<1>15. CASE Interrupt
  BY <1>15, ContextFrame DEF Interrupt, Own, InLoop, Unheard
<1>16. ASSUME NEW r \in NewSession, NewInsideTurn(r) PROVE ContextInv'
  BY <1>16, ContextFrame DEF NewInsideTurn, Own, InLoop, Unheard
<1>17. ASSUME NEW r \in NewSession, NewWhileBusy(r) PROVE ContextInv'
  BY <1>17, ContextFrame DEF NewWhileBusy, Own, InLoop, Unheard
<1>18. ASSUME NEW r \in NewSession, EnterLock(r) PROVE ContextInv'
  <2>1. CASE LockAvailable /\ ClearSession(r)
    BY <2>1, ContextClear DEF LockAvailable
  <2>2. CASE QueueForLock(r)
    BY <2>2, ContextFrame DEF QueueForLock, Own, InLoop, Unheard
  <2> QED
    BY <1>18, <2>1, <2>2 DEF EnterLock
<1>20. ASSUME NEW r \in NewSession, PollTimeout(r) PROVE ContextInv'
  BY <1>20, ContextFrame DEF PollTimeout, QueueForLock, Own, InLoop, Unheard
<1>21. ASSUME NEW r \in NewSession, ResetGetsLock(r) PROVE ContextInv'
  BY <1>21, ContextClear DEF ResetGetsLock, WokenUp
<1>22. ASSUME NEW r \in NewSession, Finalize(r) PROVE ContextInv'
  <2>1. r \in Writer /\ r \notin Turn /\ pc' = pc
    BY <1>22, DistinctActors DEF Finalize, Writer
  <2>2. \A t \in Turn : (Own(t)' <=> Own(t)) /\ (InLoop(t)' <=> InLoop(t)) /\ (Unheard(t)' <=> Unheard(t))
    BY <2>1 DEF Own, InLoop, Unheard
  <2>3. CASE history' = history
    BY <1>22, <2>1, <2>2, <2>3, ContextFrame DEF Finalize
  <2>4. CASE history' = Append(history, r)
    BY <1>22, <2>1, <2>2, <2>4, ContextAppend DEF Finalize, Own
  <2> QED
    BY <1>22, <2>3, <2>4 DEF Finalize
<1>23. ASSUME NEW c \in Compact, StartCompact(c) PROVE ContextInv'
  <2>1. \A t \in Turn : snapshot'[t] = snapshot[t]
    BY <1>0, <1>23, DistinctActors DEF StartCompact, TypeOK, Compactor
  <2> QED
    BY <1>23, <2>1, ContextFrame DEF StartCompact, Own, InLoop, Unheard
<1>24. ASSUME NEW c \in Compact, FinishCompact(c) PROVE ContextInv'
  BY <1>24 DEF FinishCompact, NoManualCompaction
<1>25. CASE UNCHANGED vars
  BY <1>25, ContextFrame DEF vars, Own, InLoop, Unheard
<1> QED
  BY <1>1, <1>2, <1>3, <1>4, <1>5, <1>6, <1>7, <1>8, <1>9, <1>10, <1>11, <1>12, <1>13,
     <1>14, <1>15, <1>16, <1>17, <1>18, <1>20, <1>21, <1>22, <1>23, <1>24, <1>25
  DEF Next, TurnStep, Submit, TurnExit, Reset, NewWhileIdle, PollFree

-----------------------------------------------------------------------------
(* The order of the line is kept when its head leaves and when the newest  *)
(* comes last.                                                             *)
LEMMA BehindSame ==
  ASSUME NEW line, NEW past, NEW other, Behind(line, past),
         \A r \in Elements(line) \cap NewSession : other[r] = past[r]
  PROVE  Behind(line, other)
  BY DEF Behind, Elements

LEMMA BehindTail ==
  ASSUME NEW line \in Seq(Waiter), line # <<>>, NEW past, Behind(line, past)
  PROVE  Behind(Tail(line), past)
<1>1. /\ Len(line) \in Nat \ {0} /\ DOMAIN line = 1 .. Len(line)
      /\ DOMAIN Tail(line) = 1 .. Len(line) - 1
      /\ \A i \in 1 .. Len(line) - 1 : Tail(line)[i] = line[i + 1]
  BY EmptySeq, HeadTailProperties
<1> SUFFICES ASSUME NEW i \in 1 .. Len(line) - 1, NEW j \in 1 .. Len(line) - 1,
                    line[i + 1] \in NewSession, line[j + 1] \in past[line[i + 1]]
             PROVE  j < i
  BY <1>1 DEF Behind
<1>2. i + 1 \in DOMAIN line /\ j + 1 \in DOMAIN line
  BY <1>1
<1>3. j + 1 < i + 1
  BY <1>2 DEF Behind
<1> QED
  BY <1>1, <1>3

LEMMA BehindAppend ==
  ASSUME NEW line \in Seq(Waiter), NEW e \in Waiter, NEW past \in [NewSession -> SUBSET Turn],
         Behind(line, past), \A r \in (Elements(line) \cup {e}) \cap NewSession : e \notin past[r]
  PROVE  Behind(Append(line, e), past)
<1>1. /\ Len(line) \in Nat /\ DOMAIN line = 1 .. Len(line)
      /\ DOMAIN Append(line, e) = 1 .. Len(line) + 1 /\ Append(line, e)[Len(line) + 1] = e
      /\ \A i \in 1 .. Len(line) : Append(line, e)[i] = line[i]
  BY AppendFacts
<1>2. ASSUME NEW i \in 1 .. Len(line) + 1, NEW j \in 1 .. Len(line) + 1,
             Append(line, e)[i] \in NewSession, Append(line, e)[j] \in past[Append(line, e)[i]]
      PROVE  j < i
  <2>1. CASE j = Len(line) + 1
    <3>1. e \in past[Append(line, e)[i]]
      BY <1>1, <1>2, <2>1
    <3>2. Append(line, e)[i] \in Elements(line) \cup {e}
      BY <1>1 DEF Elements
    <3> QED
      BY <1>2, <3>1, <3>2
  <2>2. CASE j # Len(line) + 1 /\ i = Len(line) + 1
    BY <1>1, <2>2
  <2>3. CASE j # Len(line) + 1 /\ i # Len(line) + 1
    <3>1. i \in DOMAIN line /\ j \in DOMAIN line
      BY <1>1, <2>3
    <3> QED
      BY <1>1, <1>2, <3>1 DEF Behind
  <2> QED
    BY <2>1, <2>2, <2>3
<1> QED
  BY <1>1, <1>2 DEF Behind

(* One step of the line and of the context, as /new sees it: the line      *)
(* loses its head or gains a last one, the context gains only from turns   *)
(* that have not ended, and a reset that clears leaves no turn of its past.*)
LEMMA FreshStep ==
  ASSUME KernelInv, FreshInv, before' \in [NewSession -> SUBSET Turn],
         \A t \in Turn : (pc[t] # "idle" => pc'[t] # "idle") /\ (Ended(t) => Ended(t)'),
         \A r \in NewSession :
           /\ rpc[r] # "idle" => rpc'[r] # "idle"
           /\ \/ before'[r] = before[r]
              \/ rpc[r] = "idle" /\ \A t \in before'[r] : pc[t] # "idle"
           /\ Cleared(r)' =>
                \/ Cleared(r)
                \/ DOMAIN history' = {} /\ \A t \in before'[r] : Ended(t),
         \/ waiters' = waiters
         \/ waiters # <<>> /\ waiters' = Tail(waiters)
         \/ \E e \in Waiter : /\ waiters' = Append(waiters, e)
                              /\ e \in Turn => pc[e] = "idle"
                              /\ e \in NewSession => rpc'[e] # "idle",
         \A t \in Turn : \A i \in DOMAIN history' : history'[i] = t =>
           ~Ended(t) \/ \E j \in DOMAIN history : history[j] = t
  PROVE  FreshInv'
<1>0. waiters \in Seq(Waiter) /\ before \in [NewSession -> SUBSET Turn]
  BY DEF KernelInv, TypeOK
<1>1. \A r \in Elements(waiters) \cap NewSession : before'[r] = before[r] /\ rpc'[r] # "idle"
  BY DEF FreshInv
<1>2. \A r \in NewSession : \A t \in before'[r] : pc'[t] # "idle" /\ pc[t] # "idle"
  BY <1>0 DEF FreshInv
<1>3. ASSUME NEW r \in NewSession, Cleared(r)'
      PROVE  \A t \in before'[r] : Ended(t)' /\ \A i \in DOMAIN history' : history'[i] # t
  <2>1. CASE Cleared(r)
    <3>1. before'[r] = before[r]
      BY <2>1 DEF Cleared
    <3> QED
      BY <1>0, <2>1, <3>1 DEF FreshInv
  <2>2. CASE DOMAIN history' = {} /\ \A t \in before'[r] : Ended(t)
    BY <2>2
  <2> QED
    BY <1>3, <2>1, <2>2
<1>4. Behind(waiters, before')
  BY <1>1, BehindSame DEF FreshInv
<1>5. CASE waiters' = waiters
  BY <1>1, <1>2, <1>3, <1>4, <1>5 DEF FreshInv
<1>6. CASE waiters # <<>> /\ waiters' = Tail(waiters)
  <2>1. Elements(waiters') \subseteq Elements(waiters)
    BY <1>0, <1>6, ElementsOfTail
  <2>2. Behind(waiters', before')
    BY <1>0, <1>4, <1>6, BehindTail
  <2> QED
    BY <1>1, <1>2, <1>3, <2>1, <2>2 DEF FreshInv
<1>7. ASSUME NEW e \in Waiter, waiters' = Append(waiters, e),
             e \in Turn => pc[e] = "idle", e \in NewSession => rpc'[e] # "idle"
      PROVE  FreshInv'
  <2>1. Elements(waiters') = Elements(waiters) \cup {e}
    BY <1>0, <1>7, ElementsOfAppend
  <2>2. \A r \in NewSession : e \notin before'[r]
    BY <1>2, <1>7
  <2>3. Behind(waiters', before')
    BY <1>0, <1>4, <1>7, <2>2, BehindAppend
  <2>4. \A r \in Elements(waiters') \cap NewSession : rpc'[r] # "idle"
    BY <1>1, <1>7, <2>1
  <2> QED
    BY <1>2, <1>3, <2>3, <2>4 DEF FreshInv
<1> QED
  BY <1>5, <1>6, <1>7

(* With the lock free, a turn that neither waits nor is still to come has  *)
(* ended.                                                                  *)
LEMMA EndedWhenFree ==
  ASSUME KernelInv, holder = Nobody, NEW t \in Turn, pc[t] \notin {"idle", "waiting"}
  PROVE  Ended(t)
  BY OneInside DEF KernelInv, TypeOK, TurnPhase, Ended, InLock, Executing, InLoop, Leaving

(* The two ways into the lock, when nobody waits and as a woken waiter.    *)
LEMMA FreshEnter ==
  ASSUME KernelInv, FreshInv, NEW r \in NewSession, EnterLock(r), before' \in [NewSession -> SUBSET Turn],
         \A q \in NewSession : q # r => before'[q] = before[q],
         \/ before' = before
         \/ rpc[r] = "idle" /\ \A t \in before'[r] : pc[t] # "idle"
  PROVE  FreshInv'
<1>0. /\ rpc \in [NewSession -> NewPhase] /\ r \in Waiter /\ r \notin Turn
      /\ \A t \in before[r] : pc[t] # "idle"
  BY DistinctActors DEF KernelInv, TypeOK, Waiter, FreshInv
<1>1. CASE LockAvailable /\ ClearSession(r) /\ UNCHANGED waiters
  <2>1. \A t \in Turn : pc[t] # "waiting"
    BY <1>1, ElementsOfEmpty DEF LockAvailable, KernelInv, ArrivalInv
  <2>2. \A t \in before'[r] : Ended(t)
    BY <1>0, <1>1, <2>1, EndedWhenFree DEF LockAvailable
  <2>3. pc' = pc /\ rpc' = [rpc EXCEPT ![r] = "finalizing"] /\ DOMAIN history' = {} /\ waiters' = waiters
    BY <1>1 DEF ClearSession
  <2> QED
    BY <1>0, <2>2, <2>3, FreshStep DEF Cleared, Ended
<1>2. CASE QueueForLock(r)
  <2>1. /\ pc' = pc /\ rpc' = [rpc EXCEPT ![r] = "locking"] /\ history' = history
        /\ waiters' = Append(waiters, r)
    BY <1>2 DEF QueueForLock, contextVars
  <2> QED
    BY <1>0, <2>1, FreshStep DEF Cleared, Ended
<1> QED
  BY <1>1, <1>2 DEF EnterLock

LEMMA FreshResetGetsLock ==
  ASSUME KernelInv, FreshInv, NEW r \in NewSession, ResetGetsLock(r)
  PROVE  FreshInv'
<1>0. /\ rpc \in [NewSession -> NewPhase] /\ before' = before /\ before \in [NewSession -> SUBSET Turn]
      /\ waiters # <<>> /\ Head(waiters) = r /\ waiters' = Tail(waiters) /\ holder = Nobody
      /\ pc' = pc /\ rpc' = [rpc EXCEPT ![r] = "finalizing"] /\ DOMAIN history' = {}
  BY DEF KernelInv, TypeOK, ResetGetsLock, WokenUp, ClearSession
<1>1. waiters \in Seq(Waiter) /\ DOMAIN waiters = 1 .. Len(waiters) /\ Len(waiters) \in Nat \ {0} /\ waiters[1] = r
  BY <1>0, EmptySeq, HeadTailProperties DEF KernelInv, TypeOK
<1>2. \A t \in before[r] : pc[t] # "idle" /\ pc[t] # "waiting"
  <2> SUFFICES ASSUME NEW t \in before[r], pc[t] = "waiting" PROVE FALSE
    BY DEF FreshInv
  <2>1. t \in Turn
    BY <1>0
  <2>2. PICK j \in DOMAIN waiters : waiters[j] = t
    BY <2>1 DEF KernelInv, ArrivalInv, Elements
  <2>3. j < 1
    BY <1>1, <2>2 DEF FreshInv, Behind
  <2> QED
    BY <1>1, <2>3
<1>3. \A t \in before'[r] : Ended(t)
  BY <1>0, <1>2, EndedWhenFree
<1> QED
  BY <1>0, <1>3, FreshStep DEF Cleared, Ended

LEMMA NextFresh ==
  KernelInv /\ KernelInv' /\ ContextInv /\ FreshInv /\ NoManualCompaction /\ [Next]_vars => FreshInv'
<1> SUFFICES ASSUME KernelInv, KernelInv', ContextInv, FreshInv, NoManualCompaction, [Next]_vars
             PROVE  FreshInv'
  OBVIOUS
<1>0. /\ pc \in [Turn -> TurnPhase] /\ rpc \in [NewSession -> NewPhase] /\ history \in Seq(Writer)
      /\ before \in [NewSession -> SUBSET Turn] /\ before' \in [NewSession -> SUBSET Turn]
      /\ \A r \in NewSession : r \in Waiter /\ r \notin Turn /\ r \in Writer
      /\ \A t \in Turn : t \in Waiter /\ t \notin NewSession /\ t \in Writer
      /\ \A e \in Writer : \A i \in DOMAIN Append(history, e) :
           Append(history, e)[i] = e \/ \E j \in DOMAIN history : history[j] = Append(history, e)[i]
  <2>1. history \in Seq(Writer)
    BY DEF KernelInv, TypeOK
  <2>2. \A e \in Writer : \A i \in DOMAIN Append(history, e) :
          Append(history, e)[i] = e \/ \E j \in DOMAIN history : history[j] = Append(history, e)[i]
    BY <2>1, AppendFacts
  <2>3. /\ \A r \in NewSession : r \in Waiter /\ r \notin Turn /\ r \in Writer
        /\ \A t \in Turn : t \in Waiter /\ t \notin NewSession /\ t \in Writer
    BY DistinctActors DEF Waiter, Writer
  <2> QED
    BY <2>1, <2>2, <2>3 DEF KernelInv, TypeOK
<1> USE DEF lockVars, queueVars, runtimeVars, contextVars, ghostVars, Cleared, Ended
<1>1. ASSUME NEW t \in Turn, SubmitRejected(t) PROVE FreshInv'
  BY <1>0, <1>1, FreshStep DEF SubmitRejected
<1>2. ASSUME NEW t \in Turn, SubmitStart(t) PROVE FreshInv'
  BY <1>0, <1>2, FreshStep DEF SubmitStart, Begin
<1>3. ASSUME NEW t \in Turn, SubmitQueue(t) PROVE FreshInv'
  BY <1>0, <1>3, FreshStep DEF SubmitQueue
<1>4. ASSUME NEW t \in Turn, GetLock(t) PROVE FreshInv'
  BY <1>0, <1>4, FreshStep DEF GetLock, WokenUp, Begin
<1>5. ASSUME NEW t \in Turn, GetLockCancelled(t) PROVE FreshInv'
  BY <1>0, <1>5, FreshStep DEF GetLockCancelled, WokenUp
<1>6. ASSUME NEW t \in Turn, LeaveDiscard(t) PROVE FreshInv'
  BY <1>0, <1>6, FreshStep DEF LeaveDiscard
<1>7. ASSUME NEW t \in Turn, Prepare(t) PROVE FreshInv'
  BY <1>0, <1>7, FreshStep DEF Prepare
<1>8. ASSUME NEW t \in Turn, Write(t) PROVE FreshInv'
  BY <1>0, <1>8, FreshStep DEF Write
<1>9. ASSUME NEW t \in Turn, BeginCompress(t) PROVE FreshInv'
  BY <1>0, <1>9, FreshStep DEF BeginCompress
<1>10. ASSUME NEW t \in Turn, EndCompress(t) PROVE FreshInv'
  <2>1. /\ pc' = [pc EXCEPT ![t] = "running"] /\ pc[t] = "compressing" /\ rpc' = rpc
        /\ before' = before /\ waiters' = waiters
    BY <1>10 DEF EndCompress
  <2>2. \A u \in Turn : \A i \in DOMAIN history' : history'[i] = u => \E j \in DOMAIN history : history[j] = u
    <3>1. CASE UNCHANGED history
      BY <3>1
    <3>2. CASE Rewrite(t)
      <4>1. snapshot[t] \in Seq(Writer) /\ history' \in Compressed(snapshot[t])
        BY <3>2 DEF Rewrite, KernelInv, TypeOK, Compactor
      <4>2. \A i \in DOMAIN history' : history'[i] = Summary \/ \E j \in DOMAIN snapshot[t] : snapshot[t][j] = history'[i]
        BY <4>1, CompressedFacts
      <4>3. \A j \in DOMAIN snapshot[t] : j \in DOMAIN history /\ history[j] = snapshot[t][j]
        <5>1. /\ Len(snapshot[t]) <= Len(history)
              /\ \A i \in 1 .. Len(snapshot[t]) : history[i] = snapshot[t][i]
          BY <2>1 DEF ContextInv, CompactionLosesNothing
        <5>2. /\ Len(history) \in Nat /\ DOMAIN history = 1 .. Len(history)
              /\ Len(snapshot[t]) \in Nat /\ DOMAIN snapshot[t] = 1 .. Len(snapshot[t])
          BY <1>0, <4>1
        <5> QED
          BY <5>1, <5>2
      <4> QED
        BY <4>2, <4>3, DistinctActors
    <3> QED
      BY <1>10, <3>1, <3>2 DEF EndCompress
  <2> QED
    BY <1>0, <2>1, <2>2, FreshStep
<1>11. ASSUME NEW t \in Turn, Complete(t) PROVE FreshInv'
  BY <1>0, <1>11, FreshStep DEF Complete, LeaveLoop
<1>12. ASSUME NEW t \in Turn, Interrupted(t) PROVE FreshInv'
  BY <1>0, <1>12, FreshStep DEF Interrupted, LeaveLoop, InLoop
<1>13. ASSUME NEW t \in Turn, Fail(t) PROVE FreshInv'
  <2>1. /\ RolledBack \in Seq(Writer) /\ Cut \in Nat /\ Cut <= Len(history) /\ Len(RolledBack) = Cut
        /\ \A i \in 1 .. Cut : RolledBack[i] = history[i]
    BY <1>13, RolledBackFacts DEF Fail, ContextInv, Own, KernelInv
  <2>2. \A i \in DOMAIN RolledBack : \E j \in DOMAIN history : history[j] = RolledBack[i]
    BY <1>0, <2>1
  <2>3. \A i \in DOMAIN history' : history'[i] = t \/ \E j \in DOMAIN history : history[j] = history'[i]
    <3>1. CASE history' = RolledBack
      BY <2>2, <3>1
    <3>2. CASE history' = Append(RolledBack, t)
      BY <2>1, <2>2, <3>2, AppendFacts DEF Writer
    <3> QED
      BY <1>13, <3>1, <3>2 DEF Fail
  <2>4. /\ \E phase \in {"failing"} : pc' = [pc EXCEPT ![t] = phase]
        /\ pc[t] \in {"running", "compressing"} /\ rpc' = rpc /\ before' = before /\ waiters' = waiters
    BY <1>13 DEF Fail, LeaveLoop, InLoop
  <2> QED
    BY <1>0, <2>3, <2>4, FreshStep
<1>14. ASSUME NEW t \in Turn, EndTurn(t) PROVE FreshInv'
  BY <1>0, <1>14, FreshStep DEF EndTurn, Leaving
<1>15. CASE Interrupt
  BY <1>0, <1>15, FreshStep DEF Interrupt
<1>16. ASSUME NEW r \in NewSession, NewInsideTurn(r) PROVE FreshInv'
  BY <1>0, <1>16, FreshStep DEF NewInsideTurn, Requested
<1>17. ASSUME NEW r \in NewSession, NewWhileBusy(r) PROVE FreshInv'
  BY <1>0, <1>17, FreshStep DEF NewWhileBusy, Requested
<1>18. ASSUME NEW r \in NewSession, NewWhileIdle(r) PROVE FreshInv'
  BY <1>0, <1>18, FreshEnter DEF NewWhileIdle, Requested
<1>19. ASSUME NEW r \in NewSession, PollFree(r) PROVE FreshInv'
  BY <1>0, <1>19, FreshEnter DEF PollFree
<1>20. ASSUME NEW r \in NewSession, PollTimeout(r) PROVE FreshInv'
  <2>1. CASE QueueForLock(r)
    BY <1>0, <1>20, <2>1, FreshStep DEF PollTimeout, QueueForLock
  <2>2. CASE ~QueueForLock(r)
    BY <1>0, <1>20, <2>2, FreshStep DEF PollTimeout
  <2> QED
    BY <2>1, <2>2
<1>21. ASSUME NEW r \in NewSession, ResetGetsLock(r) PROVE FreshInv'
  BY <1>21, FreshResetGetsLock
<1>22. ASSUME NEW r \in NewSession, Finalize(r) PROVE FreshInv'
  <2>1. /\ pc' = pc /\ waiters' = waiters /\ before' = before
        /\ rpc[r] = "finalizing" /\ rpc' = [rpc EXCEPT ![r] = "done"]
    BY <1>22 DEF Finalize
  <2>2. \A t \in Turn : \A i \in DOMAIN history' : history'[i] = t => \E j \in DOMAIN history : history[j] = t
    BY <1>0, <1>22 DEF Finalize
  <2> QED
    BY <1>0, <2>1, <2>2, FreshStep
<1>23. ASSUME NEW c \in Compact, StartCompact(c) PROVE FreshInv'
  BY <1>0, <1>23, FreshStep DEF StartCompact
<1>24. ASSUME NEW c \in Compact, FinishCompact(c) PROVE FreshInv'
  BY <1>24 DEF FinishCompact, NoManualCompaction
<1>25. CASE UNCHANGED vars
  BY <1>0, <1>25, FreshStep DEF vars
<1> QED
  BY <1>1, <1>2, <1>3, <1>4, <1>5, <1>6, <1>7, <1>8, <1>9, <1>10, <1>11, <1>12, <1>13,
     <1>14, <1>15, <1>16, <1>17, <1>18, <1>19, <1>20, <1>21, <1>22, <1>23, <1>24, <1>25
  DEF Next, TurnStep, Submit, TurnExit, Reset

(* As long as nobody compacts by hand, the context belongs to whoever      *)
(* holds the lock.                                                         *)
THEOREM ContextInvariant == Spec /\ []NoManualCompaction => [](ContextInv /\ FreshInv)
<1>1. KernelInv /\ KernelInv' /\ ContextInv /\ FreshInv /\ NoManualCompaction /\ [Next]_vars
        => (ContextInv /\ FreshInv)'
  BY NextContext, NextFresh
<1> QED
  BY <1>1, InitContext, KernelInvariant, PTL DEF Spec

(* After /new has cleared the session, nothing that a message submitted    *)
(* before the request wrote is part of the new context, whichever of the   *)
(* forms of /new was taken and whoever hands the lock to whom.             *)
THEOREM NewSessionStaysFresh == Spec /\ []NoManualCompaction => []NewSessionIsFresh
<1>1. FreshInv => NewSessionIsFresh
  BY DEF FreshInv, NewSessionIsFresh, Elements
<1> QED
  BY <1>1, ContextInvariant, PTL

(* The context an automatic compaction replaces is the one it summarised.  *)
THEOREM AutomaticCompactionLosesNothing == Spec /\ []NoManualCompaction => []CompactionLosesNothing
<1>1. ContextInv => CompactionLosesNothing
  BY DEF ContextInv
<1> QED
  BY <1>1, ContextInvariant, PTL

(* A step from the loop to "failing" is the failure of that turn.          *)
LEMMA OnlyFailFails ==
  ASSUME KernelInv, [Next]_vars, NEW t \in Turn, pc'[t] = "failing", pc[t] # "failing"
  PROVE  Fail(t)
<1> USE DEF KernelInv, TypeOK
<1>1. CASE \E u \in Turn : TurnStep(u) /\ ~TurnExit(u)
  BY <1>1 DEF TurnStep, Submit, SubmitRejected, SubmitStart, SubmitQueue, GetLock, GetLockCancelled,
     LeaveDiscard, Begin, Prepare, Write, BeginCompress, EndCompress, EndTurn
<1>2. CASE \E u \in Turn : TurnExit(u)
  BY <1>2 DEF TurnExit, Complete, Interrupted, Fail, LeaveLoop
<1>3. CASE Interrupt \/ UNCHANGED vars \/ \E c \in Compact : StartCompact(c) \/ FinishCompact(c)
  BY <1>3 DEF Interrupt, vars, StartCompact, FinishCompact
<1>4. CASE \E r \in NewSession : Reset(r)
  BY <1>4 DEF Reset, NewInsideTurn, NewWhileBusy, NewWhileIdle, PollFree, PollTimeout, ResetGetsLock,
     Finalize, EnterLock, ClearSession, QueueForLock
<1> QED
  BY <1>1, <1>2, <1>3, <1>4 DEF Next, TurnStep

(* What the step of a failing turn leaves of the context.                  *)
LEMMA FailFacts ==
  ASSUME KernelInv, ContextInv, NEW t \in Turn, Fail(t)
  PROVE  /\ Cut \in Nat /\ Cut <= Len(history) /\ DOMAIN history = 1 .. Len(history) /\ Len(history) \in Nat
         /\ DOMAIN history' \in {1 .. Cut, 1 .. Cut + 1}
         /\ \A i \in 1 .. Cut : history'[i] = history[i]
         /\ Cut + 1 \in DOMAIN history' => history'[Cut + 1] = t
         /\ \A i \in DOMAIN history : history[i] \in Turn \ {t} => i <= Cut
<1>1. /\ RolledBack \in Seq(Writer) /\ Cut \in Nat /\ Cut <= Len(history) /\ Len(RolledBack) = Cut
      /\ \A i \in 1 .. Cut : RolledBack[i] = history[i]
  BY RolledBackFacts DEF Fail, ContextInv, Own, KernelInv
<1>2. DOMAIN history = 1 .. Len(history) /\ Len(history) \in Nat
  BY DEF KernelInv, TypeOK
<1>3. \A i \in DOMAIN history : history[i] \in Turn \ {t} => i <= Cut
  BY DEF Fail, ContextInv, Own
<1>4. CASE history' = RolledBack
  BY <1>1, <1>2, <1>3, <1>4
<1>5. CASE history' = Append(RolledBack, t)
  <2>1. /\ DOMAIN history' = 1 .. Cut + 1 /\ history'[Cut + 1] = t
        /\ \A i \in 1 .. Cut : history'[i] = RolledBack[i]
    BY <1>1, <1>5, AppendFacts DEF Writer
  <2> QED
    BY <1>1, <1>2, <1>3, <2>1
<1> QED
  BY <1>4, <1>5 DEF Fail

(* A failed turn takes back only what it wrote itself.                     *)
THEOREM RollbackSparesOthers == Spec /\ []NoManualCompaction => RollbackKeepsOthers
<1>1. ASSUME KernelInv, ContextInv, [Next]_vars, NEW t \in Turn, NEW u \in Turn \ {t},
             InLoop(t), pc'[t] = "failing"
      PROVE  {i \in DOMAIN history' : history'[i] = u} = {i \in DOMAIN history : history[i] = u}
  <2>1. Fail(t)
    BY <1>1, OnlyFailFails DEF InLoop
  <2>2. /\ Cut \in Nat /\ Cut <= Len(history) /\ DOMAIN history = 1 .. Len(history) /\ Len(history) \in Nat
        /\ DOMAIN history' \in {1 .. Cut, 1 .. Cut + 1}
        /\ \A i \in 1 .. Cut : history'[i] = history[i]
        /\ Cut + 1 \in DOMAIN history' => history'[Cut + 1] = t
        /\ \A i \in DOMAIN history : history[i] \in Turn \ {t} => i <= Cut
    BY <1>1, <2>1, FailFacts
  <2>3. ASSUME NEW i \in DOMAIN history', history'[i] = u
        PROVE  i \in DOMAIN history /\ history[i] = u
    BY <2>2, <2>3
  <2>4. ASSUME NEW i \in DOMAIN history, history[i] = u
        PROVE  i \in DOMAIN history' /\ history'[i] = u
    BY <2>2, <2>4
  <2> QED
    BY <2>3, <2>4
<1>2. KernelInv /\ ContextInv /\ [Next]_vars =>
        [\A t \in Turn : (InLoop(t) /\ pc'[t] = "failing") =>
           \A u \in Turn \ {t} :
             {i \in DOMAIN history' : history'[i] = u} = {i \in DOMAIN history : history[i] = u}]_vars
  BY <1>1
<1> QED
  BY <1>2, KernelInvariant, ContextInvariant, PTL DEF Spec, RollbackKeepsOthers

(* Of a turn that fails and never compacted, one entry at most is left.    *)
THEOREM FailureLeavesANote == Spec /\ []NoManualCompaction => FailureLeavesOnlyNote
<1>1. ASSUME KernelInv, ContextInv, [Next]_vars, NEW t \in Turn, pc[t] = "running", pc'[t] = "failing",
             Summary \notin Elements(history), NEW i \in DOMAIN history', NEW j \in DOMAIN history',
             history'[i] = t, history'[j] = t
      PROVE  i = j
  <2>1. Fail(t)
    BY <1>1, OnlyFailFails
  <2>2. InLoop(t) /\ rollbackFloor = NoFloor /\ Cut = historyStart
    BY <1>1 DEF InLoop, ContextInv, Elements, Cut
  <2>3. \A k \in DOMAIN history : history[k] = t => Cut < k
    BY <1>1, <2>2 DEF ContextInv
  <2>4. \A k \in DOMAIN history' : history'[k] = t => k = Cut + 1
    <3>1. /\ Cut \in Nat /\ Cut <= Len(history) /\ DOMAIN history = 1 .. Len(history) /\ Len(history) \in Nat
          /\ DOMAIN history' \in {1 .. Cut, 1 .. Cut + 1}
          /\ \A m \in 1 .. Cut : history'[m] = history[m]
      BY <1>1, <2>1, FailFacts
    <3>2. ASSUME NEW k \in 1 .. Cut PROVE history'[k] # t
      BY <2>3, <3>1
    <3> QED
      BY <3>1, <3>2
  <2> QED
    BY <1>1, <2>4
<1>2. KernelInv /\ ContextInv /\ [Next]_vars =>
        [\A t \in Turn : (pc[t] = "running" /\ pc'[t] = "failing" /\ Summary \notin Elements(history)) =>
           \A i, j \in DOMAIN history' : (history'[i] = t /\ history'[j] = t) => i = j]_vars
  BY <1>1
<1> QED
  BY <1>2, KernelInvariant, ContextInvariant, PTL DEF Spec, FailureLeavesOnlyNote

=============================================================================
