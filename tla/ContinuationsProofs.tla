------------------------- MODULE ContinuationsProofs -------------------------
(***************************************************************************)
(* Proofs about Continuations, for any number of messages from any end:    *)
(* one driver per lane, no message left in the queue of a quiet session,   *)
(* none said twice and none lost.                                          *)
(***************************************************************************)
EXTENDS Continuations, FiniteSetTheorems, SequenceTheorems, TLAPS

(* What a message or a driver may be in the middle of.                     *)
LEMMA MembersOfSeq ==
  ASSUME NEW S, NEW seq \in Seq(S)
  PROVE  /\ ToSet(seq) \subseteq S
         /\ \A m : Holds(seq, m) => m \in S
         /\ \A m : Holds(seq, m) <=> \E i \in 1 .. Len(seq) : seq[i] = m
  BY DEF ToSet, Holds

(* One entry taken out of a sequence: the others keep their order.         *)
LEMMA RemovedEntry ==
  ASSUME NEW S, NEW seq \in Seq(S), NEW i \in DOMAIN seq
  PROVE  /\ RemoveAt(seq, i) \in Seq(S)
         /\ Len(RemoveAt(seq, i)) = Len(seq) - 1
         /\ \A k \in 1 .. Len(seq) - 1 :
              RemoveAt(seq, i)[k] = IF k < i THEN seq[k] ELSE seq[k + 1]
<1> DEFINE front == SubSeq(seq, 1, i - 1)
           back == SubSeq(seq, i + 1, Len(seq))
<1>1. Len(seq) \in Nat /\ i \in 1 .. Len(seq)
  BY LenProperties
<1>2. /\ front \in Seq(S) /\ Len(front) = i - 1
      /\ \A k \in 1 .. i - 1 : front[k] = seq[k]
  <2>1. \A k \in 1 .. i - 1 : seq[k] \in S
    BY <1>1
  <2> QED
    BY <1>1, <2>1, SubSeqProperties
<1>3. /\ back \in Seq(S) /\ Len(back) = Len(seq) - i
      /\ \A k \in 1 .. Len(seq) - i : back[k] = seq[k + i]
  BY <1>1, SubSeqProperties
<1> HIDE DEF front, back
<1>4. /\ front \o back \in Seq(S) /\ Len(front \o back) = Len(seq) - 1
      /\ \A k \in 1 .. Len(seq) - 1 :
           (front \o back)[k] = IF k < i THEN seq[k] ELSE seq[k + 1]
  <2>1. Len(front \o back) = Len(front) + Len(back) /\ front \o back \in Seq(S)
    BY <1>2, <1>3, ConcatProperties
  <2>2. ASSUME NEW k \in 1 .. Len(seq) - 1
        PROVE  (front \o back)[k] = IF k < i THEN seq[k] ELSE seq[k + 1]
    <3>1. (front \o back)[k] = IF k <= Len(front) THEN front[k] ELSE back[k - Len(front)]
      BY <1>1, <1>2, <1>3, ConcatProperties, SMTT(30)
    <3>2. CASE k < i
      BY <1>1, <1>2, <3>1, <3>2
    <3>3. CASE ~(k < i)
      <4>1. /\ k - (i - 1) \in 1 .. Len(seq) - i /\ ~(k <= i - 1)
            /\ (k - (i - 1)) + i = k + 1
        BY <1>1, <3>3
      <4>2. (front \o back)[k] = back[k - (i - 1)]
        BY <1>2, <3>1, <4>1
      <4>3. back[k - (i - 1)] = seq[k + 1]
        BY <1>3, <4>1
      <4> QED
        BY <3>3, <4>2, <4>3
    <3> QED
      BY <3>2, <3>3
  <2>3. Len(front \o back) = Len(seq) - 1
    BY <1>1, <1>2, <1>3, <2>1
  <2> QED
    BY <2>1, <2>2, <2>3
<1> QED
  BY <1>4 DEF RemoveAt, front, back

-----------------------------------------------------------------------------
(* Types *)

LEMMA InitTyped == Init => TypeOK
<1> SUFFICES ASSUME Init PROVE TypeOK
  OBVIOUS
<1>1. /\ line \in Seq(Msg) /\ saying \in Seq(Msg) /\ queue \in Seq(Msg)
      /\ dispatcher \in Seq(Matrix) /\ leftover \in [Msg -> Seq(Msg)]
  BY EmptySeq DEF Init, Kernel!Init
<1>2. /\ current \in Msg \cup {Nobody} /\ ended \subseteq Msg
  BY DEF Init, Kernel!Init
<1>3. /\ rounds \in [Msg -> 0 .. MaxRounds] /\ commands \in 0 .. MaxCommands
  BY RoundsArePositive, CommandsAreBounded DEF Init
<1>4. /\ stage \in [Msg -> Stage] /\ phase \in Phase /\ job \in [Msg -> Msg]
      /\ previous \in [Msg -> Web \cup {Nobody}]
  BY DEF Init, Stage, Phase
<1> QED
  BY <1>1, <1>2, <1>3, <1>4 DEF Init, TypeOK

(* A driver that leaves keeps the types.                                   *)
LEMMA LeaveTyped ==
  ASSUME TypeOK, NEW d \in Msg, Leave(d)
  PROVE  /\ stage' \in [Msg -> Stage] /\ job' \in [Msg -> Msg]
         /\ leftover' \in [Msg -> Seq(Msg)] /\ rounds' \in [Msg -> 0 .. MaxRounds]
         /\ tail' \in Web \cup {Nobody} /\ previous' = previous
         /\ dispatcher' \in Seq(Matrix)
<1>1. dispatcher' \in Seq(Matrix)
  BY RemovedEntry DEF TypeOK, Leave, ReleasedLanes
<1>2. leftover' \in [Msg -> Seq(Msg)]
  BY EmptySeq DEF TypeOK, Leave
<1> QED
  BY <1>1, <1>2, RoundsArePositive DEF TypeOK, Leave, ReleasedLanes, Stage

LEMMA NextTyped == TypeOK /\ [Next]_vars => TypeOK'
<1> SUFFICES ASSUME TypeOK, [Next]_vars PROVE TypeOK'
  OBVIOUS
<1> USE DEF kernelVars, turnVars, context, driverVars, laneVars, userVars
<1>1. ASSUME NEW m \in Msg, FollowUp(m) PROVE TypeOK'
  <2>1. queue' \in Seq(Msg)
    BY <1>1, AppendProperties DEF TypeOK, FollowUp
  <2> QED
    BY <1>1, <2>1 DEF TypeOK, FollowUp, Stage
<1>2. ASSUME NEW m \in Web, OpenWeb(m) PROVE TypeOK'
  BY <1>2 DEF TypeOK, OpenWeb, Stage, Msg
<1>3. ASSUME NEW m \in Matrix, OpenMatrix(m) PROVE TypeOK'
  <2>1. dispatcher' \in Seq(Matrix)
    BY <1>3, AppendProperties DEF TypeOK, OpenMatrix
  <2> QED
    BY <1>3, <2>1 DEF TypeOK, OpenMatrix, Stage, Msg
<1>4. ASSUME NEW m \in Msg, Awaken(m) PROVE TypeOK'
  BY <1>4 DEF TypeOK, Awaken, Stage
<1>5. CASE Arrive
  BY <1>1, <1>2, <1>3, <1>4, <1>5 DEF Arrive, SendWeb, SendMatrix, CompleteBackground, Msg
<1>6. ASSUME NEW m \in Msg, Begun(m) PROVE phase' \in Phase /\ saying' \in Seq(Msg)
  BY <1>6 DEF Begun, Phase
<1>7. ASSUME NEW d \in Msg, Call(d) PROVE TypeOK'
  <2>1. job[d] \in Msg /\ line' \in Seq(Msg) /\ ended' \subseteq Msg
    <3>1. job[d] \in Msg /\ line \in Seq(Msg) /\ ended \subseteq Msg
      BY DEF TypeOK
    <3>2. ended' = ended /\ (line' = line \/ line' = Append(line, job[d]))
      BY <1>7 DEF Call, Kernel!Accept
    <3> QED
      BY <3>1, <3>2, AppendProperties
  <2>2. CASE current' = job[d] /\ Begun(job[d])
    BY <1>6, <1>7, <2>1, <2>2 DEF TypeOK, Call, Begun, Stage
  <2>3. CASE current' = current /\ UNCHANGED <<turnVars, context>>
    BY <1>7, <2>1, <2>3 DEF TypeOK, Call, Stage
  <2> QED
    BY <1>7, <2>2, <2>3 DEF Call
<1>8. CASE BeginNext
  <2>1. Head(line) \in Msg /\ line' \in Seq(Msg) /\ current' = Head(line) /\ ended' = ended
    BY <1>8, HeadTailProperties DEF TypeOK, BeginNext, Kernel!Start
  <2> QED
    BY <1>6, <1>8, <2>1 DEF TypeOK, BeginNext, Begun
<1>9. CASE Loop
  <2>1. CASE Inject
    <3>1. saying' \in Seq(Msg) /\ queue' \in Seq(Msg)
      BY <2>1, ConcatProperties, EmptySeq DEF TypeOK, Inject
    <3> QED
      BY <2>1, <3>1 DEF TypeOK, Inject
  <2>2. CASE Answer
    BY <2>2 DEF TypeOK, Answer, Phase
  <2>3. CASE GiveUp
    BY <2>3 DEF TypeOK, GiveUp, Phase
  <2>4. CASE Fail
    BY <2>4, MembersOfSeq, EmptySeq DEF TypeOK, Fail, Phase
  <2> QED
    BY <1>9, <2>1, <2>2, <2>3, <2>4 DEF Loop
<1>10. ASSUME NEW d \in Msg, Returned(d)
       PROVE  /\ stage' \in [Msg -> Stage] /\ job' \in [Msg -> Msg]
              /\ leftover' \in [Msg -> Seq(Msg)] /\ rounds' \in [Msg -> 0 .. MaxRounds]
              /\ tail' \in Web \cup {Nobody} /\ previous' = previous
              /\ dispatcher' \in Seq(Matrix) /\ looked' \in BOOLEAN
  <2>1. CASE Leave(d) /\ looked' = FALSE
    BY <2>1, LeaveTyped
  <2>2. CASE stage' = [stage EXCEPT ![d] = "after"] /\ UNCHANGED <<job, leftover, rounds, laneVars, looked>>
    BY <2>2 DEF TypeOK, Stage
  <2> QED
    BY <1>10, <2>1, <2>2 DEF Returned
<1>11. CASE EndTurn
  <2>1. /\ line' = line /\ current' = Nobody /\ ended' \subseteq Msg
    BY <1>11 DEF TypeOK, EndTurn, Kernel!Finish
  <2>2. earlier' \subseteq Msg /\ saying' \in Seq(Msg)
    BY <1>11, MembersOfSeq, EmptySeq DEF TypeOK, EndTurn
  <2>3. PICK d \in Msg : \/ Leave(d) /\ looked' = FALSE /\ dropped' = dropped \cup ToSet(leftover[d])
                         \/ Returned(d) /\ dropped' = dropped
    BY <1>11 DEF EndTurn
  <2>4. /\ stage' \in [Msg -> Stage] /\ job' \in [Msg -> Msg]
        /\ leftover' \in [Msg -> Seq(Msg)] /\ rounds' \in [Msg -> 0 .. MaxRounds]
        /\ tail' \in Web \cup {Nobody} /\ previous' = previous
        /\ dispatcher' \in Seq(Matrix) /\ looked' \in BOOLEAN
    BY <1>10, <2>3, LeaveTyped
  <2>5. dropped' \subseteq Msg
    BY <2>3, MembersOfSeq DEF TypeOK
  <2> QED
    BY <1>11, <2>1, <2>2, <2>4, <2>5 DEF TypeOK, EndTurn, Phase
<1>12. ASSUME NEW d \in Msg, ReturnCancelled(d) PROVE TypeOK'
  BY <1>10, <1>12 DEF TypeOK, ReturnCancelled
<1>13. ASSUME NEW d \in Msg, ChainReached(d) PROVE TypeOK'
  BY <1>13 DEF TypeOK, ChainReached, Stage
<1>14. ASSUME NEW d \in Msg, LockReached(d) PROVE TypeOK'
  BY <1>14 DEF TypeOK, LockReached, Stage
<1>15. ASSUME NEW d \in Msg, BusyDrop(d) PROVE TypeOK'
  BY <1>15, LeaveTyped DEF TypeOK, BusyDrop
<1>16. ASSUME NEW d \in Msg, Dispatch(d) PROVE TypeOK'
  <2>1. Head(leftover[d]) \in Msg /\ Tail(leftover[d]) \in Seq(Msg)
    BY <1>16, HeadTailProperties DEF TypeOK, Dispatch
  <2>2. leftover' \in [Msg -> Seq(Msg)] /\ job' \in [Msg -> Msg]
    BY <1>16, <2>1 DEF TypeOK, Dispatch
  <2> QED
    BY <1>16, <2>2 DEF TypeOK, Dispatch, Stage
<1>17. ASSUME NEW d \in Msg, Drain(d) PROVE TypeOK'
  <2>1. CASE queue' = queue /\ Leave(d) /\ looked' \in BOOLEAN
    BY <1>17, <2>1, LeaveTyped DEF TypeOK, Drain
  <2>2. CASE /\ queue # <<>> /\ ~Tired(d)
             /\ queue' = <<>>
             /\ leftover' = [leftover EXCEPT ![d] = queue]
             /\ rounds' = [rounds EXCEPT ![d] = IF d \in Matrix THEN @ + 1 ELSE 0]
             /\ UNCHANGED <<stage, job, laneVars, looked>>
    <3>1. rounds' \in [Msg -> 0 .. MaxRounds]
      BY <2>2, RoundsArePositive DEF TypeOK, Tired
    <3>2. queue' \in Seq(Msg) /\ leftover' \in [Msg -> Seq(Msg)]
      BY <2>2, EmptySeq DEF TypeOK
    <3> QED
      BY <1>17, <2>2, <3>1, <3>2 DEF TypeOK, Drain
  <2> QED
    BY <1>17, <2>1, <2>2 DEF Drain, PutBack
<1>18. ASSUME NEW kill \in BOOLEAN, Interrupted(kill), commands' \in 0 .. MaxCommands, renewing' \in BOOLEAN
       PROVE  TypeOK'
  <2>1. line' \in Seq(Msg) /\ current' = current /\ ended' \subseteq Msg
    <3>1. /\ line \in Seq(Msg) /\ ended \subseteq Msg /\ <<>> \in Seq(Msg)
          /\ \A i \in DOMAIN line : line[i] \in Msg
      BY EmptySeq DEF TypeOK
    <3>2. CASE Kernel!CancelLine
      BY <3>1, <3>2 DEF Kernel!CancelLine
    <3>3. CASE UNCHANGED kernelVars
      BY <3>1, <3>3
    <3> QED
      BY <1>18, <3>2, <3>3 DEF Interrupted
  <2>2. phase' \in Phase /\ queue' \in Seq(Msg) /\ withdrawn' \subseteq Msg
    <3>1. ToSet(line) \subseteq Msg /\ ToSet(queue) \subseteq Msg /\ <<>> \in Seq(Msg)
      BY MembersOfSeq, EmptySeq DEF TypeOK
    <3>2. CASE phase = "looping"
      BY <1>18, <3>1, <3>2 DEF TypeOK, Interrupted, Phase
    <3>3. CASE phase # "looping"
      BY <1>18, <3>1, <3>3 DEF TypeOK, Interrupted
    <3> QED
      BY <3>2, <3>3
  <2> QED
    BY <1>18, <2>1, <2>2 DEF TypeOK, Interrupted
<1>19. ASSUME Cleared, commands' \in 0 .. MaxCommands, renewing' \in BOOLEAN PROVE TypeOK'
  <2>1. queue' \in Seq(Msg) /\ withdrawn' \subseteq Msg /\ earlier' \subseteq Msg
    BY <1>19, MembersOfSeq, EmptySeq DEF TypeOK, Cleared
  <2> QED
    BY <1>19, <2>1 DEF TypeOK, Cleared
<1>20. CASE Interrupt
  <2>1. commands' \in 0 .. MaxCommands /\ renewing' \in BOOLEAN
    BY <1>20, CommandsAreBounded DEF TypeOK, Interrupt
  <2> QED
    BY <1>18, <1>20, <2>1 DEF Interrupt
<1>21. CASE NewSession
  <2>1. commands' \in 0 .. MaxCommands
    BY <1>21, CommandsAreBounded DEF TypeOK, NewSession
  <2>2. renewing' \in BOOLEAN
    BY <1>21, Zenon DEF TypeOK, NewSession
  <2> QED
    BY <1>18, <1>19, <1>21, <2>1, <2>2 DEF NewSession
<1>22. CASE ClearSession
  BY <1>19, <1>22 DEF TypeOK, ClearSession
<1>23. CASE UNCHANGED vars
  BY <1>23 DEF TypeOK, vars
<1> QED
  BY <1>5, <1>7, <1>8, <1>9, <1>11, <1>12, <1>13, <1>14, <1>15, <1>16, <1>17,
     <1>20, <1>21, <1>22, <1>23 DEF Next, Drive

(* Every variable keeps its type.                                          *)
THEOREM HandoverTyped == Spec => []TypeOK
  BY InitTyped, NextTyped, PTL DEF Spec

-----------------------------------------------------------------------------
(* The lanes.  The Matrix drivers at work are the dispatcher's line, and   *)
(* all but its head still wait.  The web drivers at work form a chain that *)
(* ends in the tail, where each but the first waits for the one before it. *)
Distinct(seq) == \A i, j \in DOMAIN seq : seq[i] = seq[j] => i = j

OwnLane ==
  \A d \in Msg : /\ stage[d] = "chained" => d \in Web
                 /\ stage[d] = "locking" => d \in Matrix

MatrixLane ==
  /\ Distinct(dispatcher)
  /\ \A d \in Matrix : AtWork(d) <=> Holds(dispatcher, d)
  /\ \A i \in 2 .. Len(dispatcher) : stage[dispatcher[i]] = "locking"

Chain(c) ==
  /\ Distinct(c)
  /\ \A d \in Web : AtWork(d) <=> Holds(c, d)
  /\ \A i \in 2 .. Len(c) : stage[c[i]] = "chained" /\ previous[c[i]] = c[i - 1]
  /\ tail = IF c = <<>> THEN Nobody ELSE c[Len(c)]

WebLane == \E c \in Seq(Web) : Chain(c)

Lanes == OwnLane /\ MatrixLane /\ WebLane

LEMMA LanesAreSingle == TypeOK /\ Lanes => OneDriverPerLane
<1> SUFFICES ASSUME TypeOK, Lanes PROVE OneDriverPerLane
  OBVIOUS
<1>1. ASSUME NEW d \in Matrix, NEW e \in Matrix, Working(d), Working(e) PROVE d = e
  <2>1. \A x \in Matrix : Working(x) => Len(dispatcher) >= 1 /\ x = dispatcher[1]
    <3> SUFFICES ASSUME NEW x \in Matrix, Working(x)
                 PROVE  Len(dispatcher) >= 1 /\ x = dispatcher[1]
      OBVIOUS
    <3>1. PICK i \in 1 .. Len(dispatcher) : dispatcher[i] = x
      BY MembersOfSeq DEF TypeOK, Lanes, MatrixLane, AtWork
    <3>2. ~(i \in 2 .. Len(dispatcher))
      BY <3>1 DEF Lanes, MatrixLane, Working
    <3> QED
      BY <3>1, <3>2, LenProperties DEF TypeOK
  <2> QED
    BY <1>1, <2>1
<1>2. ASSUME NEW d \in Web, NEW e \in Web, Working(d), Working(e) PROVE d = e
  <2>1. PICK c \in Seq(Web) : Chain(c)
    BY DEF Lanes, WebLane
  <2>2. \A x \in Web : Working(x) => x = c[1]
    <3> SUFFICES ASSUME NEW x \in Web, Working(x) PROVE x = c[1]
      OBVIOUS
    <3>1. PICK i \in 1 .. Len(c) : c[i] = x
      BY <2>1, MembersOfSeq DEF Chain, AtWork
    <3>2. ~(i \in 2 .. Len(c))
      BY <2>1, <3>1 DEF Chain, Working
    <3> QED
      BY <3>1, <3>2, LenProperties
  <2> QED
    BY <1>2, <2>2
<1> QED
  BY <1>1, <1>2 DEF OneDriverPerLane

LEMMA InitLanes == Init => Lanes
<1> SUFFICES ASSUME Init PROVE Lanes
  OBVIOUS
<1>1. \A d \in Msg : ~AtWork(d)
  BY DEF Init, AtWork, Working
<1>2. <<>> \in Seq(Web) /\ Len(<<>>) = 0 /\ DOMAIN <<>> = {}
  BY EmptySeq
<1>3. Chain(<<>>)
  BY <1>1, <1>2 DEF Init, Chain, Distinct, Holds, Msg
<1>4. MatrixLane
  BY <1>1, <1>2 DEF Init, MatrixLane, Distinct, Holds, Msg
<1>5. OwnLane
  BY DEF Init, OwnLane
<1> QED
  BY <1>2, <1>3, <1>4, <1>5 DEF Lanes, WebLane

(* A step outside the lanes.                                               *)
LEMMA LanesUntouched ==
  ASSUME TypeOK, Lanes, UNCHANGED laneVars,
         \A d \in Msg : /\ AtWork(d)' <=> AtWork(d)
                        /\ stage[d] \in {"chained", "locking"} => stage'[d] = stage[d]
                        /\ stage'[d] \in {"chained", "locking"} => stage'[d] = stage[d]
  PROVE  Lanes'
<1> USE DEF laneVars
<1>1. OwnLane'
  BY DEF Lanes, OwnLane
<1>2. MatrixLane'
  <2>1. \A d \in Matrix : AtWork(d)' <=> Holds(dispatcher, d)
    BY DEF Lanes, MatrixLane, Msg
  <2>2. \A i \in 2 .. Len(dispatcher) : stage'[dispatcher[i]] = "locking"
    <3> SUFFICES ASSUME NEW i \in 2 .. Len(dispatcher) PROVE stage'[dispatcher[i]] = "locking"
      OBVIOUS
    <3>1. dispatcher[i] \in Msg
      BY LenProperties DEF TypeOK, Msg
    <3> QED
      BY <3>1 DEF Lanes, MatrixLane
  <2> QED
    BY <2>1, <2>2 DEF Lanes, MatrixLane, Distinct, Holds
<1>3. WebLane'
  <2>1. PICK c \in Seq(Web) : Chain(c)
    BY DEF Lanes, WebLane
  <2>2. \A d \in Web : AtWork(d)' <=> Holds(c, d)
    BY <2>1 DEF Chain, Msg
  <2>3. \A i \in 2 .. Len(c) : stage'[c[i]] = "chained" /\ previous'[c[i]] = c[i - 1]
    <3> SUFFICES ASSUME NEW i \in 2 .. Len(c)
                 PROVE  stage'[c[i]] = "chained" /\ previous'[c[i]] = c[i - 1]
      OBVIOUS
    <3>1. c[i] \in Msg
      BY LenProperties DEF Msg
    <3> QED
      BY <2>1, <3>1 DEF Chain
  <2>4. Chain(c)'
    BY <2>1, <2>2, <2>3 DEF Chain, Distinct, Holds
  <2> QED
    BY <2>4 DEF WebLane
<1> QED
  BY <1>1, <1>2, <1>3 DEF Lanes

(* A driver that works goes from one of its phases to another.             *)
LEMMA LanesWorkOn ==
  ASSUME TypeOK, Lanes, NEW d \in Msg, Working(d),
         NEW next \in {"calling", "turn", "after"},
         stage' = [stage EXCEPT ![d] = next], UNCHANGED laneVars
  PROVE  Lanes'
<1>1. \A e \in Msg : stage'[e] = IF e = d THEN next ELSE stage[e]
  BY DEF TypeOK
<1>2. \A e \in Msg : /\ AtWork(e)' <=> AtWork(e)
                     /\ stage[e] \in {"chained", "locking"} => stage'[e] = stage[e]
                     /\ stage'[e] \in {"chained", "locking"} => stage'[e] = stage[e]
  BY <1>1 DEF AtWork, Working
<1> QED
  BY <1>2, LanesUntouched

(* The first of a lane goes to work: its predecessor has left, or the      *)
(* dispatcher lock is its own.                                             *)
LEMMA LanesEntered ==
  ASSUME TypeOK, Lanes, NEW d \in Msg, ChainReached(d) \/ LockReached(d)
  PROVE  Lanes'
<1> USE DEF laneVars
<1>1. /\ UNCHANGED <<tail, previous, dispatcher>>
      /\ \A e \in Msg : stage'[e] = IF e = d THEN "calling" ELSE stage[e]
      /\ AtWork(d)
  BY DEF ChainReached, LockReached, TypeOK, AtWork
<1>2. \A e \in Msg : AtWork(e)' <=> AtWork(e)
  BY <1>1 DEF AtWork, Working
<1>3. OwnLane'
  BY <1>1 DEF Lanes, OwnLane
<1>4. MatrixLane'
  <2>1. \A i \in 2 .. Len(dispatcher) : stage'[dispatcher[i]] = "locking"
    <3> SUFFICES ASSUME NEW i \in 2 .. Len(dispatcher) PROVE stage'[dispatcher[i]] = "locking"
      OBVIOUS
    <3>1. dispatcher[i] \in Matrix /\ dispatcher[i] \in Msg /\ stage[dispatcher[i]] = "locking"
      BY LenProperties, SMTT(30) DEF TypeOK, Msg, Lanes, MatrixLane
    <3>2. dispatcher[i] # d
      <4>1. CASE ChainReached(d)
        BY <3>1, <4>1 DEF ChainReached
      <4>2. CASE LockReached(d)
        <5>1. /\ Len(dispatcher) \in Nat /\ DOMAIN dispatcher = 1 .. Len(dispatcher)
          BY LenProperties DEF TypeOK
        <5>2. dispatcher[1] = d
          BY <4>2, <5>1 DEF LockReached, TypeOK
        <5> QED
          BY <5>1, <5>2 DEF Lanes, MatrixLane, Distinct
      <4> QED
        BY <4>1, <4>2
    <3> QED
      BY <1>1, <3>1, <3>2
  <2> QED
    BY <1>1, <1>2, <2>1 DEF Lanes, MatrixLane, Distinct, Holds, Msg
<1>5. WebLane'
  <2>1. PICK c \in Seq(Web) : Chain(c)
    BY DEF Lanes, WebLane
  <2>2. \A i \in 2 .. Len(c) : stage'[c[i]] = "chained" /\ previous'[c[i]] = c[i - 1]
    <3> SUFFICES ASSUME NEW i \in 2 .. Len(c)
                 PROVE  stage'[c[i]] = "chained" /\ previous'[c[i]] = c[i - 1]
      OBVIOUS
    <3>1. /\ c[i] \in Msg /\ stage[c[i]] = "chained" /\ previous[c[i]] = c[i - 1]
          /\ c[i - 1] \in Web
      BY <2>1, LenProperties DEF Chain, Msg
    <3>2. AtWork(c[i - 1])
      <4>1. i - 1 \in DOMAIN c
        BY LenProperties
      <4> QED
        BY <2>1, <3>1, <4>1 DEF Chain, Holds
    <3>3. c[i] # d
      BY <3>1, <3>2 DEF ChainReached, LockReached, AtWork, Working
    <3> QED
      BY <1>1, <3>1, <3>3
  <2>3. Chain(c)'
    BY <1>1, <1>2, <2>1, <2>2 DEF Chain, Distinct, Holds, Msg
  <2> QED
    BY <2>3 DEF WebLane
<1> QED
  BY <1>3, <1>4, <1>5 DEF Lanes

(* A new web driver joins the chain at its end.                            *)
LEMMA LanesOpenWeb ==
  ASSUME TypeOK, Lanes, NEW m \in Web, stage[m] = "idle", OpenWeb(m)
  PROVE  Lanes'
<1>1. /\ tail' = m /\ dispatcher' = dispatcher
      /\ \A e \in Msg : /\ stage'[e] = IF e = m THEN IF tail = Nobody THEN "calling" ELSE "chained"
                                       ELSE stage[e]
                        /\ previous'[e] = IF e = m THEN tail ELSE previous[e]
  BY DEF OpenWeb, TypeOK
<1>2. \A e \in Msg : AtWork(e)' <=> AtWork(e) \/ e = m
  BY <1>1 DEF AtWork, Working
<1>3. m \in Msg /\ ~AtWork(m)
  BY DEF Msg, AtWork, Working
<1>4. OwnLane'
  BY <1>1 DEF Lanes, OwnLane
<1>5. MatrixLane'
  <2>1. \A i \in 2 .. Len(dispatcher) : stage'[dispatcher[i]] = "locking"
    <3> SUFFICES ASSUME NEW i \in 2 .. Len(dispatcher) PROVE stage'[dispatcher[i]] = "locking"
      OBVIOUS
    <3>1. dispatcher[i] \in Matrix
      BY LenProperties DEF TypeOK
    <3>2. dispatcher[i] \in Msg /\ dispatcher[i] # m
      BY <3>1, DistinctOrigins DEF Msg
    <3> QED
      BY <1>1, <3>2 DEF Lanes, MatrixLane
  <2> QED
    BY <1>1, <1>2, <2>1, DistinctOrigins DEF Lanes, MatrixLane, Distinct, Holds, Msg
<1>6. WebLane'
  <2>1. PICK c \in Seq(Web) : Chain(c)
    BY DEF Lanes, WebLane
  <2> DEFINE n == Len(c)
             longer == Append(c, m)
  <2>2. /\ n \in Nat /\ DOMAIN c = 1 .. n /\ longer \in Seq(Web) /\ Len(longer) = n + 1
        /\ DOMAIN longer = 1 .. n + 1
        /\ longer[n + 1] = m /\ \A i \in 1 .. n : longer[i] = c[i]
    BY AppendProperties, LenProperties
  <2>3. \A i \in 1 .. n : c[i] \in Web /\ c[i] # m
    BY <1>3, <2>1, <2>2 DEF Chain, Holds
  <2> HIDE DEF longer, n
  <2>4. Distinct(longer)
    BY <2>1, <2>2, <2>3 DEF Chain, Distinct
  <2>5. \A d \in Web : AtWork(d)' <=> Holds(longer, d)
    <3> SUFFICES ASSUME NEW d \in Web PROVE AtWork(d)' <=> Holds(longer, d)
      OBVIOUS
    <3>1. Holds(longer, d) <=> Holds(c, d) \/ d = m
      BY <2>2 DEF Holds
    <3> QED
      BY <1>2, <2>1, <3>1 DEF Chain, Msg
  <2>6. \A i \in 2 .. n + 1 : stage'[longer[i]] = "chained" /\ previous'[longer[i]] = longer[i - 1]
    <3> SUFFICES ASSUME NEW i \in 2 .. n + 1
                 PROVE  stage'[longer[i]] = "chained" /\ previous'[longer[i]] = longer[i - 1]
      OBVIOUS
    <3>1. CASE i = n + 1
      <4>1. c # <<>> /\ tail = c[n] /\ longer[i - 1] = c[n] /\ longer[i] = m
        BY <2>1, <2>2, <3>1, EmptySeq DEF Chain, n
      <4>2. tail # Nobody
        BY <2>2, <2>3, <3>1, <4>1, DistinctOrigins DEF Msg
      <4> QED
        BY <1>1, <1>3, <4>1, <4>2
    <3>2. CASE i \in 2 .. n
      <4>1. longer[i] = c[i] /\ longer[i - 1] = c[i - 1] /\ c[i] \in Msg /\ c[i] # m
        BY <2>2, <2>3, <3>2 DEF Msg
      <4>2. stage[c[i]] = "chained" /\ previous[c[i]] = c[i - 1]
        BY <2>1, <3>2 DEF Chain, n
      <4> QED
        BY <1>1, <4>1, <4>2
    <3> QED
      BY <2>2, <3>1, <3>2
  <2>7. longer # <<>> /\ tail' = longer[Len(longer)]
    BY <1>1, <2>2, EmptySeq
  <2>8. Chain(longer)'
    BY <2>2, <2>4, <2>5, <2>6, <2>7 DEF Chain, Distinct, Holds
  <2> QED
    BY <2>2, <2>8 DEF WebLane
<1> QED
  BY <1>4, <1>5, <1>6 DEF Lanes

(* A new Matrix driver joins the dispatcher's line at its end.             *)
LEMMA LanesOpenMatrix ==
  ASSUME TypeOK, Lanes, NEW m \in Matrix, stage[m] = "idle", OpenMatrix(m)
  PROVE  Lanes'
<1> DEFINE n == Len(dispatcher)
<1>1. /\ tail' = tail /\ previous' = previous
      /\ \A e \in Msg : stage'[e] = IF e = m THEN "locking" ELSE stage[e]
  BY DEF OpenMatrix, TypeOK
<1>2. \A e \in Msg : AtWork(e)' <=> AtWork(e) \/ e = m
  BY <1>1 DEF AtWork, Working
<1>3. m \in Msg /\ ~AtWork(m) /\ m \notin Web
  BY DistinctOrigins DEF Msg, AtWork, Working
<1>4. OwnLane'
  BY <1>1 DEF Lanes, OwnLane
<1>5. /\ n \in Nat /\ DOMAIN dispatcher = 1 .. n /\ dispatcher' \in Seq(Matrix)
      /\ Len(dispatcher') = n + 1 /\ DOMAIN dispatcher' = 1 .. n + 1
      /\ dispatcher'[n + 1] = m /\ \A i \in 1 .. n : dispatcher'[i] = dispatcher[i]
  BY AppendProperties, LenProperties DEF TypeOK, OpenMatrix
<1>6. \A i \in 1 .. n : dispatcher[i] \in Msg /\ dispatcher[i] # m
  <2> SUFFICES ASSUME NEW i \in 1 .. n PROVE dispatcher[i] \in Msg /\ dispatcher[i] # m
    OBVIOUS
  <2>1. dispatcher \in Seq(Matrix) /\ i \in DOMAIN dispatcher
    BY <1>5 DEF TypeOK
  <2>2. dispatcher[i] \in Matrix
    BY <2>1, ElementOfSeq, <1>5
  <2>3. Holds(dispatcher, dispatcher[i])
    BY <2>1 DEF Holds
  <2> QED
    BY <1>3, <2>2, <2>3 DEF Lanes, MatrixLane, Msg
<1> HIDE DEF n
<1>7. MatrixLane'
  <2>1. Distinct(dispatcher')
    BY <1>5, <1>6 DEF Lanes, MatrixLane, Distinct
  <2>2. \A d \in Matrix : AtWork(d)' <=> Holds(dispatcher', d)
    <3> SUFFICES ASSUME NEW d \in Matrix PROVE AtWork(d)' <=> Holds(dispatcher', d)
      OBVIOUS
    <3>1. Holds(dispatcher', d) <=> Holds(dispatcher, d) \/ d = m
      BY <1>5 DEF Holds
    <3> QED
      BY <1>2, <3>1 DEF Lanes, MatrixLane, Msg
  <2>3. \A i \in 2 .. n + 1 : stage'[dispatcher'[i]] = "locking"
    <3> SUFFICES ASSUME NEW i \in 2 .. n + 1 PROVE stage'[dispatcher'[i]] = "locking"
      OBVIOUS
    <3>1. CASE i = n + 1
      BY <1>1, <1>3, <1>5, <3>1
    <3>2. CASE i \in 2 .. n
      <4>1. dispatcher'[i] = dispatcher[i] /\ dispatcher[i] \in Msg /\ dispatcher[i] # m
        BY <1>5, <1>6, <3>2
      <4>2. stage[dispatcher[i]] = "locking"
        BY <3>2 DEF Lanes, MatrixLane, n
      <4> QED
        BY <1>1, <4>1, <4>2
    <3> QED
      BY <1>5, <3>1, <3>2
  <2> QED
    BY <1>5, <2>1, <2>2, <2>3 DEF MatrixLane, Distinct, Holds
<1>8. WebLane'
  <2>1. PICK c \in Seq(Web) : Chain(c)
    BY DEF Lanes, WebLane
  <2>2. \A i \in 2 .. Len(c) : c[i] \in Msg /\ c[i] # m
    BY <1>3, LenProperties DEF Msg
  <2>3. \A i \in 2 .. Len(c) : stage'[c[i]] = "chained" /\ previous'[c[i]] = c[i - 1]
    BY <1>1, <2>1, <2>2 DEF Chain
  <2>4. Chain(c)'
    BY <1>1, <1>2, <1>3, <2>1, <2>3 DEF Chain, Distinct, Holds, Msg
  <2> QED
    BY <2>4 DEF WebLane
<1> QED
  BY <1>4, <1>7, <1>8 DEF Lanes

(* A driver leaves: one that worked, or a Matrix driver that waited behind *)
(* another one.                                                            *)
LEMMA LanesLeft ==
  ASSUME TypeOK, Lanes, NEW d \in Msg, Leave(d),
         Working(d) \/ (stage[d] = "locking" /\ Head(dispatcher) # d)
  PROVE  Lanes'
<1>1. /\ tail' = (IF tail = d THEN Nobody ELSE tail) /\ previous' = previous
      /\ \A e \in Msg : stage'[e] = IF e = d THEN "gone" ELSE stage[e]
  BY DEF Leave, ReleasedLanes, TypeOK
<1>2. \A e \in Msg : AtWork(e)' <=> AtWork(e) /\ e # d
  BY <1>1 DEF AtWork, Working
<1>3. AtWork(d)
  BY DEF AtWork
<1>4. OwnLane'
  BY <1>1 DEF Lanes, OwnLane
<1>5. ASSUME d \notin Matrix PROVE MatrixLane'
  <2>1. dispatcher' = dispatcher
    <3>1. ~Holds(dispatcher, d)
      BY <1>5, MembersOfSeq DEF TypeOK
    <3> QED
      BY <3>1 DEF Leave, ReleasedLanes, Holds
  <2>2. \A i \in 2 .. Len(dispatcher) : stage'[dispatcher[i]] = "locking"
    <3> SUFFICES ASSUME NEW i \in 2 .. Len(dispatcher) PROVE stage'[dispatcher[i]] = "locking"
      OBVIOUS
    <3>1. dispatcher[i] \in Matrix
      BY LenProperties DEF TypeOK
    <3>2. dispatcher[i] \in Msg /\ dispatcher[i] # d
      BY <1>5, <3>1 DEF Msg
    <3> QED
      BY <1>1, <3>2 DEF Lanes, MatrixLane
  <2> QED
    BY <1>2, <1>5, <2>1, <2>2 DEF Lanes, MatrixLane, Distinct, Holds, Msg
<1>6. ASSUME d \in Matrix PROVE MatrixLane'
  <2> DEFINE n == Len(dispatcher)
  <2>1. PICK i \in 1 .. n : dispatcher[i] = d /\ dispatcher' = RemoveAt(dispatcher, i)
    <3>1. Holds(dispatcher, d)
      BY <1>3, <1>6 DEF Lanes, MatrixLane
    <3> QED
      BY <3>1, LenProperties DEF Leave, ReleasedLanes, TypeOK
  <2> DEFINE old(k) == IF k < i THEN k ELSE k + 1
  <2>2. /\ n \in Nat /\ DOMAIN dispatcher = 1 .. n
        /\ dispatcher' \in Seq(Matrix) /\ Len(dispatcher') = n - 1
        /\ \A k \in 1 .. n - 1 : dispatcher'[k] = dispatcher[old(k)]
    <3>1. dispatcher \in Seq(Matrix)
      BY DEF TypeOK
    <3>2. n \in Nat /\ DOMAIN dispatcher = 1 .. n
      BY <3>1, LenProperties
    <3>3. i \in DOMAIN dispatcher
      BY <2>1, <3>2
    <3>4. /\ RemoveAt(dispatcher, i) \in Seq(Matrix)
          /\ Len(RemoveAt(dispatcher, i)) = n - 1
          /\ \A k \in 1 .. n - 1 : RemoveAt(dispatcher, i)[k]
                                     = IF k < i THEN dispatcher[k] ELSE dispatcher[k + 1]
      BY <3>1, <3>3, RemovedEntry
    <3>5. \A k \in 1 .. n - 1 : RemoveAt(dispatcher, i)[k] = dispatcher[old(k)]
      BY <3>4
    <3> QED
      BY <2>1, <3>2, <3>4, <3>5
  <2>3. DOMAIN dispatcher' = 1 .. n - 1
    BY <2>2, LenProperties
  <2>4. /\ \A k \in 1 .. n - 1 : old(k) \in 1 .. n /\ old(k) # i /\ old(k) >= k
        /\ \A k, l \in 1 .. n - 1 : old(k) = old(l) => k = l
        /\ \A j \in 1 .. n : j # i => \E k \in 1 .. n - 1 : old(k) = j
    <3>1. ASSUME NEW j \in 1 .. n, j # i PROVE \E k \in 1 .. n - 1 : old(k) = j
      <4>1. CASE j < i
        <5>1. j \in 1 .. n - 1 /\ old(j) = j
          BY <2>1, <2>2, <4>1
        <5> QED
          BY <5>1
      <4>2. CASE i < j
        <5>1. j - 1 \in 1 .. n - 1 /\ old(j - 1) = j
          BY <2>1, <2>2, <4>2
        <5> QED
          BY <5>1
      <4> QED
        BY <2>1, <3>1, <4>1, <4>2
    <3>2. \A k \in 1 .. n - 1 : old(k) \in 1 .. n /\ old(k) # i /\ old(k) >= k
      BY <2>1, <2>2
    <3>3. \A k, l \in 1 .. n - 1 : old(k) = old(l) => k = l
      BY <2>1, <2>2
    <3> QED
      BY <3>1, <3>2, <3>3
  <2>5. \A j \in 1 .. n : dispatcher[j] \in Msg /\ (dispatcher[j] = d => j = i)
    <3> SUFFICES ASSUME NEW j \in 1 .. n
                 PROVE  dispatcher[j] \in Msg /\ (dispatcher[j] = d => j = i)
      OBVIOUS
    <3>1. dispatcher[j] \in Matrix /\ i \in DOMAIN dispatcher /\ j \in DOMAIN dispatcher
      BY <2>2 DEF TypeOK
    <3> QED
      BY <2>1, <3>1 DEF Lanes, MatrixLane, Distinct, Msg
  <2> HIDE DEF n, old
  <2>6. Distinct(dispatcher')
    BY <2>2, <2>3, <2>4 DEF Lanes, MatrixLane, Distinct
  <2>7. \A e \in Matrix : AtWork(e)' <=> Holds(dispatcher', e)
    <3> SUFFICES ASSUME NEW e \in Matrix PROVE AtWork(e)' <=> Holds(dispatcher', e)
      OBVIOUS
    <3>1. Holds(dispatcher', e) => Holds(dispatcher, e) /\ e # d
      BY <2>2, <2>3, <2>4, <2>5 DEF Holds
    <3>2. Holds(dispatcher, e) /\ e # d => Holds(dispatcher', e)
      <4> SUFFICES ASSUME Holds(dispatcher, e), e # d PROVE Holds(dispatcher', e)
        OBVIOUS
      <4>1. PICK j \in 1 .. n : dispatcher[j] = e
        BY <2>2 DEF Holds
      <4>2. PICK k \in 1 .. n - 1 : old(k) = j
        BY <2>1, <2>4, <4>1
      <4> QED
        BY <2>2, <2>3, <4>1, <4>2 DEF Holds
    <3> QED
      BY <1>2, <3>1, <3>2 DEF Lanes, MatrixLane, Msg
  <2>8. \A k \in 2 .. n - 1 : stage'[dispatcher'[k]] = "locking"
    <3> SUFFICES ASSUME NEW k \in 2 .. n - 1 PROVE stage'[dispatcher'[k]] = "locking"
      OBVIOUS
    <3>1. k \in 1 .. n - 1 /\ old(k) \in 2 .. n /\ old(k) # i
      BY <2>2, <2>4
    <3>2. dispatcher'[k] = dispatcher[old(k)] /\ stage[dispatcher[old(k)]] = "locking"
      BY <2>2, <3>1 DEF Lanes, MatrixLane, n
    <3>3. dispatcher[old(k)] \in Msg /\ dispatcher[old(k)] # d
      BY <2>2, <2>5, <3>1
    <3> QED
      BY <1>1, <3>2, <3>3
  <2> QED
    BY <2>2, <2>3, <2>6, <2>7, <2>8 DEF MatrixLane
<1>7. PICK c \in Seq(Web) : Chain(c)
  BY DEF Lanes, WebLane
<1>8. Len(c) \in Nat /\ DOMAIN c = 1 .. Len(c) /\ \A i \in 1 .. Len(c) : c[i] \in Web /\ c[i] \in Msg
  BY LenProperties DEF Msg
<1>9. CASE d \notin Web
  <2>1. tail' = tail
    BY <1>1, <1>9, DistinctOrigins DEF TypeOK
  <2>2. \A i \in 2 .. Len(c) : stage'[c[i]] = "chained" /\ previous'[c[i]] = c[i - 1]
    <3> SUFFICES ASSUME NEW i \in 2 .. Len(c)
                 PROVE  stage'[c[i]] = "chained" /\ previous'[c[i]] = c[i - 1]
      OBVIOUS
    <3>1. c[i] \in Web /\ c[i] \in Msg /\ stage[c[i]] = "chained" /\ previous[c[i]] = c[i - 1]
      BY <1>7, <1>8 DEF Chain
    <3> QED
      BY <1>1, <1>9, <3>1
  <2>3. Chain(c)'
    BY <1>2, <1>7, <1>9, <2>1, <2>2 DEF Chain, Distinct, Holds, Msg
  <2> QED
    BY <1>4, <1>5, <1>6, <2>3 DEF Lanes, WebLane
<1>10. CASE d \in Web
  <2> DEFINE n == Len(c)
             rest == Tail(c)
  <2>1. Working(d)
    BY <1>10, DistinctOrigins DEF Lanes, OwnLane, Msg
  <2>2. n >= 1 /\ c[1] = d /\ c # <<>>
    <3>1. PICK i \in 1 .. n : c[i] = d
      BY <1>3, <1>7, <1>8, <1>10 DEF Chain, Holds
    <3>2. ~(i \in 2 .. n)
      BY <1>7, <2>1, <3>1 DEF Chain, Working
    <3> QED
      BY <1>8, <3>1, <3>2, EmptySeq
  <2>3. /\ rest \in Seq(Web) /\ Len(rest) = n - 1
        /\ \A i \in 1 .. n - 1 : rest[i] = c[i + 1]
    BY <2>2, HeadTailProperties
  <2>4. DOMAIN rest = 1 .. n - 1
    BY <2>3, LenProperties
  <2>5. \A i \in 1 .. n : c[i] = d => i = 1
    BY <1>7, <1>8, <2>2 DEF Chain, Distinct
  <2> HIDE DEF rest
  <2>6. Distinct(rest)
    <3> SUFFICES ASSUME NEW i \in 1 .. n - 1, NEW j \in 1 .. n - 1, rest[i] = rest[j]
                 PROVE  i = j
      BY <2>4 DEF Distinct
    <3>1. i + 1 \in DOMAIN c /\ j + 1 \in DOMAIN c /\ c[i + 1] = c[j + 1]
      BY <1>8, <2>3
    <3>2. i + 1 = j + 1
      BY <1>7, <3>1 DEF Chain, Distinct
    <3> QED
      BY <1>8, <3>2
  <2>7. \A e \in Web : AtWork(e)' <=> Holds(rest, e)
    <3> SUFFICES ASSUME NEW e \in Web PROVE AtWork(e)' <=> Holds(rest, e)
      OBVIOUS
    <3>1. ASSUME Holds(rest, e) PROVE Holds(c, e) /\ e # d
      <4>1. PICK i \in 1 .. n - 1 : rest[i] = e
        BY <2>4, <3>1 DEF Holds
      <4>2. i + 1 \in 1 .. n /\ c[i + 1] = e /\ i + 1 # 1
        BY <1>8, <2>3, <4>1
      <4> QED
        BY <1>8, <2>5, <4>2 DEF Holds
    <3>2. ASSUME Holds(c, e), e # d PROVE Holds(rest, e)
      <4>1. PICK i \in 1 .. n : c[i] = e
        BY <1>8, <3>2 DEF Holds
      <4>2. i - 1 \in 1 .. n - 1 /\ rest[i - 1] = e
        BY <1>8, <2>2, <2>3, <3>2, <4>1
      <4> QED
        BY <2>4, <4>2 DEF Holds
    <3> QED
      BY <1>2, <1>7, <3>1, <3>2 DEF Chain, Msg
  <2>8. \A i \in 2 .. n - 1 : stage'[rest[i]] = "chained" /\ previous'[rest[i]] = rest[i - 1]
    <3> SUFFICES ASSUME NEW i \in 2 .. n - 1
                 PROVE  stage'[rest[i]] = "chained" /\ previous'[rest[i]] = rest[i - 1]
      OBVIOUS
    <3>1. i + 1 \in 2 .. n /\ i \in 1 .. n - 1 /\ i - 1 \in 1 .. n - 1 /\ (i + 1) - 1 = i /\ (i - 1) + 1 = i
      BY <1>8
    <3>2. rest[i] = c[i + 1] /\ rest[i - 1] = c[i]
      BY <2>3, <3>1
    <3>3. stage[c[i + 1]] = "chained" /\ previous[c[i + 1]] = c[i]
      BY <1>7, <3>1 DEF Chain
    <3>4. c[i + 1] \in Msg /\ c[i + 1] # d
      BY <1>8, <2>5, <3>1
    <3> QED
      BY <1>1, <3>2, <3>3, <3>4
  <2>9. tail' = IF rest = <<>> THEN Nobody ELSE rest[Len(rest)]
    <3>1. tail = c[n]
      BY <1>7, <2>2 DEF Chain
    <3>2. CASE n = 1
      <4>1. rest = <<>>
        BY <2>3, <3>2, EmptySeq
      <4> QED
        BY <1>1, <2>2, <3>1, <3>2, <4>1
    <3>3. CASE n # 1
      <4>1. n - 1 \in 1 .. n - 1 /\ n \in 1 .. n
        BY <1>8, <2>2, <3>3
      <4>2. c[n] # d /\ rest[n - 1] = c[n] /\ rest # <<>>
        BY <1>8, <2>3, <2>5, <3>3, <4>1, EmptySeq
      <4> QED
        BY <1>1, <2>3, <3>1, <4>2
    <3> QED
      BY <3>2, <3>3
  <2>10. Chain(rest)'
    BY <2>3, <2>4, <2>6, <2>7, <2>8, <2>9 DEF Chain, Distinct, Holds
  <2> QED
    BY <1>4, <1>5, <1>6, <2>3, <2>10 DEF Lanes, WebLane
<1> QED
  BY <1>9, <1>10

(* A driver comes back from its turn.                                      *)
LEMMA LanesReturned ==
  ASSUME TypeOK, Lanes, NEW d \in Msg, stage[d] = "turn", Leave(d) \/ Returned(d)
  PROVE  Lanes'
<1>1. Working(d)
  BY DEF Working
<1>2. CASE Leave(d)
  BY <1>1, <1>2, LanesLeft
<1>3. CASE stage' = [stage EXCEPT ![d] = "after"] /\ UNCHANGED <<job, leftover, rounds, laneVars, looked>>
  BY <1>1, <1>3, LanesWorkOn
<1> QED
  BY <1>2, <1>3 DEF Returned

LEMMA NextLanes == TypeOK /\ Lanes /\ [Next]_vars => Lanes'
<1> SUFFICES ASSUME TypeOK, Lanes, [Next]_vars PROVE Lanes'
  OBVIOUS
<1>1. ASSUME UNCHANGED <<stage, tail, previous, dispatcher>> PROVE Lanes'
  BY <1>1, LanesUntouched DEF laneVars, AtWork, Working
<1>2. ASSUME NEW m \in Msg, stage[m] = "idle", FollowUp(m) PROVE Lanes'
  <2>1. \A e \in Msg : stage'[e] = IF e = m THEN "followup" ELSE stage[e]
    BY <1>2 DEF FollowUp, TypeOK
  <2>2. \A e \in Msg : /\ AtWork(e)' <=> AtWork(e)
                       /\ stage[e] \in {"chained", "locking"} => stage'[e] = stage[e]
                       /\ stage'[e] \in {"chained", "locking"} => stage'[e] = stage[e]
    BY <1>2, <2>1 DEF AtWork, Working
  <2> QED
    BY <1>2, <2>2, LanesUntouched DEF FollowUp
<1>3. ASSUME NEW m \in Background, stage[m] = "idle", Awaken(m) PROVE Lanes'
  <2>1. /\ m \in Msg /\ m \notin Web /\ m \notin Matrix /\ UNCHANGED <<tail, previous, dispatcher>>
        /\ \A e \in Msg : stage'[e] = IF e = m THEN "calling" ELSE stage[e]
    BY <1>3, DistinctOrigins DEF Awaken, TypeOK, Msg, laneVars
  <2>2. \A e \in Web \cup Matrix : AtWork(e)' <=> AtWork(e)
    BY <2>1 DEF AtWork, Working, Msg
  <2>3. OwnLane'
    BY <2>1 DEF Lanes, OwnLane
  <2>4. MatrixLane'
    <3>1. \A i \in 2 .. Len(dispatcher) : stage'[dispatcher[i]] = "locking"
      <4> SUFFICES ASSUME NEW i \in 2 .. Len(dispatcher) PROVE stage'[dispatcher[i]] = "locking"
        OBVIOUS
      <4>1. dispatcher[i] \in Matrix
        BY LenProperties DEF TypeOK
      <4>2. dispatcher[i] \in Msg /\ dispatcher[i] # m
        BY <2>1, <4>1 DEF Msg
      <4> QED
        BY <2>1, <4>2 DEF Lanes, MatrixLane
    <3> QED
      BY <2>1, <2>2, <3>1 DEF Lanes, MatrixLane, Distinct, Holds
  <2>5. WebLane'
    <3>1. PICK c \in Seq(Web) : Chain(c)
      BY DEF Lanes, WebLane
    <3>2. \A i \in 2 .. Len(c) : c[i] \in Msg /\ c[i] # m
      BY <2>1, LenProperties DEF Msg
    <3>3. Chain(c)'
      BY <2>1, <2>2, <3>1, <3>2 DEF Chain, Distinct, Holds
    <3> QED
      BY <3>3 DEF WebLane
  <2> QED
    BY <2>3, <2>4, <2>5 DEF Lanes
<1>4. CASE Arrive
  BY <1>2, <1>3, <1>4, LanesOpenWeb, LanesOpenMatrix
  DEF Arrive, SendWeb, SendMatrix, CompleteBackground
<1>5. ASSUME NEW d \in Msg, Call(d) PROVE Lanes'
  <2>1. stage' = [stage EXCEPT ![d] = "turn"] /\ UNCHANGED laneVars /\ Working(d)
    BY <1>5 DEF Call, Working
  <2> QED
    BY <2>1, LanesWorkOn
<1>6. CASE BeginNext
  BY <1>1, <1>6 DEF BeginNext, driverVars, laneVars
<1>7. CASE Loop
  BY <1>1, <1>7 DEF Loop, Inject, Answer, GiveUp, Fail, driverVars, laneVars
<1>8. CASE EndTurn
  <2>1. PICK d \in Msg : stage[d] = "turn" /\ (Leave(d) \/ Returned(d))
    BY <1>8 DEF EndTurn
  <2> QED
    BY <2>1, LanesReturned
<1>9. ASSUME NEW d \in Msg, ReturnCancelled(d) PROVE Lanes'
  BY <1>9, LanesReturned DEF ReturnCancelled
<1>10. ASSUME NEW d \in Msg, BusyDrop(d) PROVE Lanes'
  BY <1>10, LanesLeft DEF BusyDrop
<1>11. ASSUME NEW d \in Msg, Dispatch(d) PROVE Lanes'
  <2>1. stage' = [stage EXCEPT ![d] = "calling"] /\ UNCHANGED laneVars /\ Working(d)
    BY <1>11 DEF Dispatch, Working
  <2> QED
    BY <2>1, LanesWorkOn
<1>12. ASSUME NEW d \in Msg, Drain(d) PROVE Lanes'
  <2>1. Working(d)
    BY <1>12 DEF Drain, Working
  <2>2. CASE Leave(d)
    BY <2>1, <2>2, LanesLeft
  <2>3. CASE UNCHANGED <<stage, job, laneVars, looked>>
    BY <1>1, <2>3 DEF laneVars
  <2> QED
    BY <1>12, <2>2, <2>3 DEF Drain
<1>13. ASSUME NEW d \in Msg, ChainReached(d) \/ LockReached(d) PROVE Lanes'
  BY <1>13, LanesEntered
<1>14. ASSUME NEW kill \in BOOLEAN, Interrupted(kill) PROVE Lanes'
  BY <1>1, <1>14 DEF Interrupted, driverVars, laneVars
<1>15. ASSUME Cleared PROVE Lanes'
  BY <1>1, <1>15 DEF Cleared, driverVars, laneVars
<1>16. CASE Interrupt \/ NewSession \/ ClearSession
  BY <1>14, <1>15, <1>16 DEF Interrupt, NewSession, ClearSession
<1>17. CASE UNCHANGED vars
  BY <1>1, <1>17 DEF vars, driverVars, laneVars
<1> QED
  BY <1>4, <1>5, <1>6, <1>7, <1>8, <1>9, <1>10, <1>11, <1>12, <1>13, <1>16, <1>17
  DEF Next, Drive

(* Within a lane one driver works at a time, its leftovers included        *)
(* (web_server.py:1673, sync_helpers.py:180), however many messages come.  *)
THEOREM OneDriverAtATime == Spec => []OneDriverPerLane
<1>1. Init => TypeOK /\ Lanes
  BY InitTyped, InitLanes
<1>2. TypeOK /\ Lanes /\ [Next]_vars => (TypeOK /\ Lanes)'
  BY NextTyped, NextLanes
<1>3. TypeOK /\ Lanes => OneDriverPerLane
  BY LanesAreSingle
<1> QED
  BY <1>1, <1>2, <1>3, PTL DEF Spec

-----------------------------------------------------------------------------
(* Who is going to look at the queue.  Each message of the kernel has its  *)
(* driver, so a busy session has one; and from the last look at the queue  *)
(* on, whatever joins it finds somebody at work.                           *)
LineInv ==
  /\ Distinct(line)
  /\ \A i \in DOMAIN line : line[i] # current /\ line[i] \notin ended

InKernel(m) == m = current \/ Holds(line, m)

Owned == \A m \in Msg : InKernel(m) => \E d \in Msg : stage[d] = "turn" /\ job[d] = m

Attended == looked => queue = <<>> \/ \E d \in Msg : AtWork(d)

Handover == LineInv /\ Owned /\ Attended

LEMMA InitHandover == Init => Handover
<1> SUFFICES ASSUME Init PROVE Handover
  OBVIOUS
<1>1. line = <<>> /\ DOMAIN line = {} /\ current = Nobody
  BY DEF Init, Kernel!Init
<1>2. \A m \in Msg : ~InKernel(m)
  BY <1>1, DistinctOrigins DEF InKernel, Holds
<1> QED
  BY <1>1, <1>2 DEF Init, Handover, LineInv, Distinct, Owned, Attended

(* The kernel's line stays a line of distinct messages that have yet to    *)
(* run.  A message accepted enters it,                                     *)
LEMMA LineGrows ==
  ASSUME TypeOK, LineInv, NEW t \in Msg, Kernel!Accept(t)
  PROVE  LineInv' /\ \A m \in Msg : InKernel(m)' => InKernel(m) \/ m = t
<1> DEFINE n == Len(line)
<1>1. n \in Nat /\ DOMAIN line = 1 .. n /\ line \in Seq(Msg)
  BY LenProperties DEF TypeOK
<1>2. (\A i \in 1 .. n : line[i] # t) /\ t # current /\ t \notin ended /\ ended' = ended
  BY <1>1 DEF Kernel!Accept, Kernel!Fresh, Kernel!InLine
<1>3. CASE line' = Append(line, t) /\ current' = current
  <2>1. /\ DOMAIN line' = 1 .. n + 1 /\ line'[n + 1] = t
        /\ \A i \in 1 .. n : line'[i] = line[i]
    BY <1>1, <1>3, AppendProperties, LenProperties
  <2> HIDE DEF n
  <2>2. LineInv'
    BY <1>1, <1>2, <1>3, <2>1 DEF LineInv, Distinct
  <2>3. \A m \in Msg : InKernel(m)' => InKernel(m) \/ m = t
    BY <1>1, <1>3, <2>1 DEF InKernel, Holds
  <2> QED
    BY <2>2, <2>3
<1>4. CASE line = <<>> /\ line' = line /\ current' = t
  <2>1. DOMAIN line = {} /\ DOMAIN line' = {}
    BY <1>4
  <2> QED
    BY <1>4, <2>1 DEF LineInv, Distinct, InKernel, Holds
<1> QED
  BY <1>3, <1>4 DEF Kernel!Accept

(* and nothing else does.                                                  *)
LEMMA LineMoves ==
  ASSUME TypeOK, LineInv,
         Kernel!Start \/ Kernel!Finish \/ Kernel!CancelLine \/ UNCHANGED kernelVars
  PROVE  /\ LineInv'
         /\ \A m \in Msg : InKernel(m)' => InKernel(m)
         /\ Kernel!Finish => \A m \in Msg : m = current => ~InKernel(m)'
<1> DEFINE n == Len(line)
<1>1. /\ n \in Nat /\ DOMAIN line = 1 .. n /\ line \in Seq(Msg) /\ Nobody \notin Msg
      /\ \A i \in 1 .. n : line[i] \in Msg
  BY LenProperties, DistinctOrigins DEF TypeOK
<1>3. CASE Kernel!Start
  <2>1. /\ n >= 1 /\ current' = line[1] /\ ended' = ended /\ line' = Tail(line)
        /\ current = Nobody
    BY <1>1, <1>3, EmptySeq DEF Kernel!Start
  <2>2. /\ DOMAIN line' = 1 .. n - 1 /\ \A i \in 1 .. n - 1 : line'[i] = line[i + 1]
    <3>1. line # <<>>
      BY <1>3 DEF Kernel!Start
    <3>2. line' \in Seq(Msg) /\ Len(line') = n - 1 /\ \A i \in 1 .. n - 1 : line'[i] = line[i + 1]
      BY <1>1, <2>1, <3>1, HeadTailProperties
    <3> QED
      BY <3>2, LenProperties
  <2> HIDE DEF n
  <2>3. \A i \in 1 .. n - 1 : i + 1 \in DOMAIN line /\ 1 \in DOMAIN line /\ line'[i] = line[i + 1] /\ i + 1 # 1
    BY <1>1, <2>1, <2>2
  <2>4. LineInv'
    <3>1. Distinct(line')
      <4> SUFFICES ASSUME NEW i \in 1 .. n - 1, NEW j \in 1 .. n - 1, line'[i] = line'[j]
                   PROVE  i = j
        BY <2>2 DEF Distinct
      <4>1. i + 1 = j + 1
        BY <2>3 DEF LineInv, Distinct
      <4> QED
        BY <1>1, <4>1
    <3>2. \A i \in 1 .. n - 1 : line'[i] # current' /\ line'[i] \notin ended'
      BY <2>1, <2>3 DEF LineInv, Distinct
    <3> QED
      BY <2>2, <3>1, <3>2 DEF LineInv, Distinct
  <2>5. \A m \in Msg : InKernel(m)' => InKernel(m)
    BY <1>1, <2>1, <2>2, <2>3 DEF InKernel, Holds
  <2>6. ~Kernel!Finish
    BY <2>1 DEF Kernel!Finish
  <2> QED
    BY <2>4, <2>5, <2>6
<1>4. CASE Kernel!Finish
  <2>1. line' = line /\ current' = Nobody /\ ended' = ended \cup {current} /\ current # Nobody
    BY <1>4 DEF Kernel!Finish
  <2>2. LineInv'
    BY <1>1, <2>1 DEF LineInv, Distinct
  <2>3. \A m \in Msg : InKernel(m)' => InKernel(m)
    BY <1>1, <2>1 DEF InKernel, Holds
  <2>4. \A m \in Msg : m = current => ~InKernel(m)'
    BY <2>1, <1>1 DEF InKernel, Holds, LineInv
  <2> QED
    BY <2>2, <2>3, <2>4
<1>5. CASE Kernel!CancelLine
  <2>1. DOMAIN line' = {} /\ current' = current
    BY <1>5 DEF Kernel!CancelLine
  <2>2. LineInv' /\ \A m \in Msg : InKernel(m)' => InKernel(m)
    BY <2>1 DEF LineInv, Distinct, InKernel, Holds
  <2>3. ~Kernel!Finish
    BY <2>1 DEF Kernel!Finish
  <2> QED
    BY <2>2, <2>3
<1>6. CASE UNCHANGED kernelVars
  <2>1. LineInv' /\ \A m \in Msg : InKernel(m)' => InKernel(m)
    BY <1>6 DEF kernelVars, LineInv, Distinct, InKernel, Holds
  <2>2. ~Kernel!Finish
    BY <1>6 DEF Kernel!Finish, kernelVars
  <2> QED
    BY <2>1, <2>2
<1> QED
  BY <1>3, <1>4, <1>5, <1>6

(* The driver of a message in the kernel stays with it.                    *)
LEMMA OwnedKept ==
  ASSUME TypeOK, Owned,
         \A m \in Msg : InKernel(m)' => InKernel(m),
         \A d, m \in Msg : stage[d] = "turn" /\ job[d] = m /\ InKernel(m)'
                             => stage'[d] = "turn" /\ job'[d] = m
  PROVE  Owned'
<1> SUFFICES ASSUME NEW m \in Msg, InKernel(m)'
             PROVE  \E d \in Msg : stage'[d] = "turn" /\ job'[d] = m
  BY DEF Owned
<1>1. PICK d \in Msg : stage[d] = "turn" /\ job[d] = m
  BY DEF Owned
<1> QED
  BY <1>1

(* Nobody stops working, or the queue is empty, or nobody has looked.      *)
LEMMA AttendedKept ==
  ASSUME Attended, looked' => looked, queue' = queue \/ queue' = <<>>,
         \A d \in Msg : AtWork(d) => AtWork(d)'
  PROVE  Attended'
  BY DEF Attended

(* Somebody is at work whenever a message joins the queue.                 *)
LEMMA SomebodyWorks ==
  ASSUME TypeOK, Lanes, Owned, Busy \/ tail # Nobody
  PROVE  \E d \in Msg : AtWork(d)
<1>1. CASE current # Nobody
  <2>1. current \in Msg /\ InKernel(current)
    BY <1>1 DEF TypeOK, InKernel
  <2> QED
    BY <2>1 DEF Owned, AtWork, Working
<1>2. CASE line # <<>>
  <2>1. 1 \in DOMAIN line /\ line[1] \in Msg
    BY <1>2, EmptySeq, LenProperties DEF TypeOK
  <2>2. InKernel(line[1])
    BY <2>1 DEF InKernel, Holds
  <2> QED
    BY <2>1, <2>2 DEF Owned, AtWork, Working
<1>3. CASE tail # Nobody
  <2>1. PICK c \in Seq(Web) : Chain(c)
    BY DEF Lanes, WebLane
  <2>2. tail \in Web /\ Len(c) \in DOMAIN c /\ c[Len(c)] = tail
    BY <1>3, <2>1, EmptySeq, LenProperties DEF Chain, TypeOK
  <2> QED
    BY <2>1, <2>2 DEF Chain, Holds, Msg
<1> QED
  BY <1>1, <1>2, <1>3 DEF Busy

LEMMA NextHandover == TypeOK /\ Lanes /\ Handover /\ [Next]_vars => Handover'
<1> SUFFICES ASSUME TypeOK, Lanes, Handover, [Next]_vars PROVE Handover'
  OBVIOUS
<1> USE DEF kernelVars, turnVars, context, driverVars, laneVars, userVars
<1>0. LineInv /\ Owned /\ Attended
  BY DEF Handover
(* The kernel does not move.                                               *)
<1>1. ASSUME UNCHANGED kernelVars
      PROVE  LineInv' /\ \A m \in Msg : InKernel(m)' <=> InKernel(m)
  BY <1>0, <1>1 DEF LineInv, Distinct, InKernel, Holds
(* A driver changes its phase outside a turn.                              *)
<1>2. ASSUME NEW d \in Msg, NEW next \in Stage, stage[d] # "turn", UNCHANGED kernelVars,
             stage' = [stage EXCEPT ![d] = next], UNCHANGED job
      PROVE  LineInv' /\ Owned'
  <2>1. \A e, m \in Msg : stage[e] = "turn" /\ job[e] = m /\ InKernel(m)'
                            => stage'[e] = "turn" /\ job'[e] = m
    BY <1>2 DEF TypeOK
  <2> QED
    BY <1>0, <1>1, <1>2, <2>1, OwnedKept
<1>3. ASSUME NEW m \in Msg, stage[m] = "idle", FollowUp(m), Busy \/ tail # Nobody PROVE Handover'
  <2>1. LineInv' /\ Owned'
    BY <1>2, <1>3 DEF FollowUp, Stage
  <2>2. PICK d \in Msg : AtWork(d)
    BY <1>0, <1>3, SomebodyWorks
  <2>3. AtWork(d)'
    BY <1>3, <2>2 DEF FollowUp, AtWork, Working, TypeOK
  <2> QED
    BY <2>1, <2>3 DEF Handover, Attended
<1>4. ASSUME NEW m \in Msg, stage[m] = "idle", OpenWeb(m) \/ OpenMatrix(m) \/ Awaken(m) PROVE Handover'
  <2>1. LineInv' /\ Owned'
    BY <1>2, <1>4 DEF OpenWeb, OpenMatrix, Awaken, Stage
  <2>2. AtWork(m)'
    BY <1>4 DEF OpenWeb, OpenMatrix, Awaken, AtWork, Working, TypeOK
  <2> QED
    BY <2>1, <2>2 DEF Handover, Attended
<1>5. CASE Arrive
  BY <1>3, <1>4, <1>5 DEF Arrive, SendWeb, SendMatrix, CompleteBackground, WebBusy
<1>6. ASSUME NEW d \in Msg, Call(d) PROVE Handover'
  <2>1. /\ stage[d] = "calling" /\ Kernel!Accept(job[d]) /\ job[d] \in Msg
        /\ UNCHANGED <<queue, job, looked>>
        /\ \A e \in Msg : stage'[e] = IF e = d THEN "turn" ELSE stage[e]
    BY <1>6 DEF Call, TypeOK
  <2>2. LineInv' /\ \A m \in Msg : InKernel(m)' => InKernel(m) \/ m = job[d]
    BY <1>0, <2>1, LineGrows
  <2>3. Owned'
    <3> SUFFICES ASSUME NEW m \in Msg, InKernel(m)'
                 PROVE  \E e \in Msg : stage'[e] = "turn" /\ job'[e] = m
      BY DEF Owned
    <3>1. CASE m = job[d]
      BY <2>1, <3>1
    <3>2. CASE InKernel(m)
      BY <1>0, <2>1, <3>2 DEF Owned
    <3> QED
      BY <2>2, <3>1, <3>2
  <2>4. AtWork(d)'
    BY <2>1 DEF AtWork, Working
  <2> QED
    BY <2>2, <2>3, <2>4 DEF Handover, Attended
(* The loop, the kernel's next turn and an interruption let the drivers be. *)
<1>7. ASSUME Kernel!Start \/ Kernel!CancelLine \/ UNCHANGED kernelVars,
             UNCHANGED <<stage, job, looked>>, queue' = queue \/ queue' = <<>>
      PROVE  Handover'
  <2>1. LineInv' /\ (\A m \in Msg : InKernel(m)' => InKernel(m))
    BY <1>0, <1>7, LineMoves
  <2>2. Owned'
    BY <1>0, <1>7, <2>1, OwnedKept
  <2>3. \A d \in Msg : AtWork(d) => AtWork(d)'
    BY <1>7 DEF AtWork, Working
  <2>4. Attended'
    BY <1>0, <1>7, <2>3, AttendedKept
  <2> QED
    BY <2>1, <2>2, <2>4 DEF Handover
<1>8. CASE BeginNext
  BY <1>7, <1>8 DEF BeginNext
<1>9. CASE Loop
  BY <1>7, <1>9 DEF Loop, Inject, Answer, GiveUp, Fail
(* A driver comes back: it looks at the queue itself, or nobody has looked. *)
<1>10. ASSUME NEW d \in Msg, (Leave(d) /\ looked' = FALSE) \/ Returned(d), queue' = queue
       PROVE  /\ \A e, m \in Msg : e # d /\ stage[e] = "turn" /\ job[e] = m
                                     => stage'[e] = "turn" /\ job'[e] = m
              /\ Attended'
  <2>1. CASE Leave(d) /\ looked' = FALSE
    BY <2>1 DEF Leave, TypeOK, Attended
  <2>2. CASE stage' = [stage EXCEPT ![d] = "after"] /\ UNCHANGED <<job, leftover, rounds, laneVars, looked>>
    <3>1. AtWork(d)'
      BY <2>2 DEF AtWork, Working, TypeOK
    <3> QED
      BY <2>2, <3>1 DEF TypeOK, Attended
  <2> QED
    BY <1>10, <2>1, <2>2 DEF Returned
<1>11. CASE EndTurn
  <2>1. Kernel!Finish /\ current \in Msg /\ queue' = queue
    BY <1>11 DEF EndTurn, Kernel!Finish, TypeOK
  <2>2. PICK d \in Msg : /\ stage[d] = "turn" /\ job[d] = current
                         /\ (Leave(d) /\ looked' = FALSE) \/ Returned(d)
    BY <1>11 DEF EndTurn
  <2>3. /\ LineInv'
        /\ \A m \in Msg : m = current => ~InKernel(m)'
        /\ \A m \in Msg : InKernel(m)' => InKernel(m)
    BY <1>0, <2>1, LineMoves
  <2>4. Attended' /\ \A e, m \in Msg : stage[e] = "turn" /\ job[e] = m /\ InKernel(m)'
                                         => stage'[e] = "turn" /\ job'[e] = m
    <3>1. /\ Attended'
          /\ \A e, m \in Msg : e # d /\ stage[e] = "turn" /\ job[e] = m
                                 => stage'[e] = "turn" /\ job'[e] = m
      BY <1>10, <2>1, <2>2
    <3>2. \A e, m \in Msg : job[e] = m /\ InKernel(m)' => e # d
      BY <2>2, <2>3
    <3> QED
      BY <3>1, <3>2
  <2>5. Owned'
    BY <1>0, <2>3, <2>4, OwnedKept
  <2> QED
    BY <2>3, <2>4, <2>5 DEF Handover
<1>12. ASSUME NEW d \in Msg, ReturnCancelled(d) PROVE Handover'
  <2>1. /\ job[d] \in Msg /\ job[d] \in ended /\ current = Nobody /\ stage[d] = "turn"
        /\ Returned(d) /\ queue' = queue /\ UNCHANGED kernelVars
    BY <1>12 DEF ReturnCancelled, TypeOK
  <2>2. ~InKernel(job[d])
    BY <1>0, <2>1, DistinctOrigins DEF InKernel, Holds, LineInv
  <2>3. LineInv' /\ \A m \in Msg : InKernel(m)' <=> InKernel(m)
    BY <1>1, <2>1
  <2>4. Attended' /\ \A e, m \in Msg : stage[e] = "turn" /\ job[e] = m /\ InKernel(m)'
                                         => stage'[e] = "turn" /\ job'[e] = m
    <3>1. /\ Attended'
          /\ \A e, m \in Msg : e # d /\ stage[e] = "turn" /\ job[e] = m
                                 => stage'[e] = "turn" /\ job'[e] = m
      BY <1>10, <2>1
    <3>2. \A e, m \in Msg : job[e] = m /\ InKernel(m)' => e # d
      BY <2>2, <2>3
    <3> QED
      BY <3>1, <3>2
  <2>5. Owned'
    BY <1>0, <2>3, <2>4, OwnedKept
  <2> QED
    BY <2>3, <2>4, <2>5 DEF Handover
(* A driver leaves outside a turn.                                         *)
<1>13. ASSUME NEW d \in Msg, stage[d] # "turn", Leave(d), UNCHANGED kernelVars
       PROVE  LineInv' /\ Owned'
  <2>1. \A e, m \in Msg : stage[e] = "turn" /\ job[e] = m /\ InKernel(m)'
                            => stage'[e] = "turn" /\ job'[e] = m
    BY <1>13 DEF Leave, TypeOK
  <2> QED
    BY <1>0, <1>1, <1>13, <2>1, OwnedKept
<1>14. ASSUME NEW d \in Msg, BusyDrop(d) PROVE Handover'
  <2>1. stage[d] = "locking" /\ Head(dispatcher) # d /\ Leave(d)
        /\ UNCHANGED <<kernelVars, queue, looked>>
    BY <1>14 DEF BusyDrop
  <2>2. LineInv' /\ Owned'
    BY <1>13, <2>1
  <2>3. d \in Matrix /\ Holds(dispatcher, d)
    BY <2>1 DEF Lanes, OwnLane, MatrixLane, AtWork
  <2>4. 1 \in DOMAIN dispatcher /\ dispatcher[1] \in Matrix /\ dispatcher[1] # d
    BY <2>1, <2>3, EmptySeq, LenProperties DEF Holds, TypeOK
  <2>5. dispatcher[1] \in Msg /\ AtWork(dispatcher[1])
    BY <2>4 DEF Lanes, MatrixLane, Holds, Msg
  <2>6. \E e \in Msg : AtWork(e)'
    BY <2>1, <2>4, <2>5 DEF Leave, AtWork, Working, TypeOK
  <2> QED
    BY <2>2, <2>6 DEF Handover, Attended
<1>15. ASSUME NEW d \in Msg, ChainReached(d) \/ LockReached(d) PROVE Handover'
  <2>1. LineInv' /\ Owned'
    BY <1>2, <1>15 DEF ChainReached, LockReached, Stage
  <2>2. AtWork(d)'
    BY <1>15 DEF ChainReached, LockReached, AtWork, Working, TypeOK
  <2> QED
    BY <2>1, <2>2 DEF Handover, Attended
<1>16. ASSUME NEW d \in Msg, Dispatch(d) PROVE Handover'
  <2>1. \A e, m \in Msg : stage[e] = "turn" /\ job[e] = m /\ InKernel(m)'
                            => stage'[e] = "turn" /\ job'[e] = m
    BY <1>16 DEF Dispatch, TypeOK
  <2>2. LineInv' /\ Owned'
    BY <1>0, <1>1, <1>16, <2>1, OwnedKept DEF Dispatch
  <2>3. AtWork(d)'
    BY <1>16 DEF Dispatch, AtWork, Working, TypeOK
  <2> QED
    BY <2>2, <2>3 DEF Handover, Attended
<1>17. ASSUME NEW d \in Msg, Drain(d) PROVE Handover'
  <2>1. stage[d] = "after" /\ UNCHANGED kernelVars
    BY <1>17 DEF Drain
  <2>2. CASE queue = <<>> /\ Leave(d) /\ UNCHANGED queue
    BY <1>13, <2>1, <2>2 DEF Handover, Attended
  <2>3. CASE Leave(d) /\ looked' = FALSE
    BY <1>13, <2>1, <2>3 DEF Handover, Attended
  <2>4. CASE queue' = <<>> /\ UNCHANGED <<stage, job, laneVars, looked>>
    BY <1>7, <2>1, <2>4
  <2> QED
    BY <1>17, <2>2, <2>3, <2>4 DEF Drain
<1>18. ASSUME NEW kill \in BOOLEAN, Interrupted(kill) PROVE Handover'
  BY <1>7, <1>18 DEF Interrupted
<1>19. ASSUME Cleared PROVE Handover'
  BY <1>7, <1>19 DEF Cleared
<1>20. CASE Interrupt \/ NewSession \/ ClearSession
  BY <1>18, <1>19, <1>20 DEF Interrupt, NewSession, ClearSession
<1>21. CASE UNCHANGED vars
  BY <1>7, <1>21 DEF vars
<1> QED
  BY <1>5, <1>6, <1>8, <1>9, <1>11, <1>12, <1>14, <1>15, <1>16, <1>17, <1>20, <1>21
  DEF Next, Drive

(* Nothing waits in the queue of a quiet session, unless its last driver   *)
(* left without a look at it: the hand-over between the running turn, the  *)
(* drain and the lanes has no gap, however many messages come.             *)
THEOREM NobodyForgotten == Spec => []NoForgottenMessage
<1>1. Init => TypeOK /\ Lanes /\ Handover
  BY InitTyped, InitLanes, InitHandover
<1>2. TypeOK /\ Lanes /\ Handover /\ [Next]_vars => (TypeOK /\ Lanes /\ Handover)'
  BY NextTyped, NextLanes, NextHandover
<1>3. TypeOK /\ Lanes /\ Handover => NoForgottenMessage
  BY DEF Handover, Attended, NoForgottenMessage, Quiet
<1> QED
  BY <1>1, <1>2, <1>3, PTL DEF Spec

-----------------------------------------------------------------------------
(* Sequences without repetition, and who is in them.                       *)
LEMMA HoldsNothing == Distinct(<<>>) /\ \A m : ~Holds(<<>>, m) /\ m \notin ToSet(<<>>)
  BY DEF Distinct, Holds, ToSet

LEMMA HoldsOne == ASSUME NEW e PROVE Distinct(<<e>>) /\ \A m : Holds(<<e>>, m) <=> m = e
  BY DEF Distinct, Holds

LEMMA HoldsMembers == ASSUME NEW seq PROVE \A m : m \in ToSet(seq) <=> Holds(seq, m)
  BY DEF Holds, ToSet

LEMMA HoldsAppend ==
  ASSUME NEW S, NEW seq \in Seq(S), NEW e \in S
  PROVE  /\ \A m : Holds(Append(seq, e), m) <=> Holds(seq, m) \/ m = e
         /\ Distinct(seq) /\ ~Holds(seq, e) => Distinct(Append(seq, e))
<1>1. /\ Len(seq) \in Nat /\ DOMAIN seq = 1 .. Len(seq)
      /\ DOMAIN Append(seq, e) = 1 .. Len(seq) + 1
      /\ Append(seq, e)[Len(seq) + 1] = e
      /\ \A i \in 1 .. Len(seq) : Append(seq, e)[i] = seq[i]
  BY AppendProperties, LenProperties
<1>2. \A m : Holds(Append(seq, e), m) <=> Holds(seq, m) \/ m = e
  BY <1>1 DEF Holds
<1>3. Distinct(seq) /\ ~Holds(seq, e) => Distinct(Append(seq, e))
  BY <1>1 DEF Holds, Distinct
<1> QED
  BY <1>2, <1>3

LEMMA HoldsTail ==
  ASSUME NEW S, NEW seq \in Seq(S), seq # <<>>
  PROVE  /\ \A m : Holds(seq, m) <=> m = Head(seq) \/ Holds(Tail(seq), m)
         /\ Distinct(seq) => Distinct(Tail(seq)) /\ ~Holds(Tail(seq), Head(seq))
<1>1. /\ Len(seq) \in Nat \ {0} /\ DOMAIN seq = 1 .. Len(seq) /\ Head(seq) = seq[1]
      /\ DOMAIN Tail(seq) = 1 .. Len(seq) - 1
      /\ \A i \in 1 .. Len(seq) - 1 : Tail(seq)[i] = seq[i + 1]
  BY EmptySeq, HeadTailProperties, LenProperties
<1>2. ASSUME NEW m, Holds(seq, m), m # Head(seq) PROVE Holds(Tail(seq), m)
  <2>1. PICK i \in 1 .. Len(seq) : seq[i] = m
    BY <1>1, <1>2 DEF Holds
  <2>2. i - 1 \in 1 .. Len(seq) - 1 /\ Tail(seq)[i - 1] = m
    BY <1>1, <1>2, <2>1
  <2> QED
    BY <1>1, <2>2 DEF Holds
<1>3. ASSUME NEW m, m = Head(seq) \/ Holds(Tail(seq), m) PROVE Holds(seq, m)
  BY <1>1, <1>3 DEF Holds
<1>4. ASSUME Distinct(seq) PROVE Distinct(Tail(seq)) /\ ~Holds(Tail(seq), Head(seq))
  <2>1. \A i \in 1 .. Len(seq) - 1 : i + 1 \in DOMAIN seq /\ i + 1 # 1 /\ 1 \in DOMAIN seq
    BY <1>1
  <2>2. ~Holds(Tail(seq), Head(seq))
    BY <1>1, <1>4, <2>1 DEF Holds, Distinct
  <2>3. ASSUME NEW i \in 1 .. Len(seq) - 1, NEW j \in 1 .. Len(seq) - 1, Tail(seq)[i] = Tail(seq)[j]
        PROVE  i = j
    <3>1. i + 1 = j + 1
      BY <1>1, <1>4, <2>1, <2>3 DEF Distinct
    <3> QED
      BY <1>1, <3>1
  <2> QED
    BY <1>1, <2>2, <2>3 DEF Distinct
<1> QED
  BY <1>2, <1>3, <1>4

LEMMA HoldsConcat ==
  ASSUME NEW S, NEW front \in Seq(S), NEW back \in Seq(S)
  PROVE  /\ \A m : Holds(front \o back, m) <=> Holds(front, m) \/ Holds(back, m)
         /\ Distinct(front) /\ Distinct(back) /\ (\A m \in S : ~Holds(front, m) \/ ~Holds(back, m))
              => Distinct(front \o back)
<1> DEFINE both == front \o back
           n == Len(front)
           k == Len(back)
<1>0. /\ n \in Nat /\ DOMAIN front = 1 .. n /\ k \in Nat /\ DOMAIN back = 1 .. k
      /\ DOMAIN both = 1 .. n + k
  BY ConcatProperties, LenProperties
<1>1. \A i \in 1 .. n : i \in DOMAIN both /\ both[i] = front[i]
  BY <1>0, ConcatProperties
<1>2. \A i \in 1 .. k : n + i \in DOMAIN both /\ both[n + i] = back[i]
  BY <1>0, ConcatProperties
<1>3. \A i \in DOMAIN both : i \in 1 .. n \/ (i - n \in 1 .. k /\ ~(i <= n) /\ both[i] = back[i - n])
  <2> SUFFICES ASSUME NEW i \in DOMAIN both, ~(i \in 1 .. n)
               PROVE  i - n \in 1 .. k /\ ~(i <= n) /\ both[i] = back[i - n]
    OBVIOUS
  <2>1. i - n \in 1 .. k /\ ~(i <= n) /\ n + (i - n) = i
    BY <1>0
  <2> QED
    BY <1>2, <2>1
<1> HIDE DEF both, n, k
<1>4. \A m : Holds(both, m) <=> Holds(front, m) \/ Holds(back, m)
  <2>1. ASSUME NEW m, Holds(both, m) PROVE Holds(front, m) \/ Holds(back, m)
    BY <1>0, <1>1, <1>3, <2>1 DEF Holds
  <2>2. ASSUME NEW m, Holds(front, m) \/ Holds(back, m) PROVE Holds(both, m)
    BY <1>0, <1>1, <1>2, <2>2 DEF Holds
  <2> QED
    BY <2>1, <2>2
<1>5. ASSUME Distinct(front), Distinct(back), \A m \in S : ~Holds(front, m) \/ ~Holds(back, m)
      PROVE  Distinct(both)
  <2> SUFFICES ASSUME NEW i \in DOMAIN both, NEW j \in DOMAIN both, both[i] = both[j] PROVE i = j
    BY DEF Distinct
  <2>0. i \in Int /\ j \in Int /\ n \in Int
    BY <1>0
  <2>1. CASE i \in 1 .. n /\ j \in 1 .. n
    BY <1>0, <1>1, <1>5, <2>1 DEF Distinct
  <2>2. CASE ~(i \in 1 .. n) /\ ~(j \in 1 .. n)
    <3>1. i - n = j - n
      BY <1>0, <1>3, <1>5, <2>2 DEF Distinct
    <3> QED
      BY <2>0, <3>1
  <2>3. ASSUME NEW p \in 1 .. n, NEW q \in 1 .. k, front[p] = back[q] PROVE FALSE
    <3>1. front[p] \in S /\ Holds(front, front[p]) /\ Holds(back, front[p])
      BY <1>0, <2>3 DEF Holds
    <3> QED
      BY <1>5, <3>1
  <2>4. CASE i \in 1 .. n /\ ~(j \in 1 .. n)
    BY <1>1, <1>3, <2>3, <2>4
  <2>5. CASE ~(i \in 1 .. n) /\ j \in 1 .. n
    BY <1>1, <1>3, <2>3, <2>5
  <2> QED
    BY <2>1, <2>2, <2>4, <2>5
<1> QED
  BY <1>4, <1>5 DEF both

-----------------------------------------------------------------------------
(* Every message is accounted for: a message that was sent is in exactly   *)
(* one place, once, and no driver holds what it cannot have.               *)
Carrying(d) == stage[d] \in {"chained", "locking", "calling"}
Carried(m) == \E d \in Msg : Carrying(d) /\ job[d] = m
LeftOver(m) == \E d \in Msg : Holds(leftover[d], m)

One(b) == IF b THEN 1 ELSE 0
Spots(m) ==
  One(Holds(queue, m)) + One(Holds(saying, m)) + One(Holds(line, m))
  + One(m \in earlier) + One(Carried(m)) + One(LeftOver(m))
Total(m) ==
  Spots(m) + One(m \in withdrawn) + One(m \in dropped) + One(stage[m] = "idle")

Texts ==
  /\ Distinct(queue) /\ Distinct(saying)
  /\ current = Nobody => saying = <<>> /\ phase = "none" /\ ~failed
  /\ failed => current \in Fallible

Drivers ==
  /\ \A d \in Msg : Distinct(leftover[d])
  /\ \A d, e, m \in Msg : Holds(leftover[d], m) /\ Holds(leftover[e], m) => d = e
  /\ \A d, e \in Msg : Carrying(d) /\ Carrying(e) /\ job[d] = job[e] => d = e
  /\ \A d \in Msg : stage[d] \in {"idle", "followup", "chained", "locking", "gone"} => job[d] = d
  /\ \A d \in Msg : leftover[d] # <<>> => Working(d) /\ d \notin Background
  /\ \A d \in Background : stage[d] # "after"

Complete == \A m \in Msg : Total(m) = 1
Account == Texts /\ Drivers /\ Complete

LEMMA InitAccount == Init => Account
<1> SUFFICES ASSUME Init PROVE Account
  OBVIOUS
<1>1. /\ queue = <<>> /\ saying = <<>> /\ line = <<>> /\ earlier = {}
      /\ withdrawn = {} /\ dropped = {} /\ ~failed
      /\ phase = "none"
      /\ \A d \in Msg : stage[d] = "idle" /\ leftover[d] = <<>> /\ job[d] = d
  BY DEF Init, Kernel!Init
<1>2. \A m \in Msg : ~Carried(m) /\ ~LeftOver(m)
  BY <1>1, HoldsNothing DEF Carried, Carrying, LeftOver
<1>3. \A m \in Msg : Total(m) = 1
  BY <1>1, <1>2, HoldsNothing DEF Total, Spots, One
<1>4. Texts
  BY <1>1, HoldsNothing DEF Texts
<1>5. Drivers
  BY <1>1, HoldsNothing DEF Drivers, Carrying, Msg
<1> QED
  BY <1>3, <1>4, <1>5 DEF Account, Complete

(* A place that holds a message excludes every other one.                  *)
LEMMA OnePlace ==
  ASSUME Complete, NEW m \in Msg
  PROVE  /\ stage[m] = "idle" => ~Holds(queue, m) /\ ~Carried(m)
         /\ Holds(queue, m) => ~Holds(saying, m) /\ ~LeftOver(m)
         /\ Holds(line, m) => ~Holds(saying, m)
         /\ Carried(m) => ~Holds(line, m) /\ ~Holds(saying, m) /\ ~LeftOver(m)
  BY DEF Complete, Total, Spots, One

-----------------------------------------------------------------------------
(* What each step does to the drivers, and to what they carry or hold back.*)
LEMMA DriversOpen ==
  ASSUME TypeOK, Drivers, NEW x \in Msg, stage[x] = "idle", ~Carried(x),
         NEW next \in {"followup", "chained", "locking", "calling"},
         stage' = [stage EXCEPT ![x] = next], UNCHANGED <<job, leftover>>
  PROVE  /\ Drivers'
         /\ \A m \in Msg : /\ Carried(m)' <=> Carried(m) \/ (next # "followup" /\ m = x)
                           /\ LeftOver(m)' <=> LeftOver(m)
                           /\ stage'[m] = "idle" <=> stage[m] = "idle" /\ m # x
<1>1. \A d \in Msg : stage'[d] = IF d = x THEN next ELSE stage[d]
  BY DEF TypeOK
<1>2. job[x] = x /\ leftover[x] = <<>>
  BY DEF Drivers, Working
<1>3. \A d \in Msg : Carrying(d)' <=> Carrying(d) \/ (next # "followup" /\ d = x)
  BY <1>1 DEF Carrying
<1>4. \A m \in Msg : Carried(m)' <=> Carried(m) \/ (next # "followup" /\ m = x)
  BY <1>2, <1>3 DEF Carried
<1>5. \A d, e \in Msg : Carrying(d)' /\ Carrying(e)' /\ job'[d] = job'[e] => d = e
  BY <1>2, <1>3 DEF Drivers, Carried
<1>6. \A m \in Msg : LeftOver(m)' <=> LeftOver(m)
  BY DEF LeftOver
<1>7. \A d \in Msg : leftover'[d] # <<>> => Working(d)' /\ d \notin Background
  BY <1>1, <1>2 DEF Drivers, Working
<1> QED
  BY <1>1, <1>2, <1>4, <1>5, <1>6, <1>7 DEF Drivers

(* A driver goes on without touching what it holds back.                   *)
LEMMA DriversMove ==
  ASSUME TypeOK, Drivers, NEW d \in Msg, stage[d] \in {"chained", "locking", "calling", "turn"},
         NEW next \in {"calling", "turn", "after"},
         next = "calling" => Carrying(d),
         next = "after" => stage[d] = "turn" /\ d \notin Background,
         stage' = [stage EXCEPT ![d] = next], UNCHANGED <<job, leftover>>
  PROVE  /\ Drivers'
         /\ \A m \in Msg : /\ Carried(m)' <=> Carried(m) /\ (next # "calling" => m # job[d] \/ ~Carrying(d))
                           /\ LeftOver(m)' <=> LeftOver(m)
                           /\ stage'[m] = "idle" <=> stage[m] = "idle"
<1>1. \A e \in Msg : stage'[e] = IF e = d THEN next ELSE stage[e]
  BY DEF TypeOK
<1>2. \A e \in Msg : Carrying(e)' <=> Carrying(e) /\ (next # "calling" => e # d)
  BY <1>1 DEF Carrying
<1>3. \A m \in Msg : Carried(m)' <=> Carried(m) /\ (next # "calling" => m # job[d] \/ ~Carrying(d))
  <2> SUFFICES ASSUME NEW m \in Msg
               PROVE  Carried(m)' <=> Carried(m) /\ (next # "calling" => m # job[d] \/ ~Carrying(d))
    OBVIOUS
  <2>1. CASE next = "calling"
    BY <1>2, <2>1 DEF Carried
  <2>2. ASSUME next # "calling", Carried(m)' PROVE Carried(m) /\ (m # job[d] \/ ~Carrying(d))
    BY <1>2, <2>2 DEF Carried, Drivers
  <2>3. ASSUME next # "calling", Carried(m), m # job[d] \/ ~Carrying(d) PROVE Carried(m)'
    BY <1>2, <2>3 DEF Carried
  <2> QED
    BY <2>1, <2>2, <2>3
<1>4. \A e, f \in Msg : Carrying(e)' /\ Carrying(f)' /\ job'[e] = job'[f] => e = f
  BY <1>2 DEF Drivers
<1>5. \A m \in Msg : LeftOver(m)' <=> LeftOver(m)
  BY DEF LeftOver
<1>6. \A e \in Msg : leftover'[e] # <<>> => Working(e)' /\ e \notin Background
  BY <1>1 DEF Drivers, Working
<1> QED
  BY <1>1, <1>3, <1>4, <1>5, <1>6 DEF Drivers

(* A driver that leaves drops what it carries and holds back.              *)
LEMMA DriversLeave ==
  ASSUME TypeOK, Drivers, NEW d \in Msg, stage[d] \in {"locking", "turn", "after"}, Leave(d)
  PROVE  /\ Drivers'
         /\ \A m \in Msg : /\ Carried(m)' <=> Carried(m) /\ (stage[d] = "locking" => m # d)
                           /\ LeftOver(m)' <=> LeftOver(m) /\ ~Holds(leftover[d], m)
                           /\ leftover[d] = <<>> => (LeftOver(m)' <=> LeftOver(m))
                           /\ stage'[m] = "idle" <=> stage[m] = "idle"
<1>1. \A e \in Msg : /\ stage'[e] = IF e = d THEN "gone" ELSE stage[e]
                     /\ job'[e] = IF e = d THEN d ELSE job[e]
                     /\ leftover'[e] = IF e = d THEN <<>> ELSE leftover[e]
  BY DEF TypeOK, Leave
<1>2. \A e \in Msg : Carrying(e)' <=> Carrying(e) /\ e # d
  BY <1>1 DEF Carrying
<1>3. \A m \in Msg : Carried(m)' <=> Carried(m) /\ (stage[d] = "locking" => m # d)
  <2> SUFFICES ASSUME NEW m \in Msg PROVE Carried(m)' <=> Carried(m) /\ (stage[d] = "locking" => m # d)
    OBVIOUS
  <2>1. CASE stage[d] = "locking"
    <3>1. job[d] = d /\ Carrying(d)
      BY <2>1 DEF Drivers, Carrying
    <3>2. ASSUME Carried(m)' PROVE Carried(m) /\ m # d
      BY <1>1, <1>2, <3>1, <3>2 DEF Carried, Drivers
    <3>3. ASSUME Carried(m), m # d PROVE Carried(m)'
      BY <1>1, <1>2, <3>1, <3>3 DEF Carried
    <3> QED
      BY <2>1, <3>2, <3>3
  <2>2. CASE stage[d] # "locking"
    <3>1. ~Carrying(d)
      BY <2>2 DEF Carrying
    <3> QED
      BY <1>1, <1>2, <2>2, <3>1 DEF Carried
  <2> QED
    BY <2>1, <2>2
<1>4. \A e, f \in Msg : Carrying(e)' /\ Carrying(f)' /\ job'[e] = job'[f] => e = f
  BY <1>1, <1>2 DEF Drivers
<1>5. \A e, m \in Msg : Holds(leftover'[e], m) => Holds(leftover[e], m)
  BY <1>1, HoldsNothing
<1>6. ASSUME NEW m \in Msg
      PROVE  /\ LeftOver(m)' <=> LeftOver(m) /\ ~Holds(leftover[d], m)
             /\ leftover[d] = <<>> => (LeftOver(m)' <=> LeftOver(m))
  <2>1. LeftOver(m)' => LeftOver(m) /\ ~Holds(leftover[d], m)
    <3> SUFFICES ASSUME NEW e \in Msg, Holds(leftover'[e], m)
                 PROVE  LeftOver(m) /\ ~Holds(leftover[d], m)
      BY DEF LeftOver
    <3>1. e # d /\ Holds(leftover[e], m)
      BY <1>1, HoldsNothing
    <3> QED
      BY <3>1 DEF Drivers, LeftOver
  <2>2. LeftOver(m) /\ ~Holds(leftover[d], m) => LeftOver(m)'
    BY <1>1 DEF LeftOver
  <2>3. leftover[d] = <<>> => ~Holds(leftover[d], m)
    BY HoldsNothing
  <2> QED
    BY <2>1, <2>2, <2>3
<1>7. /\ \A e \in Msg : leftover'[e] # <<>> => Working(e)' /\ e \notin Background
      /\ \A e \in Msg : Distinct(leftover'[e])
  BY <1>1, HoldsNothing DEF Drivers, Working
<1>8. \A e, f, m \in Msg : Holds(leftover'[e], m) /\ Holds(leftover'[f], m) => e = f
  BY <1>5 DEF Drivers
<1>9. /\ \A e \in Msg : stage'[e] \in {"idle", "followup", "chained", "locking", "gone"} => job'[e] = e
      /\ \A e \in Background : stage'[e] # "after"
  BY <1>1 DEF Drivers, Msg
<1>10. Drivers'
  BY <1>4, <1>7, <1>8, <1>9 DEF Drivers
<1>11. \A m \in Msg : stage'[m] = "idle" <=> stage[m] = "idle"
  BY <1>1
<1> QED
  BY <1>3, <1>6, <1>10, <1>11

(* The first message held back becomes the driver's next one.              *)
LEMMA DriversDispatch ==
  ASSUME TypeOK, Drivers, Complete, NEW d \in Msg, Dispatch(d)
  PROVE  /\ Drivers' /\ Head(leftover[d]) \in Msg /\ LeftOver(Head(leftover[d]))
         /\ \A m \in Msg : /\ Carried(m)' <=> Carried(m) \/ m = Head(leftover[d])
                           /\ LeftOver(m)' <=> LeftOver(m) /\ m # Head(leftover[d])
                           /\ stage'[m] = "idle" <=> stage[m] = "idle"
<1> DEFINE x == Head(leftover[d])
<1>0. leftover[d] \in Seq(Msg) /\ leftover[d] # <<>> /\ stage[d] = "after"
  BY DEF TypeOK, Dispatch
<1>1. x \in Msg /\ \A e \in Msg : /\ stage'[e] = IF e = d THEN "calling" ELSE stage[e]
                                  /\ job'[e] = IF e = d THEN x ELSE job[e]
                                  /\ leftover'[e] = IF e = d THEN Tail(leftover[d]) ELSE leftover[e]
  BY <1>0, HeadTailProperties DEF TypeOK, Dispatch
<1>2. /\ \A m : Holds(leftover[d], m) <=> m = x \/ Holds(leftover'[d], m)
      /\ Distinct(leftover'[d]) /\ ~Holds(leftover'[d], x)
  BY <1>0, <1>1, HoldsTail DEF Drivers
<1> HIDE DEF x
<1>3. Holds(leftover[d], x) /\ LeftOver(x)
  BY <1>2 DEF LeftOver
<1>4. ~Carried(x)
  BY <1>1, <1>3, OnePlace
<1>5. \A e \in Msg : Carrying(e)' <=> Carrying(e) \/ e = d
  BY <1>1 DEF Carrying
<1>6. \A e \in Msg : Carrying(e) => e # d /\ job'[e] = job[e] /\ job[e] # x
  BY <1>0, <1>1, <1>4 DEF Carrying, Carried
<1>7. \A m \in Msg : Carried(m)' <=> Carried(m) \/ m = x
  <2> SUFFICES ASSUME NEW m \in Msg PROVE Carried(m)' <=> Carried(m) \/ m = x
    OBVIOUS
  <2>1. ASSUME Carried(m)' PROVE Carried(m) \/ m = x
    BY <1>1, <1>5, <1>6, <2>1 DEF Carried
  <2>2. ASSUME Carried(m) \/ m = x PROVE Carried(m)'
    BY <1>1, <1>5, <1>6, <2>2 DEF Carried
  <2> QED
    BY <2>1, <2>2
<1>8. \A e, f \in Msg : Carrying(e)' /\ Carrying(f)' /\ job'[e] = job'[f] => e = f
  BY <1>1, <1>5, <1>6 DEF Drivers
<1>9. \A e, m \in Msg : Holds(leftover'[e], m) <=> Holds(leftover[e], m) /\ (e = d => m # x)
  BY <1>1, <1>2
<1>10. \A m \in Msg : LeftOver(m)' <=> LeftOver(m) /\ m # x
  <2>1. \A e \in Msg : Holds(leftover[e], x) => e = d
    BY <1>1, <1>3 DEF Drivers
  <2> QED
    BY <1>1, <1>9, <2>1 DEF LeftOver
<1>11. \A e, f, m \in Msg : Holds(leftover'[e], m) /\ Holds(leftover'[f], m) => e = f
  BY <1>9 DEF Drivers
<1>12. \A e \in Msg : leftover'[e] # <<>> => Working(e)' /\ e \notin Background
  BY <1>0, <1>1 DEF Drivers, Working
<1>13. \A e \in Msg : Distinct(leftover'[e])
  BY <1>1, <1>2 DEF Drivers
<1>14. /\ \A e \in Msg : stage'[e] \in {"idle", "followup", "chained", "locking", "gone"} => job'[e] = e
       /\ \A e \in Background : stage'[e] # "after"
  BY <1>0, <1>1 DEF Drivers, Msg
<1>15. Drivers'
  BY <1>8, <1>11, <1>12, <1>13, <1>14 DEF Drivers
<1>16. \A m \in Msg : stage'[m] = "idle" <=> stage[m] = "idle"
  BY <1>0, <1>1
<1> QED
  BY <1>1, <1>3, <1>7, <1>10, <1>15, <1>16 DEF x

(* What waits in the queue moves to the driver that drains.                *)
LEMMA DriversDrain ==
  ASSUME TypeOK, Drivers, Texts, Complete, NEW d \in Msg, stage[d] = "after", leftover[d] = <<>>,
         leftover' = [leftover EXCEPT ![d] = queue], UNCHANGED <<stage, job>>
  PROVE  /\ Drivers'
         /\ \A m \in Msg : /\ Carried(m)' <=> Carried(m)
                           /\ LeftOver(m)' <=> LeftOver(m) \/ Holds(queue, m)
                           /\ stage'[m] = "idle" <=> stage[m] = "idle"
<1>1. \A e \in Msg : leftover'[e] = IF e = d THEN queue ELSE leftover[e]
  BY DEF TypeOK
<1>2. \A m \in Msg : (Carried(m)' <=> Carried(m)) /\ (stage'[m] = "idle" <=> stage[m] = "idle")
  BY DEF Carried, Carrying
<1>3. \A e, m \in Msg : Holds(leftover'[e], m) <=> Holds(leftover[e], m) \/ (e = d /\ Holds(queue, m))
  BY <1>1, HoldsNothing
<1>4. \A m \in Msg : LeftOver(m)' <=> LeftOver(m) \/ Holds(queue, m)
  BY <1>3 DEF LeftOver
<1>5. \A e, m \in Msg : Holds(queue, m) => ~Holds(leftover[e], m)
  BY OnePlace DEF LeftOver
<1>6. \A e, f, m \in Msg : Holds(leftover'[e], m) /\ Holds(leftover'[f], m) => e = f
  BY <1>3, <1>5 DEF Drivers
<1>7. \A e \in Msg : Distinct(leftover'[e])
  BY <1>1 DEF Drivers, Texts
<1>8. \A e \in Msg : leftover'[e] # <<>> => Working(e)' /\ e \notin Background
  BY <1>1 DEF Drivers, Working
<1> QED
  BY <1>2, <1>4, <1>6, <1>7, <1>8 DEF Drivers, Carrying

(* Nobody moves.                                                           *)
LEMMA DriversStay ==
  ASSUME Drivers, UNCHANGED <<stage, job, leftover>>
  PROVE  /\ Drivers'
         /\ \A m \in Msg : /\ Carried(m)' <=> Carried(m)
                           /\ LeftOver(m)' <=> LeftOver(m)
                           /\ stage'[m] = "idle" <=> stage[m] = "idle"
  BY DEF Drivers, Carried, Carrying, LeftOver, Working

-----------------------------------------------------------------------------
(* What a step moves, it moves from one place to another.                  *)
Settled == Texts' /\ Drivers' /\ \A m \in Msg : Total(m)' = Total(m)

LEMMA ArriveSettled == ASSUME TypeOK, Account, Arrive PROVE Settled
<1>0. Texts /\ Drivers /\ Complete /\ queue \in Seq(Msg)
  BY DEF Account, TypeOK
<1>1. ASSUME NEW x \in Msg, stage[x] = "idle", FollowUp(x) PROVE Settled
  <2>1. ~Holds(queue, x) /\ ~Carried(x)
    BY <1>0, <1>1, OnePlace
  <2>2. /\ Drivers'
        /\ \A m \in Msg : /\ Carried(m)' <=> Carried(m)
                          /\ LeftOver(m)' <=> LeftOver(m)
                          /\ stage'[m] = "idle" <=> stage[m] = "idle" /\ m # x
    BY <1>0, <1>1, <2>1, DriversOpen DEF FollowUp
  <2>3. queue' = Append(queue, x) /\ UNCHANGED <<line, current, phase, failed, saying, earlier, withdrawn, dropped>>
    BY <1>1 DEF FollowUp, kernelVars, turnVars, context
  <2>4. /\ \A m : Holds(queue', m) <=> Holds(queue, m) \/ m = x
        /\ Distinct(queue')
    BY <1>0, <2>1, <2>3, HoldsAppend DEF Texts
  <2>5. Texts'
    BY <1>0, <2>3, <2>4 DEF Texts
  <2>6. \A m \in Msg : Total(m)' = Total(m)
    BY <1>1, <2>1, <2>2, <2>3, <2>4 DEF Total, Spots, One
  <2> QED
    BY <2>2, <2>5, <2>6 DEF Settled
<1>2. ASSUME NEW x \in Msg, stage[x] = "idle", OpenWeb(x) \/ OpenMatrix(x) \/ Awaken(x) PROVE Settled
  <2>1. ~Carried(x)
    BY <1>0, <1>2, OnePlace
  <2>2. PICK next \in {"chained", "locking", "calling"} : stage' = [stage EXCEPT ![x] = next]
    BY <1>2 DEF OpenWeb, OpenMatrix, Awaken
  <2>3. UNCHANGED <<line, current, phase, failed, saying, earlier, withdrawn, dropped, queue, job, leftover>>
    BY <1>2 DEF OpenWeb, OpenMatrix, Awaken, kernelVars, turnVars, context
  <2>4. /\ Drivers'
        /\ \A m \in Msg : /\ Carried(m)' <=> Carried(m) \/ m = x
                          /\ LeftOver(m)' <=> LeftOver(m)
                          /\ stage'[m] = "idle" <=> stage[m] = "idle" /\ m # x
    BY <1>0, <1>2, <2>1, <2>2, <2>3, DriversOpen
  <2>5. Texts'
    BY <1>0, <2>3 DEF Texts
  <2>6. \A m \in Msg : Total(m)' = Total(m)
    BY <1>2, <2>1, <2>3, <2>4 DEF Total, Spots, One
  <2> QED
    BY <2>4, <2>5, <2>6 DEF Settled
<1> QED
  BY <1>1, <1>2 DEF Arrive, SendWeb, SendMatrix, CompleteBackground

LEMMA CallSettled == ASSUME TypeOK, Account, NEW d \in Msg, Call(d) PROVE Settled
<1> DEFINE x == job[d]
<1>0. /\ Texts /\ Drivers /\ Complete /\ line \in Seq(Msg)
      /\ x \in Msg /\ x # Nobody /\ stage[d] = "calling" /\ Carrying(d) /\ Carried(x)
  BY DistinctOrigins DEF Account, TypeOK, Call, Carrying, Carried
<1>1. /\ stage' = [stage EXCEPT ![d] = "turn"] /\ Kernel!Accept(x)
      /\ UNCHANGED <<job, leftover, queue, withdrawn, dropped>>
      /\ \/ current' = x /\ Begun(x)
         \/ current' = current /\ UNCHANGED <<phase, failed, earlier, saying>>
  BY DEF Call, turnVars, context
<1>2. /\ Drivers'
      /\ \A m \in Msg : /\ Carried(m)' <=> Carried(m) /\ m # x
                        /\ LeftOver(m)' <=> LeftOver(m)
                        /\ stage'[m] = "idle" <=> stage[m] = "idle"
  BY <1>0, <1>1, DriversMove
<1>3. ~Holds(line, x) /\ ~Holds(saying, x)
  BY <1>0, OnePlace
<1> HIDE DEF x
<1>4. CASE current' = x /\ Begun(x)
  <2>1. line' = line /\ current = Nobody
    BY <1>1, <1>4 DEF Kernel!Accept, Kernel!Fresh
  <2>2. /\ saying' = <<x>> /\ phase' = "looping" /\ UNCHANGED <<failed, earlier>> /\ saying = <<>>
        /\ current' # Nobody /\ current' \in Msg
    BY <1>0, <1>4, <2>1 DEF Begun, Texts
  <2>3. ~failed
    BY <1>0, <2>1 DEF Texts
  <2>4. \A m : (Holds(saying', m) <=> m = x) /\ ~Holds(saying, m)
    BY <2>2, HoldsOne, HoldsNothing
  <2>5. Texts'
    BY <1>0, <1>1, <2>1, <2>2, <2>3, HoldsOne DEF Texts
  <2>6. \A m \in Msg : Total(m)' = Total(m)
    BY <1>0, <1>1, <1>2, <2>1, <2>2, <2>4 DEF Total, Spots, One
  <2> QED
    BY <1>2, <2>5, <2>6 DEF Settled
<1>5. CASE current' = current /\ UNCHANGED <<phase, failed, earlier, saying>>
  <2>1. line' = Append(line, x)
    BY <1>0, <1>1, <1>5 DEF Kernel!Accept
  <2>2. \A m : Holds(line', m) <=> Holds(line, m) \/ m = x
    BY <1>0, <2>1, HoldsAppend
  <2>3. Texts'
    BY <1>0, <1>1, <1>5 DEF Texts
  <2>4. \A m \in Msg : Total(m)' = Total(m)
    BY <1>0, <1>1, <1>2, <1>3, <1>5, <2>2 DEF Total, Spots, One
  <2> QED
    BY <1>2, <2>3, <2>4 DEF Settled
<1> QED
  BY <1>1, <1>4, <1>5

LEMMA LoopSettled == ASSUME TypeOK, Account, Loop PROVE Settled
<1> USE DEF kernelVars, driverVars
<1>0. /\ Texts /\ Drivers /\ Complete /\ queue \in Seq(Msg) /\ saying \in Seq(Msg)
      /\ phase = "looping" /\ current # Nobody
      /\ UNCHANGED <<line, current, earlier, stage, job, leftover>>
  BY DEF Account, TypeOK, Loop, Inject, Answer, GiveUp, Fail, Texts, context
<1>1. /\ Drivers'
      /\ \A m \in Msg : /\ Carried(m)' <=> Carried(m)
                        /\ LeftOver(m)' <=> LeftOver(m)
                        /\ stage'[m] = "idle" <=> stage[m] = "idle"
  BY <1>0, DriversStay
<1>2. CASE Inject
  <2>1. saying' = saying \o queue /\ queue' = <<>> /\ UNCHANGED <<phase, failed, withdrawn, dropped>>
    BY <1>2 DEF Inject, turnVars
  <2>2. \A m \in Msg : ~Holds(saying, m) \/ ~Holds(queue, m)
    BY <1>0, OnePlace
  <2>3. /\ \A m : Holds(saying', m) <=> Holds(saying, m) \/ Holds(queue, m)
        /\ Distinct(saying')
    BY <1>0, <2>1, <2>2, HoldsConcat DEF Texts
  <2>4. Distinct(queue') /\ \A m : ~Holds(queue', m)
    BY <2>1, HoldsNothing
  <2>5. Texts'
    BY <1>0, <2>1, <2>3, <2>4 DEF Texts
  <2>6. \A m \in Msg : Total(m)' = Total(m)
    BY <1>0, <1>1, <2>1, <2>2, <2>3, <2>4 DEF Total, Spots, One
  <2> QED
    BY <1>1, <2>5, <2>6 DEF Settled
<1>3. CASE Answer \/ GiveUp
  <2>1. UNCHANGED <<failed, saying, queue, withdrawn, dropped>>
    BY <1>3 DEF Answer, GiveUp, context
  <2>2. Texts'
    BY <1>0, <2>1 DEF Texts
  <2>3. \A m \in Msg : Total(m)' = Total(m)
    BY <1>0, <1>1, <2>1 DEF Total, Spots, One
  <2> QED
    BY <1>1, <2>2, <2>3 DEF Settled
<1>4. CASE Fail
  <2>1. /\ withdrawn' = withdrawn \cup ToSet(saying) /\ saying' = <<>> /\ UNCHANGED <<queue, dropped>>
        /\ current \in Fallible
    BY <1>4 DEF Fail
  <2>2. /\ \A m : m \in withdrawn' <=> m \in withdrawn \/ Holds(saying, m)
        /\ Distinct(saying') /\ \A m : ~Holds(saying', m)
    BY <2>1, HoldsMembers, HoldsNothing
  <2>3. Texts'
    BY <1>0, <2>1, <2>2 DEF Texts
  <2>4. \A m \in Msg : Total(m) <= 1
    BY <1>0 DEF Complete
  <2>5. \A m \in Msg : Total(m)' = Total(m)
    BY <1>0, <1>1, <2>1, <2>2, <2>4 DEF Total, Spots, One
  <2> QED
    BY <1>1, <2>3, <2>5 DEF Settled
<1> QED
  BY <1>2, <1>3, <1>4 DEF Loop

LEMMA BeginSettled == ASSUME TypeOK, LineInv, Account, BeginNext PROVE Settled
<1> DEFINE x == Head(line)
<1>0. Texts /\ Drivers /\ Complete /\ line \in Seq(Msg) /\ line # <<>> /\ current = Nobody
  BY DEF Account, TypeOK, BeginNext, Kernel!Start
<1>1. /\ current' = x /\ line' = Tail(line) /\ x \in Msg
      /\ saying' = <<x>> /\ phase' = "looping"
      /\ UNCHANGED <<failed, earlier, stage, job, leftover, queue, withdrawn, dropped>>
  BY <1>0, HeadTailProperties DEF BeginNext, Kernel!Start, Begun, driverVars
<1>2. /\ \A m : Holds(line, m) <=> m = x \/ Holds(line', m)
      /\ ~Holds(line', x)
  BY <1>0, <1>1, HoldsTail DEF LineInv
<1> HIDE DEF x
<1>3. saying = <<>> /\ ~failed
  BY <1>0 DEF Texts
<1>4. Distinct(saying') /\ \A m : (Holds(saying', m) <=> m = x) /\ ~Holds(saying, m)
  BY <1>1, <1>3, HoldsOne, HoldsNothing
<1>5. x # Nobody
  BY <1>1, DistinctOrigins
<1>6. /\ Drivers'
      /\ \A m \in Msg : /\ Carried(m)' <=> Carried(m)
                        /\ LeftOver(m)' <=> LeftOver(m)
                        /\ stage'[m] = "idle" <=> stage[m] = "idle"
  BY <1>0, <1>1, DriversStay
<1>7. Texts'
  BY <1>0, <1>1, <1>3, <1>4, <1>5 DEF Texts
<1>8. \A m \in Msg : Total(m)' = Total(m)
  BY <1>1, <1>2, <1>4, <1>6 DEF Total, Spots, One
<1> QED
  BY <1>6, <1>7, <1>8 DEF Settled

(* The turn of a driver is over.  A turn that raises takes with it what its *)
(* driver still held back; nothing else is lost.                           *)
LEMMA EndSettled == ASSUME TypeOK, Account, EndTurn PROVE Settled
<1>0. Texts /\ Drivers /\ Complete
  BY DEF Account
<1>1. /\ current' = Nobody /\ line' = line /\ phase' = "none" /\ failed' = FALSE
      /\ earlier' = earlier \cup ToSet(saying) /\ saying' = <<>> /\ UNCHANGED <<queue, withdrawn>>
  BY DEF EndTurn, Kernel!Finish
<1>2. PICK d \in Msg : /\ stage[d] = "turn" /\ job[d] = current
                       /\ \/ Leave(d) /\ dropped' = dropped \cup ToSet(leftover[d])
                          \/ Returned(d) /\ dropped' = dropped
  BY DEF EndTurn
<1>3. /\ \A m : m \in earlier' <=> m \in earlier \/ Holds(saying, m)
      /\ Distinct(saying') /\ \A m : ~Holds(saying', m)
  BY <1>1, HoldsMembers, HoldsNothing
<1>4. Texts'
  BY <1>0, <1>1, <1>3 DEF Texts
<1>5. \A m \in Msg : Total(m) <= 1
  BY <1>0 DEF Complete
<1>6. CASE Leave(d)
  <2>1. /\ Drivers'
        /\ \A m \in Msg : /\ Carried(m)' <=> Carried(m)
                          /\ LeftOver(m)' <=> LeftOver(m) /\ ~Holds(leftover[d], m)
                          /\ stage'[m] = "idle" <=> stage[m] = "idle"
    BY <1>0, <1>2, <1>6, DriversLeave
  <2>2. \A m \in Msg : m \in dropped' <=> m \in dropped \/ Holds(leftover[d], m)
    <3>1. CASE dropped' = dropped \cup ToSet(leftover[d])
      BY <3>1, HoldsMembers
    <3>2. CASE Returned(d) /\ dropped' = dropped
      <4>1. stage'[d] = "gone"
        BY <1>6 DEF Leave, TypeOK
      <4>2. d \in Background
        BY <3>2, <4>1 DEF Returned, TypeOK
      <4>3. leftover[d] = <<>>
        BY <1>0, <4>2 DEF Drivers
      <4> QED
        BY <3>2, <4>3, HoldsNothing
    <3> QED
      BY <1>2, <3>1, <3>2
  <2>3. \A m \in Msg : Holds(leftover[d], m) => LeftOver(m)
    BY DEF LeftOver
  <2>4. \A m \in Msg : Total(m)' = Total(m)
    BY <1>1, <1>3, <1>5, <2>1, <2>2, <2>3 DEF Total, Spots, One
  <2> QED
    BY <1>4, <2>1, <2>4 DEF Settled
<1>7. CASE stage' = [stage EXCEPT ![d] = "after"] /\ d \notin Background /\ UNCHANGED <<job, leftover, dropped>>
  <2>1. /\ Drivers'
        /\ \A m \in Msg : /\ Carried(m)' <=> Carried(m)
                          /\ LeftOver(m)' <=> LeftOver(m)
                          /\ stage'[m] = "idle" <=> stage[m] = "idle"
    BY <1>0, <1>2, <1>7, DriversMove DEF Carrying
  <2>2. \A m \in Msg : Total(m)' = Total(m)
    BY <1>1, <1>3, <1>5, <1>7, <2>1 DEF Total, Spots, One
  <2> QED
    BY <1>4, <2>1, <2>2 DEF Settled
<1> QED
  BY <1>2, <1>6, <1>7 DEF Returned

LEMMA DriveSettled ==
  ASSUME TypeOK, Account, NEW d \in Msg,
         ChainReached(d) \/ LockReached(d) \/ ReturnCancelled(d) \/ Dispatch(d) \/ Drain(d) \/ BusyDrop(d)
  PROVE  Settled
<1> USE DEF kernelVars, turnVars, context
<1>0. /\ Texts /\ Drivers /\ Complete
      /\ UNCHANGED <<line, current, phase, failed, earlier, saying>>
  BY DEF Account, ChainReached, LockReached, ReturnCancelled, Dispatch, Drain, BusyDrop
<1>1. \A m \in Msg : Total(m) <= 1
  BY <1>0 DEF Complete
<1>2. CASE ChainReached(d) \/ LockReached(d)
  <2>1. /\ stage[d] \in {"chained", "locking"} /\ stage' = [stage EXCEPT ![d] = "calling"]
        /\ UNCHANGED <<job, leftover, queue, withdrawn, dropped>>
    BY <1>2 DEF ChainReached, LockReached
  <2>2. /\ Drivers'
        /\ \A m \in Msg : /\ Carried(m)' <=> Carried(m)
                          /\ LeftOver(m)' <=> LeftOver(m)
                          /\ stage'[m] = "idle" <=> stage[m] = "idle"
    BY <1>0, <2>1, DriversMove DEF Carrying
  <2>3. Texts' /\ \A m \in Msg : Total(m)' = Total(m)
    BY <1>0, <2>1, <2>2 DEF Texts, Total, Spots, One
  <2> QED
    BY <2>2, <2>3 DEF Settled
<1>3. CASE ReturnCancelled(d)
  <2>1. stage[d] = "turn" /\ Returned(d) /\ UNCHANGED <<queue, withdrawn, dropped>>
    BY <1>3 DEF ReturnCancelled
  <2>2. /\ Drivers'
        /\ \A m \in Msg : /\ Carried(m)' <=> Carried(m)
                          /\ LeftOver(m)' <=> LeftOver(m)
                          /\ stage'[m] = "idle" <=> stage[m] = "idle"
    <3>1. CASE d \in Background /\ Leave(d)
      <4>1. leftover[d] = <<>>
        BY <1>0, <3>1 DEF Drivers
      <4> QED
        BY <1>0, <2>1, <3>1, <4>1, DriversLeave
    <3>2. CASE d \notin Background /\ stage' = [stage EXCEPT ![d] = "after"] /\ UNCHANGED <<job, leftover>>
      BY <1>0, <2>1, <3>2, DriversMove DEF Carrying
    <3> QED
      BY <2>1, <3>1, <3>2 DEF Returned
  <2>3. Texts' /\ \A m \in Msg : Total(m)' = Total(m)
    BY <1>0, <2>1, <2>2 DEF Texts, Total, Spots, One
  <2> QED
    BY <2>2, <2>3 DEF Settled
<1>4. CASE Dispatch(d)
  <2>1. UNCHANGED <<queue, withdrawn, dropped>>
    BY <1>4 DEF Dispatch
  <2> DEFINE x == Head(leftover[d])
  <2>2. /\ Drivers' /\ x \in Msg /\ LeftOver(x)
        /\ \A m \in Msg : /\ Carried(m)' <=> Carried(m) \/ m = x
                          /\ LeftOver(m)' <=> LeftOver(m) /\ m # x
                          /\ stage'[m] = "idle" <=> stage[m] = "idle"
    BY <1>0, <1>4, DriversDispatch
  <2> HIDE DEF x
  <2>3. Texts' /\ \A m \in Msg : Total(m)' = Total(m)
    BY <1>0, <1>1, <2>1, <2>2 DEF Texts, Total, Spots, One
  <2> QED
    BY <2>2, <2>3 DEF Settled
(* A driver with nothing left leaves.                                      *)
<1>5. ASSUME stage[d] = "after", leftover[d] = <<>>, Leave(d), UNCHANGED <<queue, withdrawn, dropped>> PROVE Settled
  <2>1. /\ Drivers'
        /\ \A m \in Msg : /\ Carried(m)' <=> Carried(m)
                          /\ LeftOver(m)' <=> LeftOver(m)
                          /\ stage'[m] = "idle" <=> stage[m] = "idle"
    BY <1>0, <1>5, DriversLeave
  <2>2. Texts' /\ \A m \in Msg : Total(m)' = Total(m)
    BY <1>0, <1>5, <2>1 DEF Texts, Total, Spots, One
  <2> QED
    BY <2>1, <2>2 DEF Settled
<1>6. CASE Drain(d)
  <2>1. stage[d] = "after" /\ leftover[d] = <<>> /\ UNCHANGED <<withdrawn, dropped>>
    BY <1>6 DEF Drain
  <2>2. CASE Leave(d) /\ queue' = queue
    BY <1>5, <2>1, <2>2
  <2>3. CASE queue' = <<>> /\ leftover' = [leftover EXCEPT ![d] = queue] /\ UNCHANGED <<stage, job>>
    <3>1. /\ Drivers'
          /\ \A m \in Msg : /\ Carried(m)' <=> Carried(m)
                            /\ LeftOver(m)' <=> LeftOver(m) \/ Holds(queue, m)
                            /\ stage'[m] = "idle" <=> stage[m] = "idle"
      BY <1>0, <2>1, <2>3, DriversDrain
    <3>2. Distinct(queue') /\ \A m : ~Holds(queue', m)
      BY <2>3, HoldsNothing
    <3>3. Texts' /\ \A m \in Msg : Total(m)' = Total(m)
      BY <1>0, <1>1, <2>1, <3>1, <3>2 DEF Texts, Total, Spots, One
    <3> QED
      BY <3>1, <3>3 DEF Settled
  <2> QED
    BY <1>6, <2>2, <2>3 DEF Drain, PutBack
<1>7. CASE BusyDrop(d)
  <2>1. /\ stage[d] = "locking" /\ Leave(d) /\ UNCHANGED <<queue, dropped>>
        /\ withdrawn' = withdrawn \cup {d}
    BY <1>7 DEF BusyDrop
  <2>2. job[d] = d /\ leftover[d] = <<>> /\ Carried(d)
    BY <1>0, <2>1 DEF Drivers, Working, Carried, Carrying
  <2>3. /\ Drivers'
        /\ \A m \in Msg : /\ Carried(m)' <=> Carried(m) /\ m # d
                          /\ LeftOver(m)' <=> LeftOver(m)
                          /\ stage'[m] = "idle" <=> stage[m] = "idle"
    BY <1>0, <2>1, <2>2, DriversLeave
  <2>4. Texts' /\ \A m \in Msg : Total(m)' = Total(m)
    BY <1>0, <1>1, <2>1, <2>2, <2>3 DEF Texts, Total, Spots, One
  <2> QED
    BY <2>3, <2>4 DEF Settled
<1> QED
  BY <1>2, <1>3, <1>4, <1>6, <1>7

LEMMA CommandSettled ==
  ASSUME TypeOK, Account, Interrupt \/ NewSession \/ ClearSession
  PROVE  Settled
<1> USE DEF kernelVars, turnVars, context, driverVars
<1>0. Texts /\ Drivers /\ Complete /\ UNCHANGED <<stage, job, leftover, dropped>>
  BY DEF Account, Interrupt, NewSession, ClearSession, Interrupted, Cleared
<1>1. \A m \in Msg : Total(m) <= 1
  BY <1>0 DEF Complete
<1>2. /\ Drivers'
      /\ \A m \in Msg : /\ Carried(m)' <=> Carried(m)
                        /\ LeftOver(m)' <=> LeftOver(m)
                        /\ stage'[m] = "idle" <=> stage[m] = "idle"
  BY <1>0, DriversStay
<1>3. \A m : /\ m \in ToSet(line) <=> Holds(line, m)
             /\ m \in ToSet(queue) <=> Holds(queue, m)
  BY HoldsMembers
<1>4. ASSUME NEW kill \in BOOLEAN, Interrupted(kill) PROVE Settled
  <2>1. /\ line' = <<>> /\ UNCHANGED <<current, failed, earlier, saying>>
        /\ queue' = queue \/ queue' = <<>>
        /\ phase' = phase \/ phase = "looping"
    BY <1>4 DEF Interrupted, Kernel!CancelLine
  <2>2. /\ \A m : ~Holds(line', m) /\ ~Holds(<<>>, m)
        /\ Distinct(queue')
    BY <1>0, <2>1, HoldsNothing DEF Texts
  <2>3. Texts'
    BY <1>0, <2>1, <2>2 DEF Texts
  <2>4. CASE queue' = queue /\ withdrawn' = withdrawn \cup ToSet(line)
    <3>1. \A m \in Msg : Total(m)' = Total(m)
      BY <1>0, <1>1, <1>2, <1>3, <2>1, <2>2, <2>4 DEF Total, Spots, One
    <3> QED
      BY <1>2, <2>3, <3>1 DEF Settled
  <2>5. CASE queue' = <<>> /\ withdrawn' = withdrawn \cup ToSet(line) \cup ToSet(queue)
    <3>1. \A m \in Msg : Total(m)' = Total(m)
      BY <1>0, <1>1, <1>2, <1>3, <2>1, <2>2, <2>5 DEF Total, Spots, One
    <3> QED
      BY <1>2, <2>3, <3>1 DEF Settled
  <2> QED
    BY <1>4, <2>4, <2>5 DEF Interrupted
<1>5. ASSUME Cleared PROVE Settled
  <2>1. /\ queue' = <<>> /\ earlier' = {} /\ withdrawn' = withdrawn \cup earlier \cup ToSet(queue)
        /\ UNCHANGED <<line, current, phase, failed, saying>>
    BY <1>5 DEF Cleared
  <2>2. Distinct(queue') /\ \A m : ~Holds(queue', m)
    BY <2>1, HoldsNothing
  <2>3. Texts'
    BY <1>0, <2>1, <2>2 DEF Texts
  <2>4. \A m \in Msg : Total(m)' = Total(m)
    BY <1>0, <1>1, <1>2, <1>3, <2>1, <2>2 DEF Total, Spots, One
  <2> QED
    BY <1>2, <2>3, <2>4 DEF Settled
<1> QED
  BY <1>4, <1>5 DEF Interrupt, NewSession, ClearSession

LEMMA NextAccount ==
  ASSUME TypeOK, Handover, Account, [Next]_vars PROVE Account'
<1>2. CASE Settled
  BY <1>2 DEF Settled, Account, Complete
<1>3. CASE UNCHANGED vars
  <2>1. /\ UNCHANGED <<line, current, phase, failed, earlier, saying, queue, stage, job, leftover, withdrawn, dropped>>
        /\ Texts /\ Drivers
    BY <1>3 DEF vars, kernelVars, turnVars, context, driverVars, Account
  <2>2. /\ Drivers'
        /\ \A m \in Msg : /\ Carried(m)' <=> Carried(m)
                          /\ LeftOver(m)' <=> LeftOver(m)
                          /\ stage'[m] = "idle" <=> stage[m] = "idle"
    BY <2>1, DriversStay
  <2>3. Texts' /\ \A m \in Msg : Total(m)' = Total(m)
    BY <2>1, <2>2 DEF Texts, Total, Spots, One
  <2> QED
    BY <1>2, <2>2, <2>3 DEF Settled
<1>4. Next => Settled
  BY ArriveSettled, CallSettled, LoopSettled, BeginSettled, DriveSettled, EndSettled, CommandSettled
  DEF Next, Drive, Handover
<1> QED
  BY <1>2, <1>3, <1>4

(* Counting, for the properties: what is there at most once counts as one. *)
LEMMA SingleCounts ==
  ASSUME NEW S, \A x, y \in S : x = y
  PROVE  Cardinality(S) = One(S # {})
<1>1. CASE S = {}
  BY <1>1, FS_EmptySet DEF One
<1>2. CASE S # {}
  <2>1. PICK x \in S : S = {x}
    BY <1>2
  <2> QED
    BY <2>1, FS_Singleton DEF One
<1> QED
  BY <1>1, <1>2

LEMMA CopiesAreSpots ==
  ASSUME LineInv, Account, NEW m \in Msg PROVE Copies(m) = Spots(m)
<1>0. Texts /\ Drivers /\ Distinct(line)
  BY DEF Account, LineInv
<1>1. ASSUME NEW seq, Distinct(seq) PROVE Occurrences(seq, m) = One(Holds(seq, m))
  <2> DEFINE S == {i \in DOMAIN seq : seq[i] = m}
  <2>1. (\A x, y \in S : x = y) /\ (S # {} <=> Holds(seq, m))
    BY <1>1 DEF Distinct, Holds
  <2>2. Cardinality(S) = One(S # {})
    BY <2>1, SingleCounts
  <2> QED
    BY <2>1, <2>2 DEF Occurrences, One
<1>2. Cardinality(earlier \cap {m}) = One(m \in earlier)
  <2>1. earlier \cap {m} # {} <=> m \in earlier
    OBVIOUS
  <2>2. Cardinality(earlier \cap {m}) = One(earlier \cap {m} # {})
    BY SingleCounts
  <2> QED
    BY <2>1, <2>2 DEF One
<1>3. Cardinality(Carriers(m)) = One(Carried(m))
  <2>1. (\A x, y \in Carriers(m) : x = y) /\ (Carriers(m) # {} <=> Carried(m))
    BY <1>0 DEF Carriers, Carried, Carrying, Drivers
  <2>2. Cardinality(Carriers(m)) = One(Carriers(m) # {})
    BY <2>1, SingleCounts
  <2> QED
    BY <2>1, <2>2 DEF One
<1>4. DEFINE L == UNION {{d} \X {i \in DOMAIN leftover[d] : leftover[d][i] = m} : d \in Msg}
<1>5. Cardinality(L) = One(LeftOver(m))
  <2>1. \A x \in L : \E d \in Msg : \E i \in DOMAIN leftover[d] : x = <<d, i>> /\ leftover[d][i] = m
    OBVIOUS
  <2>2. \A d \in Msg : \A i \in DOMAIN leftover[d] : leftover[d][i] = m => <<d, i>> \in L
    OBVIOUS
  <2> HIDE DEF L
  <2>3. ASSUME NEW d \in Msg, NEW e \in Msg, NEW i \in DOMAIN leftover[d], NEW j \in DOMAIN leftover[e],
               leftover[d][i] = m, leftover[e][j] = m
        PROVE  d = e /\ i = j
    BY <1>0, <2>3 DEF Drivers, Holds, Distinct
  <2>4. \A x, y \in L : x = y
    BY <2>1, <2>3
  <2>5. L # {} <=> LeftOver(m)
    BY <2>1, <2>2 DEF LeftOver, Holds
  <2>6. Cardinality(L) = One(L # {})
    BY <2>4, SingleCounts
  <2> QED
    BY <2>5, <2>6 DEF One
<1> QED
  BY <1>0, <1>1, <1>2, <1>3, <1>5 DEF Texts, Copies, Spots

LEMMA AccountInvariant == Spec => [](TypeOK /\ Lanes /\ Handover /\ Account)
<1>1. Init => TypeOK /\ Lanes /\ Handover /\ Account
  BY InitTyped, InitLanes, InitHandover, InitAccount
<1>2. TypeOK /\ Lanes /\ Handover /\ Account /\ [Next]_vars => (TypeOK /\ Lanes /\ Handover /\ Account)'
  BY NextTyped, NextLanes, NextHandover, NextAccount
<1> QED
  BY <1>1, <1>2, PTL DEF Spec

(* No message is in two places or twice in one, and none that was          *)
(* withdrawn anywhere: what the loop takes in (orchestrator.py:358) no     *)
(* driver dispatches (continuation_leftover.py:39), and what /new or an    *)
(* interruption cleared (base.py:1352, 1752) does not come back.           *)
THEOREM NobodyTwice == Spec => []NothingTwice
<1>1. TypeOK /\ Lanes /\ Handover /\ Account => NothingTwice
  <2> SUFFICES ASSUME Handover, Account, NEW m \in Msg
               PROVE  Copies(m) <= (IF m \in withdrawn \cup dropped THEN 0 ELSE 1)
    BY DEF NothingTwice
  <2>1. Copies(m) = Spots(m) /\ Total(m) = 1
    BY CopiesAreSpots DEF Handover, Account, Complete
  <2> QED
    BY <2>1 DEF Total, Spots, One
<1> QED
  BY <1>1, AccountInvariant, PTL

(* A message that was sent is in the context or waits where someone will   *)
(* find it, or is withdrawn.  Only the local list of a driver whose turn    *)
(* raises (inbound_handlers.py:121) is lost, and with it nothing else.      *)
THEOREM NobodyVanishes == Spec => []NothingVanishes
<1>1. TypeOK /\ Lanes /\ Handover /\ Account => NothingVanishes
  <2> SUFFICES ASSUME Handover, Account, NEW m \in Msg
               PROVE  \/ stage[m] = "idle"
                      \/ m \in withdrawn \cup dropped
                      \/ Copies(m) > 0
    BY DEF NothingVanishes
  <2>1. Copies(m) = Spots(m) /\ Total(m) = 1
    BY CopiesAreSpots DEF Handover, Account, Complete
  <2> QED
    BY <2>1 DEF Total, Spots, One
<1> QED
  BY <1>1, AccountInvariant, PTL

=============================================================================
