------------------------- MODULE WdlFencingProofs -------------------------
(***************************************************************************)
(* Proofs about WdlFencing, for any number of engines, tasks and rounds.   *)
(***************************************************************************)
EXTENDS WdlFencing, TLAPS

\* What the parts of ClaimInvariant that are types say.
TypesHold ==
  /\ row \in [status : InstanceState, owner : Engine \cup {None}, by : Engine \cup {None}]
  /\ last \in Engine \cup {None}
  /\ alive \subseteq started /\ started \subseteq Engine /\ told \subseteq Engine
  /\ phase \in [Driver -> Phase] /\ seen \in [Driver -> InstanceState]
  /\ round \in [Driver -> 0..MaxRounds] /\ cancelling \in [Engine -> 0..2]

\* What they say of the claim.
ClaimHolds ==
  /\ row.owner = IF row.status \in {"running", "interrupted"} THEN last ELSE None
  /\ row.status \in {"absent", "pending"} => last = None
  /\ last = None => \A d \in Driver : phase[d] \notin InDrive
  /\ row.status \in {"running", "interrupted"} => last # None

\* A task about to claim has read a status that was not terminal.
ReadAlive == \A d \in Driver : phase[d] = "loaded" => seen[d] \notin Terminal

WdlInvariant == TypesHold /\ ClaimHolds /\ ReadAlive

\* The two definitions say the same.
LEMMA ClaimParts == ClaimInvariant <=> TypesHold /\ ClaimHolds
BY DEF ClaimInvariant, TypesHold, ClaimHolds

\* The row an accepted or refused end leaves keeps its types, and is ended by
\* nobody but its owner.
LEMMA EndedRow ==
  ASSUME TypesHold, ClaimHolds, NEW e \in Engine, NEW s \in Terminal
  PROVE  /\ Ended(e, s) \in [status : InstanceState, owner : Engine \cup {None}, by : Engine \cup {None}]
         /\ Ended(e, s).owner = IF Ended(e, s).status \in {"running", "interrupted"} THEN last ELSE None
         /\ Ended(e, s).status \in {"absent", "pending"} => last = None
         /\ Ended(e, s).status \in {"running", "interrupted"} => last # None
         /\ row.status \in Terminal => Ended(e, s) = row
BY DEF TypesHold, ClaimHolds, Ended, MayEnd, InstanceState, Terminal

\* The initial states.
LEMMA InitInvariant == Init => WdlInvariant
BY EngineAssumption, RoundsAssumption
   DEF Init, WdlInvariant, TypesHold, ClaimHolds, ReadAlive, InDrive, Terminal, InstanceState, Phase

\* Every step keeps the types.
LEMMA TypesStep ==
  ASSUME TypesHold, ClaimHolds, Next
  PROVE  TypesHold'
<1> USE EngineAssumption, RoundsAssumption
<1>1. PICK e \in Engine :
        \/ Start(e) \/ Cancel(e) \/ CancelWrite(e) \/ Shutdown(e) \/ Crash(e)
        \/ \E s \in Slot : Submit(e, s) \/ AskResume(e, s) \/ DriverStep(e, s)
  BY DEF Next
<1>2. CASE Start(e)
  BY <1>2 DEF Start, Recovered, TypesHold, InstanceState
<1>3. CASE Cancel(e)
  BY <1>3 DEF Cancel, TypesHold
<1>4. CASE CancelWrite(e)
  <2>1. row' = Ended(e, "cancelled") /\ "cancelled" \in Terminal
    BY <1>4 DEF CancelWrite, Terminal
  <2>2. row' \in [status : InstanceState, owner : Engine \cup {None}, by : Engine \cup {None}]
    BY <2>1, EndedRow
  <2>3. cancelling' \in [Engine -> 0..2]
    BY <1>4 DEF CancelWrite, TypesHold
  <2> QED BY <1>4, <2>2, <2>3 DEF CancelWrite, TypesHold
<1>5. CASE Shutdown(e)
  <2>1. row' \in [status : InstanceState, owner : Engine \cup {None}, by : Engine \cup {None}]
        /\ last' \in Engine \cup {None}
    BY <1>5 DEF Shutdown, TypesHold, InstanceState
  <2>2. phase' \in [Driver -> Phase]
    BY <1>5 DEF Shutdown, TypesHold, Phase
  <2>3. cancelling' \in [Engine -> 0..2] /\ told' \subseteq Engine
    BY <1>5 DEF Shutdown, Forgotten, TypesHold
  <2>4. seen' \in [Driver -> InstanceState] /\ round' \in [Driver -> 0..MaxRounds]
    BY <1>5 DEF Shutdown, Forgotten, TypesHold, InstanceState
  <2> QED BY <1>5, <2>1, <2>2, <2>3, <2>4 DEF Shutdown, TypesHold
<1>6. CASE Crash(e)
  <2>2. phase' \in [Driver -> Phase]
    BY <1>6 DEF Crash, TypesHold, Phase
  <2>3. cancelling' \in [Engine -> 0..2] /\ told' \subseteq Engine
    BY <1>6 DEF Crash, Forgotten, TypesHold
  <2>4. seen' \in [Driver -> InstanceState] /\ round' \in [Driver -> 0..MaxRounds]
    BY <1>6 DEF Crash, Forgotten, TypesHold, InstanceState
  <2> QED BY <1>6, <2>2, <2>3, <2>4 DEF Crash, TypesHold
<1>7. ASSUME NEW s \in Slot, Submit(e, s) \/ AskResume(e, s) \/ DriverStep(e, s)
      PROVE  TypesHold'
  <2>0. <<e, s>> \in Driver
    BY DEF Driver
  <2>1. CASE Submit(e, s)
    BY <2>0, <2>1 DEF Submit, TypesHold, Phase
  <2>2. CASE AskResume(e, s)
    BY <2>0, <2>2 DEF AskResume, TypesHold, Phase
  <2>3. CASE Create(e, s)
    BY <2>0, <2>3 DEF Create, TypesHold, Phase, InstanceState
  <2>4. CASE Load(e, s)
    BY <2>0, <2>4 DEF Load, TypesHold, Phase, InstanceState
  <2>5. CASE Claim(e, s)
    BY <2>0, <2>5, SMTT(30) DEF Claim, TypesHold, Phase, InstanceState
  <2>6. CASE Raise(e, s) \/ Cancelled(e, s)
    <3>1. row' = Ended(e, "cancelled") /\ "cancelled" \in Terminal
      BY <2>6 DEF Raise, Cancelled, Terminal
    <3>2. row' \in [status : InstanceState, owner : Engine \cup {None}, by : Engine \cup {None}]
      BY <3>1, EndedRow
    <3>3. phase' \in [Driver -> Phase] /\ round' \in [Driver -> 0..MaxRounds]
      BY <2>0, <2>6 DEF Raise, Cancelled, TypesHold, Phase
    <3> QED BY <2>6, <3>2, <3>3 DEF Raise, Cancelled, TypesHold
  <2>7. CASE Persist(e, s)
    BY <2>0, <2>7 DEF Persist, TypesHold, Phase
  <2>8. CASE NodeEnds(e, s)
    BY <2>0, <2>8 DEF NodeEnds, TypesHold, Phase
  <2>9. CASE Complete(e, s)
    <3>1. PICK status \in {"completed", "failed"} :
            row' = IF MayEnd(e) THEN [Ended(e, status) EXCEPT !.by = e] ELSE row
      BY <2>9 DEF Complete
    <3>2. Ended(e, status) \in [status : InstanceState, owner : Engine \cup {None}, by : Engine \cup {None}]
      BY EndedRow DEF Terminal
    <3>3. row' \in [status : InstanceState, owner : Engine \cup {None}, by : Engine \cup {None}]
      BY <3>1, <3>2 DEF TypesHold
    <3> QED BY <2>0, <2>9, <3>3 DEF Complete, TypesHold, Phase
  <2> QED BY <1>7, <2>1, <2>2, <2>3, <2>4, <2>5, <2>6, <2>7, <2>8, <2>9 DEF DriverStep
<1> QED BY <1>1, <1>2, <1>3, <1>4, <1>5, <1>6, <1>7

\* Every step keeps the claim.
LEMMA ClaimStep ==
  ASSUME TypesHold, ClaimHolds, Next
  PROVE  ClaimHolds'
<1> USE EngineAssumption
<1>1. PICK e \in Engine :
        \/ Start(e) \/ Cancel(e) \/ CancelWrite(e) \/ Shutdown(e) \/ Crash(e)
        \/ \E s \in Slot : Submit(e, s) \/ AskResume(e, s) \/ DriverStep(e, s)
  BY DEF Next
<1>2. CASE Start(e)
  BY <1>2 DEF Start, Recovered, TypesHold, ClaimHolds
<1>3. CASE Cancel(e)
  BY <1>3 DEF Cancel, ClaimHolds
<1>4. CASE CancelWrite(e)
  <2>1. row' = Ended(e, "cancelled") /\ "cancelled" \in Terminal /\ UNCHANGED <<last, phase>>
    BY <1>4 DEF CancelWrite, Terminal
  <2> QED BY <2>1, EndedRow DEF ClaimHolds
<1>5. CASE Shutdown(e)
  <2>1. last # None => last' # None
    BY <1>5 DEF Shutdown
  <2>2. ASSUME last' = None, NEW d \in Driver
        PROVE  phase'[d] \notin InDrive
    <3>1. last = None /\ phase[d] \notin InDrive
      BY <2>1, <2>2 DEF ClaimHolds
    <3> QED BY <1>5, <3>1 DEF Shutdown, InDrive
  <2>3. row'.owner = (IF row'.status \in {"running", "interrupted"} THEN last' ELSE None)
        /\ (row'.status \in {"absent", "pending"} => last' = None)
        /\ (row'.status \in {"running", "interrupted"} => last' # None)
    <3>1. CASE UNCHANGED <<row, last>>
      BY <3>1 DEF ClaimHolds
    <3>2. CASE row' = [status |-> "running", owner |-> e, by |-> e] /\ last' = e
      BY <3>2
    <3> QED BY <1>5, <3>1, <3>2 DEF Shutdown
  <2> QED BY <2>2, <2>3 DEF ClaimHolds
<1>6. CASE Crash(e)
  <2>1. ASSUME last' = None, NEW d \in Driver
        PROVE  phase'[d] \notin InDrive
    <3>1. phase[d] \notin InDrive
      BY <1>6, <2>1 DEF Crash, ClaimHolds
    <3> QED BY <1>6, <3>1 DEF Crash, InDrive
  <2> QED BY <1>6, <2>1 DEF Crash, ClaimHolds
<1>7. ASSUME NEW s \in Slot, Submit(e, s) \/ AskResume(e, s) \/ DriverStep(e, s)
      PROVE  ClaimHolds'
  <2>0. <<e, s>> \in Driver
    BY DEF Driver
  <2>1. CASE Submit(e, s) \/ AskResume(e, s) \/ Load(e, s) \/ NodeEnds(e, s)
    <3>1. UNCHANGED <<row, last>>
      BY <2>1 DEF Submit, AskResume, Load, NodeEnds
    <3>2. ASSUME last = None, NEW d \in Driver
          PROVE  phase'[d] \notin InDrive
      <4>1. \A x \in Driver : phase[x] \notin InDrive
        BY <3>2 DEF ClaimHolds
      <4>2. phase[<<e, s>>] # "awaiting"
        BY <2>0, <4>1 DEF InDrive
      <4> QED BY <2>0, <2>1, <4>1, <4>2 DEF Submit, AskResume, Load, NodeEnds, TypesHold, InDrive
    <3> QED BY <3>1, <3>2 DEF ClaimHolds
  <2>2. CASE Create(e, s)
    <3>1. ASSUME NEW d \in Driver
          PROVE  phase'[d] \notin InDrive
      <4>1. phase[d] \notin InDrive
        BY <2>2 DEF Create, ClaimHolds
      <4> QED BY <2>0, <2>2, <4>1 DEF Create, TypesHold, InDrive
    <3> QED BY <2>2, <3>1 DEF Create, ClaimHolds
  <2>3. CASE Claim(e, s)
    <3>1. CASE MayWrite(e) /\ row' = [status |-> "running", owner |-> e, by |-> e] /\ last' = e
      BY <3>1 DEF ClaimHolds
    <3>2. CASE UNCHANGED <<row, last>> /\ phase' = [phase EXCEPT ![<<e, s>>] = "idle"]
      BY <2>0, <3>2 DEF ClaimHolds, TypesHold, InDrive
    <3> QED BY <2>3, <3>1, <3>2 DEF Claim
  <2>4. CASE Raise(e, s) \/ Cancelled(e, s)
    <3>1. /\ row' = Ended(e, "cancelled") /\ "cancelled" \in Terminal /\ UNCHANGED last
          /\ phase' = [phase EXCEPT ![<<e, s>>] = "idle"]
      BY <2>4 DEF Raise, Cancelled, Terminal
    <3>2. last' = None => \A d \in Driver : phase'[d] \notin InDrive
      BY <2>0, <3>1 DEF ClaimHolds, TypesHold, InDrive
    <3> QED BY <3>1, <3>2, EndedRow DEF ClaimHolds
  <2>5. CASE Persist(e, s)
    <3>1. last # None
      BY <2>0, <2>5 DEF Persist, ClaimHolds, InDrive
    <3>2. row'.owner = row.owner /\ row'.status = row.status /\ last' = last
      BY <2>5 DEF Persist, TypesHold
    <3> QED BY <3>1, <3>2 DEF ClaimHolds
  <2>6. CASE Complete(e, s)
    <3>1. PICK status \in {"completed", "failed"} :
            row' = IF MayEnd(e) THEN [Ended(e, status) EXCEPT !.by = e] ELSE row
      BY <2>6 DEF Complete
    <3>2. last # None /\ last' = last
      BY <2>0, <2>6 DEF Complete, ClaimHolds, InDrive
    <3>3. CASE MayEnd(e)
      <4>1. row'.status = status /\ row'.owner = None
        BY <3>1, <3>3 DEF Ended, TypesHold
      <4> QED BY <3>2, <4>1 DEF ClaimHolds
    <3>4. CASE ~MayEnd(e)
      BY <3>1, <3>2, <3>4 DEF ClaimHolds
    <3> QED BY <3>3, <3>4
  <2> QED BY <1>7, <2>1, <2>2, <2>3, <2>4, <2>5, <2>6 DEF DriverStep
<1> QED BY <1>1, <1>2, <1>3, <1>4, <1>5, <1>6, <1>7

\* Every step keeps what a task about to claim has read.
LEMMA ReadStep ==
  ASSUME TypesHold, ReadAlive, Next
  PROVE  ReadAlive'
<1>1. PICK e \in Engine :
        \/ Start(e) \/ Cancel(e) \/ CancelWrite(e) \/ Shutdown(e) \/ Crash(e)
        \/ \E s \in Slot : Submit(e, s) \/ AskResume(e, s) \/ DriverStep(e, s)
  BY DEF Next
<1>2. CASE Start(e) \/ Cancel(e) \/ CancelWrite(e)
  BY <1>2 DEF Start, Cancel, CancelWrite, ReadAlive
<1>3. CASE Shutdown(e) \/ Crash(e)
  BY <1>3 DEF Shutdown, Crash, Forgotten, ReadAlive, Terminal
<1>4. ASSUME NEW s \in Slot, Submit(e, s) \/ AskResume(e, s) \/ DriverStep(e, s)
      PROVE  ReadAlive'
  <2>0. <<e, s>> \in Driver
    BY DEF Driver
  <2>1. ASSUME NEW d \in Driver, phase'[d] = "loaded", d # <<e, s>>
        PROVE  seen'[d] \notin Terminal
    <3>1. phase'[d] = phase[d] /\ seen'[d] = seen[d]
      BY <1>4, <2>0, <2>1 DEF Submit, AskResume, DriverStep, Create, Load, Claim, Raise, Persist,
                              NodeEnds, Complete, Cancelled, TypesHold
    <3> QED BY <2>1, <3>1 DEF ReadAlive
  <2>2. ASSUME phase'[<<e, s>>] = "loaded"
        PROVE  seen'[<<e, s>>] \notin Terminal
    <3>1. Create(e, s) \/ Load(e, s)
      BY <1>4, <2>0, <2>2 DEF Submit, AskResume, DriverStep, Claim, Raise, Persist, NodeEnds,
                              Complete, Cancelled, TypesHold
    <3> QED BY <2>0, <2>2, <3>1 DEF Create, Load, TypesHold, Terminal
  <2> QED BY <2>1, <2>2 DEF ReadAlive
<1> QED BY <1>1, <1>2, <1>3, <1>4

\* The invariant is inductive.
LEMMA InvariantStep == WdlInvariant /\ [Next]_vars => WdlInvariant'
<1> SUFFICES ASSUME WdlInvariant, [Next]_vars PROVE WdlInvariant'
  OBVIOUS
<1>1. CASE Next
  BY <1>1, TypesStep, ClaimStep, ReadStep DEF WdlInvariant
<1>2. CASE UNCHANGED vars
  BY <1>2 DEF vars, WdlInvariant, TypesHold, ClaimHolds, ReadAlive, MayEnd
<1> QED BY <1>1, <1>2

THEOREM SpecInvariant == Spec => []WdlInvariant
BY InitInvariant, InvariantStep, PTL DEF Spec

\* Whatever engines start, crash, resume and cancel, a row that runs or was
\* interrupted holds the token of the last claim, and no other row holds one.
THEOREM ClaimIsHeld == Spec => []ClaimInvariant
<1>1. WdlInvariant => ClaimInvariant
  BY ClaimParts DEF WdlInvariant
<1> QED BY <1>1, SpecInvariant, PTL

\* complete_instance is accepted only from the engine that claimed last.
LEMMA CompleteStep ==
  ASSUME WdlInvariant, NEW e \in Engine, NEW s \in Slot, Complete(e, s), row' # row
  PROVE  last = e
<1>1. <<e, s>> \in Driver /\ phase[<<e, s>>] \in InDrive
  BY DEF Driver, Complete, InDrive
<1>2. last # None
  BY <1>1 DEF WdlInvariant, ClaimHolds
<1>3. MayEnd(e)
  BY DEF Complete
<1>4. row.status \in {"running", "interrupted"}
  BY <1>2, <1>3 DEF MayEnd, WdlInvariant, ClaimHolds, TypesHold, InstanceState, Terminal
<1> QED BY <1>2, <1>3, <1>4 DEF MayEnd, WdlInvariant, ClaimHolds

\* No orphan ever writes the outcome of an instance another engine claimed,
\* for any number of engines and however often it changed hands.
THEOREM OutcomeIsTheClaimants == Spec => OutcomeByLastClaimant
<1>1. WdlInvariant => \A e \in Engine, s \in Slot : Complete(e, s) /\ row' # row => last = e
  BY CompleteStep
<1> QED BY <1>1, SpecInvariant, PTL DEF OutcomeByLastClaimant

\* The status of a finished row changes only through a claim.
LEMMA FinishedStep ==
  ASSUME WdlInvariant, Next, row.status \in Terminal, row'.status # row.status
  PROVE  /\ row'.status = "running"
         /\ \E d \in Driver : /\ phase[d] = "loaded" /\ seen[d] \notin Terminal
                              /\ d[1] = row'.owner
<1>1. PICK e \in Engine :
        \/ Start(e) \/ Cancel(e) \/ CancelWrite(e) \/ Shutdown(e) \/ Crash(e)
        \/ \E s \in Slot : Submit(e, s) \/ AskResume(e, s) \/ DriverStep(e, s)
  BY DEF Next
<1>2. ~MayEnd(e) /\ \A t : Ended(e, t) = row
  BY DEF MayEnd, Ended
<1>3. CASE Start(e) \/ Cancel(e) \/ CancelWrite(e) \/ Crash(e)
  BY <1>2, <1>3 DEF Start, Recovered, Cancel, CancelWrite, Crash, Terminal
<1>4. CASE Shutdown(e)
  <2>1. /\ row' = [status |-> "running", owner |-> e, by |-> e]
        /\ \E d \in {x \in Driver : x[1] = e} : phase[d] = "loaded"
    BY <1>4 DEF Shutdown
  <2> QED BY <2>1 DEF WdlInvariant, ReadAlive
<1>5. ASSUME NEW s \in Slot, Submit(e, s) \/ AskResume(e, s) \/ DriverStep(e, s)
      PROVE  Claim(e, s) /\ row' = [status |-> "running", owner |-> e, by |-> e]
  <2>1. ~Submit(e, s) /\ ~AskResume(e, s) /\ ~Load(e, s) /\ ~NodeEnds(e, s)
    BY DEF Submit, AskResume, Load, NodeEnds
  <2>2. ~Create(e, s)
    BY DEF Create, Terminal
  <2>3. ~Raise(e, s) /\ ~Cancelled(e, s) /\ ~Complete(e, s)
    BY <1>2 DEF Raise, Cancelled, Complete
  <2>4. ~Persist(e, s)
    BY DEF Persist, WdlInvariant, TypesHold
  <2> QED BY <1>5, <2>1, <2>2, <2>3, <2>4 DEF DriverStep, Claim
<1>6. ASSUME NEW s \in Slot, Claim(e, s), row' = [status |-> "running", owner |-> e, by |-> e]
      PROVE  /\ row'.status = "running" /\ <<e, s>> \in Driver /\ phase[<<e, s>>] = "loaded"
             /\ seen[<<e, s>>] \notin Terminal /\ <<e, s>>[1] = row'.owner
  BY <1>6 DEF Claim, Driver, WdlInvariant, ReadAlive
<1> QED BY <1>1, <1>3, <1>4, <1>5, <1>6

\* A finished workflow is never written anew but through a resume that read it
\* before it finished.
THEOREM FinishedIsFinal == Spec => FinishedStays
<1>1. WdlInvariant /\ [Next]_vars =>
        [row.status \in Terminal /\ row'.status # row.status =>
           /\ row'.status = "running"
           /\ \E d \in Driver : /\ phase[d] = "loaded" /\ seen[d] \notin Terminal
                                /\ d[1] = row'.owner]_vars
  BY FinishedStep
<1> QED BY <1>1, SpecInvariant, PTL DEF Spec, FinishedStays
=============================================================================
