-------------------------- MODULE SyncCursorProofs --------------------------
(***************************************************************************)
(* Theorems about SyncCursor, for any number of events, failed syncs and   *)
(* ends of the process.                                                    *)
(***************************************************************************)
EXTENDS SyncCursor, SequenceTheorems, WellFoundedInduction, TLAPS

(* A set of numbers with an upper bound has a greatest element.            *)
LEMMA MaxOfBounded ==
  ASSUME NEW n \in Nat, NEW S \in SUBSET (0 .. n), S # {}
  PROVE  Max(S) \in S /\ \A y \in S : Max(S) >= y
<1> DEFINE T == {m \in 0 .. n : n - m \in S}
<1>1. T \subseteq Nat
  OBVIOUS
<1>2. T # {}
  <2>1. PICK x \in S : TRUE
    OBVIOUS
  <2>2. n - x \in 0 .. n /\ n - (n - x) = x
    BY <2>1
  <2> QED
    BY <2>1, <2>2
<1>3. PICK t \in T : \A y \in T : ~(<<y, t>> \in OpToRel(<, Nat))
  BY <1>1, <1>2, NatLessThanWellFounded, WFMin
<1>4. \A y \in T : ~(y < t)
  BY <1>1, <1>3 DEF OpToRel
<1>5. ASSUME NEW y \in S PROVE n - t >= y
  <2>1. n - y \in T
    BY <1>5
  <2> QED
    BY <1>4, <2>1
<1>6. n - t \in S
  OBVIOUS
<1> HIDE DEF T
<1>7. \E x \in S : \A y \in S : x >= y
  BY <1>5, <1>6
<1> QED
  BY <1>7 DEF Max

(* The flush ends before the first generation without a result.            *)
LEMMA FlushableIs ==
  ASSUME NEW gs \in Seq(Generation)
  PROVE  /\ Flushable(gs) \in 0 .. Len(gs)
         /\ \A i \in 1 .. Flushable(gs) : Decided(gs[i])
<1> DEFINE S == {k \in 0 .. Len(gs) : \A i \in 1 .. k : Decided(gs[i])}
<1>1. Len(gs) \in Nat
  BY LenProperties
<1>2. 0 \in S
  BY <1>1
<1>3. Max(S) \in S
  BY <1>1, <1>2, MaxOfBounded
<1> QED
  BY <1>3 DEF Flushable

(* It saves the token of a flushed generation, or none.                    *)
LEMMA SavedIs ==
  ASSUME NEW gs \in Seq(Generation)
  PROVE  \/ Saved(gs) = durable
         \/ \E m \in 1 .. Flushable(gs) : Saved(gs) = gs[m].token
<1> DEFINE ok == {i \in 1 .. Flushable(gs) : gs[i].state = "applied"}
<1>1. Flushable(gs) \in Nat
  BY FlushableIs, LenProperties
<1>2. ASSUME ok # {} PROVE Max(ok) \in 1 .. Flushable(gs)
  <2>1. ok \in SUBSET (0 .. Flushable(gs))
    BY <1>1
  <2>2. Max(ok) \in ok
    BY <1>1, <1>2, <2>1, MaxOfBounded
  <2> QED
    BY <2>2
<1> QED
  BY <1>2 DEF Saved

-----------------------------------------------------------------------------
(* Types                                                                   *)

LEMMA FlushTyped ==
  ASSUME TypeOK, NEW gs \in Seq(Generation), Flush(gs)
  PROVE  generations' \in Seq(Generation) /\ durable' \in 0 .. MaxEvents
<1>1. Len(gs) \in Nat /\ \A i \in 1 .. Len(gs) : gs[i] \in Generation
  BY LenProperties, ElementOfSeq
<1>2. Flushable(gs) \in 0 .. Len(gs)
  BY FlushableIs
<1>3. SubSeq(gs, Flushable(gs) + 1, Len(gs)) \in Seq(Generation)
  BY <1>1, <1>2, SubSeqProperties
<1>4. Saved(gs) \in 0 .. MaxEvents
  <2>1. CASE Saved(gs) = durable
    BY <2>1 DEF TypeOK
  <2>2. ASSUME NEW m \in 1 .. Flushable(gs), Saved(gs) = gs[m].token
        PROVE  Saved(gs) \in 0 .. MaxEvents
    <3>1. m \in 1 .. Len(gs)
      BY <1>1, <1>2
    <3> QED
      BY <1>1, <2>2, <3>1 DEF Generation
  <2> QED
    BY <2>1, <2>2, SavedIs
<1> QED
  BY <1>3, <1>4 DEF Flush

(* Appending, marking and deciding leave sequences of generations.         *)
LEMMA OpenedTyped ==
  ASSUME TypeOK, NEW events \in SUBSET Event, NEW token \in 0 .. MaxEvents,
         NEW state \in {"pending", "abandoned"}
  PROVE  /\ Opened(events, token, state) \in Generation
         /\ Append(generations, Opened(events, token, state)) \in Seq(Generation)
<1>1. Opened(events, token, state) \in Generation
  BY DEF Opened, Generation
<1> QED
  BY <1>1, AppendProperties DEF TypeOK

LEMMA MarkedIs ==
  ASSUME TypeOK, NEW e
  PROVE  /\ Marked(e) \in Seq(Generation)
         /\ Len(Marked(e)) = Len(generations)
         /\ \A i \in 1 .. Len(generations) :
              /\ Marked(e)[i].token = generations[i].token
              /\ Marked(e)[i].events = generations[i].events
              /\ Marked(e)[i].state = generations[i].state
<1>1. /\ Len(generations) \in Nat /\ DOMAIN generations = 1 .. Len(generations)
      /\ \A i \in 1 .. Len(generations) : generations[i] \in Generation
  BY LenProperties, ElementOfSeq DEF TypeOK
<1>2. \A i \in 1 .. Len(generations) : Marked(e)[i] \in Generation
  BY <1>1 DEF Marked, Generation
<1>3. Marked(e) \in [1 .. Len(generations) -> Generation]
  BY <1>1, <1>2 DEF Marked
<1>4. Marked(e) \in Seq(Generation)
  BY <1>1, <1>3, SeqDef
<1>5. Len(Marked(e)) = Len(generations)
  BY <1>1, <1>3, <1>4, LenProperties
<1>6. \A i \in 1 .. Len(generations) :
        /\ Marked(e)[i].token = generations[i].token
        /\ Marked(e)[i].events = generations[i].events
        /\ Marked(e)[i].state = generations[i].state
  BY <1>1 DEF Marked, Generation
<1> QED
  BY <1>4, <1>5, <1>6

(* What Persist hands to the flush.                                        *)
LEMMA DecidedIs ==
  ASSUME TypeOK, NEW k \in DOMAIN generations, NEW gs,
         gs = [generations EXCEPT ![k] = Outcome(@)]
  PROVE  /\ gs \in Seq(Generation)
         /\ Len(gs) = Len(generations)
         /\ \A i \in 1 .. Len(generations) :
              /\ gs[i].token = generations[i].token
              /\ gs[i].events = generations[i].events
              /\ i # k => gs[i].state = generations[i].state
<1>1. /\ Len(generations) \in Nat /\ DOMAIN generations = 1 .. Len(generations)
      /\ \A i \in 1 .. Len(generations) : generations[i] \in Generation
  BY LenProperties, ElementOfSeq DEF TypeOK
<1>2. /\ Outcome(generations[k]) \in Generation
      /\ Outcome(generations[k]).token = generations[k].token
      /\ Outcome(generations[k]).events = generations[k].events
  BY <1>1 DEF Outcome, Generation
<1>3. gs = [generations EXCEPT ![k] = Outcome(generations[k])]
  OBVIOUS
<1> HIDE DEF Outcome
<1>4. /\ gs \in Seq(Generation) /\ Len(gs) = Len(generations)
      /\ \A i \in 1 .. Len(generations) :
           gs[i] = IF i = k THEN Outcome(generations[k]) ELSE generations[i]
  BY <1>1, <1>2, <1>3, ExceptSeq DEF TypeOK
<1> QED
  BY <1>2, <1>4

LEMMA InitTyped == Init => TypeOK
<1> SUFFICES ASSUME Init PROVE TypeOK
  OBVIOUS
<1>1. generations \in Seq(Generation)
  BY EmptySeq DEF Init
<1>2. handler \in [Event -> HandlerState]
  BY DEF Init, HandlerState
<1> QED
  BY <1>1, <1>2, BoundsAreNatural DEF Init, TypeOK

LEMMA EndsTyped ==
  ASSUME TypeOK, NEW e \in Event, NEW state \in {"ended", "raised"}, Ends(e, state),
         generations' \in Seq(Generation)
  PROVE  TypeOK'
  BY DEF Ends, TypeOK, HandlerState

LEMMA DownTyped ==
  ASSUME TypeOK, Down, durable' \in 0 .. MaxEvents, unguarded' \subseteq Event,
         stopped' \subseteq Event
  PROVE  TypeOK'
<1>1. generations' \in Seq(Generation)
  BY EmptySeq DEF Down
<1>2. deaths' \in 0 .. MaxDeaths
  BY BoundsAreNatural DEF Down, TypeOK
<1>3. handler' \in [Event -> HandlerState]
  BY DEF Down, HandlerState
<1> QED
  BY <1>1, <1>2, <1>3 DEF Down, TypeOK

LEMMA NextTyped == TypeOK /\ [Next]_vars => TypeOK'
<1> SUFFICES ASSUME TypeOK, [Next]_vars PROVE TypeOK'
  OBVIOUS
<1> USE BoundsAreNatural
<1>1. CASE Post
  BY <1>1 DEF Post, TypeOK
<1>2. CASE CatchUp
  <2>1. nextBatch + 1 .. tip \subseteq Event
    BY DEF TypeOK, Event
  <2>2. handler' \in [Event -> HandlerState]
    BY <1>2 DEF CatchUp, Deliver, TypeOK, HandlerState
  <2>3. nextBatch' \in 0 .. MaxEvents
    BY <1>2 DEF CatchUp, Deliver, TypeOK
  <2>4. unguarded' \subseteq Event
    BY <1>2, <2>1 DEF CatchUp, TypeOK
  <2> QED
    BY <1>2, <2>2, <2>3, <2>4 DEF CatchUp, TypeOK
<1>3. CASE Sync
  <2>1. generations' \in Seq(Generation)
    BY <1>3, OpenedTyped DEF Sync, TypeOK, Event
  <2> QED
    BY <1>3, <2>1 DEF Sync, Deliver, TypeOK, HandlerState
<1>4. CASE SyncRaises
  <2>1. generations' \in Seq(Generation)
    BY <1>4, OpenedTyped DEF SyncRaises, TypeOK
  <2> QED
    BY <1>4, <2>1 DEF SyncRaises, TypeOK
<1>5. ASSUME NEW e \in Event, Handled(e) \/ BusyDropped(e) \/ Raises(e) PROVE TypeOK'
  <2>1. generations' \in Seq(Generation)
    BY <1>5, MarkedIs DEF Handled, BusyDropped, Raises, TypeOK
  <2> QED
    BY <1>5, <2>1, EndsTyped DEF Handled, BusyDropped, Raises
<1>6. ASSUME NEW e \in Event, DoneCallback(e) PROVE TypeOK'
  <2>1. generations' \in Seq(Generation)
    BY <1>6, MarkedIs DEF DoneCallback
  <2> QED
    BY <1>6, <2>1 DEF DoneCallback, TypeOK, HandlerState
<1>7. ASSUME NEW i \in DOMAIN generations, Persist(i) PROVE TypeOK'
  <2>1. generations' \in Seq(Generation) /\ durable' \in 0 .. MaxEvents
    BY <1>7, DecidedIs, FlushTyped DEF Persist
  <2>2. holes' \subseteq Event
    <3>1. generations[i] \in Generation
      BY <1>7 DEF TypeOK
    <3>2. generations[i].events \subseteq Event
      BY <3>1 DEF Generation
    <3> QED
      BY <1>7, <3>2 DEF Persist, TypeOK
  <2> QED
    BY <1>7, <2>1, <2>2 DEF Persist, TypeOK
<1>8. CASE Crash
  BY <1>8, DownTyped DEF Crash, TypeOK
<1>9. CASE Stop
  <2>1. 1 .. nextBatch \subseteq Event
    BY DEF TypeOK, Event
  <2>2. Running \subseteq Event
    BY DEF Running
  <2>3. durable' \in 0 .. MaxEvents
    BY <1>9 DEF Stop, TypeOK
  <2>4. unguarded' \subseteq Event /\ stopped' \subseteq Event
    BY <1>9, <2>1, <2>2 DEF Stop, TypeOK
  <2>5. Down
    BY <1>9 DEF Stop
  <2> QED
    BY <2>3, <2>4, <2>5, DownTyped
<1>10. CASE Restart
  BY <1>10 DEF Restart, TypeOK
<1>11. CASE UNCHANGED vars
  BY <1>11 DEF vars, TypeOK
<1>12. CASE CrashInFlush
  <2>1. durable' \in 0 .. MaxEvents
    BY <1>12 DEF CrashInFlush, TypeOK
  <2>2. unguarded' \subseteq Event /\ stopped' \subseteq Event
    BY <1>12 DEF CrashInFlush, TypeOK, Running
  <2>3. Down
    BY <1>12 DEF CrashInFlush
  <2> QED
    BY <2>1, <2>2, <2>3, DownTyped
<1> QED
  BY <1>1, <1>2, <1>3, <1>4, <1>5, <1>6, <1>7, <1>8, <1>9, <1>10, <1>11, <1>12
  DEF Next, HandlerStep

(* The variables of the sync cursor keep their types.                      *)
THEOREM CursorTyped == Spec => []TypeOK
  BY InitTyped, NextTyped, PTL DEF Spec, Safety

-----------------------------------------------------------------------------
(* What a token covers has been dealt with, or belongs to a generation     *)
(* that is flushed no later.                                               *)
Covered(e, n) ==
  \/ e \in settled \cup unguarded
  \/ \E j \in 1 .. n : e \in generations[j].events

(* The tokens in flight lie between the saved one and next_batch, in the   *)
(* order of the syncs.                                                     *)
Ordered ==
  /\ durable <= nextBatch /\ nextBatch <= tip
  /\ \A i \in 1 .. Len(generations) :
       durable <= generations[i].token /\ generations[i].token <= nextBatch
  /\ \A i, j \in 1 .. Len(generations) :
       i <= j => generations[i].token <= generations[j].token

(* Every token, saved or in flight, covers nothing that is not dealt with, *)
(* or in a generation up to its own.                                       *)
TokensCover ==
  /\ NothingSkipped
  /\ \A i \in 1 .. Len(generations) : \A e \in 1 .. generations[i].token : Covered(e, i)
  /\ process # "down" => \A e \in 1 .. nextBatch : Covered(e, Len(generations))
  /\ process = "down" => generations = <<>>

(* An event of a generation has a handler that works or is through.        *)
AtWork ==
  \A i \in 1 .. Len(generations) :
    /\ \A e \in generations[i].events : handler[e] = "running" \/ e \in settled
    /\ Decided(generations[i]) => generations[i].events \subseteq settled

CursorInv == Ordered /\ TokensCover /\ AtWork

LEMMA GenerationsAre ==
  ASSUME TypeOK
  PROVE  /\ Len(generations) \in Nat /\ DOMAIN generations = 1 .. Len(generations)
         /\ \A i \in 1 .. Len(generations) :
              /\ generations[i] \in Generation
              /\ generations[i].token \in Nat
              /\ generations[i].events \subseteq Event
         /\ tip \in Nat /\ nextBatch \in Nat /\ durable \in Nat
<1>1. /\ Len(generations) \in Nat /\ DOMAIN generations = 1 .. Len(generations)
      /\ \A i \in 1 .. Len(generations) : generations[i] \in Generation
  BY LenProperties, ElementOfSeq DEF TypeOK
<1> QED
  BY <1>1, BoundsAreNatural DEF TypeOK, Generation

LEMMA InitCursor == Init => CursorInv
<1> SUFFICES ASSUME Init PROVE CursorInv
  OBVIOUS
<1>1. Len(generations) = 0
  BY EmptySeq DEF Init
<1> QED
  BY <1>1 DEF Init, CursorInv, Ordered, TokensCover, AtWork, NothingSkipped

(* A step that leaves the tokens where they are, and only lets handlers    *)
(* come to their end.                                                      *)
LEMMA FrameKept ==
  ASSUME TypeOK, CursorInv,
         Len(generations') = Len(generations), generations' \in Seq(Generation),
         \A i \in 1 .. Len(generations) :
           /\ generations'[i].token = generations[i].token
           /\ generations'[i].events = generations[i].events
           /\ generations'[i].state = generations[i].state,
         durable' = durable, nextBatch' = nextBatch, tip' \in Nat, tip <= tip',
         process' = process, settled \subseteq settled', unguarded \subseteq unguarded',
         \A e \in Event : handler[e] = "running" => handler'[e] = "running" \/ e \in settled'
  PROVE  CursorInv'
<1> USE GenerationsAre
<1>1. Ordered'
  BY DEF CursorInv, Ordered
<1>2. ASSUME NEW n \in 0 .. Len(generations), NEW e, Covered(e, n) PROVE Covered(e, n)'
  <2>1. \A j \in 1 .. n : j \in 1 .. Len(generations)
    OBVIOUS
  <2> QED
    BY <1>2, <2>1 DEF Covered
<1>3. TokensCover'
  <2>1. NothingSkipped'
    BY DEF CursorInv, TokensCover, NothingSkipped
  <2>2. \A i \in 1 .. Len(generations') : \A e \in 1 .. generations'[i].token :
          Covered(e, i)'
    BY <1>2 DEF CursorInv, TokensCover
  <2>3. process' # "down" => \A e \in 1 .. nextBatch' : Covered(e, Len(generations))'
    BY <1>2 DEF CursorInv, TokensCover
  <2>4. process' = "down" => generations' = <<>>
    BY EmptySeq DEF CursorInv, TokensCover
  <2> QED
    BY <2>1, <2>2, <2>3, <2>4 DEF TokensCover
<1>4. AtWork'
  BY DEF CursorInv, AtWork, Decided
<1> QED
  BY <1>1, <1>3, <1>4 DEF CursorInv

(* A step that opens a generation for the events it delivers.              *)
LEMMA OpenKept ==
  ASSUME TypeOK, CursorInv, NEW g \in Generation,
         generations' = Append(generations, g), ~Decided(g),
         g.token = nextBatch', nextBatch' \in Nat, nextBatch <= nextBatch', nextBatch' <= tip,
         \A e \in 1 .. nextBatch' : e \in 1 .. nextBatch \/ e \in g.events,
         \A e \in g.events : handler'[e] = "running",
         \A e \in Event : handler[e] = "running" => handler'[e] = "running",
         tip' = tip, durable' = durable, process' = process, process # "down",
         settled' = settled, unguarded' = unguarded
  PROVE  CursorInv'
<1> USE GenerationsAre
<1>0. PICK n \in Nat : n = Len(generations)
  OBVIOUS
<1> USE <1>0
<1>1. /\ Len(generations') = n + 1
      /\ \A i \in 1 .. n : generations'[i] = generations[i]
      /\ generations'[n + 1] = g
  BY AppendProperties DEF TypeOK
<1>2. \A i \in 1 .. n + 1 : i \in 1 .. n \/ i = n + 1
  OBVIOUS
<1>3. Ordered'
  <2>1. durable' <= nextBatch' /\ nextBatch' <= tip'
    BY DEF CursorInv, Ordered
  <2>2. \A i \in 1 .. n : durable <= generations[i].token /\ generations[i].token <= nextBatch'
    BY DEF CursorInv, Ordered
  <2>3. \A i \in 1 .. n + 1 :
          durable' <= generations'[i].token /\ generations'[i].token <= nextBatch'
    BY <1>1, <1>2, <2>1, <2>2
  <2>4. \A i, j \in 1 .. n + 1 :
          i <= j => generations'[i].token <= generations'[j].token
    <3> SUFFICES ASSUME NEW i \in 1 .. n + 1, NEW j \in 1 .. n + 1, i <= j
                 PROVE  generations'[i].token <= generations'[j].token
      OBVIOUS
    <3>1. CASE j = n + 1
      BY <1>1, <2>3, <3>1
    <3>2. CASE j \in 1 .. n
      <4>1. i \in 1 .. n
        BY <3>2
      <4> QED
        BY <1>1, <3>2, <4>1 DEF CursorInv, Ordered
    <3> QED
      BY <1>2, <3>1, <3>2
  <2> QED
    BY <1>1, <2>1, <2>3, <2>4 DEF Ordered
<1>4. ASSUME NEW k \in 0 .. n, NEW e, Covered(e, k) PROVE Covered(e, k)'
  <2>1. \A j \in 1 .. k : j \in 1 .. n
    OBVIOUS
  <2> QED
    BY <1>1, <1>4, <2>1 DEF Covered
<1>5. \A e \in 1 .. nextBatch' : Covered(e, n + 1)'
  <2> SUFFICES ASSUME NEW e \in 1 .. nextBatch' PROVE Covered(e, n + 1)'
    OBVIOUS
  <2>1. CASE e \in g.events
    BY <1>1, <2>1 DEF Covered
  <2>2. CASE e \in 1 .. nextBatch
    <3>1. Covered(e, n)
      BY <2>2 DEF CursorInv, TokensCover
    <3>2. Covered(e, n)'
      BY <1>4, <3>1
    <3>3. \A j \in 1 .. n : j \in 1 .. n + 1
      OBVIOUS
    <3> QED
      BY <3>2, <3>3 DEF Covered
  <2> QED
    BY <2>1, <2>2
<1>6. TokensCover'
  <2>1. NothingSkipped'
    BY DEF CursorInv, TokensCover, NothingSkipped
  <2>2. \A i \in 1 .. n + 1 : \A e \in 1 .. generations'[i].token : Covered(e, i)'
    <3> SUFFICES ASSUME NEW i \in 1 .. n + 1, NEW e \in 1 .. generations'[i].token
                 PROVE  Covered(e, i)'
      OBVIOUS
    <3>1. CASE i = n + 1
      BY <1>1, <1>5, <3>1
    <3>2. CASE i \in 1 .. n
      <4>1. Covered(e, i)
        BY <1>1, <3>2 DEF CursorInv, TokensCover
      <4> QED
        BY <1>4, <3>2, <4>1
    <3> QED
      BY <1>2, <3>1, <3>2
  <2> QED
    BY <1>1, <1>5, <2>1, <2>2 DEF TokensCover
<1>7. AtWork'
  <2> SUFFICES ASSUME NEW i \in 1 .. n + 1
               PROVE  /\ \A e \in generations'[i].events :
                           handler'[e] = "running" \/ e \in settled'
                      /\ Decided(generations'[i]) => generations'[i].events \subseteq settled'
    BY <1>1 DEF AtWork, Decided
  <2>1. CASE i = n + 1
    BY <1>1, <2>1
  <2>2. CASE i \in 1 .. n
    BY <1>1, <2>2 DEF CursorInv, AtWork
  <2> QED
    BY <1>2, <2>1, <2>2
<1> QED
  BY <1>3, <1>6, <1>7 DEF CursorInv

(* The handlers of a generation have come to their end when it is decided, *)
(* and the flush takes away decided generations only.                      *)
LEMMA PersistKept ==
  ASSUME TypeOK, CursorInv, NEW k \in DOMAIN generations, Persist(k)
  PROVE  CursorInv' /\ durable <= durable'
<1> USE GenerationsAre
<1>0. PICK n \in Nat : n = Len(generations)
  OBVIOUS
<1> USE <1>0
<1> DEFINE gs == [generations EXCEPT ![k] = Outcome(@)]
<1>1. /\ gs \in Seq(Generation) /\ Len(gs) = n
      /\ \A i \in 1 .. n :
           /\ gs[i].token = generations[i].token
           /\ gs[i].events = generations[i].events
           /\ i # k => gs[i].state = generations[i].state
  BY DecidedIs, ZenonT(60)
<1>2. generations[k].events \subseteq settled
  BY DEF Persist, CursorInv, AtWork, Running
<1>3. /\ durable' = Saved(gs) /\ generations' = SubSeq(gs, Flushable(gs) + 1, n)
      /\ tip' = tip /\ nextBatch' = nextBatch /\ process' = process
      /\ handler' = handler /\ settled' = settled /\ unguarded' = unguarded
  BY <1>1 DEF Persist, Flush
<1> HIDE DEF gs
<1>4. PICK f \in 0 .. n : f = Flushable(gs) /\ \A i \in 1 .. f : Decided(gs[i])
  BY <1>1, FlushableIs
<1>5. \A i \in 1 .. n : Decided(gs[i]) => gs[i].events \subseteq settled
  BY <1>1, <1>2 DEF CursorInv, AtWork, Decided
<1>6. PICK m \in 0 .. f : durable' = IF m = 0 THEN durable ELSE gs[m].token
  <2>1. CASE Saved(gs) = durable
    BY <1>3, <1>4, <2>1
  <2>2. ASSUME NEW m \in 1 .. f, Saved(gs) = gs[m].token
        PROVE  \E l \in 0 .. f : durable' = IF l = 0 THEN durable ELSE gs[l].token
    BY <1>3, <1>4, <2>2
  <2> QED
    BY <1>1, <1>4, <2>1, <2>2, SavedIs
<1>7. /\ Len(generations') = n - f
      /\ \A i \in 1 .. n - f : generations'[i] = gs[f + i]
  BY <1>1, <1>3, <1>4, SubSeqProperties, SMTT(30)
<1>8. \A i \in 1 .. n - f : f + i \in 1 .. n /\ f + i > f
  BY <1>4
<1>9. m # 0 => m \in 1 .. n /\ durable' = generations[m].token
  BY <1>1, <1>4, <1>6
<1>10. durable <= durable'
  BY <1>6, <1>9 DEF CursorInv, Ordered
<1>11. \A e : Covered(e, m) => e \in settled \cup unguarded
  <2> SUFFICES ASSUME NEW e, NEW j \in 1 .. m, e \in generations[j].events
               PROVE  e \in settled
    BY DEF Covered
  <2>1. j \in 1 .. f /\ j \in 1 .. n
    BY <1>4
  <2> QED
    BY <1>1, <1>4, <1>5, <2>1
<1>12. Ordered'
  <2>1. durable' <= nextBatch' /\ nextBatch' <= tip'
    BY <1>3, <1>6, <1>9 DEF CursorInv, Ordered
  <2>2. \A i \in 1 .. n - f :
          durable' <= generations'[i].token /\ generations'[i].token <= nextBatch'
    <3> SUFFICES ASSUME NEW i \in 1 .. n - f
                 PROVE  /\ durable' <= generations[f + i].token
                        /\ generations[f + i].token <= nextBatch
      <4>1. \A i \in 1 .. n - f : generations'[i].token = generations[f + i].token
        BY <1>1, <1>7, <1>8
      <4> QED BY <1>3, <4>1
    <3>1. f + i \in 1 .. n /\ m <= f + i
      BY <1>4, <1>8
    <3> QED
      BY <1>6, <1>9, <3>1 DEF CursorInv, Ordered
  <2>3. \A i, j \in 1 .. n - f : i <= j => generations'[i].token <= generations'[j].token
    <3> SUFFICES ASSUME NEW i \in 1 .. n - f, NEW j \in 1 .. n - f, i <= j
                 PROVE  generations[f + i].token <= generations[f + j].token
      BY <1>1, <1>7, <1>8, ZenonT(60)
    <3>1. f + i \in 1 .. n /\ f + j \in 1 .. n /\ f + i <= f + j
      BY <1>4, <1>8
    <3> QED
      BY <3>1 DEF CursorInv, Ordered
  <2> QED
    BY <1>7, <2>1, <2>2, <2>3 DEF Ordered
<1>13. ASSUME NEW i \in 0 .. n - f, NEW e, Covered(e, f + i) PROVE Covered(e, i)'
  <2>1. CASE e \in settled \cup unguarded
    BY <1>3, <2>1 DEF Covered
  <2>2. ASSUME NEW j \in 1 .. f + i, e \in generations[j].events PROVE Covered(e, i)'
    <3>1. j \in 1 .. n
      BY <1>4
    <3>2. CASE j \in 1 .. f
      BY <1>1, <1>3, <1>4, <1>5, <2>2, <3>1, <3>2 DEF Covered
    <3>3. CASE j > f
      <4>1. j - f \in 1 .. i /\ j - f \in 1 .. n - f /\ f + (j - f) = j
        BY <1>4, <3>3, SMTT(30)
      <4>2. generations'[j - f].events = generations[j].events
        BY <1>1, <1>7, <3>1, <4>1
      <4> QED
        BY <2>2, <4>1, <4>2 DEF Covered
    <3> QED
      BY <1>4, <3>2, <3>3
  <2> QED
    BY <1>13, <2>1, <2>2 DEF Covered
<1>14. TokensCover'
  <2>1. NothingSkipped'
    <3> SUFFICES ASSUME NEW e \in 1 .. durable' PROVE e \in settled \cup unguarded
      BY <1>3 DEF NothingSkipped
    <3>1. CASE m = 0
      BY <1>6, <3>1 DEF CursorInv, TokensCover, NothingSkipped
    <3>2. CASE m # 0
      BY <1>9, <1>11, <3>2 DEF CursorInv, TokensCover
    <3> QED
      BY <3>1, <3>2
  <2>2. \A i \in 1 .. n - f : \A e \in 1 .. generations'[i].token : Covered(e, i)'
    <3> SUFFICES ASSUME NEW i \in 1 .. n - f, NEW e \in 1 .. generations'[i].token
                 PROVE  Covered(e, i)'
      OBVIOUS
    <3>1. f + i \in 1 .. n /\ generations'[i].token = generations[f + i].token
      BY <1>1, <1>7, <1>8
    <3>2. Covered(e, f + i)
      BY <3>1 DEF CursorInv, TokensCover
    <3> QED
      BY <1>13, <3>2
  <2>3. process' # "down" => \A e \in 1 .. nextBatch' : Covered(e, n - f)'
    <3>1. n - f \in 0 .. n - f /\ f + (n - f) = n
      BY <1>4
    <3> QED
      BY <1>3, <1>13, <3>1 DEF CursorInv, TokensCover
  <2>4. process' # "down"
    <3>1. generations # <<>>
      BY EmptySeq
    <3> QED
      BY <1>3, <3>1 DEF CursorInv, TokensCover
  <2> QED
    BY <1>7, <2>1, <2>2, <2>3, <2>4 DEF TokensCover
<1>15. AtWork'
  <2> SUFFICES ASSUME NEW i \in 1 .. n - f
               PROVE  /\ \A e \in generations'[i].events :
                           handler'[e] = "running" \/ e \in settled'
                      /\ Decided(generations'[i]) => generations'[i].events \subseteq settled'
    BY <1>7 DEF AtWork, Decided
  <2>1. f + i \in 1 .. n /\ generations'[i] = gs[f + i]
    BY <1>7, <1>8
  <2>2. \A e \in generations[f + i].events : handler[e] = "running" \/ e \in settled
    BY <2>1 DEF CursorInv, AtWork
  <2> QED
    BY <1>1, <1>3, <1>5, <2>1, <2>2
<1> QED
  BY <1>10, <1>12, <1>14, <1>15 DEF CursorInv

(* The end of a process takes the generations with it.                     *)
LEMMA DownKept ==
  ASSUME TypeOK, CursorInv, Down, durable' \in Nat, durable' <= nextBatch,
         \A e \in 1 .. durable' : e \in settled \cup unguarded'
  PROVE  CursorInv'
<1> USE GenerationsAre
<1>1. generations' = <<>> /\ Len(generations') = 0
  BY EmptySeq DEF Down
<1>2. Ordered'
  BY <1>1 DEF Down, CursorInv, Ordered
<1>3. TokensCover'
  BY <1>1 DEF Down, TokensCover, NothingSkipped
<1>4. AtWork'
  BY <1>1 DEF AtWork
<1> QED
  BY <1>2, <1>3, <1>4 DEF CursorInv

LEMMA CursorInvInductive == TypeOK /\ CursorInv /\ [Next]_vars => CursorInv'
<1> SUFFICES ASSUME TypeOK, CursorInv, [Next]_vars PROVE CursorInv'
  OBVIOUS
<1> USE GenerationsAre
<1>0. TypeOK'
  BY NextTyped
<1>1. CASE Post
  <2>1. tip' \in Nat /\ tip <= tip'
    BY <1>1 DEF Post
  <2> QED
    BY <1>0, <1>1, <2>1, FrameKept DEF Post, TypeOK
<1>2. CASE CatchUp
  <2>1. nextBatch <= nextBatch' /\ nextBatch' <= tip
    BY <1>2 DEF CatchUp, Deliver, CursorInv, Ordered
  <2>2. Ordered'
    <3>1. tip' = tip /\ durable' = durable /\ generations' = generations
      BY <1>2 DEF CatchUp
    <3>2. /\ tip \in Nat /\ nextBatch \in Nat /\ durable \in Nat
          /\ generations \in Seq(Generation)
      BY DEF TypeOK
    <3>3. nextBatch' \in Nat
      BY <1>0 DEF TypeOK
    <3>4. \A i \in 1 .. Len(generations) : generations[i] \in Generation
      BY <3>2, ElementOfSeq
    <3>5. \A i \in 1 .. Len(generations) : generations[i].token \in Nat
      BY <3>4 DEF Generation
    <3> QED
      BY <2>1, <3>1, <3>2, <3>3, <3>5 DEF CursorInv, Ordered
  <2>3. \A e \in 1 .. nextBatch' : e \in 1 .. nextBatch \/ e \in unguarded'
    BY <1>2 DEF CatchUp, Deliver
  <2>4. /\ generations' = generations /\ settled' = settled /\ durable' = durable
        /\ unguarded \subseteq unguarded' /\ process # "down" /\ process' # "down"
    BY <1>2 DEF CatchUp
  <2>5. TokensCover'
    BY <2>3, <2>4 DEF CursorInv, TokensCover, NothingSkipped, Covered
  <2>6. \A e \in Event : handler[e] = "running" => handler'[e] = "running"
    BY <1>2 DEF CatchUp, Deliver
  <2>7. AtWork'
    BY <2>4, <2>6 DEF CursorInv, AtWork
  <2> QED
    BY <2>2, <2>5, <2>7 DEF CursorInv
<1>3. CASE Sync
  <2> DEFINE g == Opened(nextBatch + 1 .. tip, tip, "pending")
  <2>1. nextBatch + 1 .. tip \subseteq Event
    <3>1. tip \in 0 .. MaxEvents /\ nextBatch \in 0 .. MaxEvents
      BY DEF TypeOK
    <3> QED
      BY <3>1, BoundsAreNatural DEF Event
  <2>2. /\ g \in Generation /\ g.token = tip /\ g.events = nextBatch + 1 .. tip
        /\ ~Decided(g)
    BY <2>1, OpenedTyped DEF Opened, Decided, TypeOK
  <2>3. \A e \in Event : handler[e] = "running" => handler'[e] = "running"
    BY <1>3 DEF Sync, Deliver
  <2>4. \A e \in g.events : handler'[e] = "running"
    BY <1>3, <2>1, <2>2 DEF Sync, Deliver
  <2>5. generations' = Append(generations, g) /\ nextBatch' = tip
    BY <1>3 DEF Sync, Deliver
  <2>6. nextBatch <= tip
    BY DEF CursorInv, Ordered
  <2> HIDE DEF g
  <2>7. \A e \in 1 .. nextBatch' : e \in 1 .. nextBatch \/ e \in g.events
    BY <2>2, <2>5
  <2>8. /\ tip' = tip /\ durable' = durable /\ process' = process /\ process # "down"
        /\ settled' = settled /\ unguarded' = unguarded
    BY <1>3 DEF Sync
  <2>9. g.token = nextBatch' /\ nextBatch' \in Nat /\ nextBatch <= nextBatch' /\ nextBatch' <= tip
    BY <1>0, <2>2, <2>5, <2>6 DEF TypeOK
  <2> QED
    BY <2>2, <2>3, <2>4, <2>5, <2>7, <2>8, <2>9, OpenKept
<1>4. CASE SyncRaises
  <2> DEFINE g == Opened({}, nextBatch, "abandoned")
  <2>1. g \in Generation /\ g.token = nextBatch /\ g.events = {} /\ ~Decided(g)
    BY OpenedTyped DEF Opened, Decided, TypeOK
  <2>2. generations' = Append(generations, g)
    BY <1>4 DEF SyncRaises
  <2>3. nextBatch <= tip
    BY DEF CursorInv, Ordered
  <2> HIDE DEF g
  <2> QED
    BY <1>4, <2>1, <2>2, <2>3, OpenKept DEF SyncRaises
<1>5. ASSUME NEW e \in Event, Ends(e, "ended") \/ Ends(e, "raised"),
             generations' = generations \/ generations' = Marked(e)
      PROVE  CursorInv'
  <2>1. \A d \in Event :
          handler[d] = "running" => handler'[d] = "running" \/ d \in settled'
    BY <1>5 DEF Ends, TypeOK
  <2>2. tip' = tip /\ nextBatch' = nextBatch /\ durable' = durable /\ process' = process
        /\ settled \subseteq settled' /\ unguarded \subseteq unguarded'
    BY <1>5 DEF Ends
  <2>3. /\ generations' \in Seq(Generation) /\ Len(generations') = Len(generations)
        /\ \A i \in 1 .. Len(generations) :
             /\ generations'[i].token = generations[i].token
             /\ generations'[i].events = generations[i].events
             /\ generations'[i].state = generations[i].state
    BY <1>5, MarkedIs DEF TypeOK
  <2> QED
    BY <2>1, <2>2, <2>3, FrameKept
<1>6. ASSUME NEW e \in Event, Handled(e) \/ BusyDropped(e) \/ Raises(e) PROVE CursorInv'
  BY <1>5, <1>6 DEF Handled, BusyDropped, Raises
<1>7. ASSUME NEW e \in Event, DoneCallback(e) PROVE CursorInv'
  <2>1. \A d \in Event : handler[d] = "running" => handler'[d] = "running"
    BY <1>7 DEF DoneCallback, TypeOK
  <2>2. tip' = tip /\ nextBatch' = nextBatch /\ durable' = durable /\ process' = process
        /\ settled' = settled /\ unguarded' = unguarded
    BY <1>7 DEF DoneCallback
  <2>3. /\ generations' \in Seq(Generation) /\ Len(generations') = Len(generations)
        /\ \A i \in 1 .. Len(generations) :
             /\ generations'[i].token = generations[i].token
             /\ generations'[i].events = generations[i].events
             /\ generations'[i].state = generations[i].state
    BY <1>7, MarkedIs DEF DoneCallback
  <2> QED
    BY <2>1, <2>2, <2>3, FrameKept
<1>8. ASSUME NEW i \in DOMAIN generations, Persist(i) PROVE CursorInv'
  BY <1>8, PersistKept
<1>9. CASE Crash
  BY <1>9, DownKept DEF Crash, CursorInv, Ordered, TokensCover, NothingSkipped
<1>10. CASE Stop
  <2>1. \A e \in 1 .. nextBatch : e \in settled \cup unguarded'
    <3> SUFFICES ASSUME NEW e \in 1 .. nextBatch PROVE e \in settled \cup unguarded'
      OBVIOUS
    <3>1. Covered(e, Len(generations))
      BY <1>10 DEF Stop, CursorInv, TokensCover
    <3> QED
      BY <1>10, <3>1 DEF Stop, Covered, CursorInv, AtWork, Running
  <2> QED
    BY <1>10, <2>1, DownKept DEF Stop
<1>11. CASE Restart
  <2>1. generations = <<>> /\ Len(generations) = 0
    BY <1>11, EmptySeq DEF Restart, CursorInv, TokensCover
  <2>2. Ordered'
    BY <1>11, <2>1 DEF Restart, CursorInv, Ordered
  <2>3. TokensCover'
    BY <1>11, <2>1 DEF Restart, CursorInv, TokensCover, NothingSkipped, Covered
  <2>4. AtWork'
    BY <1>11, <2>1 DEF Restart, AtWork
  <2> QED
    BY <2>2, <2>3, <2>4 DEF CursorInv
<1>12. CASE UNCHANGED vars
  BY <1>12 DEF vars, CursorInv, Ordered, TokensCover, AtWork, NothingSkipped, Covered
<1>13. CASE CrashInFlush
  <2>1. \A e \in 1 .. nextBatch : e \in settled \cup unguarded'
    <3> SUFFICES ASSUME NEW e \in 1 .. nextBatch PROVE e \in settled \cup unguarded'
      OBVIOUS
    <3>1. Covered(e, Len(generations))
      BY <1>13 DEF CrashInFlush, CursorInv, TokensCover
    <3> QED
      BY <1>13, <3>1 DEF CrashInFlush, Covered, CursorInv, AtWork, Running
  <2>2. Down /\ durable' = nextBatch
    BY <1>13 DEF CrashInFlush
  <2> QED
    BY <2>1, <2>2, DownKept
<1> QED
  BY <1>1, <1>2, <1>3, <1>4, <1>6, <1>7, <1>8, <1>9, <1>10, <1>11, <1>12, <1>13
  DEF Next, HandlerStep

LEMMA CursorInvariant == Spec => [](TypeOK /\ CursorInv)
<1>1. Init => TypeOK /\ CursorInv
  BY InitTyped, InitCursor
<1>2. TypeOK /\ CursorInv /\ [Next]_vars => (TypeOK /\ CursorInv)'
  BY NextTyped, CursorInvInductive
<1> QED
  BY <1>1, <1>2, PTL DEF Spec, Safety

(* The saved token covers no event of the loop whose handler has not come  *)
(* to an end, for any number of events, failed syncs and crashes.          *)
THEOREM NothingIsSkipped == Spec => []NothingSkipped
<1>1. CursorInv => NothingSkipped
  BY DEF CursorInv, TokensCover
<1> QED
  BY <1>1, CursorInvariant, PTL

LEMMA DurableGrows ==
  ASSUME TypeOK, CursorInv, [Next]_vars
  PROVE  durable' >= durable
<1> USE GenerationsAre
<1>1. ASSUME NEW i \in DOMAIN generations, Persist(i) PROVE durable' >= durable
  BY <1>1, PersistKept, NextTyped, BoundsAreNatural DEF TypeOK
<1>2. CASE Stop \/ CrashInFlush
  BY <1>2 DEF Stop, CrashInFlush, CursorInv, Ordered
<1>3. CASE durable' = durable
  BY <1>3
<1>4. ASSUME NEW e \in Event, HandlerStep(e) PROVE durable' = durable
  BY <1>4 DEF HandlerStep, Handled, BusyDropped, Raises, DoneCallback, Ends
<1> QED
  BY <1>1, <1>2, <1>3, <1>4
  DEF Next, Post, CatchUp, Sync, SyncRaises, Crash, Restart, vars

(* The saved token never goes back, however generations finish.            *)
THEOREM CursorIsMonotone == Spec => CursorNeverGoesBack
<1>1. TypeOK /\ CursorInv /\ [Next]_vars => [durable' >= durable]_vars
  BY DurableGrows
<1> QED
  BY <1>1, CursorInvariant, PTL DEF Spec, Safety, CursorNeverGoesBack

-----------------------------------------------------------------------------
(* What an orderly stop leaves behind is behind the saved token.           *)
StopSaved == \A e \in stopped : e \in 1 .. durable

LEMMA StopSavedKept ==
  ASSUME TypeOK, CursorInv, StopSaved, [Next]_vars
  PROVE  StopSaved'
<1> USE GenerationsAre
<1>1. CASE Stop
  BY <1>1 DEF Stop, StopSaved
<1>2. CASE stopped' = stopped
  <2>1. durable' \in Nat /\ durable' >= durable
    BY DurableGrows, NextTyped, BoundsAreNatural, SMTT(30) DEF TypeOK
  <2> QED
    BY <1>2, <2>1 DEF StopSaved
<1>3. ASSUME NEW e \in Event, HandlerStep(e) PROVE stopped' = stopped
  BY <1>3 DEF HandlerStep, Handled, BusyDropped, Raises, DoneCallback, Ends
<1>4. ASSUME NEW i \in DOMAIN generations, Persist(i) PROVE stopped' = stopped
  BY <1>4 DEF Persist
<1> QED
  BY <1>1, <1>2, <1>3, <1>4
  DEF Next, Post, CatchUp, Sync, SyncRaises, Crash, CrashInFlush, Restart, vars

(* What was delivered before an orderly stop is not delivered again.       *)
THEOREM StopIsForGood == Spec => StopIsNotReplayed
<1> DEFINE Replayed(e) == handler'[e] = "running" /\ handler[e] = "none"
<1>1. TypeOK /\ CursorInv /\ StopSaved /\ [Next]_vars
        => [\A e \in Event : Replayed(e) => e \notin stopped]_vars
  <2> SUFFICES ASSUME TypeOK, CursorInv, StopSaved, Next, NEW e \in Event, Replayed(e)
               PROVE  e \notin stopped
    OBVIOUS
  <2> USE GenerationsAre
  <2>1. CASE CatchUp \/ Sync
    <3>1. e \in nextBatch + 1 .. tip
      BY <2>1 DEF CatchUp, Sync, Deliver
    <3> QED
      BY <3>1 DEF StopSaved, CursorInv, Ordered
  <2>2. ASSUME NEW d \in Event, HandlerStep(d) PROVE FALSE
    BY <2>2 DEF HandlerStep, Handled, BusyDropped, Raises, DoneCallback, Ends, TypeOK
  <2>3. ASSUME NEW i \in DOMAIN generations, Persist(i) PROVE FALSE
    BY <2>3 DEF Persist
  <2>4. CASE Crash \/ CrashInFlush \/ Stop
    BY <2>4 DEF Crash, CrashInFlush, Stop, Down
  <2>5. CASE Post \/ SyncRaises \/ Restart
    BY <2>5 DEF Post, SyncRaises, Restart
  <2> QED
    BY <2>1, <2>2, <2>3, <2>4, <2>5 DEF Next
<1>2. Init => StopSaved
  BY DEF Init, StopSaved
<1>3. TypeOK /\ CursorInv /\ StopSaved /\ [Next]_vars => StopSaved'
  BY StopSavedKept
<1> QED
  BY <1>1, <1>2, <1>3, CursorInvariant, PTL DEF Spec, Safety, StopIsNotReplayed
=============================================================================
