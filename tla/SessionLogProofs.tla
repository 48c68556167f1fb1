-------------------------- MODULE SessionLogProofs --------------------------
(***************************************************************************)
(* Proofs about SessionLog: a replay is exact whatever the checkpoint      *)
(* holds, the recorder's cursor is the projection of the tape, and what a  *)
(* turn said is on the tape or told.                                       *)
(***************************************************************************)
EXTENDS SessionLog, SequenceTheorems, FiniteSetTheorems, TLAPS

-----------------------------------------------------------------------------
(* Events and tapes                                                         *)

LEMMA EventsAreTyped ==
  /\ \A m \in Nat : Said(m) \in Event /\ Said(m).kind = "message" /\ Said(m).val = m
  /\ \A k \in Nat : Shadow(k) \in Event /\ Shadow(k).kind = "shadow" /\ Shadow(k).val = k
  /\ Meta \in Event /\ Meta.kind = "meta"
  /\ Foreign \in Event /\ Foreign.kind = "foreign"
  BY DEF Said, Shadow, Meta, Foreign, Event

LEMMA MainInTape ==
  ASSUME NEW T \in Seq(Event)
  PROVE  Main(T) \subseteq 1..Len(T)
  BY LenProperties DEF Main

LEMMA ProjectInTape ==
  ASSUME NEW T \in Seq(Event), NEW R, R \subseteq Main(T)
  PROVE  Project(T, R) \subseteq R /\ Project(T, R) \subseteq 1..Len(T)
  BY MainInTape DEF Project

LEMMA TailReadInTape ==
  ASSUME NEW T \in Seq(Event), NEW n \in Nat
  PROVE  TailRead(T, n) \subseteq Main(T)
  BY DEF TailRead

\* A tape that grew keeps what it held.
LEMMA Grown ==
  ASSUME NEW T \in Seq(Event), NEW B \in Seq(Event), NEW U, U = T \o B
  PROVE  /\ U \in Seq(Event) /\ Len(U) = Len(T) + Len(B)
         /\ Len(T) \in Nat /\ Len(B) \in Nat
         /\ \A i \in 1..Len(T) : U[i] = T[i]
         /\ \A i \in 1..Len(B) : U[Len(T) + i] = B[i]
<1>1. U \in Seq(Event) /\ Len(U) = Len(T) + Len(B)
      /\ \A i \in 1..(Len(T) + Len(B)) : U[i] = IF i <= Len(T) THEN T[i] ELSE B[i - Len(T)]
  BY ConcatProperties
<1>2. Len(T) \in Nat /\ Len(B) \in Nat
  BY LenProperties
<1> QED BY <1>1, <1>2

LEMMA MainGrows ==
  ASSUME NEW T \in Seq(Event), NEW B \in Seq(Event), NEW U, U = T \o B
  PROVE  \A i \in 1..Len(T) : i \in Main(U) <=> i \in Main(T)
<1>1. DOMAIN T = 1..Len(T)
  BY LenProperties
<1>2. DOMAIN U = 1..(Len(T) + Len(B)) /\ Len(T) \in Nat /\ Len(B) \in Nat
  BY Grown, LenProperties
<1>3. \A i \in 1..Len(T) : U[i] = T[i]
  BY Grown
<1> QED BY <1>1, <1>2, <1>3 DEF Main

\* A tape that is undivided was so all along.
LEMMA UndividedBefore ==
  ASSUME NEW T \in Seq(Event), NEW B \in Seq(Event), NEW U, U = T \o B, Undivided(U)
  PROVE  Undivided(T)
<1> SUFFICES ASSUME NEW j \in DOMAIN T, T[j].kind = "foreign",
                    NEW i \in Main(T), NEW k \in Main(T), i < j, j < k
             PROVE  FALSE
  BY DEF Undivided
<1>1. DOMAIN T = 1..Len(T) /\ DOMAIN U = 1..Len(U) /\ Len(U) = Len(T) + Len(B)
      /\ Len(T) \in Nat /\ Len(B) \in Nat
  BY Grown, LenProperties
<1>2. i \in 1..Len(T) /\ k \in 1..Len(T)
  BY MainInTape
<1>3. i \in Main(U) /\ k \in Main(U)
  BY <1>2, MainGrows
<1>4. j \in DOMAIN U /\ U[j].kind = "foreign"
  BY <1>1, Grown
<1> QED BY <1>3, <1>4 DEF Undivided

-----------------------------------------------------------------------------
(* Types                                                                    *)

LEMMA SingleSeq ==
  ASSUME NEW S, NEW x \in S
  PROVE  <<x>> \in Seq(S)
  OBVIOUS

LEMMA WiderSeq ==
  ASSUME NEW S, NEW R \in SUBSET S, NEW s \in Seq(R)
  PROVE  s \in Seq(S)
<1>1. Len(s) \in Nat /\ s = [i \in 1..Len(s) |-> s[i]]
  BY LenProperties
<1>2. \A i \in 1..Len(s) : s[i] \in S
  BY ElementOfSeq
<1>3. [i \in 1..Len(s) |-> s[i]] \in Seq(S)
  BY <1>1, <1>2
<1> QED BY <1>1, <1>3

LEMMA PrefixTyped ==
  ASSUME NEW S, NEW s \in Seq(S), NEW k \in Nat, NEW n \in Int, n <= Len(s), k > 0
  PROVE  SubSeq(s, k, n) \in Seq(S)
<1>1. Len(s) \in Nat
  BY LenProperties
<1>2. \A i \in k..n : s[i] \in S
  BY <1>1, ElementOfSeq
<1> QED BY <1>2, SubSeqProperties

LEMMA CountUp ==
  ASSUME NEW k \in Nat, NEW b \in Nat
  PROVE  [n \in 1..k |-> b + n] \in Seq(Nat)
<1>1. \A n \in 1..k : b + n \in Nat
  OBVIOUS
<1> QED BY <1>1

LEMMA BatchTyped ==
  ASSUME TypeOK, NEW s \in Seq(Nat), NEW c \in Nat, c <= Len(keys), c <= Len(seqs), c <= Len(s)
  PROVE  Batch(s, c) \in Seq(Event) /\ Len(s) - c <= Len(Batch(s, c))
<1>1. Len(s) \in Nat /\ Len(keys) \in Nat /\ Len(seqs) \in Nat
  BY LenProperties DEF TypeOK
<1>2. \A n \in 1..(Len(s) - c) : Said(s[c + n]) \in Event
  <2> TAKE n \in 1..(Len(s) - c)
  <2>1. c + n \in 1..Len(s)
    BY <1>1
  <2>2. s[c + n] \in Nat
    BY <2>1, ElementOfSeq
  <2> QED BY <2>2, EventsAreTyped
<1> DEFINE rest == [n \in 1..(Len(s) - c) |-> Said(s[c + n])]
           shadow == IF c < Len(keys) THEN <<Shadow(IF c = 0 THEN 0 ELSE seqs[c])>> ELSE <<>>
<1>3. rest \in Seq(Event) /\ Len(rest) = Len(s) - c
  <2>1. Len(s) - c \in Nat
    BY <1>1
  <2> QED BY <1>2, <2>1
<1>4. (IF c = 0 THEN 0 ELSE seqs[c]) \in Nat
  <2>1. CASE c = 0
    BY <2>1
  <2>2. CASE c # 0
    <3>1. c \in 1..Len(seqs)
      BY <1>1, <2>2
    <3> QED BY <3>1, <2>2, ElementOfSeq DEF TypeOK
  <2> QED BY <2>1, <2>2
<1>5. Shadow(IF c = 0 THEN 0 ELSE seqs[c]) \in Event
  BY <1>4, EventsAreTyped
<1>6. shadow \in Seq(Event)
  BY <1>5, SingleSeq, EmptySeq
<1>7. Len(shadow) \in Nat
  BY <1>6, LenProperties
<1>8. Batch(s, c) = shadow \o rest
  BY DEF Batch
<1> HIDE DEF shadow, rest
<1>9. shadow \o rest \in Seq(Event) /\ Len(shadow \o rest) = Len(shadow) + Len(rest)
  BY <1>3, <1>6, ConcatProperties
<1> QED BY <1>1, <1>3, <1>7, <1>8, <1>9

LEMMA RecoveredInTape ==
  ASSUME TypeOK, checkpoint.kept \subseteq 1..Len(tape)
  PROVE  Recovered \subseteq 1..Len(tape)
<1>1. checkpoint.last \in Nat /\ tape \in Seq(Event)
  BY DEF TypeOK
<1>2. TailRead(tape, 0) \subseteq Main(tape) /\ Increment \subseteq Main(tape)
  BY <1>1, TailReadInTape DEF Increment
<1>3. Project(tape, TailRead(tape, 0)) \subseteq 1..Len(tape)
      /\ Project(tape, Increment) \subseteq 1..Len(tape)
  BY <1>1, <1>2, ProjectInTape
<1> QED BY <1>3 DEF Recovered

\* The order of a finite set of positions: InOrder lists S from its least
\* element to its greatest.
LEMMA RankGrows ==
  ASSUME NEW S \in SUBSET Nat, IsFiniteSet(S), NEW i \in S, NEW j \in S, i < j
  PROVE  Rank(S, i) \in 1..Cardinality(S) /\ Rank(S, i) < Rank(S, j)
<1> DEFINE A == {x \in S : x <= i}
           B == {x \in S : x <= j}
<1>1. IsFiniteSet(A) /\ IsFiniteSet(B) /\ Cardinality(A) <= Cardinality(S)
  BY FS_Subset
<1>2. Cardinality(A) \in Nat /\ Cardinality(B) \in Nat /\ Cardinality(S) \in Nat
  BY <1>1, FS_CardinalityType
<1>3. A \in SUBSET B /\ j \in B /\ j \notin A /\ i \in A
  <2>1. i \in Nat /\ j \in Nat /\ \A x \in S : x \in Nat
    OBVIOUS
  <2>2. \A x \in S : x <= i => x <= j
    BY <2>1
  <2>3. A \subseteq B
    BY <2>2
  <2>4. i \in A /\ j \in B
    BY <2>1
  <2>5. j \notin A
    BY <2>1
  <2> QED BY <2>3, <2>4, <2>5
<1>4. Cardinality(A) <= Cardinality(B) /\ Cardinality(A) # Cardinality(B)
  BY <1>1, <1>3, FS_Subset
<1>5. Cardinality(A) # 0
  BY <1>1, <1>3, FS_EmptySet
<1> QED BY <1>1, <1>2, <1>4, <1>5 DEF Rank

LEMMA RankBounds ==
  ASSUME NEW S \in SUBSET Nat, IsFiniteSet(S), NEW i \in S
  PROVE  Rank(S, i) \in 1..Cardinality(S)
<1> DEFINE A == {x \in S : x <= i}
<1>1. IsFiniteSet(A) /\ Cardinality(A) <= Cardinality(S)
  BY FS_Subset
<1>2. Cardinality(A) \in Nat /\ Cardinality(S) \in Nat
  BY <1>1, FS_CardinalityType
<1>3. Cardinality(A) # 0
  BY <1>1, FS_EmptySet
<1> QED BY <1>1, <1>2, <1>3 DEF Rank

LEMMA EveryRankIsTaken ==
  ASSUME NEW S \in SUBSET Nat, IsFiniteSet(S)
  PROVE  /\ Cardinality(S) \in Nat
         /\ \A n \in 1..Cardinality(S) : \E i \in S : Rank(S, i) = n
<1> DEFINE f == [i \in S |-> Rank(S, i)]
           n == Cardinality(S)
<1>1. n \in Nat
  BY FS_CardinalityType
<1>2. f \in [S -> 1..n]
  BY RankBounds
<1>3. \A i, j \in S : i # j => f[i] # f[j]
  <2> TAKE i \in S, j \in S
  <2>1. CASE i < j
    BY <2>1, RankGrows, RankBounds, <1>1
  <2>2. CASE j < i
    BY <2>2, RankGrows, RankBounds, <1>1
  <2> QED BY <2>1, <2>2
<1>4. f \in Injection(S, 1..n)
  BY <1>2, <1>3 DEF Injection, IsInjective
<1>5. IsFiniteSet(1..n) /\ Cardinality(1..n) = n
  BY <1>1, FS_Interval
<1>6. f \in Surjection(S, 1..n)
  BY <1>4, <1>5, FS_Injection
<1> QED BY <1>1, <1>6 DEF Surjection

LEMMA OrderIsRight ==
  ASSUME NEW S \in SUBSET Nat, IsFiniteSet(S), NEW s, s = InOrder(S)
  PROVE  s \in Seq(S) /\ Ascending(s) /\ ImageOf(s) = S
<1>1. Cardinality(S) \in Nat
  BY EveryRankIsTaken
<1>2. DOMAIN s = 1..Cardinality(S)
  BY DEF InOrder
<1>3. \A n \in 1..Cardinality(S) : s[n] \in S /\ Rank(S, s[n]) = n
  BY EveryRankIsTaken DEF InOrder
<1>4. s \in [1..Cardinality(S) -> S]
  BY <1>3 DEF InOrder
<1>5. s \in Seq(S)
  BY <1>1, <1>4
<1>6. Ascending(s)
  <2> SUFFICES ASSUME NEW m \in 1..Cardinality(S), NEW n \in 1..Cardinality(S), m < n
               PROVE  s[m] < s[n]
    BY <1>2 DEF Ascending
  <2>1. s[m] \in S /\ s[n] \in S /\ Rank(S, s[m]) = m /\ Rank(S, s[n]) = n
    BY <1>3
  <2>2. CASE s[n] < s[m]
    <3>1. Rank(S, s[n]) < Rank(S, s[m])
      BY <2>1, <2>2, RankGrows
    <3>2. m \in Nat /\ n \in Nat
      BY <1>1
    <3> QED BY <2>1, <3>1, <3>2
  <2>3. CASE s[n] = s[m]
    BY <2>1, <2>3
  <2>4. s[m] \in Nat /\ s[n] \in Nat
    BY <2>1
  <2> QED BY <2>2, <2>3, <2>4
<1>7. ImageOf(s) = S
  <2>1. ImageOf(s) \subseteq S
    BY <1>2, <1>3 DEF ImageOf
  <2>2. ASSUME NEW i \in S
        PROVE  i \in ImageOf(s)
    <3>1. Rank(S, i) \in 1..Cardinality(S)
      BY RankBounds
    <3>2. PICK k \in S : k = s[Rank(S, i)] /\ Rank(S, k) = Rank(S, i)
      BY <3>1, <1>3
    <3>3. k = i
      BY <3>2, RankGrows, RankBounds, <1>1
    <3> QED BY <3>1, <3>2, <3>3, <1>2 DEF ImageOf
  <2> QED BY <2>1, <2>2
<1> QED BY <1>5, <1>6, <1>7

-----------------------------------------------------------------------------
(* The state stays well formed                                              *)

\* What a thread is about to write covers the rest of its snapshot.
PlanFits ==
  \A p \in Thread : at[p] = "append" =>
    /\ plan[p].common <= Len(snap[p])
    /\ Len(snap[p]) - plan[p].common <= Len(plan[p].batch)

CheckpointFits == checkpoint.last <= Len(tape) /\ checkpoint.kept \subseteq 1..Len(tape)

Fits == TypeOK /\ PlanFits /\ CheckpointFits

LEMMA InitFits == Init => Fits
<1> SUFFICES ASSUME Init PROVE Fits
  OBVIOUS
<1>1. <<Seed>> \in Seq(Nat) /\ <<>> \in Seq(Nat) /\ <<>> \in Seq(Event) /\ <<>> \in Seq(Seq(Nat))
  BY SingleSeq, EmptySeq DEF Seed
<1>2. Len(<<>>) = 0
  OBVIOUS
<1>3. at \in [Thread -> Place] /\ snap \in [Thread -> Seq(Nat)]
      /\ plan \in [Thread -> [common: Nat, batch: Seq(Event)]]
  BY <1>1 DEF Init, Place, NoPlan
<1>4. TypeOK
  BY <1>1, <1>3 DEF Init, TypeOK
<1>5. PlanFits /\ CheckpointFits
  BY <1>2 DEF Init, PlanFits, CheckpointFits
<1> QED BY <1>4, <1>5 DEF Fits

LEMMA EnterFits ==
  ASSUME Fits, NEW p \in Thread, Enter(p)
  PROVE  Fits'
<1> USE DEF Fits, disk, counted
<1>1. UNCHANGED <<tape, checkpoint, marker, loaded, history, keys, seqs, plan, turn, janitor, next, said, saves, troubles>>
  BY DEF Enter
<1>2. snap[p] \in Seq(Nat) /\ <<>> \in Seq(Nat)
  BY EmptySeq DEF TypeOK
<1>3. /\ pending' \in Seq(Seq(Nat)) /\ syncing' \in BOOLEAN
      /\ snap' \in [Thread -> Seq(Nat)] /\ at' \in [Thread -> Place]
      /\ mishaps' \subseteq {"stale", "failed", "torn", "reset", "marker", "handed", "cut", "unread"}
  <2>1. CASE HandOver(p)
    BY <2>1, <1>2, SingleSeq DEF Enter, HandOver, TypeOK, Place
  <2>2. CASE ~HandOver(p)
    BY <2>2 DEF Enter, TypeOK, Place
  <2> QED BY <2>1, <2>2
<1>4. TypeOK'
  BY <1>1, <1>3 DEF TypeOK
<1>5. \A q \in Thread : at'[q] = "append" => at[q] = "append" /\ snap'[q] = snap[q]
  BY DEF Enter, HandOver, TypeOK
<1> QED BY <1>1, <1>4, <1>5 DEF PlanFits, CheckpointFits

LEMMA DiffFits ==
  ASSUME Fits, NEW p \in Thread, Diff(p)
  PROVE  Fits'
<1> USE DEF Fits, disk, counted
<1>1. UNCHANGED <<tape, checkpoint, marker, loaded, history, keys, seqs, pending, turn, janitor, next, said, mishaps, saves, troubles>>
  BY DEF Diff
<1>2. snap[p] \in Seq(Nat) /\ <<>> \in Seq(Nat) /\ Len(snap[p]) \in Nat /\ Len(keys) \in Nat
      /\ Len(seqs) \in Nat
  BY EmptySeq, LenProperties DEF TypeOK
<1>3. CASE UNCHANGED <<syncing, snap, plan>> /\ at' = [at EXCEPT ![p] = "tail"]
  BY <1>1, <1>3 DEF TypeOK, PlanFits, CheckpointFits, Place
<1>4. CASE syncing' = FALSE /\ snap' = [snap EXCEPT ![p] = <<>>] /\ at' = [at EXCEPT ![p] = "idle"]
           /\ plan' = plan
  <2>1. TypeOK'
    BY <1>1, <1>2, <1>4 DEF TypeOK, Place
  <2>2. \A q \in Thread : at'[q] = "append" => at[q] = "append" /\ snap'[q] = snap[q]
    BY <1>4 DEF TypeOK
  <2> QED BY <1>1, <1>4, <2>1, <2>2 DEF PlanFits, CheckpointFits
<1>5. CASE \E c \in 0..Len(keys) : c <= Len(seqs) /\ Agree(snap[p], c)
             /\ at' = [at EXCEPT ![p] = "append"] /\ UNCHANGED <<syncing, snap>>
             /\ plan' = [plan EXCEPT ![p] = [common |-> c, batch |-> Batch(snap[p], c)]]
  <2> PICK c \in 0..Len(keys) :
             /\ c <= Len(seqs) /\ Agree(snap[p], c)
             /\ at' = [at EXCEPT ![p] = "append"] /\ UNCHANGED <<syncing, snap>>
             /\ plan' = [plan EXCEPT ![p] = [common |-> c, batch |-> Batch(snap[p], c)]]
    BY <1>5
  <2>1. c \in Nat /\ c <= Len(keys) /\ c <= Len(seqs) /\ c <= Len(snap[p])
    BY <1>2 DEF Agree
  <2>2. Batch(snap[p], c) \in Seq(Event) /\ Len(snap[p]) - c <= Len(Batch(snap[p], c))
    BY <1>2, <2>1, BatchTyped
  <2>3. [common |-> c, batch |-> Batch(snap[p], c)] \in [common: Nat, batch: Seq(Event)]
    BY <2>1, <2>2
  <2>4. plan' \in [Thread -> [common: Nat, batch: Seq(Event)]]
    BY <2>3 DEF TypeOK
  <2>5. at' \in [Thread -> Place]
    BY DEF TypeOK, Place
  <2>6. TypeOK'
    BY <1>1, <2>4, <2>5 DEF TypeOK
  <2>7. PlanFits'
    <3> SUFFICES ASSUME NEW q \in Thread, at'[q] = "append"
                 PROVE  /\ plan'[q].common <= Len(snap'[q])
                        /\ Len(snap'[q]) - plan'[q].common <= Len(plan'[q].batch)
      BY DEF PlanFits
    <3>1. CASE q = p
      <4>1. plan'[q] = [common |-> c, batch |-> Batch(snap[p], c)] /\ snap'[q] = snap[p]
        BY <3>1 DEF TypeOK
      <4> QED BY <4>1, <2>1, <2>2
    <3>2. CASE q # p
      <4>1. plan'[q] = plan[q] /\ snap'[q] = snap[q] /\ at[q] = "append"
        BY <3>2 DEF TypeOK
      <4> QED BY <4>1 DEF PlanFits
    <3> QED BY <3>1, <3>2
  <2> QED BY <1>1, <2>6, <2>7 DEF CheckpointFits
<1> QED BY <1>3, <1>4, <1>5 DEF Diff

\* The tape grows by typed events, the checkpoint stays.
LEMMA CheckpointStays ==
  ASSUME Fits, NEW B \in Seq(Event), tape' = tape \o B, UNCHANGED checkpoint
  PROVE  CheckpointFits' /\ tape' \in Seq(Event) /\ checkpoint' \in [last: Nat, kept: SUBSET Nat]
<1>1. tape \in Seq(Event) /\ checkpoint \in [last: Nat, kept: SUBSET Nat]
  BY DEF Fits, TypeOK
<1>2. tape' \in Seq(Event) /\ Len(tape') = Len(tape) + Len(B) /\ Len(tape) \in Nat /\ Len(B) \in Nat
  BY <1>1, Grown
<1> QED BY <1>1, <1>2 DEF Fits, CheckpointFits

LEMMA WriteFits ==
  ASSUME Fits, NEW p \in Thread, Write(p)
  PROVE  /\ Fits'
         /\ \E B \in Seq(Event) : tape' = tape \o B
<1>1. UNCHANGED <<checkpoint, marker, loaded, history, syncing, pending, snap, turn, janitor, next, said, saves>>
      /\ at' = [at EXCEPT ![p] = "tail"] /\ plan' = [plan EXCEPT ![p] = NoPlan] /\ at[p] = "append"
  BY DEF Write
<1>2. TypeOK /\ PlanFits /\ tape \in Seq(Event) /\ plan[p].batch \in Seq(Event) /\ snap[p] \in Seq(Nat)
      /\ plan[p].common \in Nat /\ Len(snap[p]) \in Nat /\ Len(plan[p].batch) \in Nat
      /\ Len(tape) \in Nat /\ Len(seqs) \in Nat /\ seqs \in Seq(Nat)
  BY LenProperties DEF Fits, TypeOK
<1>3. at' \in [Thread -> Place] /\ plan' \in [Thread -> [common: Nat, batch: Seq(Event)]]
  BY <1>1, <1>2, EmptySeq DEF TypeOK, Place, NoPlan
<1>4. PlanFits'
  BY <1>1, <1>2 DEF PlanFits, TypeOK
<1>5. troubles' \in Nat
  <2>1. troubles' = troubles \/ troubles' = troubles + 1
    BY DEF Write, Written, Failed, Works, Fails, Troubled
  <2>2. troubles \in Nat
    BY <1>2 DEF TypeOK
  <2> QED BY ONLY <2>1, <2>2
<1>6. CASE Written(p)
  <2> DEFINE new == Len(snap[p]) - plan[p].common
             kept == IF plan[p].common <= Len(seqs) THEN plan[p].common ELSE Len(seqs)
             fresh == [n \in 1..new |-> Len(tape') - new + n]
  <2>1. tape' = tape \o plan[p].batch /\ keys' = snap[p] /\ seqs' = SubSeq(seqs, 1, kept) \o fresh
        /\ mishaps' = mishaps \cup Undone(tape')
    BY <1>6 DEF Written
  <2>2. Len(tape') = Len(tape) + Len(plan[p].batch)
    <3>1. \A B \in Seq(Event) : Len(tape \o B) = Len(tape) + Len(B)
      BY ONLY <1>2
    <3> QED BY <1>2, <2>1, <3>1
  <2>3. new \in Nat /\ new <= Len(plan[p].batch) /\ kept \in Nat /\ kept <= Len(seqs)
    BY <1>1, <1>2 DEF PlanFits
  <2>4. Len(tape') - new \in Nat
    BY <1>2, <2>2, <2>3
  <2>5. fresh \in Seq(Nat)
    <3> HIDE DEF new
    <3> QED BY <2>3, <2>4, CountUp
  <2>6. SubSeq(seqs, 1, kept) \in Seq(Nat)
    BY <1>2, <2>3, PrefixTyped
  <2>7. seqs' \in Seq(Nat)
    <3> HIDE DEF fresh, kept
    <3> QED BY <2>1, <2>5, <2>6, ConcatProperties
  <2>8. mishaps' \subseteq {"stale", "failed", "torn", "reset", "marker", "handed", "cut", "unread"}
    BY <2>1, <1>2 DEF Undone, TypeOK
  <2>9. CheckpointFits' /\ tape' \in Seq(Event) /\ checkpoint' \in [last: Nat, kept: SUBSET Nat]
    BY <1>1, <1>2, <2>1, CheckpointStays
  <2>10. TypeOK'
    BY <1>1, <1>2, <1>3, <1>5, <2>1, <2>7, <2>8, <2>9 DEF TypeOK
  <2> QED BY <1>2, <1>4, <2>1, <2>9, <2>10 DEF Fits
<1>7. CASE Failed(p)
  <2>1. PICK n \in 0..(Len(plan[p].batch) - 1) :
          /\ tape' = tape \o SubSeq(plan[p].batch, 1, n)
          /\ mishaps' = mishaps \cup {"failed"} \cup (IF n > 0 THEN {"torn"} ELSE {})
          /\ UNCHANGED <<keys, seqs>>
    BY <1>7 DEF Failed
  <2>2. SubSeq(plan[p].batch, 1, n) \in Seq(Event)
    BY <1>2, PrefixTyped
  <2>3. CheckpointFits' /\ tape' \in Seq(Event) /\ checkpoint' \in [last: Nat, kept: SUBSET Nat]
    BY <1>1, <2>1, <2>2, CheckpointStays
  <2>4. mishaps' \subseteq {"stale", "failed", "torn", "reset", "marker", "handed", "cut", "unread"}
    BY <1>2, <2>1 DEF TypeOK
  <2>5. TypeOK'
    BY <1>1, <1>2, <1>3, <1>5, <2>1, <2>3, <2>4 DEF TypeOK
  <2> QED BY <1>4, <2>1, <2>2, <2>3, <2>5 DEF Fits
<1> QED BY <1>6, <1>7 DEF Write

LEMMA DrainFits ==
  ASSUME Fits, NEW p \in Thread, Drain(p)
  PROVE  Fits'
<1> USE DEF Fits, disk, counted
<1>1. UNCHANGED <<tape, checkpoint, marker, loaded, history, keys, seqs, plan, turn, janitor, next, said, mishaps, saves, troubles>>
  BY DEF Drain
<1>2. /\ pending' \in Seq(Seq(Nat)) /\ syncing' \in BOOLEAN
      /\ snap' \in [Thread -> Seq(Nat)] /\ at' \in [Thread -> Place]
  <2>1. <<>> \in Seq(Nat) /\ <<>> \in Seq(Seq(Nat))
    BY EmptySeq
  <2>2. CASE pending # <<>>
    <3>1. pending[1] \in Seq(Nat)
      BY <2>2 DEF TypeOK
    <3>2. pending' = <<>> /\ snap' = [snap EXCEPT ![p] = pending[1]]
          /\ at' = [at EXCEPT ![p] = "diff"] /\ UNCHANGED syncing
      BY <2>2 DEF Drain
    <3> QED BY <2>1, <3>1, <3>2 DEF TypeOK, Place
  <2>3. CASE pending = <<>>
    BY <2>1, <2>3, ZenonT(60) DEF Drain, TypeOK, Place
  <2> QED BY <2>2, <2>3
<1>3. TypeOK'
  BY <1>1, <1>2 DEF TypeOK
<1>4. \A q \in Thread : at'[q] = "append" => at[q] = "append" /\ snap'[q] = snap[q]
  BY DEF Drain, TypeOK
<1> QED BY <1>1, <1>3, <1>4 DEF PlanFits, CheckpointFits

LEMMA LeaveFits ==
  ASSUME Fits, NEW p \in Thread, Leave(p)
  PROVE  Fits'
<1> USE DEF Fits, disk, counted
<1>1. UNCHANGED <<tape, checkpoint, marker, loaded, history, keys, seqs, pending, snap, plan, turn, janitor, next, said, saves, troubles>>
      /\ at' = [at EXCEPT ![p] = "meta"] /\ syncing' = FALSE
  BY DEF Leave
<1>2. mishaps' \subseteq {"stale", "failed", "torn", "reset", "marker", "handed", "cut", "unread"}
  BY DEF Leave, TypeOK
<1>3. at' \in [Thread -> Place]
  BY <1>1 DEF TypeOK, Place
<1>4. TypeOK'
  BY <1>1, <1>2, <1>3 DEF TypeOK
<1>5. \A q \in Thread : at'[q] = "append" => at[q] = "append"
  BY <1>1 DEF TypeOK
<1> QED BY <1>1, <1>4, <1>5 DEF PlanFits, CheckpointFits

LEMMA CloseFits ==
  ASSUME Fits, NEW p \in Thread, Close(p)
  PROVE  Fits' /\ \E B \in Seq(Event) : tape' = tape \o B
<1>1. UNCHANGED <<checkpoint, marker, loaded, history, keys, seqs, syncing, pending, snap, plan, turn, janitor, next, said, mishaps, saves>>
      /\ at' = [at EXCEPT ![p] = "idle"]
  BY DEF Close
<1>2. PICK B \in Seq(Event) : tape' = tape \o B
  <2>1. <<Meta>> \in Seq(Event) /\ <<>> \in Seq(Event)
    BY EventsAreTyped, SingleSeq, EmptySeq
  <2>2. tape \o <<>> = tape
    BY ConcatEmptySeq DEF Fits, TypeOK
  <2> QED BY <2>1, <2>2 DEF Close
<1>3. CheckpointFits' /\ tape' \in Seq(Event) /\ checkpoint' \in [last: Nat, kept: SUBSET Nat]
  BY <1>1, <1>2, CheckpointStays
<1>4. troubles' \in Nat
  <2>1. troubles' = troubles \/ troubles' = troubles + 1
    BY DEF Close, Works, Fails, Troubled
  <2>2. troubles \in Nat
    BY DEF Fits, TypeOK
  <2> QED BY ONLY <2>1, <2>2
<1>5. at' \in [Thread -> Place]
  BY <1>1 DEF Fits, TypeOK, Place
<1>6. TypeOK'
  BY <1>1, <1>3, <1>4, <1>5 DEF Fits, TypeOK
<1>7. \A q \in Thread : at'[q] = "append" => at[q] = "append"
  BY <1>1 DEF Fits, TypeOK
<1> QED BY <1>1, <1>2, <1>3, <1>6, <1>7 DEF Fits, PlanFits

\* A step that leaves the tape, the checkpoint and the threads alone.
LEMMA ContextFits ==
  ASSUME Fits, TypeOK', UNCHANGED <<tape, checkpoint, plan>>,
         \A q \in Thread : at'[q] = "append" => at[q] = "append" /\ snap'[q] = snap[q]
  PROVE  Fits'
  BY DEF Fits, PlanFits, CheckpointFits

LEMMA AddsTyped ==
  ASSUME TypeOK, Adds
  PROVE  history' \in Seq(Nat) /\ next' \in Nat /\ next \in Nat
<1>1. <<next>> \in Seq(Nat) /\ history \in Seq(Nat)
  BY SingleSeq DEF TypeOK
<1> QED BY <1>1, ConcatProperties DEF Adds, TypeOK

LEMMA CallTyped ==
  ASSUME TypeOK, NEW p \in Thread, Call(p)
  PROVE  /\ at' \in [Thread -> Place] /\ snap' \in [Thread -> Seq(Nat)] /\ saves' \in Nat
         /\ \A q \in Thread : at'[q] = "append" => at[q] = "append" /\ snap'[q] = snap[q]
  BY DEF Call, TypeOK, Place

LEMMA TurnFits ==
  ASSUME Fits, Begin \/ Hear \/ Abandon \/ Reply \/ Compact \/ RollBack \/ EndTurn \/ Clear \/ Park
  PROVE  Fits' /\ UNCHANGED <<tape, checkpoint>>
<1> USE DEF Fits, disk, counted, record
<1>1. UNCHANGED <<tape, checkpoint, plan>>
  BY DEF Begin, Hear, Abandon, Reply, Compact, RollBack, EndTurn, Clear, Park
<1>2. CASE Begin
  <2>1. troubles' \in Nat /\ marker' \in {"none", "main", "janitor"}
    BY <1>2 DEF Begin, Works, Fails, Troubled, TypeOK
  <2>2. mishaps' \subseteq {"stale", "failed", "torn", "reset", "marker", "handed", "cut", "unread"}
    <3>1. mishaps' = mishaps \/ mishaps' = mishaps \cup {"marker"}
      BY <1>2 DEF Begin
    <3> QED BY <3>1 DEF TypeOK
  <2>3. TypeOK'
    BY <1>1, <1>2, <2>1, <2>2 DEF Begin, TypeOK
  <2> QED BY <1>1, <1>2, <2>3, ContextFits DEF Begin
<1>3. CASE Hear \/ Reply \/ Park
  <2>1. history' \in Seq(Nat) /\ next' \in Nat /\ next \in Nat
    BY <1>3, AddsTyped DEF Hear, Reply, Park
  <2>2. TypeOK'
    BY <1>1, <1>3, <2>1 DEF Hear, Reply, Park, TypeOK
  <2>3. UNCHANGED <<at, snap>>
    BY <1>3 DEF Hear, Reply, Park
  <2> QED BY <1>1, <2>2, <2>3, ContextFits
<1>4. CASE Abandon
  <2>1. TypeOK'
    BY <1>1, <1>4 DEF Abandon, TypeOK
  <2> QED BY <1>1, <1>4, <2>1, ContextFits DEF Abandon
<1>5. CASE Compact
  <2>1. PICK k \in 3..(Len(history) + 1) :
          history' = <<history[1], next>> \o SubSeq(history, k, Len(history))
    BY <1>5 DEF Compact
  <2>2. history \in Seq(Nat) /\ Len(history) \in Nat /\ next \in Nat
    BY LenProperties DEF TypeOK
  <2>3. 1 \in 1..Len(history) /\ k \in Nat /\ k > 0
    BY <2>2
  <2>4. <<history[1], next>> \in Seq(Nat)
    BY <2>2, <2>3, ElementOfSeq
  <2>5. SubSeq(history, k, Len(history)) \in Seq(Nat)
    BY <2>2, <2>3, PrefixTyped
  <2>6. history' \in Seq(Nat) /\ next' \in Nat
    <3>1. \A s, u \in Seq(Nat) : s \o u \in Seq(Nat)
      BY ConcatProperties
    <3>2. <<history[1], next>> \o SubSeq(history, k, Len(history)) \in Seq(Nat)
      BY <2>4, <2>5, <3>1
    <3>3. next' = next + 1
      BY <1>5 DEF Compact
    <3> QED BY <2>1, <2>2, <3>2, <3>3
  <2>7. TypeOK'
    BY <1>1, <1>5, <2>6, <2>2 DEF Compact, TypeOK
  <2> QED BY <1>1, <1>5, <2>7, ContextFits DEF Compact
<1>6. CASE RollBack
  <2>1. PICK k \in 1..Len(history) :
          \/ history' = SubSeq(history, 1, k) /\ UNCHANGED <<next, said>>
          \/ /\ history' = SubSeq(history, 1, k) \o <<next>>
             /\ next' = next + 1 /\ said' = said \cup {next}
    BY <1>6 DEF RollBack
  <2>2. history \in Seq(Nat) /\ Len(history) \in Nat /\ next \in Nat
    BY LenProperties DEF TypeOK
  <2>3. SubSeq(history, 1, k) \in Seq(Nat) /\ <<next>> \in Seq(Nat)
    BY <2>2, PrefixTyped, SingleSeq
  <2>4. history' \in Seq(Nat) /\ next' \in Nat /\ said' \subseteq Nat
    <3>1. \A s, u \in Seq(Nat) : s \o u \in Seq(Nat)
      BY ConcatProperties
    <3>2. SubSeq(history, 1, k) \o <<next>> \in Seq(Nat)
      BY <2>3, <3>1
    <3>3. history' \in Seq(Nat) /\ next' \in Nat
      <4>1. CASE history' = SubSeq(history, 1, k) /\ UNCHANGED <<next, said>>
        BY <2>2, <2>3, <4>1
      <4>2. CASE history' = SubSeq(history, 1, k) \o <<next>> /\ next' = next + 1
        BY <2>2, <3>2, <4>2
      <4> QED BY <2>1, <4>1, <4>2
    <3>4. said' \subseteq Nat
      BY <2>1, <2>2 DEF TypeOK
    <3> QED BY <3>3, <3>4
  <2>5. TypeOK'
    BY <1>1, <1>6, <2>2, <2>4 DEF RollBack, TypeOK
  <2> QED BY <1>1, <1>6, <2>5, ContextFits DEF RollBack
<1>7. CASE EndTurn
  <2>1. "turn" \in Thread
    BY DEF Thread
  <2>2. /\ at' \in [Thread -> Place] /\ snap' \in [Thread -> Seq(Nat)] /\ saves' \in Nat
        /\ \A q \in Thread : at'[q] = "append" => at[q] = "append" /\ snap'[q] = snap[q]
    BY <1>7, <2>1, CallTyped DEF EndTurn
  <2>3. TypeOK'
    BY <1>1, <1>7, <2>2 DEF EndTurn, TypeOK
  <2> QED BY <1>1, <2>2, <2>3, ContextFits
<1>8. CASE Clear
  <2>1. troubles' \in Nat /\ marker' \in {"none", "main", "janitor"}
    <3>1. (troubles' = troubles \/ troubles' = troubles + 1) /\ (marker' = marker \/ marker' = "none")
      BY <1>8 DEF Clear, Unlink, Works, Fails, Troubled
    <3>2. troubles \in Nat /\ marker \in {"none", "main", "janitor"}
      BY <1>1 DEF TypeOK
    <3> QED BY ONLY <3>1, <3>2
  <2>2. TypeOK'
    BY <1>1, <1>8, <2>1 DEF Clear, TypeOK
  <2> QED BY <1>1, <1>8, <2>2, ContextFits DEF Clear
<1> QED BY <1>1, <1>2, <1>3, <1>4, <1>5, <1>6, <1>7, <1>8

LEMMA SideCallFits ==
  ASSUME Fits, NEW p \in Sides, SideCall(p)
  PROVE  Fits' /\ UNCHANGED <<tape, checkpoint>>
<1> USE DEF Fits, disk, record
<1>1. UNCHANGED <<tape, checkpoint, plan>>
  BY DEF SideCall
<1>2. /\ at' \in [Thread -> Place] /\ snap' \in [Thread -> Seq(Nat)] /\ saves' \in Nat
      /\ \A q \in Thread : at'[q] = "append" => at[q] = "append" /\ snap'[q] = snap[q]
  BY CallTyped DEF SideCall, Thread
<1>3. TypeOK'
  BY <1>1, <1>2 DEF SideCall, TypeOK
<1> QED BY <1>1, <1>2, <1>3, ContextFits

LEMMA RefreshFits ==
  ASSUME Fits, Refreshed, UNCHANGED tape
  PROVE  CheckpointFits' /\ checkpoint' \in [last: Nat, kept: SUBSET Nat]
<1>1. Recovered \subseteq 1..Len(tape)
  BY RecoveredInTape DEF Fits, CheckpointFits
<1>2. Len(tape) \in Nat
  BY LenProperties DEF Fits, TypeOK
<1>3. CASE UNCHANGED checkpoint
  BY <1>3 DEF Fits, TypeOK, CheckpointFits
<1>4. CASE \E i \in {0} \cup Recovered : checkpoint' = [last |-> i, kept |-> Recovered]
  <2> PICK i \in {0} \cup Recovered : checkpoint' = [last |-> i, kept |-> Recovered]
    BY <1>4
  <2>1. i \in Nat /\ i <= Len(tape) /\ Recovered \in SUBSET Nat
    BY <1>1, <1>2
  <2> QED BY <1>1, <2>1 DEF CheckpointFits
<1> QED BY <1>3, <1>4 DEF Refreshed

LEMMA JanitorFits ==
  ASSUME Fits, Visit \/ VisitEnds
  PROVE  Fits' /\ UNCHANGED tape /\ (UNCHANGED checkpoint \/ Refreshed)
<1> USE DEF memory, record
<1>1. UNCHANGED <<tape, loaded, history, keys, seqs, syncing, pending, at, snap, plan, turn, next, said, saves>>
      /\ (UNCHANGED checkpoint \/ Refreshed) /\ janitor' \in {"visiting", "idle"}
  BY DEF Visit, VisitEnds
<1>2. CheckpointFits' /\ checkpoint' \in [last: Nat, kept: SUBSET Nat]
  BY <1>1, RefreshFits DEF Fits, TypeOK, CheckpointFits
<1>3. troubles' \in Nat /\ marker' \in {"none", "main", "janitor"}
  BY DEF Visit, VisitEnds, Unlink, Works, Fails, Troubled, Fits, TypeOK
<1>4. mishaps' = mishaps \/ mishaps' = mishaps \cup {"marker"}
  BY DEF Visit, VisitEnds
<1>5. TypeOK'
  BY <1>1, <1>2, <1>3, <1>4 DEF Fits, TypeOK
<1>6. PlanFits'
  BY <1>1 DEF Fits, PlanFits
<1> QED BY <1>1, <1>2, <1>5, <1>6 DEF Fits

LEMMA VisitSavedFits ==
  ASSUME Fits, VisitSaved
  PROVE  Fits' /\ \E B \in Seq(Event) : tape' = tape \o B
<1> USE DEF memory, record
<1>1. UNCHANGED <<checkpoint, marker, loaded, history, keys, seqs, syncing, pending, at, snap, plan, turn, next, said, mishaps, saves>>
      /\ janitor' = "saved"
  BY DEF VisitSaved
<1>2. PICK B \in Seq(Event) : tape' = tape \o B
  <2>1. <<Foreign>> \in Seq(Event) /\ <<>> \in Seq(Event)
    BY EventsAreTyped, SingleSeq, EmptySeq
  <2>2. tape \o <<>> = tape
    BY ConcatEmptySeq DEF Fits, TypeOK
  <2> QED BY <2>1, <2>2 DEF VisitSaved
<1>3. CheckpointFits' /\ tape' \in Seq(Event) /\ checkpoint' \in [last: Nat, kept: SUBSET Nat]
  BY <1>1, <1>2, CheckpointStays
<1>4. troubles' \in Nat
  BY DEF VisitSaved, Works, Fails, Troubled, Fits, TypeOK
<1>5. TypeOK'
  BY <1>1, <1>3, <1>4 DEF Fits, TypeOK
<1> QED BY <1>1, <1>2, <1>3, <1>5 DEF Fits, PlanFits

LEMMA CrashFits ==
  ASSUME Fits, Crash
  PROVE  Fits' /\ \E B \in Seq(Event) : tape' = tape \o B
<1>1. /\ history' = <<>> /\ keys' = <<>> /\ seqs' = <<>> /\ pending' = <<>>
      /\ loaded' = FALSE /\ syncing' = FALSE /\ turn' = "idle" /\ janitor' = "idle"
      /\ at' = [p \in Thread |-> "idle"] /\ snap' = [p \in Thread |-> <<>>]
      /\ plan' = [p \in Thread |-> NoPlan]
      /\ UNCHANGED <<checkpoint, marker, next, saves>> /\ troubles' \in Nat
  BY DEF Crash, Troubled, Fits, TypeOK
<1>2. PICK B \in Seq(Event) : tape' = tape \o B
  <2>1. CASE tape' = tape
    BY <2>1, EmptySeq, ConcatEmptySeq DEF Fits, TypeOK
  <2>2. CASE \E p \in Thread : \E n \in 0..Len(plan[p].batch) :
               tape' = tape \o SubSeq(plan[p].batch, 1, n)
    <3> PICK p \in Thread : \E n \in 0..Len(plan[p].batch) :
               tape' = tape \o SubSeq(plan[p].batch, 1, n)
      BY <2>2
    <3> PICK n \in 0..Len(plan[p].batch) : tape' = tape \o SubSeq(plan[p].batch, 1, n)
      OBVIOUS
    <3>1. plan[p].batch \in Seq(Event)
      BY DEF Fits, TypeOK
    <3>2. SubSeq(plan[p].batch, 1, n) \in Seq(Event)
      BY <3>1, PrefixTyped, LenProperties
    <3> QED BY <3>2
  <2> QED BY <2>1, <2>2 DEF Crash
<1>3. CheckpointFits' /\ tape' \in Seq(Event) /\ checkpoint' \in [last: Nat, kept: SUBSET Nat]
  BY <1>1, <1>2, CheckpointStays
<1>4. mishaps' \subseteq {"stale", "failed", "torn", "reset", "marker", "handed", "cut", "unread"}
  <2>1. Handed(tape') \subseteq {"handed"} /\ Undone(tape') \subseteq {"stale"}
    BY DEF Handed, Undone
  <2>2. mishaps \subseteq {"stale", "failed", "torn", "reset", "marker", "handed", "cut", "unread"}
    BY DEF Fits, TypeOK
  <2>3. mishaps' \subseteq mishaps \cup Handed(tape') \cup Undone(tape') \cup {"torn"}
    BY DEF Crash
  <2> QED BY <2>1, <2>2, <2>3
<1>5. said' \subseteq Nat
  BY DEF Crash, Unsaved, Fits, TypeOK
<1>6. /\ at' \in [Thread -> Place] /\ snap' \in [Thread -> Seq(Nat)]
      /\ plan' \in [Thread -> [common: Nat, batch: Seq(Event)]]
  BY <1>1, EmptySeq DEF Place, NoPlan
<1>7. <<>> \in Seq(Nat) /\ <<>> \in Seq(Seq(Nat))
  BY EmptySeq
<1>8. TypeOK'
  BY <1>1, <1>3, <1>4, <1>5, <1>6, <1>7 DEF Fits, TypeOK
<1>9. PlanFits'
  BY <1>1 DEF PlanFits
<1> QED BY <1>2, <1>3, <1>8, <1>9 DEF Fits

\* What a replay reads back.
LEMMA ReplayTyped ==
  ASSUME Fits
  PROVE  /\ InOrder(Recovered) \in Seq(Nat) /\ Ascending(InOrder(Recovered))
         /\ ImageOf(InOrder(Recovered)) = Recovered
         /\ MessagesAt(tape, InOrder(Recovered)) \in Seq(Nat)
<1> DEFINE s == InOrder(Recovered)
<1>1. Recovered \subseteq 1..Len(tape) /\ Len(tape) \in Nat /\ tape \in Seq(Event)
  BY RecoveredInTape, LenProperties DEF Fits, TypeOK, CheckpointFits
<1>2. Recovered \in SUBSET Nat /\ IsFiniteSet(Recovered)
  <2>1. IsFiniteSet(1..Len(tape))
    BY <1>1, FS_Interval
  <2>2. IsFiniteSet(Recovered)
    BY <1>1, <2>1, FS_Subset
  <2>3. 1..Len(tape) \subseteq Nat
    BY <1>1
  <2> QED BY <1>1, <2>2, <2>3
<1>3. s \in Seq(Recovered) /\ Ascending(s) /\ ImageOf(s) = Recovered
  BY <1>2, OrderIsRight
<1>4. DOMAIN s = 1..Len(s) /\ Len(s) \in Nat
  BY <1>3, LenProperties
<1>5. \A n \in 1..Len(s) : s[n] \in Recovered
  BY <1>3, ElementOfSeq
<1>6. \A n \in 1..Len(s) : s[n] \in Nat /\ tape[s[n]].val \in Nat
  <2> TAKE n \in 1..Len(s)
  <2>1. s[n] \in 1..Len(tape)
    BY <1>1, <1>5
  <2>2. tape[s[n]] \in Event
    BY <1>1, <2>1, ElementOfSeq
  <2> QED BY <2>1, <2>2 DEF Event
<1>7. MessagesAt(tape, s) = [n \in 1..Len(s) |-> tape[s[n]].val]
  BY <1>4 DEF MessagesAt
<1> HIDE DEF s
<1>8. s \in Seq(Nat)
  BY <1>2, <1>3, WiderSeq
<1>9. MessagesAt(tape, s) \in Seq(Nat)
  BY <1>4, <1>6, <1>7
<1> QED BY <1>3, <1>8, <1>9 DEF s

LEMMA RestoreFits ==
  ASSUME Fits, Restore
  PROVE  Fits' /\ UNCHANGED tape /\ Refreshed
<1>1. /\ UNCHANGED <<tape, syncing, pending, at, snap, plan, turn, janitor, next, saves, troubles>>
      /\ Refreshed /\ loaded' = TRUE /\ marker' = "none"
      /\ seqs' = InOrder(Recovered) /\ keys' = MessagesAt(tape, seqs')
      /\ said' = (ImageOf(keys') \cap OnTape(tape)) \ {Seed, Note}
      /\ mishaps' \subseteq {"cut"}
  BY DEF Restore, counted
<1>2. CheckpointFits' /\ checkpoint' \in [last: Nat, kept: SUBSET Nat]
  BY <1>1, RefreshFits
<1>3. seqs' \in Seq(Nat) /\ keys' \in Seq(Nat)
  BY <1>1, ReplayTyped
<1>4. history' \in Seq(Nat)
  <2> DEFINE head == IF Seed \in ImageOf(keys') THEN <<>> ELSE <<Seed>>
             tail == IF marker = "main" THEN <<Note>> ELSE <<>>
  <2>1. history' = head \o keys' \o tail
    BY DEF Restore
  <2>2. head \in Seq(Nat) /\ tail \in Seq(Nat)
    BY SingleSeq, EmptySeq DEF Seed, Note
  <2> HIDE DEF head, tail
  <2>3. head \o keys' \in Seq(Nat)
    BY <1>3, <2>2, ConcatProperties
  <2>4. (head \o keys') \o tail \in Seq(Nat)
    BY <2>2, <2>3, ConcatProperties
  <2> QED BY <2>1, <2>4
<1>5. said' \subseteq Nat
  <2>1. DOMAIN keys' = 1..Len(keys')
    BY <1>3, LenProperties
  <2>2. \A n \in DOMAIN keys' : keys'[n] \in Nat
    BY <1>3, <2>1, ElementOfSeq
  <2> QED BY <1>1, <2>2 DEF ImageOf
<1>6. TypeOK'
  BY <1>1, <1>2, <1>3, <1>4, <1>5 DEF Fits, TypeOK
<1> QED BY <1>1, <1>2, <1>6 DEF Fits, PlanFits

\* The context of a session whose replay raised: its seed, and the note.
LEMMA UnreadHistory ==
  ASSUME RestoreFails
  PROVE  history' \in Seq(Nat) /\ (history' = <<Seed>> \/ history' = <<Seed>> \o <<Note>>)
<1>1. <<Seed>> \in Seq(Nat) /\ <<Note>> \in Seq(Nat)
  BY SingleSeq DEF Seed, Note
<1>2. CASE marker = "main"
  <2>1. history' = <<Seed>> \o <<Note>>
    BY <1>2 DEF RestoreFails
  <2> QED BY <1>1, <2>1, ConcatProperties
<1>3. CASE marker # "main"
  <2>1. history' = <<Seed>> \o <<>>
    BY <1>3 DEF RestoreFails
  <2> QED BY <1>1, <2>1, ConcatEmptySeq
<1> QED BY <1>2, <1>3

LEMMA RestoreFailsFits ==
  ASSUME Fits, RestoreFails
  PROVE  Fits' /\ UNCHANGED <<tape, checkpoint>>
<1>1. /\ UNCHANGED <<tape, checkpoint, syncing, pending, at, snap, plan, turn, janitor, next, saves, troubles>>
      /\ loaded' = TRUE /\ marker' = "none" /\ seqs' = <<>> /\ keys' = <<>> /\ said' = {}
      /\ mishaps' = {"unread"}
  BY DEF RestoreFails, counted
<1>2. seqs' \in Seq(Nat) /\ keys' \in Seq(Nat) /\ history' \in Seq(Nat)
  BY <1>1, UnreadHistory, EmptySeq
<1>3. TypeOK'
  BY <1>1, <1>2 DEF Fits, TypeOK
<1> QED BY <1>1, <1>3 DEF Fits, PlanFits, CheckpointFits

-----------------------------------------------------------------------------
(* A replay is exact                                                        *)

\* On an undivided tape the backward read misses nothing.
LEMMA TailReadIsFull ==
  ASSUME NEW T \in Seq(Event), Undivided(T), NEW last \in Nat
  PROVE  TailRead(T, last) = {i \in Main(T) : i > last}
<1> SUFFICES ASSUME NEW i \in Main(T), i > last, NEW j \in Stops(T, last)
             PROVE  j < i
  BY DEF TailRead
<1>1. i \in Nat /\ j \in Nat /\ T[i].kind # "foreign" /\ T[j].kind = "foreign" /\ j \in DOMAIN T
  BY LenProperties, MainInTape DEF Main, Stops
<1>2. PICK k \in Main(T) : k > j
  BY DEF Stops
<1>3. ~(i < j)
  BY <1>1, <1>2, MainInTape DEF Undivided
<1> QED BY <1>1, <1>3

\* No shadow of the main session after last.
Untouched(T, last) == \A j \in Main(T) : j > last => T[j].kind # "shadow"

\* What the tape holds up to last stays as long as no shadow comes after it.
LEMMA OldMessagesStay ==
  ASSUME NEW T \in Seq(Event), NEW B \in Seq(Event), NEW U, U = T \o B,
         NEW last \in Nat, last <= Len(T), Untouched(U, last)
  PROVE  /\ Untouched(T, last)
         /\ \A i \in 1..last : i \in Surviving(U) <=> i \in Surviving(T)
         /\ Surviving(U) \subseteq 1..Len(U) /\ Surviving(T) \subseteq 1..Len(T)
<1>1. /\ \A i \in 1..Len(T) : U[i] = T[i]
      /\ \A i \in 1..Len(T) : i \in Main(U) <=> i \in Main(T)
      /\ Main(T) \subseteq 1..Len(T) /\ Main(U) \subseteq 1..Len(U)
      /\ Len(T) \in Nat /\ Len(U) \in Nat
  <2>1. U \in Seq(Event) /\ \A i \in 1..Len(T) : U[i] = T[i]
    BY Grown
  <2>2. \A i \in 1..Len(T) : i \in Main(U) <=> i \in Main(T)
    BY MainGrows
  <2>3. Main(T) \subseteq 1..Len(T) /\ Main(U) \subseteq 1..Len(U)
    BY <2>1, MainInTape
  <2>4. Len(T) \in Nat /\ Len(U) \in Nat
    BY <2>1, LenProperties
  <2> QED BY <2>1, <2>2, <2>3, <2>4
<1>2. Untouched(T, last)
  BY <1>1 DEF Untouched
<1>3. ASSUME NEW i \in 1..last
      PROVE  i \in Surviving(U) <=> i \in Surviving(T)
  <2>1. i \in 1..Len(T) /\ U[i] = T[i] /\ (i \in Main(U) <=> i \in Main(T))
    BY <1>1
  <2>2. \A j \in Main(U) : U[j].kind = "shadow" => j \in Main(T) /\ T[j] = U[j]
    BY <1>1 DEF Untouched
  <2>3. \A j \in Main(T) : j \in Main(U) /\ T[j] = U[j]
    BY <1>1
  <2> QED BY <2>1, <2>2, <2>3 DEF Surviving, Project
<1>4. Surviving(U) \subseteq 1..Len(U) /\ Surviving(T) \subseteq 1..Len(T)
  BY <1>1 DEF Surviving, Project
<1> QED BY <1>2, <1>3, <1>4

\* The checkpoint is what the tape holds up to its position.
CheckpointRight ==
  Undivided(tape) /\ checkpoint.last > 0 /\ Untouched(tape, checkpoint.last) =>
    checkpoint.kept = {i \in Surviving(tape) : i <= checkpoint.last}

LEMMA RecoveryFromCheckpoint ==
  ASSUME Fits, CheckpointRight
  PROVE  RecoveryIsExact
<1> SUFFICES ASSUME Undivided(tape) PROVE Recovered = Surviving(tape)
  BY DEF RecoveryIsExact
<1>1. tape \in Seq(Event) /\ checkpoint.last \in Nat
  BY DEF Fits, TypeOK
<1>2. Main(tape) \subseteq 1..Len(tape) /\ Len(tape) \in Nat
  BY <1>1, MainInTape, LenProperties
<1>3. TailRead(tape, 0) = Main(tape) /\ Increment = {i \in Main(tape) : i > checkpoint.last}
  <2>1. Increment = {i \in Main(tape) : i > checkpoint.last}
    BY <1>1, TailReadIsFull DEF Increment
  <2>2. TailRead(tape, 0) = {i \in Main(tape) : i > 0}
    BY <1>1, TailReadIsFull
  <2>3. \A i \in Main(tape) : i > 0
    BY <1>2
  <2> QED BY <2>1, <2>2, <2>3
<1>4. CASE FullRebuild
  BY <1>3, <1>4 DEF Recovered, Surviving
<1>5. CASE ~FullRebuild
  <2>1. checkpoint.last > 0 /\ Untouched(tape, checkpoint.last)
    BY <1>1, <1>3, <1>5 DEF FullRebuild, Untouched
  <2>2. checkpoint.kept = {i \in Surviving(tape) : i <= checkpoint.last}
    BY <2>1 DEF CheckpointRight
  <2>3. Project(tape, Increment) = {i \in Surviving(tape) : i > checkpoint.last}
    <3>1. ASSUME NEW i \in Main(tape), i > checkpoint.last
          PROVE  ~ \E j \in Main(tape) : j > i /\ tape[j].kind = "shadow"
      BY <1>1, <1>2, <2>1, <3>1 DEF Untouched
    <3> QED BY <1>3, <3>1 DEF Project, Surviving
  <2>4. \A i \in Surviving(tape) : i \in Nat
    BY <1>2 DEF Surviving, Project
  <2> QED BY <1>1, <1>5, <2>2, <2>3, <2>4 DEF Recovered
<1> QED BY <1>4, <1>5

LEMMA RefreshedIsRight ==
  ASSUME Fits, CheckpointRight, Refreshed, UNCHANGED tape
  PROVE  CheckpointRight'
<1>1. CASE UNCHANGED checkpoint
  BY <1>1 DEF CheckpointRight
<1>2. CASE FullRebuild /\ \E i \in {0} \cup Recovered :
             /\ \A j \in Recovered : j <= i
             /\ checkpoint' = [last |-> i, kept |-> Recovered]
  <2> SUFFICES ASSUME Undivided(tape)
               PROVE  checkpoint'.kept = {i \in Surviving(tape) : i <= checkpoint'.last}
    BY DEF CheckpointRight
  <2>1. Recovered = Surviving(tape)
    BY RecoveryFromCheckpoint DEF RecoveryIsExact
  <2> QED BY <1>2, <2>1
<1> QED BY <1>1, <1>2 DEF Refreshed

LEMMA GrowthIsRight ==
  ASSUME Fits, CheckpointRight, UNCHANGED checkpoint,
         NEW B \in Seq(Event), tape' = tape \o B
  PROVE  CheckpointRight'
<1> SUFFICES ASSUME Undivided(tape'), checkpoint.last > 0, Untouched(tape', checkpoint.last)
             PROVE  checkpoint.kept = {i \in Surviving(tape') : i <= checkpoint.last}
  BY DEF CheckpointRight
<1>1. tape \in Seq(Event) /\ checkpoint.last \in Nat /\ checkpoint.last <= Len(tape)
  BY DEF Fits, TypeOK, CheckpointFits
<1>2. Undivided(tape)
  BY <1>1, UndividedBefore
<1>3. /\ Untouched(tape, checkpoint.last)
      /\ {i \in Surviving(tape') : i <= checkpoint.last}
           = {i \in Surviving(tape) : i <= checkpoint.last}
  <2> DEFINE U == tape'
             last == checkpoint.last
  <2>1. U = tape \o B /\ last \in Nat /\ last <= Len(tape) /\ Untouched(U, last)
    BY <1>1
  <2> HIDE DEF U, last
  <2>2. /\ Untouched(tape, last)
        /\ \A i \in 1..last : i \in Surviving(U) <=> i \in Surviving(tape)
        /\ Surviving(U) \subseteq 1..Len(U) /\ Surviving(tape) \subseteq 1..Len(tape)
    BY <1>1, <2>1, OldMessagesStay
  <2>3. \A i \in Surviving(U) \cup Surviving(tape) : i <= last => i \in 1..last
    BY <2>1, <2>2
  <2>4. {i \in Surviving(U) : i <= last} = {i \in Surviving(tape) : i <= last}
    BY <2>2, <2>3
  <2> QED BY <2>2, <2>4 DEF U, last
<1> QED BY <1>2, <1>3 DEF CheckpointRight

LogInvariant == Fits /\ CheckpointRight

LEMMA InitRight == Init => LogInvariant
<1> SUFFICES ASSUME Init PROVE LogInvariant
  OBVIOUS
<1>1. Fits
  BY InitFits
<1>2. checkpoint.last = 0
  BY DEF Init
<1> QED BY <1>1, <1>2 DEF LogInvariant, CheckpointRight

LEMMA StepRight == LogInvariant /\ [Next]_vars => LogInvariant'
<1> SUFFICES ASSUME LogInvariant, [Next]_vars PROVE LogInvariant'
  OBVIOUS
<1>0. Fits /\ CheckpointRight /\ tape \in Seq(Event)
  BY DEF LogInvariant, Fits, TypeOK
<1>1. \/ /\ Fits'
         /\ UNCHANGED checkpoint
         /\ \E B \in Seq(Event) : tape' = tape \o B
      \/ Fits' /\ UNCHANGED tape /\ (UNCHANGED checkpoint \/ Refreshed)
  <2>1. ASSUME NEW p \in Thread, Enter(p) \/ Diff(p) \/ Drain(p) \/ Leave(p)
        PROVE  Fits' /\ UNCHANGED <<tape, checkpoint>>
    BY <1>0, <2>1, EnterFits, DiffFits, DrainFits, LeaveFits DEF Enter, Diff, Drain, Leave, disk
  <2>2. ASSUME NEW p \in Thread, Write(p) \/ Close(p)
        PROVE  Fits' /\ UNCHANGED checkpoint /\ \E B \in Seq(Event) : tape' = tape \o B
    BY <1>0, <2>2, WriteFits, CloseFits DEF Write, Close
  <2>3. ASSUME NEW p \in Sides, SideCall(p)
        PROVE  Fits' /\ UNCHANGED <<tape, checkpoint>>
    BY <1>0, <2>3, SideCallFits
  <2>4. CASE Begin \/ Hear \/ Abandon \/ Reply \/ Compact \/ RollBack \/ EndTurn \/ Clear \/ Park
    BY <1>0, <2>4, TurnFits
  <2>5. CASE Visit \/ VisitEnds
    BY <1>0, <2>5, JanitorFits
  <2>6. CASE VisitSaved
    BY <1>0, <2>6, VisitSavedFits DEF VisitSaved
  <2>7. CASE Crash
    BY <1>0, <2>7, CrashFits DEF Crash
  <2>8. CASE Restore
    BY <1>0, <2>8, RestoreFits
  <2>10. CASE RestoreFails
    BY <1>0, <2>10, RestoreFailsFits
  <2>9. CASE UNCHANGED vars
    BY <1>0, <2>9 DEF vars, memory, record, counted, Fits, TypeOK, PlanFits, CheckpointFits
  <2> QED BY <2>1, <2>2, <2>3, <2>4, <2>5, <2>6, <2>7, <2>8, <2>9, <2>10 DEF Next
<1>2. CheckpointRight'
  BY <1>0, <1>1, GrowthIsRight, RefreshedIsRight DEF CheckpointRight
<1> QED BY <1>1, <1>2 DEF LogInvariant

\* The state of the session log stays well formed, whatever the sizes: types,
\* plans that cover their snapshots, a checkpoint within the tape that is right
\* as long as the session is not divided.
THEOREM LogStaysRight == Spec => []LogInvariant
  BY InitRight, StepRight, PTL DEF Spec

\* Whatever the checkpoint holds, whenever it was written and however often
\* the process died, a replay gives what the whole tape holds of the session,
\* as long as no other session closed between two of its events.
THEOREM RecoveryIsAlwaysExact == Spec => []RecoveryIsExact
<1>1. LogInvariant => RecoveryIsExact
  BY RecoveryFromCheckpoint DEF LogInvariant
<1> QED BY <1>1, LogStaysRight, PTL

-----------------------------------------------------------------------------
(* The cursor is the projection of the tape                                 *)

\* The recorder's sequences describe the tape T.
Describes(sq, ks, T) ==
  /\ Ascending(sq)
  /\ ImageOf(sq) = Surviving(T)
  /\ ks = MessagesAt(T, sq)

\* How the projection changes with one event, and with messages.
LEMMA EventAdded ==
  ASSUME NEW T \in Seq(Event), NEW e \in Event, NEW U, U = T \o <<e>>
  PROVE  /\ e.kind \in {"meta", "foreign"} => Surviving(U) = Surviving(T)
         /\ e.kind = "shadow" => \A i : i \in Surviving(U) <=> i \in Surviving(T) /\ i <= e.val
<1>1. <<e>> \in Seq(Event) /\ Len(<<e>>) = 1 /\ <<e>>[1] = e
  BY SingleSeq
<1>2. /\ U \in Seq(Event) /\ Len(U) = Len(T) + 1 /\ Len(T) \in Nat
      /\ \A i \in 1..Len(T) : U[i] = T[i]
      /\ U[Len(T) + 1] = e
  BY <1>1, Grown
<1>3. Main(T) \subseteq 1..Len(T) /\ Main(U) \subseteq 1..Len(U)
  BY <1>2, MainInTape
<1>4. \A i \in 1..Len(T) : i \in Main(U) <=> i \in Main(T)
  BY <1>1, MainGrows
<1>5. DOMAIN U = 1..(Len(T) + 1)
  BY <1>2, LenProperties
<1>6. Len(T) + 1 \in Main(U) <=> e.kind # "foreign"
  BY <1>2, <1>5 DEF Main
<1>7. \A i \in Main(U) : i \in Main(T) \/ i = Len(T) + 1
  BY <1>2, <1>3, <1>4
<1>8. \A i \in Main(T) : i \in Main(U) /\ U[i] = T[i] /\ i < Len(T) + 1 /\ i \in Nat
  BY <1>2, <1>3, <1>4
<1>9. e.kind \in {"meta", "foreign"} => Surviving(U) = Surviving(T)
  <2> SUFFICES ASSUME e.kind \in {"meta", "foreign"}, NEW i
               PROVE  i \in Surviving(U) <=> i \in Surviving(T)
    OBVIOUS
  <2> QED BY <1>2, <1>7, <1>8, ZenonT(60) DEF Surviving, Project
<1>10. e.kind = "shadow" => \A i : i \in Surviving(U) <=> i \in Surviving(T) /\ i <= e.val
  <2> SUFFICES ASSUME e.kind = "shadow", NEW i
               PROVE  i \in Surviving(U) <=> i \in Surviving(T) /\ i <= e.val
    OBVIOUS
  <2>1. e.val \in Nat
    BY DEF Event
  <2>2. Len(T) + 1 \in Main(U) /\ U[Len(T) + 1] = e /\ Len(T) + 1 \notin Surviving(U)
    BY <1>2, <1>6 DEF Surviving, Project
  <2>3. CASE i \in Main(T)
    <3>1. i \in Main(U) /\ U[i] = T[i] /\ i < Len(T) + 1 /\ i \in Nat
      BY <1>8, <2>3
    <3>2. ASSUME i \in Surviving(U) PROVE i \in Surviving(T) /\ i <= e.val
      <4>1. \A j \in Main(U) : j > i /\ U[j].kind = "shadow" => U[j].val >= i
        BY <3>2 DEF Surviving, Project
      <4>2. e.val >= i
        BY <1>2, <2>2, <3>1, <4>1
      <4>3. \A j \in Main(T) : j > i /\ T[j].kind = "shadow" => T[j].val >= i
        BY <1>8, <4>1
      <4> QED BY <2>1, <2>3, <3>1, <3>2, <4>2, <4>3 DEF Surviving, Project
    <3>3. ASSUME i \in Surviving(T), i <= e.val PROVE i \in Surviving(U)
      <4>1. \A j \in Main(T) : j > i /\ T[j].kind = "shadow" => T[j].val >= i
        BY <3>3 DEF Surviving, Project
      <4>2. e.val >= i
        BY ONLY <2>1, <3>1, <3>3
      <4>3. \A j \in Main(U) : j > i /\ U[j].kind = "shadow" => U[j].val >= i
        BY <1>7, <1>8, <2>2, <4>1, <4>2
      <4> QED BY <3>1, <3>3, <4>3 DEF Surviving, Project
    <3> QED BY <3>2, <3>3
  <2>4. CASE i \notin Main(T)
    BY <1>7, <2>2, <2>4 DEF Surviving, Project
  <2> QED BY <2>3, <2>4
<1> QED BY <1>9, <1>10

LEMMA MessagesAdded ==
  ASSUME NEW T \in Seq(Event), NEW B \in Seq(Event), NEW U, U = T \o B,
         \A n \in 1..Len(B) : B[n].kind = "message"
  PROVE  \A i : i \in Surviving(U) <=> i \in Surviving(T) \/ i \in (Len(T) + 1)..(Len(T) + Len(B))
<1>1. /\ U \in Seq(Event) /\ Len(U) = Len(T) + Len(B) /\ Len(T) \in Nat /\ Len(B) \in Nat
      /\ \A i \in 1..Len(T) : U[i] = T[i]
      /\ \A n \in 1..Len(B) : U[Len(T) + n] = B[n]
  BY Grown
<1>2. Main(T) \subseteq 1..Len(T) /\ Main(U) \subseteq 1..Len(U)
  BY <1>1, MainInTape
<1>3. \A i \in 1..Len(T) : i \in Main(U) <=> i \in Main(T)
  BY MainGrows
<1>4. \A i \in (Len(T) + 1)..(Len(T) + Len(B)) : U[i].kind = "message"
  <2> TAKE i \in (Len(T) + 1)..(Len(T) + Len(B))
  <2>1. i - Len(T) \in 1..Len(B) /\ Len(T) + (i - Len(T)) = i
    BY <1>1
  <2> QED BY <1>1, <2>1
<1>5. DOMAIN U = 1..(Len(T) + Len(B))
  BY <1>1, LenProperties
<1>6. \A i \in (Len(T) + 1)..(Len(T) + Len(B)) : i \in Main(U)
  BY <1>1, <1>4, <1>5 DEF Main
<1>7. \A j \in Main(U) : U[j].kind = "shadow" => j \in Main(T) /\ U[j] = T[j]
  BY <1>1, <1>2, <1>3, <1>4
<1>8. \A j \in Main(T) : j \in Main(U) /\ U[j] = T[j] /\ j \in 1..Len(T)
  BY <1>1, <1>2, <1>3
<1>9. \A i \in Main(U) : i \in Main(T) \/ i \in (Len(T) + 1)..(Len(T) + Len(B))
  BY <1>1, <1>2, <1>3
<1> SUFFICES ASSUME NEW i
             PROVE  i \in Surviving(U) <=> i \in Surviving(T) \/ i \in (Len(T) + 1)..(Len(T) + Len(B))
  OBVIOUS
<1>10. CASE i \in Main(T)
  <2>1. i \in Main(U) /\ U[i] = T[i] /\ i \notin (Len(T) + 1)..(Len(T) + Len(B))
    BY <1>1, <1>8, <1>10
  <2> QED BY <1>7, <1>8, <1>10, <2>1 DEF Surviving, Project
<1>11. CASE i \in (Len(T) + 1)..(Len(T) + Len(B))
  <2>1. \A j \in Main(U) : U[j].kind = "shadow" => ~(j > i)
    <3> SUFFICES ASSUME NEW j \in Main(U), U[j].kind = "shadow" PROVE ~(j > i)
      OBVIOUS
    <3>1. j \in 1..Len(T)
      BY <1>7, <1>8
    <3> QED BY <1>1, <1>11, <3>1
  <2> QED BY <1>4, <1>6, <1>11, <2>1 DEF Surviving, Project
<1>12. CASE i \notin Main(T) /\ i \notin (Len(T) + 1)..(Len(T) + Len(B))
  BY <1>9, <1>12 DEF Surviving, Project
<1> QED BY <1>10, <1>11, <1>12

\* What takes no part in the projection leaves the cursor right.
LEMMA StillDescribes ==
  ASSUME NEW T \in Seq(Event), NEW e \in Event, e.kind \in {"meta", "foreign"},
         NEW U, U = T \o <<e>>, NEW sq, NEW ks, Describes(sq, ks, T)
  PROVE  Describes(sq, ks, U)
<1>1. Surviving(U) = Surviving(T)
  BY EventAdded
<1>2. \A i \in 1..Len(T) : U[i] = T[i]
  BY SingleSeq, Grown
<1>3. Surviving(T) \subseteq 1..Len(T)
  BY MainInTape DEF Surviving, Project
<1>4. \A n \in DOMAIN sq : sq[n] \in 1..Len(T)
  BY <1>3 DEF Describes, ImageOf
<1>5. MessagesAt(U, sq) = MessagesAt(T, sq)
  BY <1>2, <1>4 DEF MessagesAt
<1> QED BY <1>1, <1>5 DEF Describes

\* What a batch begins with: a shadow over what the snapshot replaces.
Cut(sq, ks, c) == IF c < Len(ks) THEN <<Shadow(IF c = 0 THEN 0 ELSE sq[c])>> ELSE <<>>
CutTape(T, sq, ks, c) == T \o Cut(sq, ks, c)

\* The projection of M is what the first c entries of the cursor over T point at.
LeavesFirst(c, sq, T, M) ==
  /\ M \in Seq(Event)
  /\ \A i : i \in Surviving(M) <=> \E n \in 1..c : i = sq[n]
  /\ \A n \in 1..c : sq[n] \in 1..Len(T) /\ M[sq[n]] = T[sq[n]] /\ sq[n] <= Len(M)

\* The tape after the shadow of a batch, if it has one: what is left of the
\* projection is what the first c entries of the cursor point at.
LEMMA CutBack ==
  ASSUME NEW T \in Seq(Event), NEW sq \in Seq(Nat), NEW ks \in Seq(Nat), Describes(sq, ks, T),
         NEW c \in Nat, c <= Len(ks), NEW M, M = CutTape(T, sq, ks, c)
  PROVE  LeavesFirst(c, sq, T, M) /\ Len(sq) = Len(ks)
<1>0. Len(sq) \in Nat /\ Len(ks) \in Nat /\ c \in Nat /\ c <= Len(ks)
  BY LenProperties
<1>1. /\ DOMAIN sq = 1..Len(sq) /\ Len(sq) \in Nat /\ DOMAIN ks = 1..Len(ks) /\ Len(ks) \in Nat
      /\ DOMAIN ks = DOMAIN sq
  BY LenProperties DEF Describes, MessagesAt
<1>2. Len(sq) = Len(ks)
  <2>1. 1..Len(sq) = 1..Len(ks)
    BY <1>1
  <2>2. Len(sq) # 0 => Len(sq) \in 1..Len(ks)
    BY <1>0, <2>1
  <2>3. Len(ks) # 0 => Len(ks) \in 1..Len(sq)
    BY <1>0, <2>1
  <2> QED BY <1>0, <2>2, <2>3
<1>3. Surviving(T) \subseteq 1..Len(T) /\ Len(T) \in Nat
  BY MainInTape, LenProperties DEF Surviving, Project
<1>4. \A n \in 1..Len(sq) : sq[n] \in Surviving(T) /\ sq[n] \in Nat
  BY <1>1, ElementOfSeq DEF Describes, ImageOf
<1>5. \A i \in Surviving(T) : \E n \in 1..Len(sq) : i = sq[n]
  BY <1>1 DEF Describes, ImageOf
<1>6. CASE c = Len(ks)
  <2>1. M = T
    BY <1>0, <1>6, ConcatEmptySeq DEF Cut, CutTape
  <2>2. 1..c = 1..Len(sq)
    BY <1>2, <1>6
  <2>3. \A i : i \in Surviving(M) <=> \E n \in 1..c : i = sq[n]
    BY <1>4, <1>5, <2>1, <2>2
  <2>4. \A n \in 1..c : sq[n] \in 1..Len(T)
    BY <1>3, <1>4, <2>2
  <2>5. \A n \in 1..c : M[sq[n]] = T[sq[n]] /\ sq[n] <= Len(M)
    BY <1>3, <2>1, <2>4
  <2> QED BY <1>2, <2>1, <2>3, <2>4, <2>5 DEF LeavesFirst
<1>7. CASE c < Len(ks)
  <2> DEFINE k == IF c = 0 THEN 0 ELSE sq[c]
  <2>1. k \in Nat
    <3>1. CASE c = 0
      BY <3>1
    <3>2. CASE c # 0
      <4>1. c \in 1..Len(sq)
        BY <1>1, <1>2, <3>2
      <4> QED BY <1>4, <3>2, <4>1
    <3> QED BY <3>1, <3>2
  <2>2. M = T \o <<Shadow(k)>>
    BY <1>7 DEF Cut, CutTape
  <2>3. \A n \in 1..Len(sq) : sq[n] <= k <=> n <= c
    <3> TAKE n \in 1..Len(sq)
    <3>1. CASE c = 0
      <4>1. sq[n] >= 1
        BY <1>3, <1>4
      <4>2. k = 0 /\ n >= 1
        BY <1>1, <3>1
      <4> QED BY <1>4, <3>1, <4>1, <4>2
    <3>2. CASE c # 0
      <4>1. c \in 1..Len(sq) /\ k = sq[c]
        BY <1>1, <1>2, <3>2
      <4>2. CASE n = c
        <5>1. sq[n] = k /\ sq[n] \in Nat
          BY <1>4, <4>1, <4>2
        <5> QED BY ONLY <4>2, <5>1, c \in Nat
      <4>3. CASE n < c
        <5>1. sq[n] < sq[c]
          <6>1. Ascending(sq) /\ n \in DOMAIN sq /\ c \in DOMAIN sq
            BY <1>1, <4>1 DEF Describes
          <6> QED BY ONLY <4>3, <6>1 DEF Ascending
        <5>2. sq[n] \in Nat /\ sq[c] \in Nat
          BY <1>4, <4>1
        <5> QED BY ONLY <4>1, <4>3, <5>1, <5>2
      <4>4. CASE c < n
        <5>1. sq[c] < sq[n]
          <6>1. Ascending(sq) /\ n \in DOMAIN sq /\ c \in DOMAIN sq
            BY <1>1, <4>1 DEF Describes
          <6> QED BY ONLY <4>4, <6>1 DEF Ascending
        <5>2. sq[n] \in Nat /\ sq[c] \in Nat
          BY <1>4, <4>1
        <5>3. ~(sq[n] <= k) /\ ~(n <= c)
          BY ONLY <4>1, <4>4, <5>1, <5>2
        <5> QED BY <5>3
      <4>5. n \in Nat /\ c \in Nat
        BY <1>1
      <4> QED BY <4>2, <4>3, <4>4, <4>5
    <3> QED BY <3>1, <3>2
  <2> HIDE DEF k
  <2>4. Shadow(k) \in Event /\ Shadow(k).kind = "shadow" /\ Shadow(k).val = k
    BY <2>1, EventsAreTyped
  <2>5. \A i : i \in Surviving(M) <=> i \in Surviving(T) /\ i <= k
    <3>1. PICK e \in Event : M = T \o <<e>> /\ e.kind = "shadow" /\ e.val = k
      BY <2>2, <2>4
    <3>2. \A i : i \in Surviving(M) <=> i \in Surviving(T) /\ i <= e.val
      BY <3>1, EventAdded
    <3> QED BY <3>1, <3>2
  <2>6. M \in Seq(Event) /\ Len(M) = Len(T) + 1 /\ \A i \in 1..Len(T) : M[i] = T[i]
    <3>1. <<Shadow(k)>> \in Seq(Event) /\ Len(<<Shadow(k)>>) = 1
      BY <2>4, SingleSeq
    <3> QED BY <2>2, <3>1, Grown
  <2>7. \A n \in 1..c : n \in 1..Len(sq) /\ n <= c
    BY <1>1, <1>2
  <2>8. \A i : i \in Surviving(M) <=> \E n \in 1..c : i = sq[n]
    <3> SUFFICES ASSUME NEW i
                 PROVE  i \in Surviving(M) <=> \E n \in 1..c : i = sq[n]
      OBVIOUS
    <3>1. ASSUME i \in Surviving(M) PROVE \E n \in 1..c : i = sq[n]
      <4>1. PICK n \in 1..Len(sq) : i = sq[n]
        BY <1>5, <2>5, <3>1
      <4>2. n <= c
        BY <2>3, <2>5, <3>1, <4>1
      <4>3. n \in 1..c
        BY <1>1, <4>2
      <4> QED BY <4>1, <4>3
    <3>2. ASSUME NEW n \in 1..c, i = sq[n] PROVE i \in Surviving(M)
      BY <1>4, <2>3, <2>5, <2>7, <3>2
    <3> QED BY <3>1, <3>2
  <2>9. \A n \in 1..c : sq[n] \in 1..Len(T)
    BY <1>3, <1>4, <2>7
  <2>10. \A n \in 1..c : M[sq[n]] = T[sq[n]] /\ sq[n] <= Len(M)
    BY <1>3, <2>6, <2>9, SMTT(30)
  <2> QED BY <1>2, <2>6, <2>8, <2>9, <2>10 DEF LeavesFirst
<1>8. c = Len(ks) \/ c < Len(ks)
  BY <1>0
<1> QED BY <1>6, <1>7, <1>8

LEMMA Listed ==
  ASSUME NEW S, NEW k \in Nat, NEW f, f = [n \in 1..k |-> f[n]], \A n \in 1..k : f[n] \in S
  PROVE  f \in Seq(S) /\ Len(f) = k
<1>1. [n \in 1..k |-> f[n]] \in Seq(S)
  OBVIOUS
<1>2. DOMAIN f = 1..k
  OBVIOUS
<1>3. f \in Seq(S)
  BY <1>1
<1> QED BY <1>2, <1>3, LenProperties

\* The messages of a batch after the first c, and the cursor after it: its
\* first c entries and the k positions after b.
Rest(s, c) == [n \in 1..(Len(s) - c) |-> Said(s[c + n])]
Extended(sq, c, k, b) == SubSeq(sq, 1, c) \o [n \in 1..k |-> b + n]

LEMMA RestTyped ==
  ASSUME NEW s \in Seq(Nat), NEW c \in Nat, c <= Len(s)
  PROVE  /\ Rest(s, c) \in Seq(Event) /\ Len(Rest(s, c)) = Len(s) - c
         /\ \A n \in 1..(Len(s) - c) : Rest(s, c)[n].kind = "message" /\ Rest(s, c)[n].val = s[c + n]
<1>1. PICK k \in Nat : k = Len(s) - c
  BY LenProperties
<1>2. \A n \in 1..k : s[c + n] \in Nat
  <2> TAKE n \in 1..k
  <2>1. c + n \in 1..Len(s)
    BY <1>1, LenProperties
  <2> QED BY <2>1, ElementOfSeq
<1>3. Rest(s, c) = [n \in 1..k |-> Said(s[c + n])]
  BY <1>1 DEF Rest
<1>4. \A n \in 1..k : Rest(s, c)[n] = Said(s[c + n])
  BY <1>3
<1>5. \A n \in 1..k : Rest(s, c)[n] \in Event
          /\ Rest(s, c)[n].kind = "message" /\ Rest(s, c)[n].val = s[c + n]
  BY <1>2, <1>4, EventsAreTyped
<1>6. Rest(s, c) = [n \in 1..k |-> Rest(s, c)[n]]
  BY <1>3, <1>4
<1>7. Rest(s, c) \in Seq(Event) /\ Len(Rest(s, c)) = k
  BY <1>5, <1>6, Listed
<1> QED BY <1>1, <1>5, <1>7

\* sq2 lists the first c entries of sq and the k positions after b.
Lists(sq2, sq, c, k, b) ==
  /\ sq2 \in Seq(Nat) /\ Len(sq2) = c + k
  /\ \A n \in 1..(c + k) : sq2[n] = IF n <= c THEN sq[n] ELSE b + (n - c)

LEMMA CursorExtended ==
  ASSUME NEW sq \in Seq(Nat), NEW c \in Nat, c <= Len(sq), NEW k \in Nat, NEW b \in Nat
  PROVE  Lists(Extended(sq, c, k, b), sq, c, k, b)
<1> DEFINE front == SubSeq(sq, 1, c)
           back == [n \in 1..k |-> b + n]
<1>1. front \in Seq(Nat) /\ Len(front) = c /\ \A n \in 1..c : front[n] = sq[n]
  <2>1. \A n \in 1..c : sq[n] \in Nat
    BY LenProperties, ElementOfSeq
  <2> QED BY <2>1, SubSeqProperties, LenProperties
<1>2. back \in Seq(Nat) /\ Len(back) = k /\ \A n \in 1..k : back[n] = b + n
  BY CountUp
<1>3. Extended(sq, c, k, b) = front \o back
  BY DEF Extended
<1> HIDE DEF front, back
<1>4. /\ front \o back \in Seq(Nat) /\ Len(front \o back) = c + k
      /\ \A n \in 1..(c + k) : (front \o back)[n] = IF n <= c THEN front[n] ELSE back[n - c]
  BY <1>1, <1>2, ConcatProperties, ZenonT(60)
<1>5. ASSUME NEW n \in 1..(c + k)
      PROVE  (front \o back)[n] = IF n <= c THEN sq[n] ELSE b + (n - c)
  <2>1. CASE n <= c
    <3>1. n \in 1..c
      BY <2>1
    <3> QED BY <1>1, <1>4, <2>1, <3>1
  <2>2. CASE ~(n <= c)
    <3>1. n - c \in 1..k
      BY <2>2
    <3>2. (front \o back)[n] = back[n - c]
      BY <1>4, <2>2
    <3> QED BY <1>2, <2>2, <3>1, <3>2
  <2> QED BY <2>1, <2>2
<1> QED BY <1>3, <1>4, <1>5 DEF Lists

\* U holds the first c messages of s at positions up to m that sq lists, the k
\* others after m, and no other message that is left.
HoldsRest(U, sq, s, c, k, m) ==
  /\ \A n \in 1..c : sq[n] \in Nat /\ sq[n] <= m /\ U[sq[n]].val = s[n]
  /\ \A n, l \in 1..c : n < l => sq[n] < sq[l]
  /\ \A i : i \in Surviving(U) <=> (\E n \in 1..c : i = sq[n]) \/ i \in (m + 1)..(m + k)
  /\ \A n \in 1..k : U[m + n].val = s[c + n]

LEMMA ExtendedDescribes ==
  ASSUME NEW U \in Seq(Event), NEW m \in Nat, NEW c \in Nat, NEW k \in Nat, NEW sq,
         NEW s \in Seq(Nat), Len(s) = c + k, NEW sq2, Lists(sq2, sq, c, k, m),
         HoldsRest(U, sq, s, c, k, m)
  PROVE  Describes(sq2, s, U)
<1>0. /\ sq2 \in Seq(Nat) /\ Len(sq2) = c + k
      /\ \A n \in 1..(c + k) : sq2[n] = IF n <= c THEN sq[n] ELSE m + (n - c)
  BY DEF Lists
<1> USE DEF HoldsRest
<1>1. DOMAIN sq2 = 1..(c + k) /\ DOMAIN s = 1..(c + k)
  BY <1>0, LenProperties
<1>2. \A n \in 1..(c + k) : ~(n <= c) => n - c \in 1..k /\ n \in Nat
  OBVIOUS
<1>3. \A n \in 1..(c + k) : n <= c => n \in 1..c
  OBVIOUS
<1>4. Ascending(sq2)
  <2> SUFFICES ASSUME NEW n \in 1..(c + k), NEW l \in 1..(c + k), n < l
               PROVE  sq2[n] < sq2[l]
    BY <1>1 DEF Ascending
  <2>1. CASE l <= c
    <3>1. n \in 1..c /\ l \in 1..c /\ n <= c
      BY <2>1
    <3>2. sq2[n] = sq[n] /\ sq2[l] = sq[l]
      BY <1>0, <2>1, <3>1
    <3>3. sq[n] < sq[l]
      BY <3>1
    <3> QED BY <3>2, <3>3
  <2>2. CASE n <= c /\ ~(l <= c)
    <3>1. n \in 1..c /\ sq2[n] = sq[n] /\ sq2[l] = m + (l - c)
      BY <1>0, <2>2
    <3>2. PICK d \in Nat : d = l - c /\ d >= 1
      BY <2>2
    <3>3. PICK e \in Nat : e = sq[n] /\ e <= m
      BY <3>1
    <3>4. sq2[n] = e /\ sq2[l] = m + d
      BY <3>1, <3>2, <3>3
    <3>5. e < m + d
      BY ONLY <3>2, <3>3, m \in Nat
    <3> QED BY <3>4, <3>5, Zenon
  <2>3. CASE ~(n <= c)
    <3>1. ~(l <= c)
      BY <2>3
    <3>2. sq2[n] = m + (n - c)
      BY <1>0, <2>3
    <3>3. sq2[l] = m + (l - c)
      BY <1>0, <3>1
    <3> QED BY <3>2, <3>3
  <2> QED BY <2>1, <2>2, <2>3
<1>5. ImageOf(sq2) = Surviving(U)
  <2>1. ASSUME NEW n \in 1..(c + k)
        PROVE  sq2[n] \in Surviving(U)
    <3>1. CASE n <= c
      BY <1>0, <1>3, <3>1
    <3>2. CASE ~(n <= c)
      <4>1. sq2[n] = m + (n - c) /\ m + (n - c) \in (m + 1)..(m + k)
        BY <1>0, <3>2
      <4> QED BY <4>1
    <3> QED BY <3>1, <3>2
  <2>2. ASSUME NEW i \in Surviving(U)
        PROVE  \E n \in 1..(c + k) : i = sq2[n]
    <3>1. CASE \E n \in 1..c : i = sq[n]
      <4>1. PICK n \in 1..c : i = sq[n]
        BY <3>1
      <4>2. n \in 1..(c + k) /\ sq2[n] = sq[n]
        BY <1>0
      <4> QED BY <4>1, <4>2
    <3>2. CASE i \in (m + 1)..(m + k)
      <4>1. c + (i - m) \in 1..(c + k) /\ ~(c + (i - m) <= c) /\ m + ((c + (i - m)) - c) = i
        BY <3>2, SMTT(30)
      <4> QED BY <1>0, <4>1
    <3> QED BY <3>1, <3>2
  <2>3. ImageOf(sq2) = {sq2[n] : n \in 1..(c + k)}
    BY <1>1 DEF ImageOf
  <2> QED BY ONLY <2>1, <2>2, <2>3
<1>6. s = MessagesAt(U, sq2)
  <2>1. ASSUME NEW n \in 1..(c + k)
        PROVE  U[sq2[n]].val = s[n]
    <3>1. CASE n <= c
      BY <1>0, <1>3, <3>1
    <3>2. CASE ~(n <= c)
      <4>1. n - c \in 1..k /\ sq2[n] = m + (n - c) /\ c + (n - c) = n
        BY <1>0, <3>2
      <4>2. U[m + (n - c)].val = s[c + (n - c)]
        BY <4>1
      <4> QED BY <4>1, <4>2
    <3> QED BY <3>1, <3>2
  <2>2. s = [n \in 1..(c + k) |-> s[n]]
    BY LenProperties
  <2> QED BY <1>1, <2>1, <2>2 DEF MessagesAt
<1> QED BY <1>4, <1>5, <1>6 DEF Describes

\* A batch written after the common prefix leaves the cursor right.
LEMMA WrittenDescribes ==
  ASSUME NEW T \in Seq(Event), NEW sq \in Seq(Nat), NEW ks \in Seq(Nat), Describes(sq, ks, T),
         NEW s \in Seq(Nat), NEW c \in Nat, c <= Len(ks), c <= Len(s), \A n \in 1..c : ks[n] = s[n],
         NEW M, M = CutTape(T, sq, ks, c)
  PROVE  /\ M \in Seq(Event)
         /\ Describes(Extended(sq, c, Len(s) - c, Len(M)), s, M \o Rest(s, c))
<1>0. LeavesFirst(c, sq, T, M) /\ Len(sq) = Len(ks)
  BY CutBack
<1>1. /\ M \in Seq(Event) /\ Len(sq) = Len(ks)
      /\ \A i : i \in Surviving(M) <=> \E n \in 1..c : i = sq[n]
      /\ \A n \in 1..c : sq[n] \in 1..Len(T) /\ M[sq[n]] = T[sq[n]] /\ sq[n] <= Len(M)
  BY <1>0 DEF LeavesFirst
<1>2. c \in Nat /\ c <= Len(sq) /\ Len(s) \in Nat /\ Len(s) - c \in Nat
  <2>1. Len(s) \in Nat /\ Len(ks) \in Nat
    BY LenProperties
  <2> QED BY <1>1, <2>1
<1>3. PICK k \in Nat : k = Len(s) - c
  BY <1>2
<1>4. PICK m \in Nat : m = Len(M)
  BY <1>1, LenProperties
<1>5. /\ Rest(s, c) \in Seq(Event) /\ Len(Rest(s, c)) = k
      /\ \A n \in 1..k : Rest(s, c)[n].kind = "message" /\ Rest(s, c)[n].val = s[c + n]
  BY <1>2, <1>3, RestTyped
<1>6. PICK R \in Seq(Event) : R = Rest(s, c)
  BY <1>5
<1> DEFINE U == M \o R
<1>7. Len(R) = k
  BY <1>5, <1>6
<1>8. U \in Seq(Event)
  BY <1>1, ConcatProperties
<1>9. /\ \A i \in 1..Len(M) : U[i] = M[i]
      /\ \A n \in 1..Len(R) : U[Len(M) + n] = R[n]
  BY <1>1, Grown
<1>10. \A i : i \in Surviving(U) <=> i \in Surviving(M) \/ i \in (Len(M) + 1)..(Len(M) + Len(R))
  <2>1. \A n \in 1..Len(R) : R[n].kind = "message"
    BY <1>5, <1>6, <1>7
  <2> QED BY <1>1, <2>1, MessagesAdded, ZenonT(60)
<1> HIDE DEF U
<1>11. \A i \in 1..m : U[i] = M[i]
  BY <1>4, <1>9
<1>12. \A n \in 1..k : U[m + n].val = s[c + n]
  BY <1>4, <1>5, <1>6, <1>7, <1>9
<1>13. PICK sq2 : sq2 = Extended(sq, c, k, m) /\ Lists(sq2, sq, c, k, m)
  BY <1>2, CursorExtended
<1>14. \A n \in 1..c : n \in DOMAIN sq
  BY <1>2, LenProperties
<1>15. \A n \in 1..c : sq[n] \in Nat /\ sq[n] <= m /\ U[sq[n]].val = s[n]
  <2> TAKE n \in 1..c
  <2>1. sq[n] \in Nat /\ sq[n] >= 1 /\ sq[n] <= m
    <3>1. Len(T) \in Nat
      BY LenProperties
    <3>2. sq[n] \in 1..Len(T) /\ sq[n] <= Len(M)
      BY <1>1
    <3>3. sq[n] \in Nat /\ sq[n] >= 1
      BY ONLY <3>1, <3>2
    <3>4. m = Len(M)
      BY <1>4
    <3> QED BY <3>2, <3>3, <3>4
  <2>2. sq[n] \in 1..m
    BY <2>1
  <2>3. U[sq[n]] = T[sq[n]]
    <3>1. M[sq[n]] = T[sq[n]]
      BY <1>1
    <3>2. U[sq[n]] = M[sq[n]]
      BY <1>11, <2>2
    <3> QED BY <3>1, <3>2
  <2>4. ks[n] = T[sq[n]].val
    BY <1>14 DEF Describes, MessagesAt
  <2> QED BY <2>1, <2>3, <2>4
<1>16. \A n, l \in 1..c : n < l => sq[n] < sq[l]
  BY <1>14 DEF Describes, Ascending
<1>17. \A i : i \in Surviving(U) <=> (\E n \in 1..c : i = sq[n]) \/ i \in (m + 1)..(m + k)
  BY <1>1, <1>4, <1>7, <1>10
<1>18. c \in Nat /\ Len(s) = c + k
  BY <1>2, <1>3
<1>19. HoldsRest(U, sq, s, c, k, m)
  BY <1>12, <1>15, <1>16, <1>17 DEF HoldsRest
<1>20. Describes(sq2, s, U)
  BY <1>8, <1>13, <1>18, <1>19, ExtendedDescribes
<1> QED BY <1>1, <1>3, <1>4, <1>6, <1>13, <1>20 DEF U

\* The accidents after which the cursor may be wrong.
Sound == mishaps \cap {"reset", "torn", "cut", "unread"} = {}

\* The second reset of the flag has let no two syncs in.
Orderly == "reset" \notin mishaps

\* Nothing runs before the session is restored.
Asleep == ~loaded => ~syncing /\ turn = "idle" /\ \A p \in Thread : at[p] = "idle"

\* One thread at a time holds the recorder.
OneSync ==
  Orderly => \A p \in Thread : at[p] \in InSync =>
             syncing /\ \A q \in Thread : at[q] \in InSync => q = p

\* What a thread has decided to write still fits the cursor.
Planned(d, s, sq, ks) ==
  /\ d.common <= Len(ks) /\ d.common <= Len(s)
  /\ \A n \in 1..d.common : ks[n] = s[n]
  /\ d.batch = Cut(sq, ks, d.common) \o Rest(s, d.common)

PlanRight ==
  Orderly => \A p \in Thread : at[p] = "append" => Planned(plan[p], snap[p], seqs, keys)

CursorRight == loaded /\ Sound => Describes(seqs, keys, tape)

\* Every message the cursor holds has its position.
SameLength == loaded /\ Orderly => Len(seqs) = Len(keys)

CursorInvariant == Asleep /\ OneSync /\ PlanRight /\ SameLength /\ CursorRight

LEMMA InitCursor == Init => CursorInvariant
<1> SUFFICES ASSUME Init PROVE CursorInvariant
  OBVIOUS
<1>1. Asleep /\ OneSync /\ PlanRight
  BY DEF Init, Asleep, OneSync, PlanRight, InSync
<1>2. Surviving(tape) = {}
  BY DEF Init, Surviving, Project, Main
<1>3. Describes(seqs, keys, tape)
  BY <1>2 DEF Init, Describes, Ascending, ImageOf, MessagesAt
<1>4. SameLength
  BY DEF Init, SameLength
<1> QED BY <1>1, <1>3, <1>4 DEF CursorInvariant, CursorRight

\* A step that leaves the recorder alone.
LEMMA RecorderAlone ==
  ASSUME Fits, CursorInvariant, UNCHANGED <<loaded, keys, seqs, syncing, plan>>, mishaps \subseteq mishaps',
         loaded \/ turn' = "idle",
         \A p \in Thread : at'[p] \in InSync => at'[p] = at[p] /\ snap'[p] = snap[p],
         ~loaded => \A p \in Thread : at'[p] = "idle",
         \/ UNCHANGED tape
         \/ \E e \in Event : e.kind \in {"meta", "foreign"} /\ tape' = tape \o <<e>>
  PROVE  CursorInvariant'
<1>1. (Sound' => Sound) /\ (Orderly' => Orderly)
  BY DEF Sound, Orderly
<1>2. Asleep'
  BY DEF CursorInvariant, Asleep
<1>3. OneSync'
  BY <1>1 DEF CursorInvariant, OneSync
<1>4. PlanRight'
  BY <1>1 DEF CursorInvariant, PlanRight, InSync
<1>5. CursorRight'
  <2> SUFFICES ASSUME loaded, Sound PROVE Describes(seqs, keys, tape')
    BY <1>1 DEF CursorRight
  <2>1. Describes(seqs, keys, tape) /\ tape \in Seq(Event)
    BY DEF CursorInvariant, CursorRight, Fits, TypeOK
  <2>2. CASE UNCHANGED tape
    BY <2>1, <2>2
  <2>3. CASE \E e \in Event : e.kind \in {"meta", "foreign"} /\ tape' = tape \o <<e>>
    <3> PICK e \in Event : e.kind \in {"meta", "foreign"} /\ tape' = tape \o <<e>>
      BY <2>3
    <3>1. PICK U : U = tape \o <<e>>
      OBVIOUS
    <3> QED BY <2>1, <3>1, StillDescribes
  <2> QED BY <2>2, <2>3
<1>6. SameLength'
  BY <1>1 DEF CursorInvariant, SameLength
<1> QED BY <1>2, <1>3, <1>4, <1>5, <1>6 DEF CursorInvariant

LEMMA EnterCursor ==
  ASSUME Fits, CursorInvariant, NEW p \in Thread, Enter(p)
  PROVE  CursorInvariant'
<1> USE DEF CursorInvariant, disk
<1>1. UNCHANGED <<tape, loaded, keys, seqs, plan, turn>> /\ at[p] = "called" /\ loaded
  BY DEF Enter, Asleep
<1>2. (Sound' => Sound) /\ (Orderly' => Orderly)
  BY DEF Enter, HandOver, Sound, Orderly
<1>3. CASE HandOver(p)
  <2>1. UNCHANGED syncing /\ at' = [at EXCEPT ![p] = "meta"] /\ snap' = [snap EXCEPT ![p] = <<>>]
    BY <1>3 DEF HandOver
  <2>2. mishaps \subseteq mishaps'
    BY <1>3 DEF HandOver
  <2>3. \A q \in Thread : at'[q] \in InSync => at'[q] = at[q] /\ snap'[q] = snap[q]
    BY <2>1 DEF Fits, TypeOK, InSync
  <2> QED BY <1>1, <2>1, <2>2, <2>3, RecorderAlone
<1>4. CASE ~syncing /\ syncing' = TRUE /\ at' = [at EXCEPT ![p] = "diff"] /\ UNCHANGED <<pending, snap, mishaps>>
  <2>1. Asleep' /\ CursorRight' /\ SameLength'
    BY <1>1, <1>2, <1>4 DEF Asleep, CursorRight, SameLength
  <2>2. Orderly => \A q \in Thread : at[q] \notin InSync
    BY <1>4 DEF OneSync
  <2>3. OneSync'
    BY <1>2, <1>4, <2>2 DEF OneSync, InSync, Fits, TypeOK
  <2>4. PlanRight'
    BY <1>1, <1>2, <1>4 DEF PlanRight, Fits, TypeOK
  <2> QED BY <2>1, <2>3, <2>4
<1> QED BY <1>3, <1>4 DEF Enter

LEMMA DiffCursor ==
  ASSUME Fits, CursorInvariant, NEW p \in Thread, Diff(p)
  PROVE  CursorInvariant'
<1> USE DEF CursorInvariant, disk
<1>1. UNCHANGED <<tape, loaded, keys, seqs, turn, mishaps>> /\ at[p] = "diff" /\ loaded
  BY DEF Diff, Asleep
<1>2. (Sound' <=> Sound) /\ (Orderly' <=> Orderly)
  BY <1>1 DEF Sound, Orderly
<1>3. Asleep' /\ CursorRight' /\ SameLength'
  BY <1>1, <1>2 DEF Asleep, CursorRight, SameLength
<1>4. Orderly => syncing /\ \A q \in Thread : at[q] \in InSync => q = p
  BY <1>1 DEF OneSync, InSync
<1>5. CASE UNCHANGED <<syncing, snap, plan>> /\ at' = [at EXCEPT ![p] = "tail"]
  <2>1. OneSync'
    BY <1>2, <1>4, <1>5 DEF OneSync, InSync, Fits, TypeOK
  <2>2. \A q \in Thread : at'[q] = "append" => at[q] = "append"
    BY <1>5 DEF Fits, TypeOK
  <2>3. PlanRight'
    BY <1>1, <1>2, <1>5, <2>2 DEF PlanRight
  <2> QED BY <1>3, <2>1, <2>3
<1>6. CASE syncing' = FALSE /\ snap' = [snap EXCEPT ![p] = <<>>] /\ at' = [at EXCEPT ![p] = "idle"]
           /\ plan' = plan
  <2>1. Orderly => \A q \in Thread : at'[q] \notin InSync
    BY <1>4, <1>6 DEF InSync, Fits, TypeOK
  <2>2. OneSync' /\ PlanRight'
    BY <1>2, <2>1 DEF OneSync, PlanRight, InSync
  <2> QED BY <1>3, <2>2
<1>7. CASE \E c \in 0..Len(keys) : c <= Len(seqs) /\ Agree(snap[p], c)
             /\ at' = [at EXCEPT ![p] = "append"] /\ UNCHANGED <<syncing, snap>>
             /\ plan' = [plan EXCEPT ![p] = [common |-> c, batch |-> Batch(snap[p], c)]]
  <2> PICK c \in 0..Len(keys) : c <= Len(seqs) /\ Agree(snap[p], c)
             /\ at' = [at EXCEPT ![p] = "append"] /\ UNCHANGED <<syncing, snap>>
             /\ plan' = [plan EXCEPT ![p] = [common |-> c, batch |-> Batch(snap[p], c)]]
    BY <1>7
  <2>1. OneSync'
    BY <1>2, <1>4, SMTT(30) DEF OneSync, InSync, Fits, TypeOK
  <2>2. plan'[p] = [common |-> c, batch |-> Batch(snap[p], c)]
    BY DEF Fits, TypeOK
  <2>3. Orderly => \A q \in Thread : at'[q] = "append" => q = p
    BY <1>4 DEF InSync, Fits, TypeOK
  <2>4. Planned([common |-> c, batch |-> Batch(snap[p], c)], snap[p], seqs, keys)
    BY DEF Planned, Agree, Batch, Cut, Rest
  <2>5. PlanRight'
    BY <1>1, <1>2, <2>2, <2>3, <2>4 DEF PlanRight
  <2> QED BY <1>3, <2>1, <2>5
<1> QED BY <1>5, <1>6, <1>7 DEF Diff

LEMMA WriteCursor ==
  ASSUME Fits, CursorInvariant, NEW p \in Thread, Write(p)
  PROVE  CursorInvariant'
<1> USE DEF CursorInvariant
<1>1. /\ UNCHANGED <<loaded, syncing, snap, turn>> /\ at[p] = "append" /\ loaded
      /\ at' = [at EXCEPT ![p] = "tail"]
  BY DEF Write, Asleep
<1>2. (Sound' => Sound) /\ (Orderly' => Orderly)
  BY DEF Write, Written, Failed, Sound, Orderly
<1>3. Asleep'
  BY <1>1 DEF Asleep
<1>4. Orderly => syncing /\ \A q \in Thread : at[q] \in InSync => q = p
  BY <1>1 DEF OneSync, InSync
<1>5. OneSync'
  BY <1>1, <1>2, <1>4 DEF OneSync, InSync, Fits, TypeOK
<1>6. Orderly => \A q \in Thread : at'[q] # "append"
  BY <1>1, <1>4 DEF InSync, Fits, TypeOK
<1>7. PlanRight'
  BY <1>2, <1>6 DEF PlanRight
<1>8. CursorRight'
  <2> SUFFICES ASSUME Sound, Sound' PROVE Describes(seqs, keys, tape)'
    BY <1>2 DEF CursorRight
  <2> DEFINE c == plan[p].common
             s == snap[p]
             M == CutTape(tape, seqs, keys, c)
  <2>1. Describes(seqs, keys, tape) /\ Planned(plan[p], s, seqs, keys)
    <3>1. Orderly
      BY DEF Sound, Orderly
    <3> QED BY <1>1, <3>1 DEF CursorRight, PlanRight
  <2>2. /\ tape \in Seq(Event) /\ seqs \in Seq(Nat) /\ keys \in Seq(Nat) /\ s \in Seq(Nat)
        /\ c \in Nat /\ plan[p].batch \in Seq(Event)
    BY DEF Fits, TypeOK
  <2>3. /\ c <= Len(keys) /\ c <= Len(s) /\ \A n \in 1..c : keys[n] = s[n]
        /\ plan[p].batch = Cut(seqs, keys, c) \o Rest(s, c)
    BY <2>1 DEF Planned
  <2>4. LeavesFirst(c, seqs, tape, M) /\ Len(seqs) = Len(keys)
    BY <2>1, <2>2, <2>3, CutBack
  <2>5. M \in Seq(Event) /\ Describes(Extended(seqs, c, Len(s) - c, Len(M)), s, M \o Rest(s, c))
    BY <2>1, <2>2, <2>3, WrittenDescribes
  <2>6. CASE Written(p)
    <3>1. /\ tape' = tape \o plan[p].batch /\ keys' = s
          /\ seqs' = SubSeq(seqs, 1, c) \o [n \in 1..(Len(s) - c) |-> Len(tape') - (Len(s) - c) + n]
      BY <2>3, <2>4, <2>6 DEF Written
    <3>2. Rest(s, c) \in Seq(Event) /\ Len(Rest(s, c)) = Len(s) - c
      BY <2>2, <2>3, RestTyped
    <3>3. Cut(seqs, keys, c) \in Seq(Event)
      <4>1. CASE c < Len(keys)
        <5>1. (IF c = 0 THEN 0 ELSE seqs[c]) \in Nat
          <6>1. c # 0 => c \in 1..Len(seqs)
            BY <2>2, <2>4, <4>1, LenProperties
          <6> QED BY <2>2, <6>1, ElementOfSeq
        <5>2. Shadow(IF c = 0 THEN 0 ELSE seqs[c]) \in Event
          BY <5>1, EventsAreTyped
        <5> QED BY <4>1, <5>2, SingleSeq DEF Cut
      <4>2. CASE ~(c < Len(keys))
        BY <4>2, EmptySeq DEF Cut
      <4> QED BY <4>1, <4>2
    <3>4. tape' = M \o Rest(s, c)
      <4>1. tape' = tape \o (Cut(seqs, keys, c) \o Rest(s, c))
        BY <2>3, <3>1
      <4>3. tape \o (Cut(seqs, keys, c) \o Rest(s, c)) = (tape \o Cut(seqs, keys, c)) \o Rest(s, c)
        <5>1. tape \in Seq(Event) /\ Cut(seqs, keys, c) \in Seq(Event) /\ Rest(s, c) \in Seq(Event)
          BY <2>2, <3>2, <3>3
        <5> QED BY ONLY <5>1
      <4> QED BY <4>1, <4>3 DEF CutTape
    <3> HIDE DEF M, s, c
    <3>5. Len(tape') - (Len(s) - c) = Len(M)
      <4>1. Len(tape') = Len(M) + Len(Rest(s, c)) /\ Len(M) \in Nat /\ Len(Rest(s, c)) \in Nat
        BY <2>5, <3>2, <3>4, ConcatProperties, LenProperties
      <4> QED BY <3>2, <4>1
    <3>6. seqs' = Extended(seqs, c, Len(s) - c, Len(M))
      BY <3>1, <3>5 DEF Extended
    <3> QED BY <2>5, <3>1, <3>4, <3>6
  <2>7. CASE Failed(p)
    <3>1. PICK n \in 0..(Len(plan[p].batch) - 1) :
            /\ tape' = tape \o SubSeq(plan[p].batch, 1, n)
            /\ mishaps' = mishaps \cup {"failed"} \cup (IF n > 0 THEN {"torn"} ELSE {})
            /\ UNCHANGED <<keys, seqs>>
      BY <2>7 DEF Failed
    <3>2. n = 0
      <4>1. Len(plan[p].batch) \in Nat
        BY <2>2, LenProperties
      <4>2. ~(n > 0)
        BY <3>1 DEF Sound
      <4> QED BY <4>1, <4>2
    <3>3. SubSeq(plan[p].batch, 1, n) = <<>>
      BY <3>2
    <3>4. tape' = tape
      BY <2>2, <3>1, <3>3, ConcatEmptySeq
    <3> QED BY <2>1, <3>1, <3>4
  <2> QED BY <2>6, <2>7 DEF Write
<1>9. SameLength'
  <2> SUFFICES ASSUME Orderly PROVE Len(seqs') = Len(keys')
    BY <1>1, <1>2 DEF SameLength
  <2>1. Len(seqs) = Len(keys) /\ Planned(plan[p], snap[p], seqs, keys)
    BY <1>1 DEF SameLength, PlanRight
  <2>2. CASE Written(p)
    <3>1. PICK c \in Nat : c = plan[p].common
      BY DEF Fits, TypeOK
    <3>2. PICK k : k = Len(snap[p]) - c
      OBVIOUS
    <3>3. c <= Len(seqs) /\ k \in Nat /\ c + k = Len(snap[p]) /\ seqs \in Seq(Nat) /\ snap[p] \in Seq(Nat)
      <4>1. seqs \in Seq(Nat) /\ snap[p] \in Seq(Nat)
        BY DEF Fits, TypeOK
      <4>2. Len(snap[p]) \in Nat /\ Len(keys) \in Nat
        BY LenProperties DEF Fits, TypeOK
      <4>3. c <= Len(keys) /\ c <= Len(snap[p])
        BY <2>1, <3>1 DEF Planned
      <4> QED BY <2>1, <3>2, <4>1, <4>2, <4>3
    <3>4. PICK b \in Nat : b = Len(tape') - k
      <4>1. tape' \in Seq(Event) /\ Len(tape') = Len(tape) + Len(plan[p].batch)
            /\ Len(tape) \in Nat /\ Len(plan[p].batch) \in Nat
        BY <2>2, Grown DEF Written, Fits, TypeOK
      <4>2. k <= Len(plan[p].batch)
        BY <1>1, <3>1, <3>2 DEF Fits, PlanFits
      <4>3. Len(tape') - k \in Nat
        BY ONLY <3>3, <4>1, <4>2
      <4> QED BY <4>3
    <3>5. seqs' = Extended(seqs, c, k, b) /\ keys' = snap[p]
      BY <2>2, <3>1, <3>2, <3>3, <3>4 DEF Written, Extended
    <3>6. Len(seqs') = c + k
      BY <3>3, <3>5, CursorExtended DEF Lists
    <3> QED BY <3>3, <3>5, <3>6
  <2>3. CASE Failed(p)
    BY <2>1, <2>3 DEF Failed
  <2> QED BY <2>2, <2>3 DEF Write
<1> QED BY <1>3, <1>5, <1>7, <1>8, <1>9

LEMMA DrainCursor ==
  ASSUME Fits, CursorInvariant, NEW p \in Thread, Drain(p)
  PROVE  CursorInvariant'
<1> USE DEF CursorInvariant, disk
<1>1. UNCHANGED <<tape, loaded, keys, seqs, plan, turn, mishaps>> /\ at[p] = "tail" /\ loaded
  BY DEF Drain, Asleep
<1>2. (Sound' <=> Sound) /\ (Orderly' <=> Orderly)
  BY <1>1 DEF Sound, Orderly
<1>3. Asleep' /\ CursorRight' /\ SameLength'
  BY <1>1, <1>2 DEF Asleep, CursorRight, SameLength
<1>4. Orderly => syncing /\ \A q \in Thread : at[q] \in InSync => q = p
  BY <1>1 DEF OneSync, InSync
<1>5. \/ at' = [at EXCEPT ![p] = "diff"] /\ UNCHANGED syncing
      \/ at' = [at EXCEPT ![p] = "leave"] /\ syncing' = FALSE
  BY DEF Drain
<1>6. OneSync'
  BY <1>2, <1>4, <1>5, ZenonT(60) DEF OneSync, InSync, Fits, TypeOK
<1>7. Orderly => \A q \in Thread : at'[q] # "append"
  BY <1>4, <1>5 DEF InSync, Fits, TypeOK
<1>8. PlanRight'
  BY <1>2, <1>7 DEF PlanRight
<1> QED BY <1>3, <1>6, <1>8

LEMMA LeaveCursor ==
  ASSUME Fits, CursorInvariant, NEW p \in Thread, Leave(p)
  PROVE  CursorInvariant'
<1> USE DEF CursorInvariant, disk
<1>1. /\ UNCHANGED <<tape, loaded, keys, seqs, snap, plan, turn>> /\ at[p] = "leave" /\ loaded
      /\ at' = [at EXCEPT ![p] = "meta"] /\ syncing' = FALSE
  BY DEF Leave, Asleep
<1>2. (Sound' => Sound) /\ (Orderly' => Orderly /\ \A q \in Thread : at[q] \notin InSync)
  BY DEF Leave, Sound, Orderly
<1>3. Asleep' /\ CursorRight' /\ SameLength'
  BY <1>1, <1>2 DEF Asleep, CursorRight, SameLength
<1>4. Orderly' => \A q \in Thread : at'[q] \notin InSync
  BY <1>1, <1>2 DEF InSync, Fits, TypeOK
<1>5. OneSync' /\ PlanRight'
  BY <1>4 DEF OneSync, PlanRight, InSync
<1> QED BY <1>3, <1>5

LEMMA CloseCursor ==
  ASSUME Fits, CursorInvariant, NEW p \in Thread, Close(p)
  PROVE  CursorInvariant'
<1>1. /\ UNCHANGED <<loaded, keys, seqs, syncing, snap, plan, turn, mishaps>> /\ at[p] = "meta"
      /\ at' = [at EXCEPT ![p] = "idle"]
  BY DEF Close
<1>2. UNCHANGED tape \/ \E e \in Event : e.kind \in {"meta", "foreign"} /\ tape' = tape \o <<e>>
  BY EventsAreTyped DEF Close
<1>3. loaded
  BY <1>1 DEF CursorInvariant, Asleep
<1>4. \A q \in Thread : at'[q] \in InSync => at'[q] = at[q] /\ snap'[q] = snap[q]
  BY <1>1 DEF InSync, Fits, TypeOK
<1> QED BY <1>1, <1>2, <1>3, <1>4, RecorderAlone

LEMMA ContextCursor ==
  ASSUME Fits, CursorInvariant,
         \/ Begin \/ Hear \/ Abandon \/ Reply \/ Compact \/ RollBack \/ EndTurn \/ Clear \/ Park
         \/ \E p \in Sides : SideCall(p)
  PROVE  CursorInvariant'
<1> USE DEF disk, record
<1>1. UNCHANGED <<tape, loaded, keys, seqs, syncing, plan>> /\ mishaps \subseteq mishaps'
  BY DEF Begin, Hear, Abandon, Reply, Compact, RollBack, EndTurn, Clear, Park, SideCall
<1>2. loaded
  BY DEF CursorInvariant, Asleep, Begin, Hear, Abandon, Reply, Compact, RollBack, EndTurn, Clear, Park, SideCall
<1>3. CASE UNCHANGED <<at, snap>>
  BY <1>1, <1>2, <1>3, RecorderAlone
<1>4. CASE \E p \in Thread : Call(p)
  <2> PICK p \in Thread : Call(p)
    BY <1>4
  <2>1. \A q \in Thread : at'[q] \in InSync => at'[q] = at[q] /\ snap'[q] = snap[q]
    BY DEF Call, InSync, Fits, TypeOK
  <2> QED BY <1>1, <1>2, <2>1, RecorderAlone
<1>5. UNCHANGED <<at, snap>> \/ \E p \in Thread : Call(p)
  BY DEF Begin, Hear, Abandon, Reply, Compact, RollBack, EndTurn, Clear, Park, SideCall, Thread
<1> QED BY <1>3, <1>4, <1>5

LEMMA JanitorCursor ==
  ASSUME Fits, CursorInvariant, Visit \/ VisitSaved \/ VisitEnds
  PROVE  CursorInvariant'
<1> USE DEF memory, record
<1>1. UNCHANGED <<loaded, keys, seqs, syncing, plan, turn, at, snap>> /\ mishaps \subseteq mishaps'
  BY DEF Visit, VisitSaved, VisitEnds
<1>2. UNCHANGED tape \/ \E e \in Event : e.kind \in {"meta", "foreign"} /\ tape' = tape \o <<e>>
  BY EventsAreTyped DEF Visit, VisitSaved, VisitEnds
<1>3. (loaded \/ turn' = "idle") /\ (~loaded => \A p \in Thread : at'[p] = "idle")
  BY <1>1 DEF CursorInvariant, Asleep
<1> QED BY <1>1, <1>2, <1>3, RecorderAlone

LEMMA RestartCursor ==
  ASSUME Fits, CursorInvariant, Crash \/ Restore \/ RestoreFails
  PROVE  CursorInvariant'
<1> USE DEF CursorInvariant
<1>1. CASE Crash
  <2>1. loaded' = FALSE /\ syncing' = FALSE /\ turn' = "idle" /\ at' = [p \in Thread |-> "idle"]
    BY <1>1 DEF Crash
  <2> QED BY <2>1 DEF Asleep, OneSync, PlanRight, SameLength, CursorRight, InSync
<1>2. CASE Restore
  <2>1. /\ UNCHANGED <<tape, syncing, at, turn>> /\ loaded' = TRUE /\ ~loaded
        /\ seqs' = InOrder(Recovered) /\ keys' = MessagesAt(tape, seqs')
        /\ mishaps' = IF Recovered = Surviving(tape) THEN {} ELSE {"cut"}
    BY <1>2 DEF Restore
  <2>2. \A p \in Thread : at'[p] = "idle"
    BY <2>1 DEF Asleep
  <2>3. Asleep' /\ OneSync' /\ PlanRight'
    BY <2>1, <2>2 DEF Asleep, OneSync, PlanRight, InSync
  <2>4. Sound' => Recovered = Surviving(tape)
    BY <2>1 DEF Sound
  <2>5. Ascending(InOrder(Recovered)) /\ ImageOf(InOrder(Recovered)) = Recovered
    BY ReplayTyped
  <2>6. CursorRight'
    BY <2>1, <2>4, <2>5 DEF CursorRight, Describes
  <2>7. SameLength'
    <3>1. seqs' \in Seq(Nat) /\ keys' \in Seq(Nat)
      BY <2>1, ReplayTyped
    <3>2. DOMAIN keys' = DOMAIN seqs'
      BY <2>1 DEF MessagesAt
    <3>3. Len(seqs') \in Nat /\ Len(keys') \in Nat /\ 1..Len(seqs') = 1..Len(keys')
      BY <3>1, <3>2, LenProperties
    <3> QED BY <3>3 DEF SameLength
  <2> QED BY <2>3, <2>6, <2>7
<1>3. CASE RestoreFails
  <2>1. /\ UNCHANGED <<syncing, at, turn>> /\ loaded' = TRUE /\ ~loaded
        /\ seqs' = <<>> /\ keys' = <<>> /\ mishaps' = {"unread"}
    BY <1>3 DEF RestoreFails
  <2>2. \A p \in Thread : at'[p] = "idle"
    BY <2>1 DEF Asleep
  <2>3. Asleep' /\ OneSync' /\ PlanRight'
    BY <2>1, <2>2 DEF Asleep, OneSync, PlanRight, InSync
  <2>4. ~Sound'
    BY <2>1 DEF Sound
  <2> QED BY <2>1, <2>3, <2>4 DEF CursorRight, SameLength
<1> QED BY <1>1, <1>2, <1>3

LEMMA StepCursor == LogInvariant /\ CursorInvariant /\ [Next]_vars => CursorInvariant'
<1> SUFFICES ASSUME LogInvariant, CursorInvariant, [Next]_vars PROVE CursorInvariant'
  OBVIOUS
<1>1. Fits
  BY DEF LogInvariant
<1>2. ASSUME NEW p \in Thread, Enter(p) \/ Diff(p) \/ Write(p) \/ Drain(p) \/ Leave(p) \/ Close(p)
      PROVE  CursorInvariant'
  BY <1>1, <1>2, EnterCursor, DiffCursor, WriteCursor, DrainCursor, LeaveCursor, CloseCursor
<1>3. CASE \/ Begin \/ Hear \/ Abandon \/ Reply \/ Compact \/ RollBack \/ EndTurn \/ Clear \/ Park
           \/ \E p \in Sides : SideCall(p)
  BY <1>1, <1>3, ContextCursor
<1>4. CASE Visit \/ VisitSaved \/ VisitEnds
  BY <1>1, <1>4, JanitorCursor
<1>5. CASE Crash \/ Restore \/ RestoreFails
  BY <1>1, <1>5, RestartCursor
<1>6. CASE UNCHANGED vars
  BY <1>6 DEF vars, memory, record, CursorInvariant, Asleep, OneSync, PlanRight, SameLength, CursorRight, Sound, Orderly
<1> QED BY <1>2, <1>3, <1>4, <1>5, <1>6 DEF Next

\* As long as the second reset of the flag let no two syncs in, no failed write
\* left a part of its batch and the replay of the last start was whole and did
\* not raise, the recorder's cursor is the projection of the tape: for any
\* number of threads, saves and deaths.
THEOREM CursorIsAlwaysTape == Spec => []CursorIsTape
<1>1. CursorInvariant => CursorIsTape
  BY DEF CursorInvariant, CursorRight, Sound, Describes, CursorIsTape
<1> QED BY <1>1, InitCursor, StepCursor, LogStaysRight, PTL DEF Spec
-----------------------------------------------------------------------------
(* What a turn said is saved, or told                                       *)

\* Sets of messages, and those of a tape.
Below(S, b) == \A m \in S : m \in Nat /\ m < b
Texts(T) == {T[i].val : i \in {j \in DOMAIN T : T[j].kind = "message"}}

LEMMA ImageOfConcat ==
  ASSUME NEW S, NEW s \in Seq(S), NEW t \in Seq(S)
  PROVE  ImageOf(s \o t) = ImageOf(s) \cup ImageOf(t)
<1>1. /\ Len(s) \in Nat /\ Len(t) \in Nat /\ DOMAIN s = 1..Len(s) /\ DOMAIN t = 1..Len(t)
      /\ s \o t \in Seq(S) /\ Len(s \o t) = Len(s) + Len(t)
      /\ \A i \in 1..(Len(s) + Len(t)) : (s \o t)[i] = IF i <= Len(s) THEN s[i] ELSE t[i - Len(s)]
  BY ConcatProperties, LenProperties
<1>2. DOMAIN (s \o t) = 1..(Len(s) + Len(t))
  BY <1>1, LenProperties
<1> HIDE DEF ImageOf
<1>3. ASSUME NEW i \in 1..Len(s) PROVE i \in DOMAIN (s \o t) /\ (s \o t)[i] = s[i]
  BY <1>1, <1>2
<1>4. ASSUME NEW i \in 1..Len(t) PROVE Len(s) + i \in DOMAIN (s \o t) /\ (s \o t)[Len(s) + i] = t[i]
  BY <1>1, <1>2
<1>5. ASSUME NEW i \in DOMAIN (s \o t)
      PROVE  (\E n \in DOMAIN s : (s \o t)[i] = s[n]) \/ (\E n \in DOMAIN t : (s \o t)[i] = t[n])
  <2>1. CASE i <= Len(s)
    <3>1. i \in DOMAIN s /\ (s \o t)[i] = s[i]
      BY <1>1, <1>2, <1>5, <2>1
    <3> QED BY <3>1
  <2>2. CASE ~(i <= Len(s))
    <3>1. i - Len(s) \in DOMAIN t /\ (s \o t)[i] = t[i - Len(s)]
      BY <1>1, <1>2, <1>5, <2>2
    <3> QED BY <3>1
  <2> QED BY <2>1, <2>2
<1>6. ImageOf(s \o t) \subseteq ImageOf(s) \cup ImageOf(t)
  BY <1>5 DEF ImageOf
<1>7. ImageOf(s) \subseteq ImageOf(s \o t)
  BY <1>1, <1>3 DEF ImageOf
<1>8. ImageOf(t) \subseteq ImageOf(s \o t)
  <2> SUFFICES ASSUME NEW i \in DOMAIN t PROVE t[i] \in ImageOf(s \o t)
    BY DEF ImageOf
  <2>1. Len(s) + i \in DOMAIN (s \o t) /\ (s \o t)[Len(s) + i] = t[i]
    BY <1>1, <1>4
  <2>2. (s \o t)[Len(s) + i] \in ImageOf(s \o t)
    BY <2>1 DEF ImageOf
  <2> QED BY <2>1, <2>2
<1> QED BY <1>6, <1>7, <1>8

LEMMA ImageOfPart ==
  ASSUME NEW S, NEW s \in Seq(S), NEW k \in Nat, k > 0, NEW n \in Int, n <= Len(s)
  PROVE  ImageOf(SubSeq(s, k, n)) \subseteq ImageOf(s)
<1>1. Len(s) \in Nat /\ DOMAIN s = 1..Len(s)
  BY LenProperties
<1>2. \A i \in k..n : s[i] \in S
  BY <1>1, ElementOfSeq
<1>3. CASE k <= n
  <2>1. /\ SubSeq(s, k, n) \in Seq(S) /\ Len(SubSeq(s, k, n)) = n - k + 1
        /\ \A i \in 1..(n - k + 1) : SubSeq(s, k, n)[i] = s[k + i - 1]
    BY <1>2, <1>3, SubSeqProperties
  <2>2. DOMAIN SubSeq(s, k, n) = 1..(n - k + 1)
    BY <2>1, LenProperties
  <2>3. \A i \in 1..(n - k + 1) : k + i - 1 \in DOMAIN s
    BY <1>1
  <2> QED BY <2>1, <2>2, <2>3 DEF ImageOf
<1>4. CASE ~(k <= n)
  <2>1. SubSeq(s, k, n) \in Seq(S) /\ Len(SubSeq(s, k, n)) = 0
    BY <1>2, <1>4, SubSeqProperties
  <2>2. DOMAIN SubSeq(s, k, n) = {}
    BY <2>1, LenProperties
  <2> QED BY <2>2 DEF ImageOf
<1> QED BY <1>3, <1>4

LEMMA ImageOfSingle ==
  ASSUME NEW S, NEW x \in S
  PROVE  ImageOf(<<x>>) = {x}
  BY DEF ImageOf

LEMMA TextsGrow ==
  ASSUME NEW T \in Seq(Event), NEW B \in Seq(Event)
  PROVE  Texts(T \o B) \subseteq Texts(T) \cup Texts(B)
<1> PICK U : U = T \o B
  OBVIOUS
<1>1. /\ U \in Seq(Event) /\ Len(U) = Len(T) + Len(B) /\ Len(T) \in Nat /\ Len(B) \in Nat
      /\ \A i \in 1..Len(T) : U[i] = T[i]
      /\ \A i \in 1..Len(B) : U[Len(T) + i] = B[i]
  BY Grown
<1>2. DOMAIN U = 1..(Len(T) + Len(B)) /\ DOMAIN T = 1..Len(T) /\ DOMAIN B = 1..Len(B)
  BY <1>1, LenProperties
<1>3. ASSUME NEW i \in DOMAIN U, U[i].kind = "message"
      PROVE  U[i].val \in Texts(T) \cup Texts(B)
  <2>1. CASE i <= Len(T)
    <3>1. i \in DOMAIN T /\ U[i] = T[i]
      BY <1>1, <1>2, <1>3, <2>1
    <3> QED BY <1>3, <3>1 DEF Texts
  <2>2. CASE ~(i <= Len(T))
    <3>1. i - Len(T) \in 1..Len(B) /\ Len(T) + (i - Len(T)) = i
      BY <1>1, <1>2, <1>3, <2>2
    <3>2. U[i] = B[i - Len(T)] /\ i - Len(T) \in DOMAIN B
      BY <1>1, <1>2, <3>1
    <3> QED BY <1>3, <3>2 DEF Texts
  <2> QED BY <2>1, <2>2
<1> QED BY <1>3 DEF Texts

LEMMA TextsOfPart ==
  ASSUME NEW B \in Seq(Event), NEW n \in 0..Len(B)
  PROVE  Texts(SubSeq(B, 1, n)) \subseteq Texts(B)
<1>1. Len(B) \in Nat /\ DOMAIN B = 1..Len(B)
  BY LenProperties
<1>2. \A i \in 1..n : B[i] \in Event
  BY <1>1, ElementOfSeq
<1>3. /\ SubSeq(B, 1, n) \in Seq(Event) /\ Len(SubSeq(B, 1, n)) = n
      /\ \A i \in 1..n : SubSeq(B, 1, n)[i] = B[i]
  BY <1>1, <1>2, SubSeqProperties
<1>4. DOMAIN SubSeq(B, 1, n) = 1..n
  BY <1>3, LenProperties
<1> QED BY <1>1, <1>3, <1>4 DEF Texts

\* A batch holds no message that is not in the snapshot.
LEMMA TextsOfBatch ==
  ASSUME TypeOK, NEW s \in Seq(Nat), NEW c \in Nat, c <= Len(keys), c <= Len(seqs), c <= Len(s)
  PROVE  Texts(Batch(s, c)) \subseteq ImageOf(s)
<1>1. Len(s) \in Nat /\ DOMAIN s = 1..Len(s) /\ Len(keys) \in Nat /\ Len(seqs) \in Nat /\ DOMAIN seqs = 1..Len(seqs)
  BY LenProperties DEF TypeOK
<1>2. Rest(s, c) \in Seq(Event) /\ Len(Rest(s, c)) = Len(s) - c
      /\ \A n \in 1..(Len(s) - c) : Rest(s, c)[n].kind = "message" /\ Rest(s, c)[n].val = s[c + n]
  BY RestTyped
<1>3. DOMAIN Rest(s, c) = 1..(Len(s) - c)
  BY <1>2, LenProperties
<1>4. Texts(Rest(s, c)) \subseteq ImageOf(s)
  <2>1. \A n \in 1..(Len(s) - c) : c + n \in DOMAIN s
    BY <1>1
  <2> QED BY <1>2, <1>3, <2>1 DEF Texts, ImageOf
<1>5. Cut(seqs, keys, c) \in Seq(Event) /\ Texts(Cut(seqs, keys, c)) = {}
  <2>1. CASE c < Len(keys)
    <3>1. PICK k \in Nat : k = IF c = 0 THEN 0 ELSE seqs[c]
      <4>1. c # 0 => c \in 1..Len(seqs)
        BY <1>1
      <4> QED BY <4>1, ElementOfSeq DEF TypeOK
    <3>2. Cut(seqs, keys, c) = <<Shadow(k)>>
      BY <2>1, <3>1 DEF Cut
    <3>3. Shadow(k) \in Event /\ Shadow(k).kind # "message"
      BY <3>1, EventsAreTyped
    <3>4. DOMAIN <<Shadow(k)>> = {1} /\ <<Shadow(k)>>[1] = Shadow(k)
      OBVIOUS
    <3> QED BY <3>2, <3>3, <3>4, SingleSeq DEF Texts
  <2>2. CASE ~(c < Len(keys))
    <3>1. Cut(seqs, keys, c) = <<>>
      BY <2>2 DEF Cut
    <3> QED BY <3>1, EmptySeq DEF Texts
  <2> QED BY <2>1, <2>2
<1>6. Batch(s, c) = Cut(seqs, keys, c) \o Rest(s, c)
  BY DEF Batch, Cut, Rest
<1> QED BY <1>2, <1>4, <1>5, <1>6, TextsGrow


\* How a turn changes the context: what it held, and at most one fresh message.
LEMMA ContextGrows ==
  ASSUME Fits, Hear \/ Reply \/ Compact \/ RollBack \/ Park
  PROVE  /\ ImageOf(history') \subseteq ImageOf(history) \cup {next}
         /\ said' \subseteq said \cup {next}
         /\ \/ next' = next + 1
            \/ next' = next /\ said' = said /\ ImageOf(history') \subseteq ImageOf(history)
<1>1. history \in Seq(Nat) /\ Len(history) \in Nat /\ DOMAIN history = 1..Len(history)
      /\ next \in Nat /\ <<next>> \in Seq(Nat) /\ ImageOf(<<next>>) = {next}
  BY SingleSeq, ImageOfSingle, LenProperties DEF Fits, TypeOK
<1>0. \A s, t \in Seq(Nat) : s \o t \in Seq(Nat) /\ ImageOf(s \o t) = ImageOf(s) \cup ImageOf(t)
  BY ImageOfConcat, ConcatProperties
<1> PICK last : last = <<next>> /\ last \in Seq(Nat) /\ ImageOf(last) = {next}
  BY <1>1
<1>2. CASE Hear \/ Reply \/ Park
  <2>1. history' = history \o <<next>> /\ next' = next + 1 /\ said' \subseteq said \cup {next}
    BY <1>2 DEF Hear, Reply, Park, Adds
  <2>2. ImageOf(history \o last) = ImageOf(history) \cup ImageOf(last)
    BY <1>0, <1>1
  <2> QED BY <2>1, <2>2
<1>3. CASE Compact
  <2>1. next' = next + 1 /\ said' = said \cup {next}
    BY <1>3 DEF Compact
  <2>2. PICK k \in 3..(Len(history) + 1) : history' = <<history[1], next>> \o SubSeq(history, k, Len(history))
    BY <1>3 DEF Compact
  <2>3. 1 \in DOMAIN history /\ history[1] \in Nat
    BY <1>1, <2>2, ElementOfSeq
  <2>4. <<history[1], next>> \in Seq(Nat) /\ ImageOf(<<history[1], next>>) = {history[1], next}
    <3>1. <<history[1], next>> = <<history[1]>> \o <<next>>
      OBVIOUS
    <3>2. <<history[1]>> \in Seq(Nat) /\ ImageOf(<<history[1]>>) = {history[1]}
      BY <2>3, SingleSeq, ImageOfSingle
    <3>3. PICK first : first = <<history[1]>>
      OBVIOUS
    <3>4. ImageOf(first \o last) = ImageOf(first) \cup ImageOf(last) /\ first \o last \in Seq(Nat)
      BY <1>0, <3>2, <3>3
    <3> QED BY <3>1, <3>2, <3>3, <3>4
  <2>5. SubSeq(history, k, Len(history)) \in Seq(Nat)
    BY <1>1, <2>2, PrefixTyped
  <2>6. ImageOf(SubSeq(history, k, Len(history))) \subseteq ImageOf(history)
    <3>1. \A a \in Nat, b \in Int : a > 0 /\ b <= Len(history) =>
            ImageOf(SubSeq(history, a, b)) \subseteq ImageOf(history)
      BY <1>1, ImageOfPart
    <3> QED BY <1>1, <2>2, <3>1
  <2>7. history[1] \in ImageOf(history)
    BY <2>3 DEF ImageOf
  <2>8. ImageOf(history') = {history[1], next} \cup ImageOf(SubSeq(history, k, Len(history)))
    <3>1. PICK front, rest \in Seq(Nat) : front = <<history[1], next>> /\ rest = SubSeq(history, k, Len(history))
      BY <2>4, <2>5
    <3>2. ImageOf(front \o rest) = ImageOf(front) \cup ImageOf(rest)
      BY <1>0, <2>4, <3>1
    <3> QED BY <2>2, <2>4, <3>1, <3>2
  <2> QED BY <2>1, <2>6, <2>7, <2>8
<1>4. CASE RollBack
  <2>1. PICK k \in 1..Len(history) :
          \/ history' = SubSeq(history, 1, k) /\ UNCHANGED <<next, said>>
          \/ /\ history' = SubSeq(history, 1, k) \o <<next>>
             /\ next' = next + 1 /\ said' = said \cup {next}
    BY <1>4 DEF RollBack
  <2>2. SubSeq(history, 1, k) \in Seq(Nat) /\ ImageOf(SubSeq(history, 1, k)) \subseteq ImageOf(history)
    BY <1>1, PrefixTyped, ImageOfPart
  <2>3. CASE history' = SubSeq(history, 1, k) /\ UNCHANGED <<next, said>>
    BY <2>2, <2>3
  <2>4. CASE history' = SubSeq(history, 1, k) \o <<next>> /\ next' = next + 1 /\ said' = said \cup {next}
    <3>1. ImageOf(history') = ImageOf(SubSeq(history, 1, k)) \cup {next}
      <4>1. PICK front \in Seq(Nat) : front = SubSeq(history, 1, k)
        BY <2>2
      <4>2. ImageOf(front \o last) = ImageOf(front) \cup ImageOf(last)
        BY <1>0, <4>1
      <4> QED BY <2>4, <4>1, <4>2
    <3> QED BY <2>2, <2>4, <3>1
  <2> QED BY <2>1, <2>3, <2>4
<1> QED BY <1>2, <1>3, <1>4

\* No message was ever drawn twice: the next one is nowhere yet.
Fresh ==
  /\ next > Note
  /\ Below(Texts(tape), next) /\ Below(said, next)
  /\ Below(ImageOf(history), next) /\ Below(ImageOf(keys), next)
  /\ \A p \in Thread : Below(ImageOf(snap[p]), next) /\ Below(Texts(plan[p].batch), next)
  /\ \A i \in DOMAIN pending : Below(ImageOf(pending[i]), next)

\* At most one snapshot waits.
OneWaits == \A i \in DOMAIN pending : i = 1

\* The checkpoint keeps positions of messages.
KeptAreMessages == \A i \in checkpoint.kept : i \in DOMAIN tape /\ tape[i].kind = "message"

FreshInvariant == Fresh /\ OneWaits /\ KeptAreMessages

LEMMA EmptyHasNone ==
  /\ ImageOf(<<>>) = {} /\ Texts(<<>>) = {}
  /\ DOMAIN <<>> = {}
  BY DEF ImageOf, Texts

LEMMA InitFresh == Init => FreshInvariant
<1> SUFFICES ASSUME Init PROVE FreshInvariant
  OBVIOUS
<1>1. ImageOf(<<Seed>>) = {Seed}
  BY ImageOfSingle
<1>2. next > Note /\ Seed < next /\ Seed \in Nat
  BY DEF Init, Note, Seed
<1>3. \A p \in Thread : snap[p] = <<>> /\ plan[p].batch = <<>>
  BY DEF Init, NoPlan
<1> QED BY <1>1, <1>2, <1>3, EmptyHasNone
        DEF Init, FreshInvariant, Fresh, Below, OneWaits, KeptAreMessages

LEMMA KeptStay ==
  ASSUME Fits, KeptAreMessages, NEW B \in Seq(Event), tape' = tape \o B, UNCHANGED checkpoint
  PROVE  KeptAreMessages'
<1>1. tape \in Seq(Event) /\ DOMAIN tape = 1..Len(tape) /\ Len(tape) \in Nat
  BY LenProperties DEF Fits, TypeOK
<1>2. /\ \A i \in 1..Len(tape) : tape'[i] = tape[i]
      /\ DOMAIN tape' = 1..(Len(tape) + Len(B)) /\ Len(B) \in Nat
  BY <1>1, Grown, LenProperties
<1> QED BY <1>1, <1>2 DEF KeptAreMessages

\* A replay brings back messages.
LEMMA RecoveredAreMessages ==
  ASSUME Fits, KeptAreMessages
  PROVE  \A i \in Recovered : i \in DOMAIN tape /\ tape[i].kind = "message"
<1>1. \A R : \A i \in Project(tape, R) : i \in R /\ tape[i].kind = "message"
  BY DEF Project
<1>2. Recovered \subseteq checkpoint.kept \cup 1..Len(tape) /\ DOMAIN tape = 1..Len(tape)
  BY RecoveredInTape, LenProperties DEF Fits, TypeOK, CheckpointFits
<1>3. \A i \in Recovered : tape[i].kind = "message"
  BY <1>1 DEF Recovered, KeptAreMessages
<1>4. Recovered \subseteq DOMAIN tape
  BY RecoveredInTape, <1>2 DEF Fits, TypeOK, CheckpointFits
<1> QED BY <1>3, <1>4

LEMMA RefreshedKeepsMessages ==
  ASSUME Fits, KeptAreMessages, UNCHANGED tape, Refreshed
  PROVE  KeptAreMessages'
<1>1. checkpoint' = checkpoint \/ checkpoint'.kept = Recovered
  BY DEF Refreshed
<1> QED BY <1>1, RecoveredAreMessages DEF KeptAreMessages

\* A step that brings no new message, with the tape as it was or a part of a
\* batch longer.
LEMMA NothingNew ==
  ASSUME Fits, FreshInvariant, UNCHANGED <<checkpoint, next>>,
         said' \subseteq said, ImageOf(history') \subseteq ImageOf(history),
         Below(ImageOf(keys'), next),
         \A p \in Thread : Below(ImageOf(snap'[p]), next) /\ Below(Texts(plan'[p].batch), next),
         \A i \in DOMAIN pending' : i = 1 /\ Below(ImageOf(pending'[i]), next),
         NEW B \in Seq(Event), tape' = tape \o B, Below(Texts(B), next)
  PROVE  FreshInvariant'
<1>1. Texts(tape') \subseteq Texts(tape) \cup Texts(B)
  BY TextsGrow DEF Fits, TypeOK
<1>2. Fresh'
  BY <1>1 DEF FreshInvariant, Fresh, Below
<1>3. OneWaits'
  BY DEF OneWaits
<1>4. KeptAreMessages'
  BY KeptStay DEF FreshInvariant
<1> QED BY <1>2, <1>3, <1>4 DEF FreshInvariant

LEMMA NothingIsAdded ==
  ASSUME Fits
  PROVE  <<>> \in Seq(Event) /\ tape = tape \o <<>> /\ Below(Texts(<<>>), next)
  BY EmptySeq, ConcatEmptySeq, EmptyHasNone DEF Fits, TypeOK, Below

\* The messages of one event that is none.
LEMMA NoText ==
  ASSUME NEW e \in Event, e.kind # "message"
  PROVE  <<e>> \in Seq(Event) /\ Below(Texts(<<e>>), next)
<1>1. DOMAIN <<e>> = {1} /\ <<e>>[1] = e
  OBVIOUS
<1> QED BY <1>1, SingleSeq DEF Texts, Below

LEMMA RecorderFresh ==
  ASSUME Fits, FreshInvariant, NEW p \in Thread,
         Enter(p) \/ Diff(p) \/ Write(p) \/ Drain(p) \/ Leave(p) \/ Close(p)
  PROVE  FreshInvariant'
<1> USE DEF disk
<1>1. /\ snap \in [Thread -> Seq(Nat)] /\ plan \in [Thread -> [common: Nat, batch: Seq(Event)]]
      /\ pending \in Seq(Seq(Nat)) /\ tape \in Seq(Event)
  BY DEF Fits, TypeOK
<1>2. /\ \A q \in Thread : Below(ImageOf(snap[q]), next) /\ Below(Texts(plan[q].batch), next)
      /\ \A i \in DOMAIN pending : i = 1 /\ Below(ImageOf(pending[i]), next)
      /\ Below(ImageOf(keys), next)
  BY DEF FreshInvariant, Fresh, OneWaits
<1>3. UNCHANGED <<checkpoint, next, said, history>>
  BY DEF Enter, Diff, Write, Drain, Leave, Close
<1>4. /\ said' \subseteq said /\ ImageOf(history') \subseteq ImageOf(history)
      /\ Below(ImageOf(<<>>), next)
  BY <1>3, EmptyHasNone DEF Below
<1>5. CASE Enter(p)
  <2>1. UNCHANGED <<tape, keys, plan>>
    BY <1>5 DEF Enter
  <2>2. CASE HandOver(p)
    <3>1. pending' = <<snap[p]>> /\ snap' = [snap EXCEPT ![p] = <<>>]
      BY <2>2 DEF HandOver
    <3>2. \A q \in Thread : Below(ImageOf(snap'[q]), next)
      BY <1>1, <1>2, <1>4, <3>1
    <3>3. DOMAIN pending' = {1} /\ pending'[1] = snap[p]
      BY <3>1
    <3> QED BY <1>2, <1>3, <1>4, <2>1, <3>2, <3>3, NothingIsAdded, NothingNew
  <2>3. CASE UNCHANGED <<pending, snap>>
    BY <1>2, <1>3, <1>4, <2>1, <2>3, NothingIsAdded, NothingNew
  <2> QED BY <1>5, <2>2, <2>3 DEF Enter
<1>6. CASE Diff(p)
  <2>1. UNCHANGED <<tape, keys, pending>>
    BY <1>6 DEF Diff
  <2>2. UNCHANGED snap \/ snap' = [snap EXCEPT ![p] = <<>>]
    BY <1>6 DEF Diff
  <2>3. \A q \in Thread : Below(ImageOf(snap'[q]), next)
    BY <1>1, <1>2, <1>4, <2>2
  <2>4. CASE UNCHANGED plan
    BY <1>2, <1>3, <1>4, <2>1, <2>3, <2>4, NothingIsAdded, NothingNew
  <2>5. CASE \E c \in 0..Len(keys) : c <= Len(seqs) /\ Agree(snap[p], c)
               /\ plan' = [plan EXCEPT ![p] = [common |-> c, batch |-> Batch(snap[p], c)]]
    <3> PICK c \in 0..Len(keys) : c <= Len(seqs) /\ Agree(snap[p], c)
               /\ plan' = [plan EXCEPT ![p] = [common |-> c, batch |-> Batch(snap[p], c)]]
      BY <2>5
    <3>1. TypeOK /\ snap[p] \in Seq(Nat) /\ c \in Nat /\ c <= Len(keys) /\ c <= Len(seqs) /\ c <= Len(snap[p])
      BY <1>1 DEF Fits, Agree
    <3>2. Texts(Batch(snap[p], c)) \subseteq ImageOf(snap[p])
      BY <3>1, TextsOfBatch
    <3>3. Below(Texts(Batch(snap[p], c)), next)
      BY <1>2, <3>2 DEF Below
    <3>4. \A q \in Thread : Below(Texts(plan'[q].batch), next)
      BY <1>1, <1>2, <3>3
    <3> QED BY <1>2, <1>3, <1>4, <2>1, <2>3, <3>4, NothingIsAdded, NothingNew
  <2> QED BY <1>6, <2>4, <2>5 DEF Diff
<1>7. CASE Write(p)
  <2>1. UNCHANGED <<pending, snap>> /\ plan' = [plan EXCEPT ![p] = NoPlan]
    BY <1>7 DEF Write
  <2>2. \A q \in Thread : Below(Texts(plan'[q].batch), next)
    <3>1. Below(Texts(NoPlan.batch), next)
      BY EmptyHasNone DEF NoPlan, Below
    <3> QED BY <1>1, <1>2, <2>1, <3>1
  <2>3. plan[p].batch \in Seq(Event) /\ Below(Texts(plan[p].batch), next) /\ Below(ImageOf(snap[p]), next)
    BY <1>1, <1>2
  <2>4. CASE Written(p)
    <3>1. tape' = tape \o plan[p].batch /\ keys' = snap[p]
      BY <2>4 DEF Written
    <3> QED BY <1>2, <1>3, <1>4, <2>1, <2>2, <2>3, <3>1, NothingNew
  <2>5. CASE Failed(p)
    <3>1. PICK n \in 0..(Len(plan[p].batch) - 1) : tape' = tape \o SubSeq(plan[p].batch, 1, n)
      BY <2>5 DEF Failed
    <3>2. keys' = keys
      BY <2>5 DEF Failed
    <3>3. n \in 0..Len(plan[p].batch) /\ Len(plan[p].batch) \in Nat
      BY <2>3, LenProperties
    <3>4. PICK B : B = SubSeq(plan[p].batch, 1, n)
      OBVIOUS
    <3>5. B \in Seq(Event) /\ Texts(B) \subseteq Texts(plan[p].batch)
      BY <2>3, <3>3, <3>4, PrefixTyped, TextsOfPart
    <3>6. Below(Texts(B), next)
      BY <2>3, <3>5 DEF Below
    <3> QED BY <1>2, <1>3, <1>4, <2>1, <2>2, <3>1, <3>2, <3>4, <3>5, <3>6, NothingNew
  <2> QED BY <1>7, <2>4, <2>5 DEF Write
<1>8. CASE Drain(p)
  <2>1. UNCHANGED <<tape, keys, plan>> /\ pending' = <<>>
    BY <1>8 DEF Drain
  <2>2. snap' = [snap EXCEPT ![p] = <<>>] \/ (pending # <<>> /\ snap' = [snap EXCEPT ![p] = pending[1]])
    BY <1>8 DEF Drain
  <2>3. pending # <<>> => Below(ImageOf(pending[1]), next)
    <3>1. pending # <<>> => 1 \in DOMAIN pending
      BY <1>1, EmptySeq, LenProperties
    <3> QED BY <1>2, <3>1
  <2>4. \A q \in Thread : Below(ImageOf(snap'[q]), next)
    BY <1>1, <1>2, <1>4, <2>2, <2>3
  <2>5. DOMAIN pending' = {}
    BY <2>1, EmptyHasNone
  <2> QED BY <1>2, <1>3, <1>4, <2>1, <2>4, <2>5, NothingIsAdded, NothingNew
<1>9. CASE Leave(p) \/ Close(p)
  <2>1. UNCHANGED <<keys, plan, snap, pending>>
    BY <1>9 DEF Leave, Close
  <2>2. UNCHANGED tape \/ tape' = tape \o <<Meta>>
    BY <1>9 DEF Leave, Close
  <2>3. Meta \in Event /\ Meta.kind # "message"
    BY EventsAreTyped
  <2>4. CASE UNCHANGED tape
    BY <1>2, <1>3, <1>4, <2>1, <2>4, NothingIsAdded, NothingNew
  <2>5. CASE tape' = tape \o <<Meta>>
    <3>1. <<Meta>> \in Seq(Event) /\ Below(Texts(<<Meta>>), next)
      BY <2>3, NoText
    <3> QED BY <1>2, <1>3, <1>4, <2>1, <2>5, <3>1, NothingNew
  <2> QED BY <2>2, <2>4, <2>5
<1> QED BY <1>5, <1>6, <1>7, <1>8, <1>9

LEMMA ContextFresh ==
  ASSUME Fits, FreshInvariant,
         \/ Begin \/ Hear \/ Abandon \/ Reply \/ Compact \/ RollBack \/ EndTurn \/ Clear \/ Park
         \/ \E p \in Sides : SideCall(p)
  PROVE  FreshInvariant'
<1> USE DEF disk, record
<1>1. UNCHANGED <<tape, checkpoint, keys, pending, plan>>
  BY DEF Begin, Hear, Abandon, Reply, Compact, RollBack, EndTurn, Clear, Park, SideCall
<1>2. /\ \A q \in Thread : Below(ImageOf(snap[q]), next) /\ Below(Texts(plan[q].batch), next)
      /\ \A i \in DOMAIN pending : i = 1 /\ Below(ImageOf(pending[i]), next)
      /\ Below(ImageOf(keys), next) /\ Below(ImageOf(history), next) /\ Below(said, next)
      /\ Below(Texts(tape), next) /\ next > Note /\ next \in Nat
  BY DEF FreshInvariant, Fresh, OneWaits, Fits, TypeOK
<1>3. CASE Hear \/ Reply \/ Compact \/ RollBack \/ Park
  <2>1. UNCHANGED snap
    BY <1>3 DEF Hear, Reply, Compact, RollBack, Park
  <2>2. CASE next' = next + 1
    <3>1. ImageOf(history') \subseteq ImageOf(history) \cup {next} /\ said' \subseteq said \cup {next}
      BY <1>3, ContextGrows
    <3>2. \A S : Below(S, next) => Below(S, next') /\ Below(S \cup {next}, next')
      <4> SUFFICES ASSUME NEW S, Below(S, next), NEW m \in S \cup {next} PROVE m \in Nat /\ m < next'
        BY DEF Below
      <4>1. CASE m = next
        BY <1>2, <2>2, <4>1
      <4>2. CASE m \in S
        <5>1. m \in Nat /\ m < next
          BY <4>2 DEF Below
        <5> QED BY <1>2, <2>2, <5>1
      <4> QED BY <4>1, <4>2
    <3>3. Below(ImageOf(history'), next') /\ Below(said', next')
      <4>1. Below(ImageOf(history) \cup {next}, next') /\ Below(said \cup {next}, next')
        BY <1>2, <3>2
      <4> QED BY <3>1, <4>1 DEF Below
    <3>4. next' > Note
      BY <1>2, <2>2 DEF Note
    <3> QED BY <1>1, <1>2, <2>1, <3>2, <3>3, <3>4 DEF FreshInvariant, Fresh, OneWaits, KeptAreMessages
  <2>3. CASE next' = next /\ said' = said /\ ImageOf(history') \subseteq ImageOf(history)
    BY <1>1, <1>2, <2>1, <2>3, NothingIsAdded, NothingNew
  <2> QED BY <1>3, <2>2, <2>3, ContextGrows
<1>4. CASE Begin \/ Abandon \/ Clear
  <2>1. UNCHANGED <<snap, next, said, history>>
    BY <1>4 DEF Begin, Abandon, Clear
  <2> QED BY <1>1, <1>2, <2>1, NothingIsAdded, NothingNew
<1>5. CASE EndTurn \/ \E p \in Sides : SideCall(p)
  <2>1. UNCHANGED <<next, said, history>>
    BY <1>5 DEF EndTurn, SideCall
  <2>2. PICK p \in Thread : snap' = [snap EXCEPT ![p] = history]
    BY <1>5 DEF EndTurn, SideCall, Call, Thread
  <2>3. \A q \in Thread : Below(ImageOf(snap'[q]), next)
    BY <1>2, <2>2 DEF Fits, TypeOK
  <2> QED BY <1>1, <1>2, <2>1, <2>3, NothingIsAdded, NothingNew
<1> QED BY <1>3, <1>4, <1>5

LEMMA OutsideFresh ==
  ASSUME Fits, FreshInvariant, Visit \/ VisitSaved \/ VisitEnds \/ Crash \/ Restore \/ RestoreFails
  PROVE  FreshInvariant'
<1> USE DEF memory, record
<1>2. /\ \A q \in Thread : Below(ImageOf(snap[q]), next) /\ Below(Texts(plan[q].batch), next)
      /\ \A i \in DOMAIN pending : i = 1 /\ Below(ImageOf(pending[i]), next)
      /\ Below(ImageOf(keys), next) /\ Below(ImageOf(history), next) /\ Below(said, next)
      /\ Below(Texts(tape), next) /\ next > Note /\ next \in Nat
  BY DEF FreshInvariant, Fresh, OneWaits, Fits, TypeOK
<1>3. CASE Visit
  <2>1. UNCHANGED <<tape, history, keys, snap, plan, pending, next, said>> /\ (UNCHANGED checkpoint \/ Refreshed)
    BY <1>3 DEF Visit
  <2>2. KeptAreMessages'
    <3>1. CASE UNCHANGED checkpoint
      BY <2>1, <3>1 DEF FreshInvariant, KeptAreMessages
    <3>2. CASE Refreshed
      BY <2>1, <3>2, RefreshedKeepsMessages DEF FreshInvariant
    <3> QED BY <2>1, <3>1, <3>2
  <2> QED BY <2>1, <2>2 DEF FreshInvariant, Fresh, OneWaits
<1>4. CASE VisitSaved \/ VisitEnds
  <2>1. UNCHANGED <<checkpoint, history, keys, snap, plan, pending, next, said>>
    BY <1>4 DEF VisitSaved, VisitEnds
  <2>2. UNCHANGED tape \/ tape' = tape \o <<Foreign>>
    BY <1>4 DEF VisitSaved, VisitEnds
  <2>3. CASE UNCHANGED tape
    BY <1>2, <2>1, <2>3, NothingIsAdded, NothingNew
  <2>4. CASE tape' = tape \o <<Foreign>>
    <3>1. <<Foreign>> \in Seq(Event) /\ Below(Texts(<<Foreign>>), next)
      BY EventsAreTyped, NoText
    <3> QED BY <1>2, <2>1, <2>4, <3>1, NothingNew
  <2> QED BY <2>2, <2>3, <2>4
<1>5. CASE Crash
  <2>1. /\ history' = <<>> /\ keys' = <<>> /\ pending' = <<>> /\ UNCHANGED <<checkpoint, next>>
        /\ snap' = [p \in Thread |-> <<>>] /\ plan' = [p \in Thread |-> NoPlan]
        /\ said' \subseteq said
    BY <1>5 DEF Crash, Unsaved
  <2>2. \A q \in Thread : Below(ImageOf(snap'[q]), next) /\ Below(Texts(plan'[q].batch), next)
    BY <2>1, EmptyHasNone DEF Below, NoPlan
  <2>3. Below(ImageOf(keys'), next) /\ ImageOf(history') \subseteq ImageOf(history) /\ DOMAIN pending' = {}
    BY <2>1, EmptyHasNone DEF Below
  <2>4. PICK B \in Seq(Event) : tape' = tape \o B /\ Below(Texts(B), next)
    <3>1. CASE tape' = tape
      BY <3>1, NothingIsAdded
    <3>2. CASE \E p \in Thread : \E n \in 0..Len(plan[p].batch) :
                 tape' = tape \o SubSeq(plan[p].batch, 1, n)
      <4> PICK p \in Thread : \E n \in 0..Len(plan[p].batch) : tape' = tape \o SubSeq(plan[p].batch, 1, n)
        BY <3>2
      <4> PICK n \in 0..Len(plan[p].batch) : tape' = tape \o SubSeq(plan[p].batch, 1, n)
        OBVIOUS
      <4>1. plan[p].batch \in Seq(Event) /\ Below(Texts(plan[p].batch), next)
        BY <1>2 DEF Fits, TypeOK
      <4>2. SubSeq(plan[p].batch, 1, n) \in Seq(Event)
        BY <4>1, PrefixTyped, LenProperties
      <4>3. Below(Texts(SubSeq(plan[p].batch, 1, n)), next)
        BY <4>1, TextsOfPart DEF Below
      <4> QED BY <4>2, <4>3
    <3> QED BY <1>5, <3>1, <3>2 DEF Crash
  <2> QED BY <2>1, <2>2, <2>3, <2>4, NothingNew
<1>6. CASE Restore
  <2>1. /\ UNCHANGED <<tape, snap, plan, pending, next>> /\ Refreshed
        /\ seqs' = InOrder(Recovered) /\ keys' = MessagesAt(tape, seqs')
        /\ said' \subseteq ImageOf(keys')
    BY <1>6 DEF Restore
  <2>2. KeptAreMessages'
    BY <2>1, RefreshedKeepsMessages DEF FreshInvariant
  <2>3. ImageOf(keys') \subseteq Texts(tape)
    <3>1. ImageOf(seqs') = Recovered
      BY <2>1, ReplayTyped
    <3>2. \A i \in Recovered : i \in DOMAIN tape /\ tape[i].kind = "message"
      BY RecoveredAreMessages DEF FreshInvariant
    <3>3. \A n \in DOMAIN seqs' : seqs'[n] \in DOMAIN tape /\ tape[seqs'[n]].kind = "message"
      BY <3>1, <3>2 DEF ImageOf
    <3>4. \A n \in DOMAIN keys' : n \in DOMAIN seqs' /\ keys'[n] = tape[seqs'[n]].val
      BY <2>1 DEF MessagesAt
    <3> QED BY <3>3, <3>4 DEF ImageOf, Texts
  <2>4. Below(ImageOf(keys'), next) /\ Below(said', next)
    BY <1>2, <2>1, <2>3 DEF Below
  <2>5. ImageOf(history') \subseteq ImageOf(keys') \cup {Seed, Note}
    <3> DEFINE front == IF Seed \in ImageOf(keys') THEN <<>> ELSE <<Seed>>
               back == IF marker = "main" THEN <<Note>> ELSE <<>>
    <3>1. front \in Seq(Nat) /\ back \in Seq(Nat) /\ keys' \in Seq(Nat)
      BY <2>1, ReplayTyped, SingleSeq, EmptySeq DEF Seed, Note
    <3>2. ImageOf(front) \subseteq {Seed} /\ ImageOf(back) \subseteq {Note}
      BY EmptyHasNone, ImageOfSingle
    <3>3. history' = (front \o keys') \o back
      BY <1>6 DEF Restore
    <3> HIDE DEF front, back
    <3>4. front \o keys' \in Seq(Nat) /\ ImageOf(front \o keys') = ImageOf(front) \cup ImageOf(keys')
      BY <3>1, ConcatProperties, ImageOfConcat
    <3>5. PICK most \in Seq(Nat) : most = front \o keys'
      BY <3>4
    <3>6. ImageOf(most \o back) = ImageOf(most) \cup ImageOf(back)
      BY <3>1, ImageOfConcat
    <3> QED BY <3>2, <3>3, <3>4, <3>5, <3>6
  <2>6. Below(ImageOf(history'), next)
    <3>1. Seed \in Nat /\ Seed < next /\ Note \in Nat /\ Note < next
      BY <1>2 DEF Seed, Note
    <3> QED BY <2>4, <2>5, <3>1 DEF Below
  <2> QED BY <1>2, <2>1, <2>2, <2>4, <2>6 DEF FreshInvariant, Fresh, OneWaits
<1>7. CASE RestoreFails
  <2>1. /\ UNCHANGED <<tape, checkpoint, snap, plan, pending, next>>
        /\ keys' = <<>> /\ said' = {}
    BY <1>7 DEF RestoreFails
  <2>2. ImageOf(keys') = {}
    BY <2>1, EmptyHasNone
  <2>3. ImageOf(history') \subseteq {Seed, Note}
    <3>1. <<Seed>> \in Seq(Nat) /\ <<Note>> \in Seq(Nat)
      BY SingleSeq DEF Seed, Note
    <3>2. ImageOf(<<Seed>>) \subseteq {Seed} /\ ImageOf(<<Note>>) \subseteq {Note}
      BY ImageOfSingle
    <3>3. \A s, t \in Seq(Nat) : ImageOf(s \o t) = ImageOf(s) \cup ImageOf(t)
      BY ImageOfConcat
    <3>4. ImageOf(<<Seed>> \o <<Note>>) = ImageOf(<<Seed>>) \cup ImageOf(<<Note>>)
      BY <3>1, <3>3, Zenon
    <3> QED BY <1>7, <3>2, <3>4, UnreadHistory
  <2>4. Below(ImageOf(history'), next)
    <3>1. Seed \in Nat /\ Seed < next /\ Note \in Nat /\ Note < next
      BY <1>2 DEF Seed, Note
    <3> QED BY <2>3, <3>1 DEF Below
  <2>5. Below(ImageOf(keys'), next) /\ Below(said', next)
    BY <2>1, <2>2 DEF Below
  <2>6. KeptAreMessages'
    BY <2>1 DEF FreshInvariant, KeptAreMessages
  <2> QED BY <1>2, <2>1, <2>4, <2>5, <2>6 DEF FreshInvariant, Fresh, OneWaits
<1> QED BY <1>3, <1>4, <1>5, <1>6, <1>7

LEMMA StepFresh == LogInvariant /\ FreshInvariant /\ [Next]_vars => FreshInvariant'
<1> SUFFICES ASSUME LogInvariant, FreshInvariant, [Next]_vars PROVE FreshInvariant'
  OBVIOUS
<1>1. Fits
  BY DEF LogInvariant
<1>2. ASSUME NEW p \in Thread, Enter(p) \/ Diff(p) \/ Write(p) \/ Drain(p) \/ Leave(p) \/ Close(p)
      PROVE  FreshInvariant'
  BY <1>1, <1>2, RecorderFresh
<1>3. CASE \/ Begin \/ Hear \/ Abandon \/ Reply \/ Compact \/ RollBack \/ EndTurn \/ Clear \/ Park
           \/ \E p \in Sides : SideCall(p)
  BY <1>1, <1>3, ContextFresh
<1>4. CASE Visit \/ VisitSaved \/ VisitEnds \/ Crash \/ Restore \/ RestoreFails
  BY <1>1, <1>4, OutsideFresh
<1>5. CASE UNCHANGED vars
  BY <1>5 DEF vars, memory, record, FreshInvariant, Fresh, OneWaits, KeptAreMessages
<1> QED BY <1>2, <1>3, <1>4, <1>5 DEF Next

\* What takes no part in the projection changes nothing that is on the tape.
LEMMA OnTapeStays ==
  ASSUME NEW T \in Seq(Event), NEW e \in Event, e.kind \in {"meta", "foreign"}, NEW U, U = T \o <<e>>
  PROVE  OnTape(U) = OnTape(T)
<1>1. Surviving(U) = Surviving(T)
  BY EventAdded
<1>2. \A i \in 1..Len(T) : U[i] = T[i]
  BY SingleSeq, Grown
<1>3. Surviving(T) \subseteq 1..Len(T)
  BY MainInTape DEF Surviving, Project
<1> QED BY <1>1, <1>2, <1>3 DEF OnTape

\* The messages of a batch are on the tape once it is written.
LEMMA BatchIsOnTape ==
  ASSUME Fits, NEW s \in Seq(Nat), NEW c \in Nat, c <= Len(s), c <= Len(keys), Len(seqs) = Len(keys),
         NEW U, U = tape \o (Cut(seqs, keys, c) \o Rest(s, c))
  PROVE  \A n \in 1..(Len(s) - c) : s[c + n] \in OnTape(U)
<1>1. tape \in Seq(Event) /\ seqs \in Seq(Nat) /\ keys \in Seq(Nat)
  BY DEF Fits, TypeOK
<1>2. /\ Rest(s, c) \in Seq(Event) /\ Len(Rest(s, c)) = Len(s) - c
      /\ \A n \in 1..(Len(s) - c) : Rest(s, c)[n].kind = "message" /\ Rest(s, c)[n].val = s[c + n]
  BY RestTyped
<1>3. Cut(seqs, keys, c) \in Seq(Event)
  <2>1. CASE c < Len(keys)
    <3>1. (IF c = 0 THEN 0 ELSE seqs[c]) \in Nat
      <4>1. c # 0 => c \in 1..Len(seqs)
        BY <1>1, <2>1, LenProperties
      <4> QED BY <1>1, <4>1, ElementOfSeq
    <3>2. Shadow(IF c = 0 THEN 0 ELSE seqs[c]) \in Event
      BY <3>1, EventsAreTyped
    <3> QED BY <2>1, <3>2, SingleSeq DEF Cut
  <2>2. CASE ~(c < Len(keys))
    BY <2>2, EmptySeq DEF Cut
  <2> QED BY <2>1, <2>2
<1>4. PICK C \in Seq(Event), R \in Seq(Event) : C = Cut(seqs, keys, c) /\ R = Rest(s, c)
  BY <1>2, <1>3
<1>5. PICK M \in Seq(Event) : M = tape \o C
  BY <1>1, ConcatProperties
<1>6. U = M \o R
  <2>1. tape \o (C \o R) = (tape \o C) \o R
    <3>1. tape \in Seq(Event) /\ C \in Seq(Event) /\ R \in Seq(Event)
      BY <1>1
    <3> QED BY ONLY <3>1
  <2> QED BY <1>4, <1>5, <2>1
<1>7. \A n \in 1..Len(R) : R[n].kind = "message"
  BY <1>2, <1>4
<1>8. \A i : i \in Surviving(U) <=> i \in Surviving(M) \/ i \in (Len(M) + 1)..(Len(M) + Len(R))
  BY <1>6, <1>7, MessagesAdded
<1>9. \A n \in 1..Len(R) : U[Len(M) + n] = R[n]
  BY <1>6, Grown
<1>10. Len(M) \in Nat /\ Len(R) \in Nat
  BY LenProperties
<1>11. ASSUME NEW n \in 1..Len(R) PROVE R[n].val \in OnTape(U)
  <2>1. Len(M) + n \in (Len(M) + 1)..(Len(M) + Len(R))
    BY <1>10, <1>11
  <2>3. Len(M) + n \in Surviving(U)
    BY <1>8, <2>1
  <2>2. U[Len(M) + n].val = R[n].val
    BY <1>9
  <2> QED BY <2>2, <2>3 DEF OnTape
<1> QED BY <1>2, <1>4, <1>11

\* The ways a message of the context can go unsaved and untold.
Tame == mishaps \cap {"stale", "failed", "torn", "reset", "marker", "handed"} = {}

\* Said, in the context, not on the tape and in no sync's hands.
Missing == Unsaved(tape) \ InFlight

\* A turn runs under its marker.
Marked == Tame /\ turn # "idle" => marker = "main"

\* The persist at the end of a turn has the whole context.
EndHasAll == Tame /\ turn = "saving" /\ at["turn"] = "called" => snap["turn"] = history

\* What the recorder thinks it has written is on the tape.
Known == Tame /\ loaded => said \cap ImageOf(keys) \cap ImageOf(history) \subseteq OnTape(tape)

\* Once the end of a turn has entered its persist, nothing is missing.
Covered ==
  Tame /\ loaded =>
    Missing = {} \/ (marker = "main" /\ ~(turn = "saving" /\ at["turn"] # "called"))

\* What died with the process left the marker.
Told == Tame /\ ~loaded => said = {} \/ marker = "main"

SavedInvariant == Marked /\ EndHasAll /\ Known /\ Covered /\ Told

InHand(m) ==
  \/ \E p \in Thread : at[p] \in {"diff", "append"} /\ m \in ImageOf(snap[p])
  \/ \E i \in DOMAIN pending : m \in ImageOf(pending[i])

LEMMA InFlightIsInHand ==
  /\ \A m : m \in InFlight <=> InHand(m)
  /\ (\A m : m \in InFlight <=> InHand(m))'
<1>1. ASSUME NEW a, NEW sn, NEW pe, NEW m
      PROVE  m \in UNION ({ImageOf(sn[p]) : p \in {q \in Thread : a[q] \in {"diff", "append"}}}
                           \cup {ImageOf(s) : s \in ImageOf(pe)})
             <=> \/ \E p \in Thread : a[p] \in {"diff", "append"} /\ m \in ImageOf(sn[p])
                 \/ \E i \in DOMAIN pe : m \in ImageOf(pe[i])
  <2> DEFINE A == {ImageOf(sn[p]) : p \in {q \in Thread : a[q] \in {"diff", "append"}}}
             P == {ImageOf(s) : s \in ImageOf(pe)}
  <2>1. m \in UNION A <=> \E p \in Thread : a[p] \in {"diff", "append"} /\ m \in ImageOf(sn[p])
    OBVIOUS
  <2>2. m \in UNION P <=> \E i \in DOMAIN pe : m \in ImageOf(pe[i])
    BY DEF ImageOf
  <2> HIDE DEF A, P
  <2>3. m \in UNION (A \cup P) <=> m \in UNION A \/ m \in UNION P
    OBVIOUS
  <2>4. \/ \E p \in Thread : a[p] \in {"diff", "append"} /\ m \in ImageOf(sn[p])
        \/ \E i \in DOMAIN pe : m \in ImageOf(pe[i])
        <=> m \in UNION (A \cup P)
    BY <2>1, <2>2, <2>3
  <2> QED BY <2>4 DEF A, P
<1> QED BY <1>1 DEF InFlight, InHand

LEMMA InitSaved == Init => SavedInvariant
  BY DEF Init, SavedInvariant, Marked, EndHasAll, Known, Covered, Told, Missing, Unsaved

\* A step inside the recorder that loses nothing it had in hand.
LEMMA StillSaved ==
  ASSUME SavedInvariant, loaded, UNCHANGED <<marker, loaded, history, turn, said>>,
         Tame' => Tame,
         Tame' /\ turn = "saving" /\ at'["turn"] = "called" =>
           at["turn"] = "called" /\ snap'["turn"] = snap["turn"],
         Tame' => said \cap ImageOf(keys') \cap ImageOf(history) \subseteq OnTape(tape'),
         Tame' => Missing' \subseteq Missing
                  \/ (turn = "saving" /\ at["turn"] = "called" /\ Missing' = {}),
         Tame' /\ turn = "saving" /\ at["turn"] = "called" =>
           at'["turn"] = "called" \/ Missing' = {}
  PROVE  SavedInvariant'
<1>1. Marked' /\ Told'
  BY DEF SavedInvariant, Marked, Told
<1>2. EndHasAll' /\ Known'
  BY DEF SavedInvariant, EndHasAll, Known
<1>3. Covered'
  BY DEF SavedInvariant, Covered
<1> QED BY <1>1, <1>2, <1>3 DEF SavedInvariant

LEMMA EnterSaved ==
  ASSUME Fits, CursorInvariant, FreshInvariant, SavedInvariant, NEW p \in Thread, Enter(p)
  PROVE  SavedInvariant'
<1> USE DEF disk
<1>1. /\ UNCHANGED <<tape, marker, loaded, history, keys, turn, said>> /\ at[p] = "called" /\ loaded
  BY DEF Enter, CursorInvariant, Asleep
<1>2. Tame' => Tame
  BY DEF Enter, HandOver, Tame
<1>3. Tame' => said \cap ImageOf(keys') \cap ImageOf(history) \subseteq OnTape(tape')
  BY <1>1, <1>2 DEF SavedInvariant, Known
<1>4. at \in [Thread -> Place] /\ snap \in [Thread -> Seq(Nat)] /\ "turn" \in Thread
  BY DEF Fits, TypeOK, Thread
<1>5. \A m : m \in Missing' <=> m \in (said \cap ImageOf(history)) \ OnTape(tape) /\ ~(InHand(m))'
  BY <1>1, InFlightIsInHand DEF Missing, Unsaved
<1>6. \A m : m \in Missing <=> m \in (said \cap ImageOf(history)) \ OnTape(tape) /\ ~InHand(m)
  BY InFlightIsInHand DEF Missing, Unsaved
<1>7. ASSUME Tame', NEW m \in ImageOf(history), InHand(m) PROVE (InHand(m))'
  <2>1. CASE HandOver(p)
    <3>1. /\ pending' = <<snap[p]>> /\ at' = [at EXCEPT ![p] = "meta"]
          /\ snap' = [snap EXCEPT ![p] = <<>>]
      BY <2>1 DEF HandOver
    <3>2. CASE \E q \in Thread : at[q] \in {"diff", "append"} /\ m \in ImageOf(snap[q])
      <4> PICK q \in Thread : at[q] \in {"diff", "append"} /\ m \in ImageOf(snap[q])
        BY <3>2
      <4>1. q # p
        BY <1>1
      <4>2. at'[q] = at[q] /\ snap'[q] = snap[q]
        BY <1>4, <3>1, <4>1
      <4> QED BY <4>2 DEF InHand
    <3>3. CASE \E i \in DOMAIN pending : m \in ImageOf(pending[i])
      <4>1. m \in ImageOf(pending[1]) /\ pending # <<>>
        BY <3>3, EmptyHasNone DEF FreshInvariant, OneWaits
      <4>2. ~Forgets(pending[1], snap[p])
        BY <1>7, <2>1, <4>1 DEF HandOver, Tame
      <4>3. m \in ImageOf(snap[p])
        BY <1>7, <4>1, <4>2 DEF Forgets
      <4>4. 1 \in DOMAIN pending' /\ pending'[1] = snap[p]
        BY <3>1
      <4> QED BY <4>3, <4>4 DEF InHand
    <3> QED BY <1>7, <3>2, <3>3 DEF InHand
  <2>2. CASE at' = [at EXCEPT ![p] = "diff"] /\ UNCHANGED <<pending, snap>>
    <3>1. \A q \in Thread : at[q] \in {"diff", "append"} => at'[q] \in {"diff", "append"}
      BY <1>4, <2>2
    <3> QED BY <1>7, <2>2, <3>1 DEF InHand
  <2> QED BY <2>1, <2>2 DEF Enter
<1>8. Tame' => Missing' \subseteq Missing
  BY <1>5, <1>6, <1>7
<1>9. Tame' /\ turn = "saving" /\ at["turn"] = "called" => at'["turn"] = "called" \/ Missing' = {}
  <2> SUFFICES ASSUME Tame', turn = "saving", p = "turn" PROVE Missing' = {}
    <3>1. at'["turn"] = at["turn"] \/ p = "turn"
      BY <1>4 DEF Enter, HandOver
    <3> QED BY <3>1
  <2>1. snap[p] = history
    BY <1>1, <1>2 DEF SavedInvariant, EndHasAll
  <2>2. ASSUME NEW m \in ImageOf(history) PROVE (InHand(m))'
    <3>1. CASE HandOver(p)
      <4>1. 1 \in DOMAIN pending' /\ pending'[1] = snap[p]
        BY <3>1 DEF HandOver
      <4> QED BY <2>1, <2>2, <4>1 DEF InHand
    <3>2. CASE at' = [at EXCEPT ![p] = "diff"] /\ UNCHANGED <<pending, snap>>
      <4>1. at'[p] = "diff" /\ snap'[p] = history
        BY <1>4, <2>1, <3>2
      <4> QED BY <2>2, <4>1 DEF InHand
    <3> QED BY <3>1, <3>2 DEF Enter
  <2> QED BY <1>5, <2>2
<1>10. turn = "saving" /\ at'["turn"] = "called" => at["turn"] = "called" /\ snap'["turn"] = snap["turn"]
  <2>1. at'[p] # "called"
    BY <1>4 DEF Enter, HandOver
  <2>2. p # "turn" => at'["turn"] = at["turn"] /\ snap'["turn"] = snap["turn"]
    BY <1>4 DEF Enter, HandOver
  <2> QED BY <2>1, <2>2
<1> QED BY <1>1, <1>2, <1>3, <1>8, <1>9, <1>10, StillSaved

\* A step of a thread that has entered its persist, whose way out leaves
\* nothing behind.
LEMMA PersistSaved ==
  ASSUME Fits, SavedInvariant, loaded, NEW p \in Thread, at[p] \in Place \ {"idle", "called"},
         UNCHANGED <<marker, loaded, history, turn, said>>,
         NEW place \in Place \ {"called"}, at' = [at EXCEPT ![p] = place],
         \A q \in Thread \ {p} : snap'[q] = snap[q],
         Tame' => Tame,
         Tame' => said \cap ImageOf(keys') \cap ImageOf(history) \subseteq OnTape(tape'),
         Tame' => Missing' \subseteq Missing
  PROVE  SavedInvariant'
<1>1. at \in [Thread -> Place] /\ "turn" \in Thread
  BY DEF Fits, TypeOK, Thread
<1>2. at["turn"] = "called" => p # "turn"
  OBVIOUS
<1>3. at'["turn"] = "called" => at["turn"] = "called" /\ snap'["turn"] = snap["turn"]
  BY <1>1
<1>4. at["turn"] = "called" => at'["turn"] = "called"
  BY <1>1, <1>2
<1> QED BY <1>3, <1>4, StillSaved

\* What is missing, before and after a step.
LEMMA MissingIs ==
  /\ \A m : m \in Missing <=> m \in said /\ m \in ImageOf(history) /\ m \notin OnTape(tape) /\ ~InHand(m)
  /\ \A m : m \in Missing' <=> m \in said' /\ m \in ImageOf(history') /\ m \notin OnTape(tape') /\ ~(InHand(m))'
  BY InFlightIsInHand DEF Missing, Unsaved

LEMMA DiffSaved ==
  ASSUME Fits, CursorInvariant, SavedInvariant, NEW p \in Thread, Diff(p)
  PROVE  SavedInvariant'
<1> USE DEF disk
<1>1. UNCHANGED <<tape, marker, loaded, history, keys, turn, said, pending, mishaps>> /\ at[p] = "diff" /\ loaded
  BY DEF Diff, CursorInvariant, Asleep
<1>2. (Tame' => Tame) /\ (Tame => Orderly)
  BY <1>1 DEF Tame, Orderly
<1>3. Tame' => said \cap ImageOf(keys') \cap ImageOf(history) \subseteq OnTape(tape')
  BY <1>1, <1>2 DEF SavedInvariant, Known
<1>4. at \in [Thread -> Place] /\ snap \in [Thread -> Seq(Nat)] /\ keys \in Seq(Nat) /\ seqs \in Seq(Nat)
  BY DEF Fits, TypeOK
<1>5. at[p] \in Place \ {"idle", "called"}
  BY <1>1 DEF Place
<1>6. CASE at' = [at EXCEPT ![p] = "tail"] /\ UNCHANGED <<syncing, snap, plan>>
           /\ \E c \in 0..Len(keys) : Agree(snap[p], c) /\ c = Len(keys) /\ c = Len(snap[p])
  <2>1. ImageOf(snap[p]) \subseteq ImageOf(keys)
    <3>1. DOMAIN keys = 1..Len(keys) /\ DOMAIN snap[p] = 1..Len(snap[p])
      BY <1>4, LenProperties
    <3>2. DOMAIN snap[p] = DOMAIN keys /\ \A n \in DOMAIN snap[p] : snap[p][n] = keys[n]
      BY <1>6, <3>1 DEF Agree
    <3> QED BY <3>2 DEF ImageOf
  <2>2. ASSUME Tame', NEW m \in Missing' PROVE m \in Missing
    <3>1. m \in said /\ m \in ImageOf(history) /\ m \notin OnTape(tape) /\ ~(InHand(m))'
      BY <1>1, <2>2, MissingIs
    <3>2. m \notin ImageOf(snap[p])
      BY <1>1, <1>3, <2>1, <2>2, <3>1
    <3>3. \A q \in Thread \ {p} : at'[q] = at[q] /\ snap'[q] = snap[q]
      BY <1>4, <1>6
    <3>4. ~InHand(m)
      BY <1>1, <3>1, <3>2, <3>3 DEF InHand
    <3> QED BY <3>1, <3>4, MissingIs
  <2>3. "tail" \in Place \ {"called"}
    BY DEF Place
  <2> QED BY <1>1, <1>2, <1>3, <1>5, <1>6, <2>2, <2>3, PersistSaved
<1>7. CASE \E c \in 0..Len(keys) : c > Len(seqs)
           /\ at' = [at EXCEPT ![p] = "idle"] /\ snap' = [snap EXCEPT ![p] = <<>>]
  <2>1. Len(keys) \in Nat /\ Len(seqs) \in Nat
    BY <1>4, LenProperties
  <2>2. ~Tame'
    BY <1>1, <1>2, <1>7, <2>1 DEF CursorInvariant, SameLength
  <2>3. \A q \in Thread \ {p} : snap'[q] = snap[q]
    BY <1>4, <1>7
  <2>4. "idle" \in Place \ {"called"}
    BY DEF Place
  <2> QED BY <1>1, <1>5, <1>7, <2>2, <2>3, <2>4, PersistSaved
<1>8. CASE at' = [at EXCEPT ![p] = "append"] /\ UNCHANGED <<syncing, snap>>
  <2>1. \A q \in Thread : at'[q] \in {"diff", "append"} <=> at[q] \in {"diff", "append"}
    BY <1>1, <1>4, <1>8
  <2>2. \A m : (InHand(m))' <=> InHand(m)
    BY <1>1, <1>8, <2>1 DEF InHand
  <2>3. Missing' \subseteq Missing
    BY <1>1, <2>2, MissingIs
  <2>4. "append" \in Place \ {"called"}
    BY DEF Place
  <2> QED BY <1>1, <1>2, <1>3, <1>5, <1>8, <2>3, <2>4, PersistSaved
<1> QED BY <1>6, <1>7, <1>8 DEF Diff

LEMMA WriteSaved ==
  ASSUME Fits, CursorInvariant, SavedInvariant, NEW p \in Thread, Write(p)
  PROVE  SavedInvariant'
<1>1. /\ UNCHANGED <<marker, loaded, history, turn, said, pending, snap>> /\ at[p] = "append" /\ loaded
      /\ at' = [at EXCEPT ![p] = "tail"]
  BY DEF Write, CursorInvariant, Asleep
<1>2. (Tame' => Tame) /\ (Tame => Orderly)
  BY DEF Write, Written, Failed, Tame, Orderly
<1>3. at \in [Thread -> Place] /\ snap \in [Thread -> Seq(Nat)]
  BY DEF Fits, TypeOK
<1>4. at[p] \in Place \ {"idle", "called"} /\ "tail" \in Place \ {"called"}
  BY <1>1 DEF Place
<1>5. CASE ~Tame'
  BY <1>1, <1>4, <1>5, PersistSaved
<1>6. CASE Tame'
  <2>1. Written(p)
    BY <1>6 DEF Write, Failed, Tame
  <2>2. tape' = tape \o plan[p].batch /\ keys' = snap[p] /\ Undone(tape') \subseteq mishaps'
    BY <2>1 DEF Written
  <2>3. OnTape(tape) \cap ImageOf(history) \subseteq OnTape(tape')
    BY <1>6, <2>2 DEF Undone, Tame
  <2>4. PICK c \in Nat : c = plan[p].common
    BY DEF Fits, TypeOK
  <2>5. PICK s \in Seq(Nat) : s = snap[p]
    BY <1>3
  <2>6. /\ c <= Len(keys) /\ c <= Len(s) /\ \A n \in 1..c : keys[n] = s[n]
        /\ tape' = tape \o (Cut(seqs, keys, c) \o Rest(s, c)) /\ Len(seqs) = Len(keys)
    BY <1>1, <1>2, <1>6, <2>2, <2>4, <2>5 DEF CursorInvariant, PlanRight, SameLength, Planned
  <2>7. \A n \in 1..(Len(s) - c) : s[c + n] \in OnTape(tape')
    BY <2>6, BatchIsOnTape
  <2>8. said \cap ImageOf(keys) \cap ImageOf(history) \subseteq OnTape(tape)
    BY <1>1, <1>2, <1>6 DEF SavedInvariant, Known
  <2>9. ASSUME NEW m \in said, m \in ImageOf(s), m \in ImageOf(history) PROVE m \in OnTape(tape')
    <3>1. DOMAIN s = 1..Len(s) /\ Len(s) \in Nat /\ Len(keys) \in Nat
      BY LenProperties DEF Fits, TypeOK
    <3>2. PICK n \in 1..Len(s) : m = s[n]
      BY <2>9, <3>1 DEF ImageOf
    <3>3. CASE n <= c
      <4>1. n \in 1..c /\ n \in DOMAIN keys
        BY <2>6, <3>1, <3>3, LenProperties DEF Fits, TypeOK
      <4>2. m \in ImageOf(keys)
        BY <2>6, <3>2, <4>1 DEF ImageOf
      <4> QED BY <2>3, <2>8, <2>9, <4>2
    <3>4. CASE ~(n <= c)
      <4>1. n - c \in 1..(Len(s) - c) /\ c + (n - c) = n
        BY <3>1, <3>4
      <4> QED BY <2>7, <3>2, <4>1
    <3> QED BY <3>3, <3>4
  <2>10. said \cap ImageOf(keys') \cap ImageOf(history) \subseteq OnTape(tape')
    BY <2>2, <2>5, <2>9
  <2>11. ASSUME NEW m \in Missing' PROVE m \in Missing
    <3>1. m \in said /\ m \in ImageOf(history) /\ m \notin OnTape(tape') /\ ~(InHand(m))'
      BY <1>1, <2>11, MissingIs
    <3>2. m \notin OnTape(tape)
      BY <2>3, <3>1
    <3>3. m \notin ImageOf(snap[p])
      BY <2>5, <2>9, <3>1
    <3>4. \A q \in Thread \ {p} : at'[q] = at[q]
      BY <1>1, <1>3
    <3>5. ~InHand(m)
      BY <1>1, <3>1, <3>3, <3>4 DEF InHand
    <3> QED BY <3>1, <3>2, <3>5, MissingIs
  <2> QED BY <1>1, <1>2, <1>4, <2>10, <2>11, PersistSaved
<1> QED BY <1>5, <1>6

LEMMA WayOutSaved ==
  ASSUME Fits, CursorInvariant, FreshInvariant, SavedInvariant, NEW p \in Thread, Drain(p) \/ Leave(p) \/ Close(p)
  PROVE  SavedInvariant'
<1> USE DEF disk
<1>1. UNCHANGED <<marker, loaded, history, keys, turn, said>> /\ at[p] \in {"tail", "leave", "meta"}
  BY DEF Drain, Leave, Close
<1>2. loaded /\ at[p] \in Place \ {"idle", "called"}
  BY <1>1 DEF CursorInvariant, Asleep, Place
<1>3. Tame' => Tame
  BY DEF Drain, Leave, Close, Tame
<1>4. OnTape(tape') = OnTape(tape)
  <2>1. UNCHANGED tape \/ tape' = tape \o <<Meta>>
    BY DEF Drain, Leave, Close
  <2>2. tape \in Seq(Event)
    BY DEF Fits, TypeOK
  <2>3. PICK e \in Event : e = Meta /\ e.kind \in {"meta", "foreign"}
    BY EventsAreTyped
  <2>4. PICK U : U = tape \o <<e>>
    OBVIOUS
  <2>5. OnTape(U) = OnTape(tape)
    BY <2>2, <2>3, <2>4, OnTapeStays
  <2> QED BY <2>1, <2>3, <2>4, <2>5
<1>5. Tame' => said \cap ImageOf(keys') \cap ImageOf(history) \subseteq OnTape(tape')
  BY <1>1, <1>2, <1>3, <1>4 DEF SavedInvariant, Known
<1>6. PICK place \in Place \ {"called"} : at' = [at EXCEPT ![p] = place]
  BY DEF Drain, Leave, Close, Place
<1>7. at \in [Thread -> Place] /\ snap \in [Thread -> Seq(Nat)] /\ pending \in Seq(Seq(Nat))
  BY DEF Fits, TypeOK
<1>8. ASSUME NEW m, InHand(m) PROVE (InHand(m))'
  <2>1. \A q \in Thread \ {p} : at'[q] = at[q] /\ snap'[q] = snap[q]
    BY <1>7 DEF Drain, Leave, Close
  <2>2. CASE \E q \in Thread : at[q] \in {"diff", "append"} /\ m \in ImageOf(snap[q])
    <3> PICK q \in Thread : at[q] \in {"diff", "append"} /\ m \in ImageOf(snap[q])
      BY <2>2
    <3>1. q # p
      BY <1>1
    <3> QED BY <2>1, <3>1 DEF InHand
  <2>3. CASE \E i \in DOMAIN pending : m \in ImageOf(pending[i])
    <3>1. pending # <<>> /\ m \in ImageOf(pending[1])
      BY <2>3, EmptyHasNone DEF FreshInvariant, OneWaits
    <3>2. CASE UNCHANGED pending
      BY <2>3, <3>2 DEF InHand
    <3>3. CASE at' = [at EXCEPT ![p] = "diff"] /\ snap' = [snap EXCEPT ![p] = pending[1]]
      <4>1. at'[p] = "diff" /\ snap'[p] = pending[1]
        BY <1>7, <3>3
      <4> QED BY <3>1, <4>1 DEF InHand
    <3> QED BY <3>1, <3>2, <3>3 DEF Drain, Leave, Close
  <2> QED BY <1>8, <2>2, <2>3 DEF InHand
<1>9. Missing' \subseteq Missing
  BY <1>1, <1>4, <1>8, MissingIs
<1>10. \A q \in Thread \ {p} : snap'[q] = snap[q]
  BY <1>7 DEF Drain, Leave, Close
<1> QED BY <1>1, <1>2, <1>3, <1>5, <1>6, <1>9, <1>10, PersistSaved

\* What is in no sync's hands does not depend on the threads that have not
\* entered.
LEMMA SameInHand ==
  ASSUME UNCHANGED pending,
         \A q \in Thread : at[q] \in {"diff", "append"} \/ at'[q] \in {"diff", "append"} =>
                             at'[q] = at[q] /\ snap'[q] = snap[q]
  PROVE  \A m : (InHand(m))' <=> InHand(m)
  BY DEF InHand

\* The turn under its marker: what it says is told until it has saved it.
LEMMA SpeakingSaved ==
  ASSUME Fits, CursorInvariant, FreshInvariant, SavedInvariant, Hear \/ Reply \/ Compact \/ RollBack
  PROVE  SavedInvariant'
<1> USE DEF disk, record
<1>1. /\ UNCHANGED <<tape, marker, loaded, keys, at, snap, pending, mishaps>>
      /\ turn # "idle" /\ turn' \in {"heard", "running", "failed"}
  BY DEF Hear, Reply, Compact, RollBack
<1>2. (Tame' <=> Tame) /\ loaded
  BY <1>1 DEF Tame, CursorInvariant, Asleep
<1>3. Tame => marker = "main"
  BY <1>1 DEF SavedInvariant, Marked
<1>4. Marked' /\ EndHasAll' /\ Covered' /\ Told'
  BY <1>1, <1>2, <1>3 DEF Marked, EndHasAll, Covered, Told
<1>5. Known'
  <2>1. ImageOf(history') \subseteq ImageOf(history) \cup {next} /\ said' \subseteq said \cup {next}
    BY ContextGrows
  <2>2. next \notin ImageOf(keys)
    BY DEF FreshInvariant, Fresh, Below
  <2>3. Tame => said \cap ImageOf(keys) \cap ImageOf(history) \subseteq OnTape(tape)
    BY <1>2 DEF SavedInvariant, Known
  <2>4. said' \cap ImageOf(keys) \cap ImageOf(history') \subseteq said \cap ImageOf(keys) \cap ImageOf(history)
    BY <2>1, <2>2
  <2> QED BY <1>1, <1>2, <2>3, <2>4 DEF Known
<1> QED BY <1>4, <1>5 DEF SavedInvariant

LEMMA ParkSaved ==
  ASSUME Fits, FreshInvariant, SavedInvariant, Park
  PROVE  SavedInvariant'
<1> USE DEF disk, record
<1>1. UNCHANGED <<tape, marker, loaded, keys, at, snap, pending, turn, said, mishaps>> /\ turn = "idle" /\ loaded
  BY DEF Park
<1>2. Tame' <=> Tame
  BY <1>1 DEF Tame
<1>3. ImageOf(history') \subseteq ImageOf(history) \cup {next} /\ next \notin said
  BY ContextGrows DEF FreshInvariant, Fresh, Below
<1>4. Marked' /\ EndHasAll' /\ Told'
  BY <1>1, <1>2 DEF SavedInvariant, Marked, EndHasAll, Told
<1>5. Known'
  <2>1. said \cap ImageOf(history') \subseteq said \cap ImageOf(history)
    BY <1>3
  <2>2. Tame => said \cap ImageOf(keys) \cap ImageOf(history) \subseteq OnTape(tape)
    BY <1>1 DEF SavedInvariant, Known
  <2> QED BY <1>1, <1>2, <2>1, <2>2 DEF Known
<1>6. Missing' \subseteq Missing
  <2>1. \A m : (InHand(m))' <=> InHand(m)
    BY <1>1, SameInHand
  <2> QED BY <1>1, <1>3, <2>1, MissingIs
<1>7. Covered'
  BY <1>1, <1>2, <1>6 DEF SavedInvariant, Covered
<1> QED BY <1>4, <1>5, <1>7 DEF SavedInvariant

LEMMA BoundsSaved ==
  ASSUME Fits, CursorInvariant, SavedInvariant,
         Begin \/ Abandon \/ EndTurn \/ Clear \/ \E p \in Sides : SideCall(p)
  PROVE  SavedInvariant'
<1> USE DEF disk, record
<1>1. UNCHANGED <<tape, loaded, history, keys, pending, said>> /\ loaded
  BY DEF Begin, Abandon, EndTurn, Clear, SideCall, CursorInvariant, Asleep
<1>2. Tame' => Tame
  BY DEF Begin, Abandon, EndTurn, Clear, SideCall, Tame
<1>3. Known' /\ Told'
  BY <1>1, <1>2 DEF SavedInvariant, Known, Told
<1>4. at \in [Thread -> Place] /\ snap \in [Thread -> Seq(Nat)] /\ "turn" \in Thread
  BY DEF Fits, TypeOK, Thread
<1>5. Missing' = Missing
  <2>1. \A q \in Thread : at[q] \in {"diff", "append"} \/ at'[q] \in {"diff", "append"} =>
                             at'[q] = at[q] /\ snap'[q] = snap[q]
    BY <1>4 DEF Begin, Abandon, EndTurn, Clear, SideCall, Call, Thread
  <2>2. \A m : (InHand(m))' <=> InHand(m)
    BY <1>1, <2>1, SameInHand
  <2>3. \A m : m \in Missing' <=> m \in Missing
    BY <1>1, <2>2, MissingIs
  <2> QED BY <2>3 DEF Missing, Unsaved
<1>6. CASE Begin
  <2>1. /\ turn = "idle" /\ turn' = "marked" /\ UNCHANGED <<at, snap>>
        /\ marker' = "main" \/ ~Tame'
    BY <1>6 DEF Begin, Tame
  <2>2. Marked' /\ EndHasAll' /\ Covered'
    BY <2>1 DEF Marked, EndHasAll, Covered
  <2> QED BY <1>3, <2>2 DEF SavedInvariant
<1>7. CASE Abandon
  <2>1. turn # "saving" /\ turn' = "idle" /\ UNCHANGED <<at, snap, marker>>
    BY <1>7 DEF Abandon
  <2>2. Marked' /\ EndHasAll'
    BY <2>1 DEF Marked, EndHasAll
  <2>3. Covered'
    BY <1>1, <1>2, <1>5, <2>1 DEF SavedInvariant, Covered
  <2> QED BY <1>3, <2>2, <2>3 DEF SavedInvariant
<1>8. CASE EndTurn
  <2>1. /\ turn # "idle" /\ turn' = "saving" /\ UNCHANGED marker
        /\ at' = [at EXCEPT !["turn"] = "called"] /\ snap' = [snap EXCEPT !["turn"] = history]
    BY <1>8 DEF EndTurn, Call
  <2>2. at'["turn"] = "called" /\ snap'["turn"] = history
    BY <1>4, <2>1
  <2>3. Tame' => marker = "main"
    BY <1>2, <2>1 DEF SavedInvariant, Marked
  <2>4. Marked' /\ EndHasAll' /\ Covered'
    BY <1>1, <2>1, <2>2, <2>3 DEF Marked, EndHasAll, Covered
  <2> QED BY <1>3, <2>4 DEF SavedInvariant
<1>9. CASE Clear
  <2>1. turn = "saving" /\ at["turn"] = "idle" /\ turn' = "idle" /\ UNCHANGED <<at, snap>>
    BY <1>9 DEF Clear
  <2>2. Tame => Missing = {}
    BY <1>1, <2>1 DEF SavedInvariant, Covered
  <2>3. Marked' /\ EndHasAll' /\ Covered'
    BY <1>2, <1>5, <2>1, <2>2 DEF Marked, EndHasAll, Covered
  <2> QED BY <1>3, <2>3 DEF SavedInvariant
<1>10. CASE \E p \in Sides : SideCall(p)
  <2> PICK p \in Sides : SideCall(p)
    BY <1>10
  <2>1. /\ UNCHANGED <<marker, turn>> /\ p # "turn"
        /\ at' = [at EXCEPT ![p] = "called"] /\ snap' = [snap EXCEPT ![p] = history]
    BY SidesAssumption DEF SideCall, Call
  <2>2. at'["turn"] = at["turn"] /\ snap'["turn"] = snap["turn"]
    BY <1>4, <2>1
  <2>3. Marked' /\ EndHasAll' /\ Covered'
    BY <1>1, <1>2, <1>5, <2>1, <2>2 DEF SavedInvariant, Marked, EndHasAll, Covered
  <2> QED BY <1>3, <2>3 DEF SavedInvariant
<1> QED BY <1>6, <1>7, <1>8, <1>9, <1>10

LEMMA JanitorSaved ==
  ASSUME Fits, SavedInvariant, Visit \/ VisitSaved \/ VisitEnds
  PROVE  SavedInvariant'
<1> USE DEF memory, record
<1>1. UNCHANGED <<loaded, history, keys, pending, at, snap, turn, said>>
  BY DEF Visit, VisitSaved, VisitEnds
<1>2. Tame' => Tame /\ (UNCHANGED marker \/ marker # "main")
  BY DEF Visit, VisitSaved, VisitEnds, Tame
<1>3. OnTape(tape') = OnTape(tape)
  <2>1. UNCHANGED tape \/ tape' = tape \o <<Foreign>>
    BY DEF Visit, VisitSaved, VisitEnds
  <2>2. tape \in Seq(Event)
    BY DEF Fits, TypeOK
  <2>3. PICK e \in Event : e = Foreign /\ e.kind \in {"meta", "foreign"}
    BY EventsAreTyped
  <2>4. PICK U : U = tape \o <<e>>
    OBVIOUS
  <2>5. OnTape(U) = OnTape(tape)
    BY <2>2, <2>3, <2>4, OnTapeStays
  <2> QED BY <2>1, <2>3, <2>4, <2>5
<1>4. Missing' \subseteq Missing
  <2>1. \A m : (InHand(m))' <=> InHand(m)
    BY <1>1, SameInHand
  <2> QED BY <1>1, <1>3, <2>1, MissingIs
<1>5. Marked' /\ EndHasAll' /\ Told'
  BY <1>1, <1>2 DEF SavedInvariant, Marked, EndHasAll, Told
<1>6. Known'
  BY <1>1, <1>2, <1>3 DEF SavedInvariant, Known
<1>7. Covered'
  BY <1>1, <1>2, <1>4 DEF SavedInvariant, Covered
<1> QED BY <1>5, <1>6, <1>7 DEF SavedInvariant

LEMMA RestartSaved ==
  ASSUME Fits, CursorInvariant, SavedInvariant, Crash \/ Restore \/ RestoreFails
  PROVE  SavedInvariant'
<1>1. CASE Crash
  <2>1. /\ loaded' = FALSE /\ turn' = "idle" /\ UNCHANGED marker
        /\ said' = IF loaded THEN Unsaved(tape') ELSE said
    BY <1>1 DEF Crash
  <2>2. Tame' => Tame /\ Handed(tape') \subseteq mishaps' /\ (tape' = tape \/ Undone(tape') \subseteq mishaps')
    BY <1>1 DEF Crash, Tame
  <2>3. Tame' => OnTape(tape) \cap ImageOf(history) \subseteq OnTape(tape')
    BY <2>2 DEF Undone, Tame
  <2>4. ASSUME Tame', loaded, marker # "main" PROVE Unsaved(tape') = {}
    <3>1. turn = "idle" /\ Missing = {}
      BY <2>2, <2>4 DEF SavedInvariant, Marked, Covered
    <3>2. Unsaved(tape') \subseteq Unsaved(tape)
      BY <2>3, <2>4 DEF Unsaved
    <3>3. Unsaved(tape') \cap InFlight = {}
      BY <2>2, <2>4, <3>1 DEF Handed, Tame
    <3> QED BY <3>1, <3>2, <3>3 DEF Missing
  <2>5. Told'
    BY <2>1, <2>2, <2>4 DEF SavedInvariant, Told
  <2> QED BY <2>1, <2>5 DEF SavedInvariant, Marked, EndHasAll, Known, Covered
<1>2. CASE Restore
  <2>1. /\ ~loaded /\ loaded' = TRUE /\ UNCHANGED <<tape, turn>>
        /\ said' \subseteq OnTape(tape)
    BY <1>2 DEF Restore
  <2>2. turn' = "idle"
    BY <2>1 DEF CursorInvariant, Asleep
  <2>3. Missing' = {}
    BY <2>1 DEF Missing, Unsaved
  <2> QED BY <2>1, <2>2, <2>3 DEF SavedInvariant, Marked, EndHasAll, Known, Covered, Told
<1>3. CASE RestoreFails
  <2>1. ~loaded /\ loaded' = TRUE /\ UNCHANGED <<tape, turn>> /\ said' = {}
    BY <1>3 DEF RestoreFails
  <2>2. turn' = "idle"
    BY <2>1 DEF CursorInvariant, Asleep
  <2>3. Missing' = {}
    BY <2>1 DEF Missing, Unsaved
  <2> QED BY <2>1, <2>2, <2>3 DEF SavedInvariant, Marked, EndHasAll, Known, Covered, Told
<1> QED BY <1>1, <1>2, <1>3

LEMMA StepSaved ==
  LogInvariant /\ CursorInvariant /\ FreshInvariant /\ SavedInvariant /\ [Next]_vars => SavedInvariant'
<1> SUFFICES ASSUME LogInvariant, CursorInvariant, FreshInvariant, SavedInvariant, [Next]_vars
             PROVE  SavedInvariant'
  OBVIOUS
<1>1. Fits
  BY DEF LogInvariant
<1>2. ASSUME NEW p \in Thread, Enter(p) \/ Diff(p) \/ Write(p) \/ Drain(p) \/ Leave(p) \/ Close(p)
      PROVE  SavedInvariant'
  BY <1>1, <1>2, EnterSaved, DiffSaved, WriteSaved, WayOutSaved
<1>3. CASE Hear \/ Reply \/ Compact \/ RollBack
  BY <1>1, <1>3, SpeakingSaved
<1>4. CASE Park
  BY <1>1, <1>4, ParkSaved
<1>5. CASE Begin \/ Abandon \/ EndTurn \/ Clear \/ \E p \in Sides : SideCall(p)
  BY <1>1, <1>5, BoundsSaved
<1>6. CASE Visit \/ VisitSaved \/ VisitEnds
  BY <1>1, <1>6, JanitorSaved
<1>7. CASE Crash \/ Restore \/ RestoreFails
  BY <1>1, <1>7, RestartSaved
<1>8. CASE UNCHANGED vars
  <2>1. UNCHANGED <<tape, marker, loaded, history, keys, pending, at, snap, turn, said, mishaps>>
    BY <1>8 DEF vars, memory, record
  <2>2. Missing' = Missing
    BY <2>1 DEF Missing, Unsaved, InFlight
  <2> QED BY <2>1, <2>2 DEF SavedInvariant, Marked, EndHasAll, Known, Covered, Told, Tame
<1> QED BY <1>2, <1>3, <1>4, <1>5, <1>6, <1>7, <1>8 DEF Next

\* What a turn said is on the tape, or its marker stands and the next start
\* tells the model so, or a sync has it at hand: for any number of threads,
\* persists, deaths and visits of the janitor, as long as none of the listed
\* accidents happened.  A replay cut short is not one of them.
THEOREM TurnsAreSavedOrTold == Spec => []TurnSavedOrTold
<1>1. SavedInvariant => TurnSavedOrTold
  BY DEF SavedInvariant, Covered, Told, Missing, Tame, TurnSavedOrTold
<1>2. Spec => []CursorInvariant
  BY InitCursor, StepCursor, LogStaysRight, PTL DEF Spec
<1>3. Spec => []FreshInvariant
  BY InitFresh, StepFresh, LogStaysRight, PTL DEF Spec
<1> QED BY <1>1, <1>2, <1>3, InitSaved, StepSaved, LogStaysRight, PTL DEF Spec
=============================================================================
