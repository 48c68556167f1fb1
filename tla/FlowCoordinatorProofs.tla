----------------------- MODULE FlowCoordinatorProofs -----------------------
(***************************************************************************)
(* Proofs about FlowCoordinator, for any graphs and any number of nodes,   *)
(* flows and generations.  First what the operations do to one flow object *)
(* (Healthy: it is coherent with its tasks; Settled: nothing that can      *)
(* start is left lying), then that each action keeps every object healthy  *)
(* and the registered one settled, then the properties.                    *)
(***************************************************************************)
EXTENDS FlowCoordinator, SequenceTheorems, FiniteSetTheorems, WellFoundedInduction, TLAPS

(* A flow object.                                                          *)
Fields == {"tmpl", "order", "edges", "kick", "one", "q", "act", "status", "hint", "result",
           "tasks", "held", "hops", "done", "born", "parked"}
Sound(f) ==
  /\ DOMAIN f = Fields
  /\ f.tmpl \in Templates \cup LaterTemplates /\ f.order \in Seq(Node)
  /\ f.edges \subseteq f.tmpl.edges /\ f.one \subseteq Node
  /\ f.kick \subseteq f.edges /\ f.kick = KickEdges(f.order, f.edges)
  /\ f.q \in [f.tmpl.edges -> Nat]
  /\ f.act \in [Node -> 0..Cap] /\ f.status \in [Node -> Status]
  /\ f.hint \in [Node -> {0} \cup Node] /\ f.result \in [Node -> BOOLEAN]
  /\ f.tasks \in [Node -> Seq(Task)] /\ f.held \subseteq Node /\ f.parked \subseteq Node
  /\ f.hops \in Nat /\ f.done \in BOOLEAN /\ f.born \in 0..MaxOps

LEMMA LaunchFields ==
  ASSUME NEW f, Sound(f), NEW S \in SUBSET Node, \A n \in S : f.act[n] < Cap, epoch \in 0..MaxOps
  PROVE  LET g == Launch(f, S) IN
         /\ Sound(g)
         /\ g.tmpl = f.tmpl /\ g.order = f.order /\ g.edges = f.edges /\ g.kick = f.kick
         /\ g.one = f.one /\ g.born = f.born /\ g.hops = f.hops /\ g.done = f.done
         /\ g.result = f.result
         /\ g.held = f.held \cup S /\ g.parked = f.parked \ S
         /\ S = {} => g.act = f.act /\ g.q = f.q
         /\ \A n \in Node : /\ g.act[n] = IF n \in S THEN f.act[n] + 1 ELSE f.act[n]
                            /\ g.status[n] = IF n \in S THEN "running" ELSE f.status[n]
                            /\ g.tasks[n] = IF n \in S THEN Append(f.tasks[n],
                                 [epoch |-> epoch, phase |-> "body", callback |-> -1]) ELSE f.tasks[n]
<1> DEFINE g == Launch(f, S)
           new == [epoch |-> epoch, phase |-> "body", callback |-> -1]
<1>1. /\ DOMAIN g = Fields
      /\ g.tmpl = f.tmpl /\ g.order = f.order /\ g.edges = f.edges /\ g.kick = f.kick
      /\ g.one = f.one /\ g.born = f.born /\ g.hops = f.hops /\ g.done = f.done
      /\ g.result = f.result
      /\ g.held = f.held \cup S /\ g.parked = f.parked \ S
      /\ g.act = [n \in Node |-> IF n \in S THEN f.act[n] + 1 ELSE f.act[n]]
      /\ g.status = [n \in Node |-> IF n \in S THEN "running" ELSE f.status[n]]
      /\ g.hint = [n \in Node |-> IF n \in S THEN 0 ELSE f.hint[n]]
      /\ g.tasks = [n \in Node |-> IF n \in S THEN Append(f.tasks[n], new) ELSE f.tasks[n]]
      /\ g.q = [e \in DOMAIN f.q |-> IF e \in f.edges /\ e.to \in S /\ f.q[e] > 0
                                     THEN f.q[e] - 1 ELSE f.q[e]]
  BY DEF Sound, Fields, Launch, Consume
<1> HIDE DEF g
<1>2. new \in Task
  BY BoundsAssumption DEF Task
<1>3. g.tasks \in [Node -> Seq(Task)]
  BY <1>1, <1>2, AppendProperties DEF Sound
<1>4. g.act \in [Node -> 0..Cap]
  <2>1. \A n \in Node : f.act[n] \in 0..Cap /\ (n \in S => f.act[n] + 1 \in 0..Cap)
    BY BoundsAssumption DEF Sound
  <2> QED
    BY <1>1, <2>1
<1>5. g.q \in [f.tmpl.edges -> Nat]
  BY <1>1 DEF Sound
<1>6. g.status \in [Node -> Status] /\ g.hint \in [Node -> {0} \cup Node]
  BY <1>1 DEF Sound, Status
<1>7. Sound(g)
  BY <1>1, <1>3, <1>4, <1>5, <1>6 DEF Sound
<1>8. S = {} => g.act = f.act /\ g.q = f.q
  BY <1>1 DEF Sound
<1> QED
  BY <1>1, <1>7, <1>8 DEF g

(* What a task's end does to the tasks of its node.                        *)
LEMMA RemovedTask ==
  ASSUME NEW S, NEW seq \in Seq(S), NEW i \in DOMAIN seq
  PROVE  LET left == RemoveAt(seq, i) IN
         /\ left \in Seq(S) /\ Len(left) = Len(seq) - 1
         /\ \A j \in DOMAIN left : \E k \in DOMAIN seq : left[j] = seq[k]
         /\ \A k \in DOMAIN seq : k # i => \E j \in DOMAIN left : left[j] = seq[k]
         /\ i # Len(seq) => left # <<>> /\ Last(left) = Last(seq)
<1> DEFINE left == RemoveAt(seq, i)
           n == Len(seq)
           front == SubSeq(seq, 1, i - 1)
           back == SubSeq(seq, i + 1, n)
<1>1. n \in Nat /\ DOMAIN seq = 1 .. n /\ i \in 1 .. n
  BY LenProperties
<1>2. /\ front \in Seq(S) /\ Len(front) = i - 1
      /\ \A j \in 1 .. i - 1 : front[j] = seq[j]
  BY <1>1, SubSeqProperties
<1>3. /\ back \in Seq(S) /\ Len(back) = n - i
      /\ \A j \in 1 .. n - i : back[j] = seq[i + j]
  <2>1. CASE i = n
    <3>1. i + 1 > n
      BY <1>1, <2>1
    <3>2. back = <<>>
      BY <1>1, <3>1, SubSeqProperties
    <3> QED
      BY <1>1, <2>1, <3>2, EmptySeq
  <2>2. CASE i # n
    <3> DEFINE m == i + 1
    <3>1. m \in Int /\ n \in Int /\ m <= n /\ n - m + 1 = n - i /\ \A j \in 1 .. n - i : m + j - 1 = i + j
      BY <1>1, <2>2
    <3>2. \A j \in m .. n : seq[j] \in S
      BY <1>1, ElementOfSeq
    <3>3. back = SubSeq(seq, m, n)
      OBVIOUS
    <3> HIDE DEF m, n, back
    <3>4. /\ SubSeq(seq, m, n) \in Seq(S)
          /\ Len(SubSeq(seq, m, n)) = IF m <= n THEN n - m + 1 ELSE 0
          /\ \A j \in 1 .. n - m + 1 : SubSeq(seq, m, n)[j] = seq[m + j - 1]
      BY <3>1, <3>2, SubSeqProperties
    <3> QED
      BY <3>1, <3>3, <3>4
  <2> QED
    BY <2>1, <2>2
<1>4. left = front \o back
  BY DEF RemoveAt
<1> HIDE DEF left, n, front, back
<1>5. /\ left \in Seq(S) /\ Len(left) = n - 1 /\ DOMAIN left = 1 .. n - 1
      /\ \A j \in 1 .. n - 1 : left[j] = IF j <= i - 1 THEN front[j] ELSE back[j - (i - 1)]
  <2>1. /\ left \in Seq(S) /\ Len(left) = Len(front) + Len(back)
        /\ \A j \in 1 .. Len(front) + Len(back) :
             left[j] = IF j <= Len(front) THEN front[j] ELSE back[j - Len(front)]
    BY <1>2, <1>3, <1>4, ConcatProperties
  <2> QED
    BY <1>1, <1>2, <1>3, <2>1, LenProperties
<1>6. \A j \in 1 .. n - 1 : left[j] = IF j < i THEN seq[j] ELSE seq[j + 1]
  <2> SUFFICES ASSUME NEW j \in 1 .. n - 1 PROVE left[j] = IF j < i THEN seq[j] ELSE seq[j + 1]
    OBVIOUS
  <2>1. CASE j < i
    BY <1>1, <1>2, <1>5, <2>1
  <2>2. CASE ~(j < i)
    <3>1. j - (i - 1) \in 1 .. n - i /\ i + (j - (i - 1)) = j + 1
      BY <1>1, <2>2
    <3>2. left[j] = back[j - (i - 1)]
      BY <1>1, <1>5, <2>2
    <3>3. back[j - (i - 1)] = seq[i + (j - (i - 1))]
      BY <1>3, <3>1
    <3> QED
      BY <2>2, <3>1, <3>2, <3>3
  <2> QED
    BY <2>1, <2>2
<1>7. \A j \in DOMAIN left : \E k \in DOMAIN seq : left[j] = seq[k]
  <2> SUFFICES ASSUME NEW j \in 1 .. n - 1 PROVE \E k \in 1 .. n : left[j] = seq[k]
    BY <1>1, <1>5
  <2>1. j \in 1 .. n /\ j + 1 \in 1 .. n
    BY <1>1
  <2> QED
    BY <1>6, <2>1
<1>8. ASSUME NEW k \in 1 .. n, k # i PROVE \E j \in 1 .. n - 1 : left[j] = seq[k]
  <2>1. CASE k < i
    BY <1>1, <1>6, <2>1
  <2>2. CASE k > i
    <3>1. k - 1 \in 1 .. n - 1 /\ ~(k - 1 < i) /\ (k - 1) + 1 = k
      BY <1>1, <2>2
    <3> QED
      BY <1>6, <3>1
  <2> QED
    BY <1>1, <1>8, <2>1, <2>2
<1>9. i # n => left # <<>> /\ Last(left) = Last(seq)
  <2> SUFFICES ASSUME i # n PROVE left # <<>> /\ Last(left) = Last(seq)
    OBVIOUS
  <2>1. n - 1 \in 1 .. n - 1 /\ ~(n - 1 < i) /\ (n - 1) + 1 = n
    BY <1>1
  <2>2. left[n - 1] = seq[n] /\ n - 1 # 0
    BY <1>6, <2>1
  <2> QED
    BY <1>5, <2>2, EmptySeq DEF Last, n
<1> QED
  BY <1>1, <1>5, <1>7, <1>8, <1>9 DEF left, n
-----------------------------------------------------------------------------
(* A flow between two steps: a node that runs has a task in its body, and  *)
(* tasks and callbacks are of the generation of their flow or later.       *)
HasBody(f, n) == \E i \in DOMAIN f.tasks[n] : f.tasks[n][i].phase = "body"
SomeBody(f) == \E n \in Node : HasBody(f, n)
Stirring(f) == \E n \in Node : \E i \in DOMAIN f.tasks[n] : Alive(f.tasks[n][i])

Healthy(f, e) ==
  /\ Sound(f) /\ f.born <= e
  /\ f.held \subseteq Nodes(f)
  /\ \A n \in Node : f.status[n] = "running" => HasBody(f, n)
  /\ \A n \in Node : \A i \in DOMAIN f.tasks[n] : /\ f.tasks[n][i].epoch \in f.born .. e
                                                  /\ f.tasks[n][i].callback \in {-1, f.born}

(* Nothing is left lying: a task is alive, whose end will look again, or   *)
(* what is ready was made so by an edit.                                   *)
Settled(f) == Stirring(f) \/ \A n \in Nodes(f) : IsReady(f, n) => n \in f.parked
Busied(f) == SomeBody(f) \/ \A n \in Nodes(f) : ~IsReady(f, n)

SameGraph(f, g) ==
  /\ g.tmpl = f.tmpl /\ g.order = f.order /\ g.edges = f.edges /\ g.kick = f.kick
  /\ g.one = f.one /\ g.born = f.born

(* Every task of f is at its place in g, and in the same phase.            *)
Kept(f, g) ==
  \A n \in Node : \A i \in DOMAIN f.tasks[n] :
    i \in DOMAIN g.tasks[n] /\ g.tasks[n][i].phase = f.tasks[n][i].phase

LEMMA KeptIsTransitive ==
  ASSUME NEW f, NEW g, NEW h, SameGraph(f, g), Kept(f, g), SameGraph(g, h), Kept(g, h)
  PROVE  SameGraph(f, h) /\ Kept(f, h)
  BY DEF SameGraph, Kept

LEMMA KeptStirs ==
  ASSUME NEW f, NEW g, Kept(f, g)
  PROVE  /\ SomeBody(f) => SomeBody(g)
         /\ Stirring(f) => Stirring(g)
         /\ \A n \in Node : HasBody(f, n) => HasBody(g, n)
  BY DEF Kept, SomeBody, HasBody, Stirring, Alive

LEMMA BodyStirs == ASSUME NEW f, SomeBody(f) PROVE Stirring(f)
  BY DEF SomeBody, HasBody, Stirring, Alive

LEMMA BusiedIsSettled == ASSUME NEW f, Busied(f) PROVE Settled(f)
  BY BodyStirs DEF Busied, Settled

(* Whether a node is ready depends on the graph and its arrivals alone.    *)
LEMMA ReadyAlike ==
  ASSUME NEW f, NEW g, g.order = f.order, g.edges = f.edges, g.kick = f.kick, g.act = f.act, g.q = f.q
  PROVE  Nodes(g) = Nodes(f) /\ \A n : IsReady(g, n) <=> IsReady(f, n)
  BY DEF Nodes, IsReady, Ready, CanActivate, Required, InEdges

LEMMA ReadyFits ==
  ASSUME NEW f, Sound(f), NEW n, IsReady(f, n)
  PROVE  n \in Node /\ n \in Nodes(f) /\ f.act[n] < Cap
  BY DEF Sound, IsReady, Ready, CanActivate, Nodes, ToSet

LEMMA NodesAreNodes == ASSUME NEW f, Sound(f) PROVE Nodes(f) \subseteq Node
  BY DEF Sound, Nodes, ToSet

LEMMA LaunchHealthy ==
  ASSUME NEW f, Healthy(f, epoch), epoch \in 0..MaxOps, NEW S, \A n \in S : IsReady(f, n)
  PROVE  LET g == Launch(f, S) IN
         /\ Healthy(g, epoch) /\ SameGraph(f, g) /\ Kept(f, g) /\ g.hops = f.hops /\ g.done = f.done
         /\ \A n \in S : HasBody(g, n)
         /\ S = {} => g.act = f.act /\ g.q = f.q /\ g.parked = f.parked
<1> DEFINE g == Launch(f, S)
           new == [epoch |-> epoch, phase |-> "body", callback |-> -1]
<1>0. Sound(f) /\ S \in SUBSET Node /\ S \subseteq Nodes(f) /\ \A n \in S : f.act[n] < Cap
  BY ReadyFits DEF Healthy
<1>1. /\ Sound(g) /\ SameGraph(f, g) /\ g.hops = f.hops /\ g.done = f.done
      /\ g.held = f.held \cup S /\ g.parked = f.parked \ S
      /\ S = {} => g.act = f.act /\ g.q = f.q
      /\ \A n \in Node : /\ g.status[n] = IF n \in S THEN "running" ELSE f.status[n]
                         /\ g.tasks[n] = IF n \in S THEN Append(f.tasks[n], new) ELSE f.tasks[n]
  BY <1>0, LaunchFields DEF SameGraph
<1> HIDE DEF g
<1>2. new \in Task
  BY BoundsAssumption DEF Task
<1>3. ASSUME NEW n \in Node
      PROVE  /\ \A i \in DOMAIN f.tasks[n] : i \in DOMAIN g.tasks[n] /\ g.tasks[n][i] = f.tasks[n][i]
             /\ \A i \in DOMAIN g.tasks[n] : \/ i \in DOMAIN f.tasks[n] /\ g.tasks[n][i] = f.tasks[n][i]
                                             \/ n \in S /\ g.tasks[n][i] = new
             /\ n \in S => \E i \in DOMAIN g.tasks[n] : g.tasks[n][i] = new
  <2>1. f.tasks[n] \in Seq(Task)
    BY <1>0 DEF Sound
  <2>2. CASE n \notin S
    BY <1>1, <2>2
  <2>3. CASE n \in S
    <3>1. /\ Len(f.tasks[n]) \in Nat /\ DOMAIN f.tasks[n] = 1 .. Len(f.tasks[n])
          /\ DOMAIN Append(f.tasks[n], new) = 1 .. Len(f.tasks[n]) + 1
          /\ Append(f.tasks[n], new)[Len(f.tasks[n]) + 1] = new
          /\ \A i \in 1 .. Len(f.tasks[n]) : Append(f.tasks[n], new)[i] = f.tasks[n][i]
      BY <1>2, <2>1, AppendProperties, LenProperties
    <3>2. g.tasks[n] = Append(f.tasks[n], new)
      BY <1>1, <2>3
    <3> HIDE DEF new
    <3> QED
      BY <2>3, <3>1, <3>2
  <2> QED
    BY <2>2, <2>3
<1>4. Kept(f, g)
  BY <1>3 DEF Kept
<1>5. new.phase = "body" /\ new.epoch = epoch /\ new.callback = -1
  OBVIOUS
<1>6. \A n \in S : HasBody(g, n)
  BY <1>0, <1>3, <1>5 DEF HasBody
<1>7. \A n \in Node : g.status[n] = "running" => HasBody(g, n)
  BY <1>1, <1>4, <1>6, KeptStirs DEF Healthy
<1>8. \A n \in Node : \A i \in DOMAIN g.tasks[n] : /\ g.tasks[n][i].epoch \in g.born .. epoch
                                                   /\ g.tasks[n][i].callback \in {-1, g.born}
  <2>1. g.born = f.born /\ epoch \in f.born .. epoch
    BY <1>0, <1>1, BoundsAssumption DEF SameGraph, Healthy, Sound
  <2> QED
    BY <1>3, <1>5, <2>1 DEF Healthy
<1>9. g.held \subseteq Nodes(g) /\ g.born <= epoch
  BY <1>0, <1>1 DEF Healthy, SameGraph, Nodes
<1>10. Healthy(g, epoch)
  BY <1>1, <1>7, <1>8, <1>9 DEF Healthy
<1>11. S = {} => g.parked = f.parked
  BY <1>1
<1> QED
  BY <1>1, <1>4, <1>6, <1>10, <1>11 DEF g

LEMMA LitHealthy ==
  ASSUME NEW f, Healthy(f, epoch), epoch \in 0..MaxOps
  PROVE  LET g == Lit(f) IN
         /\ Healthy(g, epoch) /\ SameGraph(f, g) /\ Kept(f, g) /\ g.hops = f.hops /\ Busied(g)
<1> DEFINE S == {n \in Nodes(f) : f.status[n] # "running" /\ IsReady(f, n)}
           g == Lit(f)
<1>1. /\ Healthy(g, epoch) /\ SameGraph(f, g) /\ Kept(f, g) /\ g.hops = f.hops
      /\ \A n \in S : HasBody(g, n)
      /\ S = {} => g.act = f.act /\ g.q = f.q
  BY LaunchHealthy DEF Lit
<1>2. S \subseteq Node /\ Nodes(f) \subseteq Node
  BY NodesAreNodes DEF Healthy
<1> HIDE DEF g
<1>3. ASSUME S # {} PROVE Busied(g)
  BY <1>1, <1>2, <1>3 DEF Busied, SomeBody
<1>4. ASSUME S = {} PROVE Busied(g)
  <2>1. Nodes(g) = Nodes(f) /\ \A n : IsReady(g, n) <=> IsReady(f, n)
    BY <1>1, <1>4, ReadyAlike DEF SameGraph
  <2>2. ASSUME NEW n \in Nodes(f), IsReady(f, n) PROVE SomeBody(g)
    <3>1. f.status[n] = "running" /\ n \in Node
      BY <1>2, <1>4, <2>2
    <3>2. HasBody(f, n)
      BY <3>1 DEF Healthy
    <3> QED
      BY <1>1, <3>1, <3>2, KeptStirs DEF SomeBody
  <2> QED
    BY <2>1, <2>2 DEF Busied
<1> QED
  BY <1>1, <1>3, <1>4 DEF g

LEMMA CheckCompleteHealthy ==
  ASSUME NEW f, Healthy(f, epoch), epoch \in 0..MaxOps
  PROVE  LET g == CheckComplete(f) IN
         /\ Healthy(g, epoch) /\ SameGraph(f, g) /\ Kept(f, g) /\ g.hops = f.hops /\ Busied(g)
<1>1. CASE Running(f)
  <2>1. CheckComplete(f) = f
    BY <1>1 DEF CheckComplete
  <2>2. SomeBody(f)
    BY <1>1 DEF Running, Healthy, SomeBody
  <2> QED
    BY <2>1, <2>2 DEF SameGraph, Kept, Busied
<1>2. CASE ~Running(f)
  <2> DEFINE l == Lit(f)
             b == l.done \/ (Nodes(l) # {} /\ AllTerminal(l))
             g == [l EXCEPT !.done = b]
  <2>1. CheckComplete(f) = g
    BY <1>2 DEF CheckComplete
  <2>2. Healthy(l, epoch) /\ SameGraph(f, l) /\ Kept(f, l) /\ l.hops = f.hops /\ Busied(l)
    BY LitHealthy
  <2>3. b \in BOOLEAN
    OBVIOUS
  <2> HIDE DEF l, b
  <2>4. /\ DOMAIN g = Fields /\ g.done = b
        /\ g.tmpl = l.tmpl /\ g.order = l.order /\ g.edges = l.edges /\ g.kick = l.kick /\ g.one = l.one
        /\ g.q = l.q /\ g.act = l.act /\ g.status = l.status /\ g.hint = l.hint /\ g.result = l.result
        /\ g.tasks = l.tasks /\ g.held = l.held /\ g.hops = l.hops /\ g.born = l.born /\ g.parked = l.parked
    BY <2>2 DEF Healthy, Sound, Fields
  <2> HIDE DEF g
  <2>5. Sound(g)
    BY <2>2, <2>3, <2>4 DEF Healthy, Sound
  <2>6. Healthy(g, epoch)
    BY <2>2, <2>4, <2>5 DEF Healthy, HasBody, Nodes
  <2>7. SameGraph(f, g) /\ Kept(f, g)
    BY <2>2, <2>4 DEF SameGraph, Kept
  <2>8. Nodes(g) = Nodes(l) /\ \A n : IsReady(g, n) <=> IsReady(l, n)
    BY <2>4, ReadyAlike
  <2>9. Busied(g)
    BY <2>2, <2>4, <2>8 DEF Busied, SomeBody, HasBody
  <2> QED
    BY <2>1, <2>2, <2>4, <2>6, <2>7, <2>9
<1> QED
  BY <1>1, <1>2
-----------------------------------------------------------------------------
(* The other ways in which a step changes a flow.  First a single field,   *)
(* or a task where it stands.                                              *)
TaskAt(f, g, n, i, task) ==
  g.tasks = [f.tasks EXCEPT ![n] = [f.tasks[n] EXCEPT ![i] = task]]

(* The tasks of every node are those of before, but for task i of node n.  *)
LEMMA TaskChanged ==
  ASSUME NEW f, Sound(f), NEW n \in Node, NEW i \in DOMAIN f.tasks[n], NEW task \in Task,
         NEW g, TaskAt(f, g, n, i, task)
  PROVE  /\ g.tasks \in [Node -> Seq(Task)]
         /\ \A m \in Node : DOMAIN g.tasks[m] = DOMAIN f.tasks[m] /\ Len(g.tasks[m]) = Len(f.tasks[m])
         /\ \A m \in Node : \A j \in DOMAIN f.tasks[m] :
              g.tasks[m][j] = IF m = n /\ j = i THEN task ELSE f.tasks[m][j]
<1>1. f.tasks[n] \in Seq(Task) /\ i \in 1 .. Len(f.tasks[n])
  BY LenProperties DEF Sound
<1> DEFINE seq == [f.tasks[n] EXCEPT ![i] = task]
<1>2. seq \in Seq(Task) /\ Len(seq) = Len(f.tasks[n]) /\ DOMAIN seq = DOMAIN f.tasks[n]
      /\ \A j \in DOMAIN f.tasks[n] : seq[j] = IF j = i THEN task ELSE f.tasks[n][j]
  BY <1>1, ExceptSeq, LenProperties
<1> HIDE DEF seq
<1>3. g.tasks = [f.tasks EXCEPT ![n] = seq]
  BY DEF TaskAt, seq
<1> QED
  BY <1>2, <1>3 DEF Sound

LEMMA OverFields ==
  ASSUME NEW f, Sound(f), NEW n \in Node, NEW i \in DOMAIN f.tasks[n], f.tasks[n][i].phase # "body"
  PROVE  LET g == Over(f, n, i) IN
         /\ Sound(g) /\ SameGraph(f, g) /\ g.hops = f.hops /\ g.done = f.done
         /\ g.act = f.act /\ g.q = f.q /\ g.status = f.status /\ g.parked = f.parked
         /\ g.held \subseteq f.held
         /\ \A m \in Node : \A j \in DOMAIN g.tasks[m] : \E k \in DOMAIN f.tasks[m] :
              /\ g.tasks[m][j].epoch = f.tasks[m][k].epoch
              /\ g.tasks[m][j].callback = f.tasks[m][k].callback
         /\ \A m \in Node : \A k \in DOMAIN f.tasks[m] :
              m # n \/ k # i => \E j \in DOMAIN g.tasks[m] : g.tasks[m][j] = f.tasks[m][k]
<1> DEFINE task == f.tasks[n][i]
           g == Over(f, n, i)
<1>0. f.tasks[n] \in Seq(Task) /\ task \in Task
  <2>1. f.tasks[n] \in Seq(Task)
    BY DEF Sound
  <2> QED
    BY <2>1, LenProperties
<1>1. CASE task.callback # -1
  <2> DEFINE late == [task EXCEPT !.phase = "over"]
  <2>1. g = [f EXCEPT !.tasks[n][i].phase = "over"]
    BY <1>1 DEF Over
  <2>2. /\ DOMAIN g = Fields /\ SameGraph(f, g) /\ g.hops = f.hops /\ g.done = f.done
        /\ g.act = f.act /\ g.q = f.q /\ g.status = f.status /\ g.parked = f.parked
        /\ g.held = f.held /\ g.hint = f.hint /\ g.result = f.result
        /\ TaskAt(f, g, n, i, late)
    BY <2>1 DEF Sound, Fields, SameGraph, TaskAt
  <2>3. late \in Task /\ late.epoch = task.epoch /\ late.callback = task.callback
    BY <1>0 DEF Task
  <2> HIDE DEF g, late
  <2>4. /\ g.tasks \in [Node -> Seq(Task)]
        /\ \A m \in Node : DOMAIN g.tasks[m] = DOMAIN f.tasks[m]
        /\ \A m \in Node : \A j \in DOMAIN f.tasks[m] :
             g.tasks[m][j] = IF m = n /\ j = i THEN late ELSE f.tasks[m][j]
    BY <2>2, <2>3, TaskChanged
  <2>5. Sound(g)
    BY <2>2, <2>4 DEF Sound, SameGraph
  <2>6. \A m \in Node : \A j \in DOMAIN g.tasks[m] :
          /\ j \in DOMAIN f.tasks[m]
          /\ g.tasks[m][j].epoch = f.tasks[m][j].epoch
          /\ g.tasks[m][j].callback = f.tasks[m][j].callback
    BY <2>3, <2>4
  <2>7. \A m \in Node : \A k \in DOMAIN f.tasks[m] :
          m # n \/ k # i => k \in DOMAIN g.tasks[m] /\ g.tasks[m][k] = f.tasks[m][k]
    BY <2>4
  <2>8. g.held \subseteq f.held
    BY <2>2
  <2> QED
    BY <2>2, <2>5, <2>6, <2>7, <2>8 DEF g
<1>2. CASE task.callback = -1
  <2> DEFINE left == RemoveAt(f.tasks[n], i)
  <2>1. /\ g = [f EXCEPT !.tasks[n] = left, !.held = IF i = Len(f.tasks[n]) THEN f.held \ {n} ELSE f.held]
    BY <1>2 DEF Over
  <2> HIDE DEF left
  <2>2. /\ DOMAIN g = Fields /\ SameGraph(f, g) /\ g.hops = f.hops /\ g.done = f.done
        /\ g.act = f.act /\ g.q = f.q /\ g.status = f.status /\ g.parked = f.parked
        /\ g.held \subseteq f.held /\ g.hint = f.hint /\ g.result = f.result
        /\ g.tasks = [f.tasks EXCEPT ![n] = left]
    BY <2>1 DEF Sound, Fields, SameGraph
  <2>3. /\ left \in Seq(Task)
        /\ \A j \in DOMAIN left : \E k \in DOMAIN f.tasks[n] : left[j] = f.tasks[n][k]
        /\ \A k \in DOMAIN f.tasks[n] : k # i => \E j \in DOMAIN left : left[j] = f.tasks[n][k]
    BY <1>0, RemovedTask DEF left
  <2> HIDE DEF g
  <2>4. \A m \in Node : g.tasks[m] = IF m = n THEN left ELSE f.tasks[m]
    BY <2>2 DEF Sound
  <2>5. g.tasks \in [Node -> Seq(Task)]
    BY <2>2, <2>3 DEF Sound
  <2>6. Sound(g)
    BY <2>2, <2>5 DEF Sound, SameGraph
  <2>7. \A m \in Node : \A j \in DOMAIN g.tasks[m] : \E k \in DOMAIN f.tasks[m] : g.tasks[m][j] = f.tasks[m][k]
    BY <2>3, <2>4
  <2>8. \A m \in Node : \A k \in DOMAIN f.tasks[m] :
          m # n \/ k # i => \E j \in DOMAIN g.tasks[m] : g.tasks[m][j] = f.tasks[m][k]
    BY <2>3, <2>4
  <2>9. \A m \in Node : \A j \in DOMAIN g.tasks[m] : \E k \in DOMAIN f.tasks[m] :
          /\ g.tasks[m][j].epoch = f.tasks[m][k].epoch
          /\ g.tasks[m][j].callback = f.tasks[m][k].callback
    BY <2>7
  <2> QED
    BY <2>2, <2>6, <2>8, <2>9 DEF g
<1> QED
  BY <1>1, <1>2

LEMMA OverHealthy ==
  ASSUME NEW f, NEW e, Healthy(f, e), NEW n \in Node, NEW i \in DOMAIN f.tasks[n],
         f.tasks[n][i].phase # "body"
  PROVE  LET g == Over(f, n, i) IN
         /\ Healthy(g, e) /\ SameGraph(f, g) /\ g.hops = f.hops /\ g.act = f.act
         /\ Busied(f) => Busied(g)
         /\ f.tasks[n][i].phase = "over" /\ Settled(f) => Settled(g)
         /\ n \in g.held => n \in f.held
<1> DEFINE g == Over(f, n, i)
<1>1. /\ Sound(g) /\ SameGraph(f, g) /\ g.hops = f.hops /\ g.done = f.done
      /\ g.act = f.act /\ g.q = f.q /\ g.status = f.status /\ g.parked = f.parked
      /\ g.held \subseteq f.held
      /\ \A m \in Node : \A j \in DOMAIN g.tasks[m] : \E k \in DOMAIN f.tasks[m] :
           /\ g.tasks[m][j].epoch = f.tasks[m][k].epoch
           /\ g.tasks[m][j].callback = f.tasks[m][k].callback
      /\ \A m \in Node : \A k \in DOMAIN f.tasks[m] :
           m # n \/ k # i => \E j \in DOMAIN g.tasks[m] : g.tasks[m][j] = f.tasks[m][k]
  BY OverFields DEF Healthy
<1> HIDE DEF g
<1>2. \A m \in Node : HasBody(f, m) => HasBody(g, m)
  BY <1>1 DEF HasBody
<1>3. Nodes(g) = Nodes(f) /\ \A m : IsReady(g, m) <=> IsReady(f, m)
  BY <1>1, ReadyAlike DEF SameGraph
<1>4. Healthy(g, e)
  <2>1. \A m \in Node : \A j \in DOMAIN g.tasks[m] : /\ g.tasks[m][j].epoch \in g.born .. e
                                                     /\ g.tasks[m][j].callback \in {-1, g.born}
    BY <1>1 DEF Healthy, SameGraph
  <2>2. g.held \subseteq Nodes(g) /\ g.born <= e
    BY <1>1, <1>3 DEF Healthy, SameGraph
  <2>3. \A m \in Node : g.status[m] = "running" => HasBody(g, m)
    BY <1>1, <1>2 DEF Healthy
  <2> QED
    BY <1>1, <2>1, <2>2, <2>3 DEF Healthy
<1>5. Busied(f) => Busied(g)
  BY <1>2, <1>3 DEF Busied, SomeBody
<1>6. ASSUME f.tasks[n][i].phase = "over", Settled(f) PROVE Settled(g)
  <2>1. Stirring(f) => Stirring(g)
    BY <1>1, <1>6 DEF Stirring, Alive
  <2> QED
    BY <1>1, <1>3, <1>6, <2>1 DEF Settled
<1> QED
  BY <1>1, <1>4, <1>5, <1>6 DEF g

(* Status, results, arrivals and what is noted beside the tasks: the tasks *)
(* stay, and what runs goes on running.                                    *)
LEMMA BesideTasks ==
  ASSUME NEW f, NEW e, Healthy(f, e), NEW g, Sound(g), SameGraph(f, g), g.tasks = f.tasks,
         g.held = f.held, \A n \in Node : g.status[n] = "running" => f.status[n] = "running"
  PROVE  Healthy(g, e) /\ Kept(f, g) /\ (Stirring(f) => Stirring(g)) /\ (SomeBody(f) => SomeBody(g))
<1>1. \A n \in Node : HasBody(f, n) => HasBody(g, n)
  BY DEF HasBody
<1>2. Healthy(g, e)
  BY <1>1 DEF Healthy, SameGraph, Nodes
<1> QED
  BY <1>2 DEF Kept, Stirring, SomeBody, HasBody

LEMMA FailPendingHealthy ==
  ASSUME NEW f, NEW e, Healthy(f, e)
  PROVE  LET g == FailPending(f) IN
         /\ Healthy(g, e) /\ SameGraph(f, g) /\ Kept(f, g) /\ g.hops = f.hops /\ g.act = f.act
         /\ Settled(f) => Settled(g)
<1> DEFINE g == FailPending(f)
           lost == {n \in Nodes(f) : f.status[n] = "pending"}
<1>1. /\ DOMAIN g = Fields /\ SameGraph(f, g) /\ g.hops = f.hops /\ g.done = f.done
      /\ g.act = f.act /\ g.q = f.q /\ g.parked = f.parked /\ g.held = f.held /\ g.tasks = f.tasks
      /\ g.hint = f.hint
      /\ g.status = [n \in Node |-> IF n \in lost THEN "failed" ELSE f.status[n]]
      /\ g.result = [n \in Node |-> f.result[n] \/ n \in lost]
  BY DEF FailPending, Healthy, Sound, Fields, SameGraph
<1> HIDE DEF g, lost
<1>2. Sound(g)
  <2>1. g.status \in [Node -> Status]
    BY <1>1 DEF Healthy, Sound, Status
  <2>2. g.result \in [Node -> BOOLEAN]
    BY <1>1
  <2> QED
    BY <1>1, <2>1, <2>2 DEF Healthy, Sound, SameGraph
<1>3. Healthy(g, e) /\ Kept(f, g) /\ (Stirring(f) => Stirring(g))
  BY <1>1, <1>2, BesideTasks
<1>4. Nodes(g) = Nodes(f) /\ \A n : IsReady(g, n) <=> IsReady(f, n)
  BY <1>1, ReadyAlike DEF SameGraph
<1>5. Settled(f) => Settled(g)
  BY <1>1, <1>3, <1>4 DEF Settled
<1> QED
  BY <1>1, <1>3, <1>5 DEF g

LEMMA ArrivalsHealthy ==
  ASSUME NEW f, NEW e, Healthy(f, e), NEW arrived
  PROVE  LET g == RecordArrivals(f, arrived) IN
         Healthy(g, e) /\ SameGraph(f, g) /\ Kept(f, g) /\ g.hops = f.hops /\ g.tasks = f.tasks
         /\ g.parked = f.parked
<1> DEFINE g == RecordArrivals(f, arrived)
<1>1. /\ DOMAIN g = Fields /\ SameGraph(f, g) /\ g.hops = f.hops /\ g.done = f.done
      /\ g.act = f.act /\ g.parked = f.parked /\ g.held = f.held /\ g.tasks = f.tasks
      /\ g.hint = f.hint /\ g.status = f.status /\ g.result = f.result
      /\ g.q = [x \in DOMAIN f.q |-> IF x \in arrived THEN f.q[x] + 1 ELSE f.q[x]]
  BY DEF RecordArrivals, Healthy, Sound, Fields, SameGraph
<1> HIDE DEF g
<1>2. g.q \in [f.tmpl.edges -> Nat]
  BY <1>1 DEF Healthy, Sound
<1>3. Sound(g)
  BY <1>1, <1>2 DEF Healthy, Sound, SameGraph
<1>4. Healthy(g, e) /\ Kept(f, g)
  BY <1>1, <1>3, BesideTasks
<1> QED
  BY <1>1, <1>4 DEF g

LEMMA DropHealthy ==
  ASSUME NEW f, NEW e, Healthy(f, e), NEW keys
  PROVE  LET g == DropArrivals(f, keys) IN
         Healthy(g, e) /\ SameGraph(f, g) /\ Kept(f, g) /\ g.hops = f.hops /\ g.tasks = f.tasks /\ g.act = f.act
         /\ g.parked = f.parked
<1> DEFINE g == DropArrivals(f, keys)
<1>1. /\ DOMAIN g = Fields /\ SameGraph(f, g) /\ g.hops = f.hops /\ g.done = f.done
      /\ g.act = f.act /\ g.parked = f.parked /\ g.held = f.held /\ g.tasks = f.tasks
      /\ g.hint = f.hint /\ g.status = f.status /\ g.result = f.result
      /\ g.q = [x \in DOMAIN f.q |-> IF x \in keys THEN 0 ELSE f.q[x]]
  BY DEF DropArrivals, Healthy, Sound, Fields, SameGraph
<1> HIDE DEF g
<1>2. g.q \in [f.tmpl.edges -> Nat]
  BY <1>1 DEF Healthy, Sound
<1>3. Sound(g)
  BY <1>1, <1>2 DEF Healthy, Sound, SameGraph
<1>4. Healthy(g, e) /\ Kept(f, g)
  BY <1>1, <1>3, BesideTasks
<1> QED
  BY <1>1, <1>4 DEF g

LEMMA MaybeStartHealthy ==
  ASSUME NEW f, Healthy(f, epoch), epoch \in 0..MaxOps, NEW S \in SUBSET Node,
         f.born = epoch \/ \A n \in S : n \notin f.held
  PROVE  LET g == MaybeStart(f, S) IN
         /\ Healthy(g, epoch) /\ SameGraph(f, g) /\ Kept(f, g) /\ g.hops = f.hops
         /\ Settled(f) => Settled(g)
<1> DEFINE idle == {n \in S : f.status[n] \notin {"none", "running"}}
           busy == {n \in idle : TaskAlive(f, n)}
           called(n) == [f.tasks[n] EXCEPT ![Len(f.tasks[n])].callback = epoch]
           told == [f EXCEPT !.tasks = [n \in Node |-> IF n \in busy THEN called(n) ELSE f.tasks[n]]]
           lit == {n \in idle \ busy : IsReady(f, n)}
           g == MaybeStart(f, S)
<1>1. g = Launch(told, lit)
  BY DEF MaybeStart
<1>2. /\ DOMAIN told = Fields /\ SameGraph(f, told) /\ told.hops = f.hops /\ told.done = f.done
      /\ told.act = f.act /\ told.q = f.q /\ told.parked = f.parked /\ told.held = f.held
      /\ told.hint = f.hint /\ told.status = f.status /\ told.result = f.result
      /\ told.tasks = [n \in Node |-> IF n \in busy THEN called(n) ELSE f.tasks[n]]
  BY DEF Healthy, Sound, Fields, SameGraph
<1>3. \A n \in busy : n \in Node /\ n \in f.held /\ f.tasks[n] # <<>> /\ f.born = epoch
  BY DEF TaskAlive
<1> HIDE DEF told, g, lit, busy
<1>4. ASSUME NEW n \in busy
      PROVE  /\ called(n) \in Seq(Task) /\ DOMAIN called(n) = DOMAIN f.tasks[n]
             /\ \A i \in DOMAIN f.tasks[n] :
                  /\ called(n)[i].phase = f.tasks[n][i].phase
                  /\ called(n)[i].epoch = f.tasks[n][i].epoch
                  /\ called(n)[i].callback \in {f.tasks[n][i].callback, epoch}
  <2> DEFINE k == Len(f.tasks[n])
             task == f.tasks[n][k]
             new == [task EXCEPT !.callback = epoch]
  <2>1. f.tasks[n] \in Seq(Task) /\ f.tasks[n] # <<>>
    BY <1>3 DEF Healthy, Sound
  <2>2. k \in 1 .. k /\ k \in DOMAIN f.tasks[n] /\ task \in Task
    BY <2>1, EmptySeq, LenProperties
  <2>3. new \in Task /\ new.phase = task.phase /\ new.epoch = task.epoch /\ new.callback = epoch
    <3>1. epoch \in -1 .. MaxOps
      BY BoundsAssumption
    <3> HIDE DEF task
    <3> QED
      BY <2>2, <3>1 DEF Task
  <2>4. called(n) = [f.tasks[n] EXCEPT ![k] = new]
    OBVIOUS
  <2> HIDE DEF k, new
  <2>5. /\ called(n) \in Seq(Task) /\ Len(called(n)) = Len(f.tasks[n])
        /\ \A i \in 1 .. Len(f.tasks[n]) : called(n)[i] = IF i = k THEN new ELSE f.tasks[n][i]
    BY <2>1, <2>2, <2>3, <2>4, ExceptSeq DEF k
  <2> QED
    BY <2>1, <2>3, <2>5, LenProperties
<1> HIDE DEF called
<1>5. told.tasks \in [Node -> Seq(Task)]
  BY <1>2, <1>4 DEF Healthy, Sound
<1>6. \A n \in Node : /\ DOMAIN told.tasks[n] = DOMAIN f.tasks[n]
                      /\ \A i \in DOMAIN f.tasks[n] :
                           /\ told.tasks[n][i].phase = f.tasks[n][i].phase
                           /\ told.tasks[n][i].epoch = f.tasks[n][i].epoch
                           /\ told.tasks[n][i].callback \in {f.tasks[n][i].callback, f.born}
  BY <1>2, <1>3, <1>4
<1>7. Kept(f, told)
  BY <1>6 DEF Kept
<1>8. Sound(told)
  BY <1>2, <1>5 DEF Healthy, Sound, SameGraph
<1>9. Healthy(told, epoch)
  <2>1. \A n \in Node : told.status[n] = "running" => HasBody(told, n)
    BY <1>2, <1>7, KeptStirs DEF Healthy
  <2>2. \A n \in Node : \A i \in DOMAIN told.tasks[n] : /\ told.tasks[n][i].epoch \in told.born .. epoch
                                                        /\ told.tasks[n][i].callback \in {-1, told.born}
    BY <1>2, <1>6 DEF Healthy, SameGraph
  <2>3. told.held \subseteq Nodes(told) /\ told.born <= epoch
    BY <1>2 DEF Healthy, SameGraph, Nodes
  <2> QED
    BY <1>8, <2>1, <2>2, <2>3 DEF Healthy
<1>10. Nodes(told) = Nodes(f) /\ \A n : IsReady(told, n) <=> IsReady(f, n)
  BY <1>2, ReadyAlike DEF SameGraph
<1>11. /\ Healthy(g, epoch) /\ SameGraph(told, g) /\ Kept(told, g) /\ g.hops = told.hops
       /\ \A n \in lit : HasBody(g, n)
       /\ lit = {} => g.act = told.act /\ g.q = told.q /\ g.parked = told.parked
  BY <1>1, <1>9, <1>10, LaunchHealthy DEF lit
<1>12. SameGraph(f, g) /\ Kept(f, g) /\ g.hops = f.hops
  BY <1>2, <1>7, <1>11, KeptIsTransitive
<1>13. ASSUME Settled(f) PROVE Settled(g)
  <2>1. ASSUME lit # {} PROVE Stirring(g)
    BY <1>11, <2>1, BodyStirs DEF SomeBody, lit
  <2>2. ASSUME lit = {} PROVE /\ Nodes(g) = Nodes(f) /\ \A n : IsReady(g, n) <=> IsReady(f, n)
                              /\ g.parked = f.parked
    BY <1>2, <1>11, <1>12, <2>2, ReadyAlike DEF SameGraph
  <2>3. Stirring(f) => Stirring(g)
    BY <1>12, KeptStirs
  <2> QED
    BY <1>13, <2>1, <2>2, <2>3 DEF Settled
<1> QED
  BY <1>11, <1>12, <1>13 DEF g

LEMMA NodeDoneHealthy ==
  ASSUME NEW f, Healthy(f, epoch), epoch \in 0..MaxOps, f.born = epoch, NEW n \in Node
  PROVE  LET g == NodeDone(f, n) IN
         /\ Healthy(g, epoch) /\ SameGraph(f, g) /\ Kept(f, g) /\ (g.hops <= MaxHops => Busied(g))
<1> DEFINE h == [f EXCEPT !.hops = @ + 1]
<1>1. /\ DOMAIN h = Fields /\ SameGraph(f, h) /\ h.hops = f.hops + 1 /\ h.done = f.done
      /\ h.act = f.act /\ h.q = f.q /\ h.parked = f.parked /\ h.held = f.held /\ h.tasks = f.tasks
      /\ h.hint = f.hint /\ h.status = f.status /\ h.result = f.result
  BY DEF Healthy, Sound, Fields, SameGraph
<1>2. NodeDone(f, n) = IF h.hops > MaxHops THEN [FailPending(h) EXCEPT !.done = TRUE]
                       ELSE IF n \notin Nodes(h) THEN CheckComplete(h)
                       ELSE CheckComplete(MaybeStart(RecordArrivals(h, Chosen(h, n)),
                                            {e.to : e \in Chosen(h, n)} \cap Nodes(h)))
  BY DEF NodeDone
<1> HIDE DEF h
<1>3. Sound(h)
  BY <1>1 DEF Healthy, Sound, SameGraph
<1>4. Healthy(h, epoch) /\ Kept(f, h) /\ h.born = epoch
  BY <1>1, <1>3, BesideTasks DEF SameGraph
<1>5. CASE h.hops > MaxHops
  <2> DEFINE p == FailPending(h)
             g == [p EXCEPT !.done = TRUE]
  <2>1. Healthy(p, epoch) /\ SameGraph(h, p) /\ Kept(h, p) /\ p.hops = h.hops
    BY <1>4, FailPendingHealthy
  <2> HIDE DEF p
  <2>2. /\ DOMAIN g = Fields /\ SameGraph(p, g) /\ g.hops = p.hops /\ g.done = TRUE
        /\ g.act = p.act /\ g.q = p.q /\ g.parked = p.parked /\ g.held = p.held /\ g.tasks = p.tasks
        /\ g.hint = p.hint /\ g.status = p.status /\ g.result = p.result
    BY <2>1 DEF Healthy, Sound, Fields, SameGraph
  <2>3. NodeDone(f, n) = g
    BY <1>2, <1>5 DEF p
  <2> HIDE DEF g
  <2>4. Sound(g)
    BY <2>1, <2>2 DEF Healthy, Sound, SameGraph
  <2>5. Healthy(g, epoch) /\ Kept(p, g)
    BY <2>1, <2>2, <2>4, BesideTasks
  <2>6. SameGraph(h, g) /\ Kept(h, g)
    BY <2>1, <2>2, <2>5, KeptIsTransitive
  <2>7. SameGraph(f, g) /\ Kept(f, g)
    BY <1>1, <1>4, <2>6, KeptIsTransitive
  <2>8. ~(g.hops <= MaxHops)
    BY <1>3, <1>5, <2>1, <2>2, BoundsAssumption DEF Sound
  <2> QED
    BY <2>3, <2>5, <2>7, <2>8
<1>6. CASE ~(h.hops > MaxHops) /\ n \notin Nodes(h)
  <2> DEFINE g == CheckComplete(h)
  <2>1. NodeDone(f, n) = g
    BY <1>2, <1>6
  <2>2. Healthy(g, epoch) /\ SameGraph(h, g) /\ Kept(h, g) /\ Busied(g)
    BY <1>4, CheckCompleteHealthy
  <2> HIDE DEF g
  <2>3. SameGraph(f, g) /\ Kept(f, g)
    BY <1>1, <1>4, <2>2, KeptIsTransitive
  <2> QED
    BY <2>1, <2>2, <2>3
<1>7. CASE ~(h.hops > MaxHops) /\ n \in Nodes(h)
  <2> DEFINE r == RecordArrivals(h, Chosen(h, n))
             woken == {e.to : e \in Chosen(h, n)} \cap Nodes(h)
             s == MaybeStart(r, woken)
             g == CheckComplete(s)
  <2>1. NodeDone(f, n) = g
    BY <1>2, <1>7
  <2>2. Healthy(r, epoch) /\ SameGraph(h, r) /\ Kept(h, r)
    BY <1>4, ArrivalsHealthy
  <2>3. woken \in SUBSET Node /\ r.born = epoch
    BY <1>3, <1>4, <2>2, NodesAreNodes DEF SameGraph
  <2> HIDE DEF r, woken
  <2>4. Healthy(s, epoch) /\ SameGraph(r, s) /\ Kept(r, s)
    BY <2>2, <2>3, MaybeStartHealthy
  <2> HIDE DEF s
  <2>5. Healthy(g, epoch) /\ SameGraph(s, g) /\ Kept(s, g) /\ Busied(g)
    BY <2>4, CheckCompleteHealthy
  <2> HIDE DEF g
  <2>6. SameGraph(h, s) /\ Kept(h, s)
    BY <2>2, <2>4, KeptIsTransitive
  <2>7. SameGraph(h, g) /\ Kept(h, g)
    BY <2>5, <2>6, KeptIsTransitive
  <2>8. SameGraph(f, g) /\ Kept(f, g)
    BY <1>1, <1>4, <2>7, KeptIsTransitive
  <2> QED
    BY <2>1, <2>5, <2>8
<1> QED
  BY <1>5, <1>6, <1>7

(* The result of a task is known; its shutdown is still to come.           *)
LEMMA EndedHealthy ==
  ASSUME NEW f, NEW e, Healthy(f, e), NEW n \in Node, NEW i \in DOMAIN f.tasks[n],
         NEW s \in {"done", "failed"}, NEW h \in {0} \cup Node
  PROVE  LET g == Ended(f, n, i, s, h) IN
         /\ Healthy(g, e) /\ SameGraph(f, g) /\ g.act = f.act /\ Settled(g)
         /\ i \in DOMAIN g.tasks[n] /\ g.tasks[n][i].phase = "shutdown"
         /\ g.tasks[n][i].epoch = f.tasks[n][i].epoch
<1> DEFINE g == Ended(f, n, i, s, h)
           task == f.tasks[n][i]
           late == [task EXCEPT !.phase = "shutdown"]
<1>0. Sound(f) /\ task \in Task
  <2>1. f.tasks[n] \in Seq(Task)
    BY DEF Healthy, Sound
  <2> QED
    BY <2>1, LenProperties DEF Healthy
<1>1. /\ DOMAIN g = Fields /\ SameGraph(f, g) /\ g.hops = f.hops /\ g.done = f.done
      /\ g.act = f.act /\ g.q = f.q /\ g.parked = f.parked /\ g.held = f.held
      /\ g.status = [f.status EXCEPT ![n] = s] /\ g.result = [f.result EXCEPT ![n] = TRUE]
      /\ g.hint = [f.hint EXCEPT ![n] = IF s = "done" THEN h ELSE @]
      /\ TaskAt(f, g, n, i, late)
  BY <1>0 DEF Ended, Sound, Fields, SameGraph, TaskAt
<1>2. late \in Task /\ late.phase = "shutdown" /\ late.epoch = task.epoch /\ late.callback = task.callback
  BY <1>0 DEF Task
<1> HIDE DEF g, late
<1>3. /\ g.tasks \in [Node -> Seq(Task)]
      /\ \A m \in Node : DOMAIN g.tasks[m] = DOMAIN f.tasks[m]
      /\ \A m \in Node : \A j \in DOMAIN f.tasks[m] :
           g.tasks[m][j] = IF m = n /\ j = i THEN late ELSE f.tasks[m][j]
  BY <1>0, <1>1, <1>2, TaskChanged
<1>4. Sound(g)
  <2>1. g.status \in [Node -> Status] /\ g.result \in [Node -> BOOLEAN] /\ g.hint \in [Node -> {0} \cup Node]
    BY <1>0, <1>1 DEF Sound, Status
  <2> QED
    BY <1>0, <1>1, <1>3, <2>1 DEF Sound, SameGraph
<1>5. \A m \in Node : g.status[m] = "running" => HasBody(g, m)
  <2> SUFFICES ASSUME NEW m \in Node, g.status[m] = "running" PROVE HasBody(g, m)
    OBVIOUS
  <2>1. m # n /\ f.status[m] = "running"
    BY <1>0, <1>1 DEF Sound
  <2> QED
    BY <1>3, <2>1 DEF Healthy, HasBody
<1>6. \A m \in Node : \A j \in DOMAIN g.tasks[m] : /\ g.tasks[m][j].epoch \in g.born .. e
                                                   /\ g.tasks[m][j].callback \in {-1, g.born}
  BY <1>1, <1>2, <1>3 DEF Healthy, SameGraph
<1>7. Healthy(g, e)
  BY <1>1, <1>4, <1>5, <1>6 DEF Healthy, SameGraph, Nodes
<1>8. i \in DOMAIN g.tasks[n] /\ g.tasks[n][i] = late
  BY <1>3
<1>9. Settled(g)
  BY <1>2, <1>8 DEF Settled, Stirring, Alive
<1> QED
  BY <1>1, <1>2, <1>7, <1>8, <1>9 DEF g
-----------------------------------------------------------------------------
(* Edits of the graph: the tasks and the generation of the flow stay.      *)
LEMMA GraphEdited ==
  ASSUME NEW f, NEW e, Healthy(f, e), NEW g, Sound(g), g.born = f.born, g.tasks = f.tasks,
         g.held \subseteq Nodes(g), \A n \in Node : g.status[n] = "running" => f.status[n] = "running"
  PROVE  Healthy(g, e) /\ Kept(f, g)
<1>1. \A n \in Node : HasBody(f, n) => HasBody(g, n)
  BY DEF HasBody
<1> QED
  BY <1>1 DEF Healthy, Kept

LEMMA KickFits == ASSUME NEW order, NEW edges PROVE KickEdges(order, edges) \subseteq edges
  BY DEF KickEdges

LEMMA RefreshFields ==
  ASSUME NEW f, DOMAIN f = Fields
  PROVE  LET g == Refresh(f) IN
         /\ DOMAIN g = Fields /\ g.kick \subseteq g.edges /\ g.kick = KickEdges(g.order, g.edges)
         /\ g.tmpl = f.tmpl /\ g.order = f.order /\ g.edges = f.edges /\ g.one = f.one
         /\ g.q = f.q /\ g.act = f.act /\ g.status = f.status /\ g.hint = f.hint /\ g.result = f.result
         /\ g.tasks = f.tasks /\ g.held = f.held /\ g.hops = f.hops /\ g.done = f.done
         /\ g.born = f.born /\ g.parked = f.parked
<1> DEFINE kick == KickEdges(f.order, f.edges)
           g == [f EXCEPT !.kick = kick]
<1>1. Refresh(f) = g
  BY DEF Refresh
<1>2. kick \subseteq f.edges
  BY KickFits
<1> HIDE DEF kick
<1> QED
  BY <1>1, <1>2 DEF Fields, kick

LEMMA EditedHealthy ==
  ASSUME NEW f, NEW g, NEW e, Healthy(g, e)
  PROVE  LET h == Edited(f, g) IN
         /\ Healthy(h, e) /\ SameGraph(g, h) /\ Kept(g, h) /\ h.hops = g.hops /\ h.act = g.act
         /\ h.held = g.held
         /\ Settled(f) /\ g.tasks = f.tasks /\ g.parked = f.parked => Settled(h)
<1> DEFINE ready == {n \in Node : IsReady(g, n) /\ ~IsReady(f, n)}
           h == Edited(f, g)
<1>1. /\ DOMAIN h = Fields /\ SameGraph(g, h) /\ h.hops = g.hops /\ h.done = g.done
      /\ h.act = g.act /\ h.q = g.q /\ h.held = g.held /\ h.tasks = g.tasks
      /\ h.hint = g.hint /\ h.status = g.status /\ h.result = g.result
      /\ h.parked = g.parked \cup ready
  BY DEF Edited, Healthy, Sound, Fields, SameGraph
<1>2. ready \subseteq Node /\ \A n \in Node : IsReady(g, n) => n \in ready \/ IsReady(f, n)
  OBVIOUS
<1> HIDE DEF h, ready
<1>3. Sound(h)
  BY <1>1, <1>2 DEF Healthy, Sound, SameGraph
<1>4. Healthy(h, e) /\ Kept(g, h) /\ (Stirring(g) => Stirring(h))
  BY <1>1, <1>3, BesideTasks
<1>5. ASSUME Settled(f), g.tasks = f.tasks, g.parked = f.parked PROVE Settled(h)
  <2>1. CASE Stirring(f)
    BY <1>1, <1>5, <2>1 DEF Settled, Stirring
  <2>2. CASE \A n \in Nodes(f) : IsReady(f, n) => n \in f.parked
    <3> SUFFICES ASSUME NEW n \in Nodes(h), IsReady(h, n) PROVE n \in h.parked
      BY DEF Settled
    <3>1. IsReady(g, n) /\ n \in Node
      BY <1>1, <1>3, ReadyAlike, NodesAreNodes DEF SameGraph
    <3>2. IsReady(f, n) => n \in Nodes(f)
      BY DEF IsReady, Ready, Nodes
    <3> QED
      BY <1>1, <1>2, <1>5, <2>2, <3>1, <3>2
  <2> QED
    BY <1>5, <2>1, <2>2 DEF Settled
<1> QED
  BY <1>1, <1>4, <1>5 DEF h

(* A flow object as it is made: nothing is woven, nothing is ready.        *)
LEMMA NewFlowHealthy ==
  ASSUME NEW t \in Templates \cup LaterTemplates, NEW e \in 0 .. MaxOps
  PROVE  LET f == NewFlow(t, e) IN
         /\ Healthy(f, e) /\ f.born = e /\ f.hops = 0 /\ Settled(f) /\ f.tmpl = t
         /\ f.order = <<>> /\ f.edges = {} /\ f.held = {} /\ f.parked = {}
         /\ f.tasks = [n \in Node |-> <<>>]
<1> DEFINE f == NewFlow(t, e)
<1>1. /\ DOMAIN f = Fields /\ f.tmpl = t /\ f.order = <<>> /\ f.edges = {} /\ f.kick = {} /\ f.one = t.one
      /\ f.q = [x \in t.edges |-> 0] /\ f.act = [n \in Node |-> 0]
      /\ f.status = [n \in Node |-> "none"] /\ f.hint = [n \in Node |-> 0]
      /\ f.result = [n \in Node |-> FALSE] /\ f.tasks = [n \in Node |-> <<>>]
      /\ f.held = {} /\ f.hops = 0 /\ f.done = FALSE /\ f.born = e /\ f.parked = {}
  BY DEF NewFlow, Fields
<1> HIDE DEF f
<1>2. <<>> \in Seq(Task) /\ <<>> \in Seq(Node)
  BY EmptySeq
<1>3. t.one \subseteq Node
  BY TemplatesAreGraphs
<1>4. f.tasks \in [Node -> Seq(Task)] /\ f.act \in [Node -> 0..Cap] /\ f.status \in [Node -> Status]
  BY <1>1, <1>2, BoundsAssumption DEF Status
<1>5. /\ f.hint \in [Node -> {0} \cup Node] /\ f.result \in [Node -> BOOLEAN]
      /\ f.q \in [f.tmpl.edges -> Nat]
  BY <1>1
<1>6. Sound(f)
  <2>1. /\ DOMAIN f = Fields /\ f.tmpl \in Templates \cup LaterTemplates /\ f.order \in Seq(Node)
        /\ f.edges \subseteq f.tmpl.edges /\ f.kick \subseteq f.edges /\ f.one \subseteq Node
        /\ f.held \subseteq Node /\ f.parked \subseteq Node
        /\ f.kick = KickEdges(f.order, f.edges)
    BY <1>1, <1>2, <1>3, KickFits
  <2>2. f.hops \in Nat /\ f.done \in BOOLEAN /\ f.born \in 0..MaxOps
    <3>1. f.hops = 0 /\ f.done = FALSE /\ f.born = e
      BY <1>1
    <3>2. f.done \in BOOLEAN
      BY <3>1, Zenon
    <3> QED
      BY <3>1, <3>2
  <2> QED
    BY <1>4, <1>5, <2>1, <2>2 DEF Sound
<1>7. \A n \in Node : DOMAIN f.tasks[n] = {}
  BY <1>1
<1>8. Nodes(f) = {}
  BY <1>1 DEF Nodes, ToSet
<1>9. Healthy(f, e)
  BY <1>1, <1>6, <1>7, <1>8 DEF Healthy
<1>10. Settled(f)
  BY <1>8 DEF Settled
<1> QED
  BY <1>1, <1>9, <1>10 DEF f

(* A graph taken as a whole: what is ready was made so by the load.        *)
LEMMA LoadedHealthy ==
  ASSUME NEW t \in Templates \cup LaterTemplates, NEW e \in 0 .. MaxOps
  PROVE  LET f == Loaded(t, e) IN Healthy(f, e) /\ f.born = e /\ Settled(f)
<1> DEFINE f == NewFlow(t, e)
           w == [f EXCEPT !.order = t.order, !.edges = t.edges]
           r == Refresh(w)
           g == Edited(f, r)
<1>1. Loaded(t, e) = g
  BY DEF Loaded
<1>2. /\ Healthy(f, e) /\ f.born = e /\ Settled(f) /\ f.tmpl = t /\ f.held = {}
      /\ f.tasks = [n \in Node |-> <<>>]
  BY NewFlowHealthy
<1> HIDE DEF f
<1>3. t.order \in Seq(Node)
  BY TemplatesAreGraphs
<1>4. /\ DOMAIN w = Fields /\ w.order = t.order /\ w.edges = t.edges
      /\ w.tmpl = f.tmpl /\ w.one = f.one
      /\ w.q = f.q /\ w.act = f.act /\ w.status = f.status /\ w.hint = f.hint /\ w.result = f.result
      /\ w.tasks = f.tasks /\ w.held = f.held /\ w.hops = f.hops /\ w.done = f.done
      /\ w.born = f.born /\ w.parked = f.parked
  BY <1>2 DEF Healthy, Sound, Fields
<1> HIDE DEF w
<1>5. /\ DOMAIN r = Fields /\ r.kick \subseteq r.edges /\ r.kick = KickEdges(r.order, r.edges)
      /\ r.tmpl = w.tmpl /\ r.order = w.order /\ r.edges = w.edges /\ r.one = w.one
      /\ r.q = w.q /\ r.act = w.act /\ r.status = w.status /\ r.hint = w.hint /\ r.result = w.result
      /\ r.tasks = w.tasks /\ r.held = w.held /\ r.hops = w.hops /\ r.done = w.done
      /\ r.born = w.born /\ r.parked = w.parked
  BY <1>4, RefreshFields
<1> HIDE DEF r
<1>6. Sound(r)
  BY <1>2, <1>3, <1>4, <1>5 DEF Healthy, Sound
<1>7. Healthy(r, e)
  BY <1>2, <1>4, <1>5, <1>6, GraphEdited
<1>8. r.tasks = f.tasks /\ r.parked = f.parked
  BY <1>4, <1>5
<1>9. Healthy(g, e) /\ SameGraph(r, g) /\ Settled(g)
  BY <1>2, <1>7, <1>8, EditedHealthy
<1> HIDE DEF g
<1> QED
  BY <1>1, <1>2, <1>4, <1>5, <1>9 DEF SameGraph

(* A node is woven into a flow, registered or not.                         *)
Woven(f, n) ==
  Refresh([f EXCEPT !.order = Append(@, n),
                    !.edges = @ \cup {e \in f.tmpl.edges : n \in {e.frm, e.to}},
                    !.status[n] = "pending"])

LEMMA WovenHealthy ==
  ASSUME NEW f, NEW e, Healthy(f, e), NEW n \in Node, n \notin Nodes(f)
  PROVE  LET g == Woven(f, n) IN
         /\ Healthy(g, e) /\ g.born = f.born /\ g.hops = f.hops /\ g.act = f.act /\ Kept(f, g)
         /\ g.tasks = f.tasks /\ g.parked = f.parked /\ n \notin g.held
<1> DEFINE more == {x \in f.tmpl.edges : n \in {x.frm, x.to}}
           w == [f EXCEPT !.order = Append(@, n), !.edges = @ \cup more, !.status[n] = "pending"]
           g == Refresh(w)
<1>1. /\ DOMAIN w = Fields /\ w.order = Append(f.order, n) /\ w.edges = f.edges \cup more
      /\ w.tmpl = f.tmpl /\ w.one = f.one
      /\ w.q = f.q /\ w.act = f.act /\ w.status = [f.status EXCEPT ![n] = "pending"]
      /\ w.hint = f.hint /\ w.result = f.result
      /\ w.tasks = f.tasks /\ w.held = f.held /\ w.hops = f.hops /\ w.done = f.done
      /\ w.born = f.born /\ w.parked = f.parked
  BY DEF Healthy, Sound, Fields
<1>2. more \subseteq f.tmpl.edges
  OBVIOUS
<1>3. Woven(f, n) = g
  BY DEF Woven
<1> HIDE DEF w, more
<1>4. /\ DOMAIN g = Fields /\ g.kick \subseteq g.edges /\ g.kick = KickEdges(g.order, g.edges)
      /\ g.tmpl = w.tmpl /\ g.order = w.order /\ g.edges = w.edges /\ g.one = w.one
      /\ g.q = w.q /\ g.act = w.act /\ g.status = w.status /\ g.hint = w.hint /\ g.result = w.result
      /\ g.tasks = w.tasks /\ g.held = w.held /\ g.hops = w.hops /\ g.done = w.done
      /\ g.born = w.born /\ g.parked = w.parked
  BY <1>1, RefreshFields
<1> HIDE DEF g
<1>5. f.order \in Seq(Node)
  BY DEF Healthy, Sound
<1>6. /\ g.order \in Seq(Node) /\ Len(g.order) = Len(f.order) + 1
      /\ \A i \in 1 .. Len(f.order) : g.order[i] = f.order[i]
  BY <1>1, <1>4, <1>5, AppendProperties
<1>7. Nodes(f) \subseteq Nodes(g)
  BY <1>5, <1>6, LenProperties DEF Nodes, ToSet
<1>8. g.status \in [Node -> Status] /\ \A m \in Node : g.status[m] = "running" => f.status[m] = "running"
  BY <1>1, <1>4 DEF Healthy, Sound, Status
<1>9. Sound(g)
  <2>1. Sound(f)
    BY DEF Healthy
  <2>2. /\ g.tmpl \in Templates \cup LaterTemplates /\ g.edges \subseteq g.tmpl.edges /\ g.one \subseteq Node
        /\ g.q \in [g.tmpl.edges -> Nat]
    BY <1>1, <1>2, <1>4, <2>1 DEF Sound
  <2>3. /\ g.act \in [Node -> 0..Cap] /\ g.hint \in [Node -> {0} \cup Node] /\ g.result \in [Node -> BOOLEAN]
        /\ g.tasks \in [Node -> Seq(Task)] /\ g.held \subseteq Node /\ g.parked \subseteq Node
        /\ g.hops \in Nat /\ g.done \in BOOLEAN /\ g.born \in 0..MaxOps
    BY <1>1, <1>4, <2>1 DEF Sound
  <2> QED BY <1>4, <1>6, <1>8, <2>2, <2>3 DEF Sound
<1>10. g.held \subseteq Nodes(g) /\ n \notin g.held
  BY <1>1, <1>4, <1>7 DEF Healthy
<1>11. Healthy(g, e) /\ Kept(f, g)
  BY <1>1, <1>4, <1>8, <1>9, <1>10, GraphEdited
<1> QED
  BY <1>1, <1>3, <1>4, <1>10, <1>11

(* An edge is added or removed, or several of them.                        *)
LEMMA EdgesHealthy ==
  ASSUME NEW f, NEW e, Healthy(f, e), NEW edges, edges \subseteq f.tmpl.edges
  PROVE  LET g == Refresh([f EXCEPT !.edges = edges]) IN
         /\ Healthy(g, e) /\ g.born = f.born /\ g.hops = f.hops /\ g.act = f.act /\ Kept(f, g)
         /\ g.tasks = f.tasks /\ g.parked = f.parked
<1> DEFINE w == [f EXCEPT !.edges = edges]
           g == Refresh(w)
<1>1. /\ DOMAIN w = Fields /\ w.order = f.order /\ w.edges = edges
      /\ w.tmpl = f.tmpl /\ w.one = f.one
      /\ w.q = f.q /\ w.act = f.act /\ w.status = f.status /\ w.hint = f.hint /\ w.result = f.result
      /\ w.tasks = f.tasks /\ w.held = f.held /\ w.hops = f.hops /\ w.done = f.done
      /\ w.born = f.born /\ w.parked = f.parked
  BY DEF Healthy, Sound, Fields
<1> HIDE DEF w
<1>2. /\ DOMAIN g = Fields /\ g.kick \subseteq g.edges /\ g.kick = KickEdges(g.order, g.edges)
      /\ g.tmpl = w.tmpl /\ g.order = w.order /\ g.edges = w.edges /\ g.one = w.one
      /\ g.q = w.q /\ g.act = w.act /\ g.status = w.status /\ g.hint = w.hint /\ g.result = w.result
      /\ g.tasks = w.tasks /\ g.held = w.held /\ g.hops = w.hops /\ g.done = w.done
      /\ g.born = w.born /\ g.parked = w.parked
  BY <1>1, RefreshFields
<1> HIDE DEF g
<1>3. Sound(g)
  BY <1>1, <1>2 DEF Healthy, Sound
<1>4. g.held \subseteq Nodes(g)
  BY <1>1, <1>2 DEF Healthy, Nodes
<1>5. Healthy(g, e) /\ Kept(f, g)
  BY <1>1, <1>2, <1>3, <1>4, GraphEdited
<1> QED
  BY <1>1, <1>2, <1>5 DEF g, w

(* A node leaves the graph with its edges.                                 *)
Removed(f, n) ==
  LET place == CHOOSE i \in DOMAIN f.order : f.order[i] = n IN
  Refresh([f EXCEPT !.order = RemoveAt(@, place),
                    !.edges = {e \in @ : n \notin {e.frm, e.to}},
                    !.status[n] = "none", !.result[n] = FALSE, !.hint[n] = 0, !.held = @ \ {n}])

LEMMA RemovedHealthy ==
  ASSUME NEW f, NEW e, Healthy(f, e), NEW n \in Nodes(f)
  PROVE  LET g == Removed(f, n) IN
         /\ Healthy(g, e) /\ g.born = f.born /\ g.hops = f.hops /\ Kept(f, g)
         /\ g.act = f.act /\ g.tasks = f.tasks /\ g.parked = f.parked
<1> DEFINE place == CHOOSE i \in DOMAIN f.order : f.order[i] = n
           left == RemoveAt(f.order, place)
           rest == {x \in f.edges : n \notin {x.frm, x.to}}
           w == [f EXCEPT !.order = left, !.edges = rest,
                    !.status[n] = "none", !.result[n] = FALSE, !.hint[n] = 0, !.held = f.held \ {n}]
           g == Refresh(w)
<1>1. f.order \in Seq(Node) /\ n \in Node /\ place \in DOMAIN f.order /\ f.order[place] = n
  <2>1. \E i \in DOMAIN f.order : f.order[i] = n
    BY DEF Nodes, ToSet
  <2> QED
    BY <2>1, NodesAreNodes DEF Healthy, Sound
<1> HIDE DEF place
<1>2. /\ left \in Seq(Node)
      /\ \A k \in DOMAIN f.order : k # place => \E j \in DOMAIN left : left[j] = f.order[k]
  BY <1>1, RemovedTask
<1>3. rest \subseteq f.edges
  OBVIOUS
<1>4. Removed(f, n) = g
  BY DEF Removed, place
<1> HIDE DEF left, rest
<1>5. /\ DOMAIN w = Fields /\ w.order = left /\ w.edges = rest
      /\ w.tmpl = f.tmpl /\ w.one = f.one
      /\ w.q = f.q /\ w.act = f.act /\ w.status = [f.status EXCEPT ![n] = "none"]
      /\ w.hint = [f.hint EXCEPT ![n] = 0] /\ w.result = [f.result EXCEPT ![n] = FALSE]
      /\ w.tasks = f.tasks /\ w.held = f.held \ {n} /\ w.hops = f.hops /\ w.done = f.done
      /\ w.born = f.born /\ w.parked = f.parked
  BY DEF Healthy, Sound, Fields
<1> HIDE DEF w
<1>6. /\ DOMAIN g = Fields /\ g.kick \subseteq g.edges /\ g.kick = KickEdges(g.order, g.edges)
      /\ g.tmpl = w.tmpl /\ g.order = w.order /\ g.edges = w.edges /\ g.one = w.one
      /\ g.q = w.q /\ g.act = w.act /\ g.status = w.status /\ g.hint = w.hint /\ g.result = w.result
      /\ g.tasks = w.tasks /\ g.held = w.held /\ g.hops = w.hops /\ g.done = w.done
      /\ g.born = w.born /\ g.parked = w.parked
  BY <1>5, RefreshFields
<1> HIDE DEF g
<1>7. /\ g.status \in [Node -> Status] /\ g.hint \in [Node -> {0} \cup Node]
      /\ \A m \in Node : g.status[m] = "running" => f.status[m] = "running"
  BY <1>1, <1>5, <1>6 DEF Healthy, Sound, Status
<1>8. g.result \in [Node -> BOOLEAN]
  BY <1>1, <1>5, <1>6 DEF Healthy, Sound
<1>9. Sound(g)
  BY <1>2, <1>3, <1>5, <1>6, <1>7, <1>8 DEF Healthy, Sound
<1>10. g.held \subseteq Nodes(g)
  <2>1. \A m \in Nodes(f) : m # n => m \in Nodes(g)
    BY <1>1, <1>2, <1>5, <1>6 DEF Nodes, ToSet
  <2> QED
    BY <1>5, <1>6, <2>1 DEF Healthy
<1>11. Healthy(g, e) /\ Kept(f, g)
  BY <1>5, <1>6, <1>7, <1>9, <1>10, GraphEdited
<1> QED
  BY <1>4, <1>5, <1>6, <1>11

(* Nodes are pending again, their arrivals those of the latest results.    *)
LEMMA ResetHealthy ==
  ASSUME NEW f, NEW e, Healthy(f, e), NEW S
  PROVE  LET g == ResetNodes(f, S) IN
         /\ Healthy(g, e) /\ g.born = f.born /\ g.hops = f.hops /\ Kept(f, g)
         /\ g.tasks = f.tasks /\ g.parked = f.parked
<1> DEFINE again == [f EXCEPT
                      !.status = [n \in Node |-> IF n \in S THEN "pending" ELSE f.status[n]],
                      !.act    = [n \in Node |-> IF n \in S THEN 0 ELSE f.act[n]],
                      !.result = [n \in Node |-> f.result[n] /\ n \notin S],
                      !.hint   = [n \in Node |-> IF n \in S THEN 0 ELSE f.hint[n]]]
           clean == DropArrivals(again, {x \in f.edges : x.to \in S})
           arrived == {x \in f.edges \ KickEdges(f.order, f.edges) :
                         x.to \in S /\ x.on = "success" /\ x.frm \notin S /\ f.result[x.frm]}
           g == RecordArrivals(clean, arrived)
<1>1. ResetNodes(f, S) = g
  BY DEF ResetNodes
<1>2. /\ DOMAIN again = Fields /\ SameGraph(f, again) /\ again.q = f.q
      /\ again.act = [n \in Node |-> IF n \in S THEN 0 ELSE f.act[n]]
      /\ again.status = [n \in Node |-> IF n \in S THEN "pending" ELSE f.status[n]]
      /\ again.hint = [n \in Node |-> IF n \in S THEN 0 ELSE f.hint[n]]
      /\ again.result = [n \in Node |-> f.result[n] /\ n \notin S]
      /\ again.tasks = f.tasks /\ again.held = f.held /\ again.hops = f.hops /\ again.done = f.done
      /\ again.parked = f.parked
  BY DEF Healthy, Sound, Fields, SameGraph
<1> HIDE DEF again
<1>3. /\ again.status \in [Node -> Status] /\ again.hint \in [Node -> {0} \cup Node]
      /\ \A m \in Node : again.status[m] = "running" => f.status[m] = "running"
  BY <1>2 DEF Healthy, Sound, Status
<1>4. again.result \in [Node -> BOOLEAN]
  BY <1>2 DEF Healthy, Sound
<1>5. again.act \in [Node -> 0..Cap]
  BY <1>2, BoundsAssumption DEF Healthy, Sound
<1>6. Sound(again)
  BY <1>2, <1>3, <1>4, <1>5 DEF Healthy, Sound, SameGraph
<1>7. Healthy(again, e) /\ Kept(f, again)
  BY <1>2, <1>3, <1>6, BesideTasks
<1>8. /\ Healthy(clean, e) /\ SameGraph(again, clean) /\ Kept(again, clean)
      /\ clean.hops = again.hops /\ clean.tasks = again.tasks /\ clean.parked = again.parked
  BY <1>7, DropHealthy
<1> HIDE DEF clean
<1>9. /\ Healthy(g, e) /\ SameGraph(clean, g) /\ Kept(clean, g)
      /\ g.hops = clean.hops /\ g.tasks = clean.tasks /\ g.parked = clean.parked
  BY <1>8, ArrivalsHealthy
<1> HIDE DEF g
<1> QED
  BY <1>1, <1>2, <1>8, <1>9 DEF SameGraph, Kept

(* The first part of wait(): orphans fail and dangling edges go.           *)
LEMMA SweptHealthy ==
  ASSUME NEW f, NEW e, Healthy(f, e)
  PROVE  LET g == Swept(f) IN
         /\ Healthy(g, e) /\ g.born = f.born /\ g.hops = f.hops /\ Kept(f, g)
         /\ g.act = f.act /\ g.tasks = f.tasks /\ g.parked = f.parked
<1> DEFINE orphans == {n \in Nodes(f) : /\ f.status[n] = "pending"
                                        /\ \E x \in InEdges(f.edges, n) : x.frm \notin Nodes(f)}
           failed == [f EXCEPT !.status = [n \in Node |-> IF n \in orphans THEN "failed" ELSE f.status[n]],
                               !.result = [n \in Node |-> f.result[n] \/ n \in orphans]]
           dangling == {x \in f.edges : ~({x.frm, x.to} \subseteq Nodes(f))}
           rest == failed.edges \ dangling
           cut == Refresh([failed EXCEPT !.edges = rest])
           drop == DropArrivals(cut, dangling)
<1>1. Swept(f) = IF dangling = {} THEN failed ELSE drop
  BY DEF Swept
<1> HIDE DEF orphans, dangling
<1>2. /\ DOMAIN failed = Fields /\ SameGraph(f, failed) /\ failed.q = f.q /\ failed.act = f.act
      /\ failed.status = [n \in Node |-> IF n \in orphans THEN "failed" ELSE f.status[n]]
      /\ failed.result = [n \in Node |-> f.result[n] \/ n \in orphans]
      /\ failed.hint = f.hint
      /\ failed.tasks = f.tasks /\ failed.held = f.held /\ failed.hops = f.hops
      /\ failed.done = f.done /\ failed.parked = f.parked
  BY DEF Healthy, Sound, Fields, SameGraph
<1> HIDE DEF failed
<1>3. /\ failed.status \in [Node -> Status]
      /\ \A m \in Node : failed.status[m] = "running" => f.status[m] = "running"
  BY <1>2 DEF Healthy, Sound, Status
<1>4. failed.result \in [Node -> BOOLEAN]
  BY <1>2
<1>5. Sound(failed)
  BY <1>2, <1>3, <1>4 DEF Healthy, Sound, SameGraph
<1>6. Healthy(failed, e) /\ Kept(f, failed)
  BY <1>2, <1>3, <1>5, BesideTasks
<1>7. rest \subseteq failed.tmpl.edges
  BY <1>5 DEF Sound
<1> HIDE DEF rest
<1>8. /\ Healthy(cut, e) /\ cut.born = failed.born /\ cut.hops = failed.hops /\ cut.act = failed.act
      /\ Kept(failed, cut) /\ cut.tasks = failed.tasks /\ cut.parked = failed.parked
  BY <1>6, <1>7, EdgesHealthy
<1> HIDE DEF cut
<1>9. /\ Healthy(drop, e) /\ SameGraph(cut, drop) /\ Kept(cut, drop) /\ drop.act = cut.act
      /\ drop.hops = cut.hops /\ drop.tasks = cut.tasks /\ drop.parked = cut.parked
  BY <1>8, DropHealthy
<1> HIDE DEF drop
<1> QED
  BY <1>1, <1>2, <1>6, <1>8, <1>9 DEF SameGraph, Kept

LEMMA WaitedHealthy ==
  ASSUME NEW f, NEW e, Healthy(f, e)
  PROVE  LET s == Edited(f, Swept(f))
             g == IF Running(s) \/ NotLit(s) THEN s ELSE FailPending(s) IN
         /\ Healthy(g, e) /\ g.born = f.born /\ g.hops = f.hops /\ g.act = f.act
         /\ Settled(f) => Settled(g)
<1> DEFINE w == Swept(f)
           s == Edited(f, w)
           p == FailPending(s)
<1>1. /\ Healthy(w, e) /\ w.born = f.born /\ w.hops = f.hops
      /\ w.act = f.act /\ w.tasks = f.tasks /\ w.parked = f.parked
  BY SweptHealthy
<1> HIDE DEF w
<1>2. /\ Healthy(s, e) /\ s.born = f.born /\ s.hops = f.hops /\ s.act = f.act
      /\ Settled(f) => Settled(s)
  BY <1>1, EditedHealthy DEF SameGraph
<1> HIDE DEF s
<1>3. /\ Healthy(p, e) /\ p.born = s.born /\ p.hops = s.hops /\ p.act = s.act
      /\ Settled(s) => Settled(p)
  BY <1>2, FailPendingHealthy DEF SameGraph
<1> HIDE DEF p
<1> QED
  BY <1>2, <1>3 DEF s, p, w

(* The done event is set, by a release or when nothing is left.            *)
LEMMA DoneHealthy ==
  ASSUME NEW f, NEW e, Healthy(f, e)
  PROVE  LET g == [f EXCEPT !.done = TRUE] IN
         /\ Healthy(g, e) /\ SameGraph(f, g) /\ g.hops = f.hops /\ g.act = f.act
<1> DEFINE g == [f EXCEPT !.done = TRUE]
<1>1. /\ DOMAIN g = Fields /\ SameGraph(f, g) /\ g.hops = f.hops /\ g.done = TRUE
      /\ g.act = f.act /\ g.q = f.q /\ g.parked = f.parked /\ g.held = f.held /\ g.tasks = f.tasks
      /\ g.hint = f.hint /\ g.status = f.status /\ g.result = f.result
  BY DEF Healthy, Sound, Fields, SameGraph
<1> HIDE DEF g
<1>2. Sound(g)
  BY <1>1 DEF Healthy, Sound, SameGraph
<1>3. Healthy(g, e)
  BY <1>1, <1>2, BesideTasks
<1> QED
  BY <1>1, <1>3 DEF g

(* A task has run its callback.                                            *)
LEMMA CalledHealthy ==
  ASSUME NEW f, NEW e, Healthy(f, e), NEW n \in Node, NEW i \in DOMAIN f.tasks[n]
  PROVE  LET g == [f EXCEPT !.tasks[n][i].callback = -1] IN
         /\ Healthy(g, e) /\ SameGraph(f, g) /\ g.act = f.act /\ g.hops = f.hops
         /\ Settled(f) => Settled(g)
         /\ i \in DOMAIN g.tasks[n] /\ g.tasks[n][i].phase = f.tasks[n][i].phase
<1> DEFINE g == [f EXCEPT !.tasks[n][i].callback = -1]
           task == f.tasks[n][i]
           ran == [task EXCEPT !.callback = -1]
<1>0. Sound(f) /\ task \in Task
  <2>1. f.tasks[n] \in Seq(Task)
    BY DEF Healthy, Sound
  <2> QED
    BY <2>1, LenProperties DEF Healthy
<1>1. /\ DOMAIN g = Fields /\ SameGraph(f, g) /\ g.hops = f.hops /\ g.done = f.done
      /\ g.act = f.act /\ g.q = f.q /\ g.parked = f.parked /\ g.held = f.held
      /\ g.hint = f.hint /\ g.status = f.status /\ g.result = f.result
      /\ TaskAt(f, g, n, i, ran)
  BY <1>0 DEF Sound, Fields, SameGraph, TaskAt
<1>2. ran \in Task /\ ran.phase = task.phase /\ ran.epoch = task.epoch /\ ran.callback = -1
  BY <1>0, BoundsAssumption DEF Task
<1> HIDE DEF g, ran
<1>3. /\ g.tasks \in [Node -> Seq(Task)]
      /\ \A m \in Node : DOMAIN g.tasks[m] = DOMAIN f.tasks[m]
      /\ \A m \in Node : \A j \in DOMAIN f.tasks[m] :
           g.tasks[m][j] = IF m = n /\ j = i THEN ran ELSE f.tasks[m][j]
  BY <1>0, <1>1, <1>2, TaskChanged
<1>4. Sound(g)
  BY <1>0, <1>1, <1>3 DEF Sound, SameGraph
<1>5. Kept(f, g)
  BY <1>2, <1>3 DEF Kept
<1>6. \A m \in Node : \A j \in DOMAIN g.tasks[m] : /\ g.tasks[m][j].epoch \in g.born .. e
                                                   /\ g.tasks[m][j].callback \in {-1, g.born}
  BY <1>1, <1>2, <1>3 DEF Healthy, SameGraph
<1>7. Healthy(g, e)
  BY <1>1, <1>4, <1>5, <1>6, KeptStirs DEF Healthy, SameGraph, Nodes
<1>8. Nodes(g) = Nodes(f) /\ \A m : IsReady(g, m) <=> IsReady(f, m)
  BY <1>1, ReadyAlike DEF SameGraph
<1>9. Settled(f) => Settled(g)
  BY <1>1, <1>5, <1>8, KeptStirs DEF Settled
<1>10. i \in DOMAIN g.tasks[n] /\ g.tasks[n][i].phase = task.phase
  BY <1>5 DEF Kept
<1> QED
  BY <1>1, <1>7, <1>9, <1>10 DEF g

-----------------------------------------------------------------------------
(* The flow objects                                                         *)

IsSeq(s) == s \in Seq(Range(s))

LEMMA InSeqIsSeq == ASSUME NEW S, NEW s \in Seq(S) PROVE IsSeq(s)
  BY SeqOfRange DEF IsSeq

LEMMA IsSeqLen == ASSUME NEW s, IsSeq(s) PROVE Len(s) \in Nat /\ DOMAIN s = 1 .. Len(s)
  BY LenProperties DEF IsSeq

LEMMA Appended ==
  ASSUME NEW s, IsSeq(s), NEW x
  PROVE  LET t == Append(s, x) IN
         /\ IsSeq(t) /\ Len(t) = Len(s) + 1 /\ DOMAIN t = 1 .. Len(s) + 1
         /\ \A i \in DOMAIN s : t[i] = s[i]
         /\ t[Len(s) + 1] = x
<1> DEFINE S == Range(s) \cup {x}
           t == Append(s, x)
<1>1. s \in Seq(S)
  BY SeqMonotonic DEF IsSeq
<1>2. x \in S
  OBVIOUS
<1>3. /\ t \in Seq(S) /\ Len(t) = Len(s) + 1
      /\ \A i \in 1 .. Len(s) : t[i] = s[i]
      /\ t[Len(s) + 1] = x
  BY <1>1, <1>2, AppendProperties
<1> HIDE DEF t, S
<1>4. IsSeq(t)
  BY <1>3, InSeqIsSeq
<1> QED
  BY <1>3, <1>4, IsSeqLen DEF t

LEMMA Replaced ==
  ASSUME NEW s, IsSeq(s), NEW g \in DOMAIN s, NEW x
  PROVE  LET t == [s EXCEPT ![g] = x] IN
         /\ IsSeq(t) /\ Len(t) = Len(s) /\ DOMAIN t = DOMAIN s
         /\ \A i \in DOMAIN s : t[i] = IF i = g THEN x ELSE s[i]
<1> DEFINE S == Range(s) \cup {x}
           t == [s EXCEPT ![g] = x]
<1>1. s \in Seq(S)
  BY SeqMonotonic DEF IsSeq
<1>2. x \in S /\ g \in 1 .. Len(s)
  BY <1>1, LenProperties
<1>3. /\ t \in Seq(S) /\ Len(t) = Len(s)
      /\ \A i \in 1 .. Len(s) : t[i] = IF i = g THEN x ELSE s[i]
  BY <1>1, <1>2, ExceptSeq
<1> HIDE DEF t, S
<1>4. IsSeq(t)
  BY <1>3, InSeqIsSeq
<1> QED
  BY <1>3, <1>4, IsSeqLen DEF t
-----------------------------------------------------------------------------
(* The inductive invariant: the bookkeeping is typed, every flow object is *)
(* healthy, released or not, the registered one is of the generation of    *)
(* now, and nothing is left lying in it.                                   *)
Registry ==
  /\ IsSeq(flows) /\ Len(flows) <= MaxFlows
  /\ cur \in 0 .. Len(flows) /\ waiting \in 0 .. Len(flows)
  /\ epoch \in Nat /\ ops \in 0 .. MaxOps /\ epoch <= ops /\ relight \in BOOLEAN
  /\ building \subseteq [flow : 1 .. Len(flows), node : Node, auto : BOOLEAN]
AllHealthy == \A g \in DOMAIN flows : Healthy(flows[g], epoch)
CurrentIsOfNow == cur # 0 => flows[cur].born = epoch
CurrentIsSettled == (cur # 0 /\ ~relight /\ flows[cur].hops <= MaxHops) => Settled(flows[cur])

FlowInv == Registry /\ AllHealthy /\ CurrentIsOfNow /\ CurrentIsSettled

LEMMA InitFits == Init => FlowInv
<1> SUFFICES ASSUME Init PROVE FlowInv
  OBVIOUS
<1>1. IsSeq(flows) /\ Len(flows) = 0 /\ DOMAIN flows = {}
  <2>1. flows \in Seq({}) /\ Len(flows) = 0
    BY EmptySeq DEF Init
  <2>2. DOMAIN flows = {}
    BY <2>1, LenProperties
  <2> QED
    BY <2>1, <2>2, InSeqIsSeq
<1>2. Registry
  <2>1. relight \in BOOLEAN
    BY Zenon DEF Init
  <2>2. cur = 0 /\ waiting = 0 /\ epoch = 0 /\ ops = 0 /\ building = {}
    BY DEF Init
  <2> QED
    BY <1>1, <2>1, <2>2, BoundsAssumption DEF Registry
<1>3. AllHealthy
  BY <1>1 DEF AllHealthy
<1> QED
  BY <1>2, <1>3 DEF Init, FlowInv, CurrentIsOfNow, CurrentIsSettled

LEMMA EpochFits == FlowInv => epoch \in 0 .. MaxOps /\ Len(flows) \in Nat /\ DOMAIN flows = 1 .. Len(flows)
  BY IsSeqLen, BoundsAssumption DEF FlowInv, Registry

(* A step that changes one flow object, and of the rest what a tool's call *)
(* changes besides.                                                        *)
LEMMA OneFlow ==
  ASSUME FlowInv, NEW g \in DOMAIN flows, NEW f, flows' = [flows EXCEPT ![g] = f],
         Healthy(f, epoch), f.born = flows[g].born, UNCHANGED <<cur, epoch>>,
         waiting' \in 0 .. Len(flows), building' \subseteq building,
         relight' \in BOOLEAN, ops' \in 0 .. MaxOps, ops <= ops',
         g # cur => relight' = relight,
         g = cur /\ ~relight' /\ f.hops <= MaxHops => Settled(f)
  PROVE  FlowInv'
<1>1. /\ IsSeq(flows') /\ Len(flows') = Len(flows) /\ DOMAIN flows' = DOMAIN flows
      /\ \A i \in DOMAIN flows : flows'[i] = IF i = g THEN f ELSE flows[i]
  <2> DEFINE t == [flows EXCEPT ![g] = f]
  <2>1. IsSeq(flows)
    BY DEF FlowInv, Registry
  <2>2. /\ IsSeq(t) /\ Len(t) = Len(flows) /\ DOMAIN t = DOMAIN flows
        /\ \A i \in DOMAIN flows : t[i] = IF i = g THEN f ELSE flows[i]
    BY <2>1, Replaced
  <2> HIDE DEF t
  <2>3. flows' = t
    BY DEF t
  <2> QED
    BY <2>2, <2>3
<1>2. Registry'
  BY <1>1, BoundsAssumption DEF FlowInv, Registry
<1>3. AllHealthy'
  BY <1>1 DEF FlowInv, AllHealthy
<1>4. cur # 0 => cur \in DOMAIN flows
  BY EpochFits DEF FlowInv, Registry
<1>5. CurrentIsOfNow'
  BY <1>1, <1>4 DEF FlowInv, CurrentIsOfNow
<1>6. CurrentIsSettled'
  <2>1. CASE g = cur
    BY <1>1, <2>1 DEF CurrentIsSettled
  <2>2. CASE g # cur
    BY <1>1, <1>4, <2>2 DEF FlowInv, CurrentIsSettled
  <2> QED
    BY <2>1, <2>2
<1> QED
  BY <1>2, <1>3, <1>5, <1>6 DEF FlowInv

(* A step that registers a new flow object.                                *)
LEMMA NewerFlow ==
  ASSUME FlowInv, NEW s, IsSeq(s), Len(s) = Len(flows), DOMAIN s = DOMAIN flows,
         \A g \in DOMAIN flows : Healthy(s[g], epoch), Len(flows) < MaxFlows,
         NEW f, Healthy(f, epoch), f.born = epoch, Settled(f),
         flows' = Append(s, f), cur' = Len(flows) + 1,
         building' \subseteq [flow : 1 .. Len(flows) + 1, node : Node, auto : BOOLEAN],
         UNCHANGED <<epoch, waiting, relight, ops>>
  PROVE  FlowInv'
<1>1. /\ IsSeq(flows') /\ Len(flows') = Len(flows) + 1 /\ DOMAIN flows' = 1 .. Len(flows) + 1
      /\ \A i \in DOMAIN flows : flows'[i] = s[i]
      /\ flows'[Len(flows) + 1] = f
  BY Appended
<1>2. Len(flows) \in Nat /\ DOMAIN flows = 1 .. Len(flows)
  BY EpochFits
<1>3. Registry'
  BY <1>1, <1>2, BoundsAssumption DEF FlowInv, Registry
<1>4. AllHealthy'
  <2> SUFFICES ASSUME NEW g \in DOMAIN flows' PROVE Healthy(flows'[g], epoch)
    BY DEF AllHealthy
  <2>1. g \in DOMAIN flows \/ g = Len(flows) + 1
    BY <1>1, <1>2
  <2> QED
    BY <1>1, <2>1
<1>5. CurrentIsOfNow' /\ CurrentIsSettled'
  BY <1>1 DEF CurrentIsOfNow, CurrentIsSettled
<1> QED
  BY <1>3, <1>4, <1>5 DEF FlowInv

(* The registered flow object.                                             *)
LEMMA Current ==
  ASSUME FlowInv, cur # 0
  PROVE  /\ cur \in DOMAIN flows /\ Healthy(flows[cur], epoch) /\ flows[cur].born = epoch
         /\ ~relight /\ flows[cur].hops <= MaxHops => Settled(flows[cur])
<1>1. cur \in DOMAIN flows
  BY EpochFits DEF FlowInv, Registry
<1> QED
  BY <1>1 DEF FlowInv, AllHealthy, CurrentIsOfNow, CurrentIsSettled

LEMMA SameFlows ==
  ASSUME FlowInv, UNCHANGED <<flows, cur, epoch, ops, relight>>, waiting' \in 0 .. Len(flows),
         building' \subseteq [flow : 1 .. Len(flows), node : Node, auto : BOOLEAN]
  PROVE  FlowInv'
  BY DEF FlowInv, Registry, AllHealthy, CurrentIsOfNow, CurrentIsSettled

-----------------------------------------------------------------------------
(* One lemma per action.                                                    *)

LEMMA SpawnBeginsFits ==
  ASSUME FlowInv, NEW t \in Templates \cup LaterTemplates, NEW n \in Node, NEW auto \in BOOLEAN,
         SpawnBegins(t, n, auto)
  PROVE  FlowInv'
<1>1. CASE cur = 0 /\ Len(flows) < MaxFlows /\ flows' = Append(flows, NewFlow(t, epoch)) /\ cur' = Len(flows) + 1
  <2> DEFINE f == NewFlow(t, epoch)
  <2>1. Healthy(f, epoch) /\ f.born = epoch /\ Settled(f)
    BY EpochFits, NewFlowHealthy
  <2> HIDE DEF f
  <2>2. building' \subseteq [flow : 1 .. Len(flows) + 1, node : Node, auto : BOOLEAN]
    <3>1. Len(flows) \in Nat /\ building \subseteq [flow : 1 .. Len(flows), node : Node, auto : BOOLEAN]
      BY EpochFits DEF FlowInv, Registry
    <3>2. \A b \in building : b \in [flow : 1 .. Len(flows) + 1, node : Node, auto : BOOLEAN]
      BY <3>1
    <3>3. [flow |-> cur', node |-> n, auto |-> auto] \in [flow : 1 .. Len(flows) + 1, node : Node, auto : BOOLEAN]
      BY <1>1, <3>1
    <3>4. building' = building \cup {[flow |-> cur', node |-> n, auto |-> auto]}
      BY DEF SpawnBegins
    <3> QED
      BY <3>2, <3>3, <3>4
  <2>3. IsSeq(flows) /\ \A g \in DOMAIN flows : Healthy(flows[g], epoch)
    BY DEF FlowInv, Registry, AllHealthy
  <2>4. flows' = Append(flows, f)
    BY <1>1 DEF f
  <2> QED
    BY <1>1, <2>1, <2>2, <2>3, <2>4, NewerFlow DEF SpawnBegins
<1>2. CASE cur # 0 /\ UNCHANGED <<flows, cur>>
  <2>1. cur \in 1 .. Len(flows)
    BY <1>2, Current, EpochFits
  <2>2. building' \subseteq [flow : 1 .. Len(flows), node : Node, auto : BOOLEAN]
    <3>1. [flow |-> cur', node |-> n, auto |-> auto] \in [flow : 1 .. Len(flows), node : Node, auto : BOOLEAN]
      BY <1>2, <2>1
    <3>2. building' = building \cup {[flow |-> cur', node |-> n, auto |-> auto]}
      BY DEF SpawnBegins
    <3> QED
      BY <3>1, <3>2 DEF FlowInv, Registry
  <2> QED
    BY <1>2, <2>2, SameFlows DEF SpawnBegins, FlowInv, Registry
<1> QED
  BY <1>1, <1>2 DEF SpawnBegins

LEMMA SpawnEndsFits ==
  ASSUME FlowInv, NEW b \in building, SpawnEnds(b)
  PROVE  FlowInv'
<1> DEFINE f == flows[b.flow]
           w == Woven(f, b.node)
           d == Edited(f, w)
           m == MaybeStart(d, {b.node})
           g == IF b.auto THEN m ELSE d
<1>1. b.flow \in DOMAIN flows /\ b.node \in Node
  BY EpochFits DEF FlowInv, Registry
<1>2. flows' = [flows EXCEPT ![b.flow] = g] /\ b.node \notin Nodes(f)
  BY DEF SpawnEnds, Woven
<1>3. Healthy(f, epoch)
  BY <1>1 DEF FlowInv, AllHealthy
<1>4. /\ Healthy(w, epoch) /\ w.born = f.born /\ w.hops = f.hops
      /\ w.tasks = f.tasks /\ w.parked = f.parked /\ b.node \notin w.held
  BY <1>1, <1>2, <1>3, WovenHealthy
<1> HIDE DEF w
<1>5. /\ Healthy(d, epoch) /\ d.born = f.born /\ d.hops = f.hops /\ b.node \notin d.held
      /\ Settled(f) => Settled(d)
  BY <1>4, EditedHealthy DEF SameGraph
<1> HIDE DEF d
<1>6. Healthy(m, epoch) /\ m.born = f.born /\ m.hops = f.hops /\ (Settled(f) => Settled(m))
  BY <1>1, <1>5, EpochFits, MaybeStartHealthy DEF SameGraph
<1> HIDE DEF m
<1>7. Healthy(g, epoch) /\ g.born = f.born /\ g.hops = f.hops /\ (Settled(f) => Settled(g))
  BY <1>5, <1>6
<1>8. b.flow = cur /\ ~relight' /\ g.hops <= MaxHops => Settled(g)
  <2> SUFFICES ASSUME b.flow = cur, ~relight', g.hops <= MaxHops PROVE Settled(g)
    OBVIOUS
  <2>1. cur # 0 /\ ~relight
    BY <1>1, EpochFits DEF SpawnEnds
  <2>2. Settled(f)
    BY <1>7, <2>1, Current
  <2> QED
    BY <1>7, <2>2
<1> HIDE DEF g
<1>10. /\ UNCHANGED <<cur, epoch>> /\ waiting' \in 0 .. Len(flows)
      /\ building' \subseteq building /\ relight' \in BOOLEAN
      /\ ops' \in 0 .. MaxOps /\ ops <= ops'
  BY BoundsAssumption DEF SpawnEnds, FlowInv, Registry
<1> QED
  BY <1>1, <1>2, <1>7, <1>8, <1>10, OneFlow DEF SpawnEnds

LEMMA SpawnFailsFits == ASSUME FlowInv, NEW b \in building, SpawnFails(b) PROVE FlowInv'
  BY SameFlows DEF SpawnFails, FlowInv, Registry

LEMMA LoadFits ==
  ASSUME FlowInv, NEW t \in Templates \cup LaterTemplates, Load(t)
  PROVE  FlowInv'
<1> DEFINE f == Loaded(t, epoch)
<1>1. Healthy(f, epoch) /\ f.born = epoch /\ Settled(f)
  BY EpochFits, LoadedHealthy
<1>2. flows' = Append(flows, f)
  BY DEF Load
<1> HIDE DEF f
<1>3. IsSeq(flows) /\ \A g \in DOMAIN flows : Healthy(flows[g], epoch)
  BY DEF FlowInv, Registry, AllHealthy
<1>4. building' \subseteq [flow : 1 .. Len(flows) + 1, node : Node, auto : BOOLEAN]
  BY EpochFits DEF Load, FlowInv, Registry
<1> QED
  BY <1>1, <1>2, <1>3, <1>4, NewerFlow DEF Load

LEMMA RebuildFits ==
  ASSUME FlowInv, NEW t \in Templates \cup LaterTemplates, Rebuild(t)
  PROVE  FlowInv'
<1> DEFINE f == Loaded(t, epoch)
           old == [flows[cur] EXCEPT !.done = TRUE]
           s == [flows EXCEPT ![cur] = old]
<1>1. Healthy(f, epoch) /\ f.born = epoch /\ Settled(f)
  BY EpochFits, LoadedHealthy
<1>2. flows' = Append(s, f)
  BY DEF Rebuild
<1> HIDE DEF f
<1>3. cur \in DOMAIN flows /\ Healthy(flows[cur], epoch)
  BY Current DEF Rebuild
<1>4. Healthy(old, epoch)
  BY <1>3, DoneHealthy
<1> HIDE DEF old
<1>5. /\ IsSeq(s) /\ Len(s) = Len(flows) /\ DOMAIN s = DOMAIN flows
      /\ \A g \in DOMAIN flows : s[g] = IF g = cur THEN old ELSE flows[g]
  BY <1>3, Replaced DEF FlowInv, Registry
<1> HIDE DEF s
<1>6. \A g \in DOMAIN flows : Healthy(s[g], epoch)
  BY <1>4, <1>5 DEF FlowInv, AllHealthy
<1>7. building' \subseteq [flow : 1 .. Len(flows) + 1, node : Node, auto : BOOLEAN]
  BY EpochFits DEF Rebuild, FlowInv, Registry
<1> QED
  BY <1>1, <1>2, <1>5, <1>6, <1>7, NewerFlow DEF Rebuild

LEMMA EditEdgeFits ==
  ASSUME FlowInv, NEW e, EditEdge(e)
  PROVE  FlowInv'
<1> DEFINE f == flows[cur]
<1>1. cur \in DOMAIN flows /\ Healthy(f, epoch)
      /\ (~relight /\ f.hops <= MaxHops => Settled(f))
  BY Current DEF EditEdge
<1>2. PICK edges : /\ edges \subseteq f.tmpl.edges
                   /\ flows' = [flows EXCEPT ![cur] = Edited(f, Refresh([f EXCEPT !.edges = edges]))]
  <2>1. CASE flows' = [flows EXCEPT ![cur] = Edited(f, Refresh([f EXCEPT !.edges = @ \ {e}]))]
    <3>1. f.edges \ {e} \subseteq f.tmpl.edges
      BY <1>1 DEF Healthy, Sound
    <3> QED
      BY <2>1, <3>1
  <2>2. CASE /\ e \in f.tmpl.edges \ f.edges
             /\ flows' = [flows EXCEPT ![cur] = Edited(f, Refresh([f EXCEPT !.edges = @ \cup {e}]))]
    <3>1. f.edges \cup {e} \subseteq f.tmpl.edges
      BY <1>1, <2>2 DEF Healthy, Sound
    <3> QED
      BY <2>2, <3>1
  <2> QED
    BY <2>1, <2>2 DEF EditEdge
<1> DEFINE w == Refresh([f EXCEPT !.edges = edges])
           g == Edited(f, w)
<1>3. flows' = [flows EXCEPT ![cur] = g]
  BY <1>2
<1>4. /\ Healthy(w, epoch) /\ w.born = f.born /\ w.hops = f.hops
      /\ w.tasks = f.tasks /\ w.parked = f.parked
  BY <1>1, <1>2, EdgesHealthy
<1> HIDE DEF w
<1>5. Healthy(g, epoch) /\ g.born = f.born /\ g.hops = f.hops /\ (Settled(f) => Settled(g))
  BY <1>4, EditedHealthy DEF SameGraph
<1> HIDE DEF g
<1>6. ~relight' /\ g.hops <= MaxHops => Settled(g)
  BY <1>1, <1>5 DEF EditEdge
<1>10. /\ UNCHANGED <<cur, epoch>> /\ waiting' \in 0 .. Len(flows)
      /\ building' \subseteq building /\ relight' \in BOOLEAN
      /\ ops' \in 0 .. MaxOps /\ ops <= ops'
  BY BoundsAssumption DEF EditEdge, FlowInv, Registry
<1> QED
  BY <1>1, <1>3, <1>5, <1>6, <1>10, OneFlow DEF EditEdge

LEMMA RemoveNodeFits ==
  ASSUME FlowInv, NEW n \in Node, RemoveNode(n)
  PROVE  FlowInv'
<1> DEFINE f == flows[cur]
           w == Removed(f, n)
           g == Edited(f, w)
<1>1. cur \in DOMAIN flows /\ Healthy(f, epoch)
      /\ (~relight /\ f.hops <= MaxHops => Settled(f))
  BY Current DEF RemoveNode
<1>2. flows' = [flows EXCEPT ![cur] = g] /\ n \in Nodes(f)
  BY DEF RemoveNode, Removed
<1>3. /\ Healthy(w, epoch) /\ w.born = f.born /\ w.hops = f.hops
      /\ w.tasks = f.tasks /\ w.parked = f.parked
  BY <1>1, <1>2, RemovedHealthy
<1> HIDE DEF w
<1>4. Healthy(g, epoch) /\ g.born = f.born /\ g.hops = f.hops /\ (Settled(f) => Settled(g))
  BY <1>3, EditedHealthy DEF SameGraph
<1> HIDE DEF g
<1>5. ~relight' /\ g.hops <= MaxHops => Settled(g)
  BY <1>1, <1>4 DEF RemoveNode
<1>10. /\ UNCHANGED <<cur, epoch>> /\ waiting' \in 0 .. Len(flows)
      /\ building' \subseteq building /\ relight' \in BOOLEAN
      /\ ops' \in 0 .. MaxOps /\ ops <= ops'
  BY BoundsAssumption DEF RemoveNode, FlowInv, Registry
<1> QED
  BY <1>1, <1>2, <1>4, <1>5, <1>10, OneFlow DEF RemoveNode

LEMMA RunFits == ASSUME FlowInv, Run PROVE FlowInv'
<1> DEFINE f == flows[cur]
           g == Lit(f)
<1>1. cur \in DOMAIN flows /\ Healthy(f, epoch)
  BY Current DEF Run
<1>2. Healthy(g, epoch) /\ g.born = f.born /\ Settled(g)
  BY <1>1, EpochFits, LitHealthy, BusiedIsSettled DEF SameGraph
<1>3. flows' = [flows EXCEPT ![cur] = g]
  BY DEF Run
<1> HIDE DEF g
<1>10. /\ UNCHANGED <<cur, epoch>> /\ waiting' \in 0 .. Len(flows)
      /\ building' \subseteq building /\ relight' \in BOOLEAN
      /\ ops' \in 0 .. MaxOps /\ ops <= ops'
  BY BoundsAssumption DEF Run, FlowInv, Registry
<1> QED
  BY <1>1, <1>2, <1>3, <1>10, OneFlow DEF Run

LEMMA RelightFits == ASSUME FlowInv, Relight PROVE FlowInv'
<1>0. relight' \in BOOLEAN
  BY Zenon DEF Relight
<1>1. CASE cur = 0
  BY <1>0, <1>1 DEF Relight, FlowInv, Registry, AllHealthy, CurrentIsOfNow, CurrentIsSettled
<1>2. CASE cur # 0
  <2> DEFINE f == flows[cur]
             g == Lit(f)
  <2>1. cur \in DOMAIN flows /\ Healthy(f, epoch)
    BY <1>2, Current
  <2>2. Healthy(g, epoch) /\ g.born = f.born /\ Settled(g)
    BY <2>1, EpochFits, LitHealthy, BusiedIsSettled DEF SameGraph
  <2>3. flows' = [flows EXCEPT ![cur] = g]
    BY <1>2 DEF Relight
  <2> HIDE DEF g
  <2>10. /\ UNCHANGED <<cur, epoch>> /\ waiting' \in 0 .. Len(flows)
        /\ building' \subseteq building /\ relight' \in BOOLEAN
        /\ ops' \in 0 .. MaxOps /\ ops <= ops'
    BY <1>0, BoundsAssumption DEF Relight, FlowInv, Registry
  <2> QED
    BY <1>0, <2>1, <2>2, <2>3, <2>10, OneFlow DEF Relight
<1> QED
  BY <1>1, <1>2

LEMMA ResetAndRelightFits ==
  ASSUME FlowInv, NEW S, ResetAndRelight(S)
  PROVE  FlowInv'
<1> DEFINE f == flows[cur]
           w == ResetNodes(f, S)
           g == Edited(f, w)
<1>0. relight' \in BOOLEAN /\ relight' = TRUE
  BY Zenon DEF ResetAndRelight
<1>1. cur \in DOMAIN flows /\ Healthy(f, epoch)
  BY Current DEF ResetAndRelight
<1>2. flows' = [flows EXCEPT ![cur] = g]
  BY DEF ResetAndRelight
<1>3. Healthy(w, epoch) /\ w.born = f.born
  BY <1>1, ResetHealthy
<1> HIDE DEF w
<1>4. Healthy(g, epoch) /\ g.born = f.born
  BY <1>3, EditedHealthy DEF SameGraph
<1> HIDE DEF g
<1>10. /\ UNCHANGED <<cur, epoch>> /\ waiting' \in 0 .. Len(flows)
      /\ building' \subseteq building /\ relight' \in BOOLEAN
      /\ ops' \in 0 .. MaxOps /\ ops <= ops'
  BY <1>0, BoundsAssumption DEF ResetAndRelight, FlowInv, Registry
<1> QED
  BY <1>0, <1>1, <1>2, <1>4, <1>10, OneFlow DEF ResetAndRelight

LEMMA WaitFits == ASSUME FlowInv, Wait PROVE FlowInv'
<1> DEFINE f == flows[cur]
           s == Edited(f, Swept(f))
           g == IF Running(s) \/ NotLit(s) THEN s ELSE FailPending(s)
<1>1. cur \in DOMAIN flows /\ Healthy(f, epoch)
      /\ (~relight /\ f.hops <= MaxHops => Settled(f))
  BY Current DEF Wait
<1>2. Healthy(g, epoch) /\ g.born = f.born /\ g.hops = f.hops /\ (Settled(f) => Settled(g))
  BY <1>1, WaitedHealthy
<1>3. flows' = [flows EXCEPT ![cur] = g]
  BY DEF Wait
<1> HIDE DEF g
<1>4. waiting' \in 0 .. Len(flows)
  BY <1>1, EpochFits DEF Wait
<1>5. ~relight' /\ g.hops <= MaxHops => Settled(g)
  BY <1>1, <1>2 DEF Wait
<1>6. UNCHANGED <<cur, epoch, building, relight, ops>>
  BY DEF Wait
<1>10. /\ UNCHANGED <<cur, epoch>> /\ waiting' \in 0 .. Len(flows)
      /\ building' \subseteq building /\ relight' \in BOOLEAN
      /\ ops' \in 0 .. MaxOps /\ ops <= ops'
  BY <1>4, <1>6, BoundsAssumption DEF FlowInv, Registry
<1> QED
  BY <1>1, <1>2, <1>3, <1>4, <1>5, <1>6, <1>10, OneFlow

LEMMA WaitReturnsFits == ASSUME FlowInv, WaitReturns PROVE FlowInv'
  BY SameFlows, EpochFits DEF WaitReturns, FlowInv, Registry

LEMMA LaterHealthy == ASSUME NEW f, NEW e \in Nat, Healthy(f, e) PROVE Healthy(f, e + 1)
<1>1. f.born \in Nat
  BY BoundsAssumption DEF Healthy, Sound
<1>2. f.born <= e + 1 /\ f.born .. e \subseteq f.born .. e + 1
  BY <1>1 DEF Healthy
<1> QED
  BY <1>2 DEF Healthy

LEMMA ResetFits == ASSUME FlowInv, Reset PROVE FlowInv'
<1>1. /\ IsSeq(flows') /\ Len(flows') = Len(flows) /\ DOMAIN flows' = DOMAIN flows
      /\ \A g \in DOMAIN flows : Healthy(flows'[g], epoch)
  <2>1. CASE cur = 0
    BY <2>1 DEF Reset, FlowInv, Registry, AllHealthy
  <2>2. CASE cur # 0
    <3> DEFINE old == [flows[cur] EXCEPT !.done = TRUE]
    <3>1. cur \in DOMAIN flows /\ Healthy(old, epoch)
      BY <2>2, Current, DoneHealthy
    <3>2. flows' = [flows EXCEPT ![cur] = old]
      BY <2>2 DEF Reset
    <3> HIDE DEF old
    <3>3. /\ IsSeq(flows') /\ Len(flows') = Len(flows) /\ DOMAIN flows' = DOMAIN flows
          /\ \A g \in DOMAIN flows : flows'[g] = IF g = cur THEN old ELSE flows[g]
      <4> DEFINE t == [flows EXCEPT ![cur] = old]
      <4>1. IsSeq(flows)
        BY DEF FlowInv, Registry
      <4>2. /\ IsSeq(t) /\ Len(t) = Len(flows) /\ DOMAIN t = DOMAIN flows
            /\ \A g \in DOMAIN flows : t[g] = IF g = cur THEN old ELSE flows[g]
        BY <3>1, <4>1, Replaced
      <4> HIDE DEF t
      <4>3. flows' = t
        BY <3>2 DEF t
      <4> QED
        BY <4>2, <4>3
    <3> QED
      BY <3>1, <3>3 DEF FlowInv, AllHealthy
  <2> QED
    BY <2>1, <2>2
<1>2. AllHealthy'
  BY <1>1, LaterHealthy DEF Reset, FlowInv, Registry, AllHealthy
<1>3. Registry'
  BY <1>1, EpochFits, BoundsAssumption DEF Reset, FlowInv, Registry
<1>4. cur' = 0
  BY DEF Reset
<1> QED
  BY <1>2, <1>3, <1>4 DEF FlowInv, CurrentIsOfNow, CurrentIsSettled

(* A step of task i of node n of flow g.                                   *)
LEMMA TaskThere ==
  ASSUME FlowInv, NEW g \in DOMAIN flows, NEW n \in Node, NEW i \in DOMAIN flows[g].tasks[n]
  PROVE  /\ Healthy(flows[g], epoch) /\ epoch \in 0 .. MaxOps
         /\ flows[g].tasks[n][i].epoch \in flows[g].born .. epoch
         /\ flows[g].tasks[n][i].callback \in {-1, flows[g].born}
         /\ g = cur => /\ flows[g].born = epoch /\ flows[g].tasks[n][i].epoch = epoch
                       /\ ~relight /\ flows[g].hops <= MaxHops => Settled(flows[g])
<1>1. Healthy(flows[g], epoch) /\ epoch \in 0 .. MaxOps /\ 0 \notin DOMAIN flows
  BY EpochFits DEF FlowInv, AllHealthy
<1>2. /\ flows[g].tasks[n][i].epoch \in flows[g].born .. epoch
      /\ flows[g].tasks[n][i].callback \in {-1, flows[g].born}
  BY <1>1 DEF Healthy
<1>3. ASSUME g = cur PROVE flows[g].born = epoch /\ (~relight /\ flows[g].hops <= MaxHops => Settled(flows[g]))
  BY <1>1, <1>3, Current
<1>4. flows[g].born = epoch => flows[g].tasks[n][i].epoch = epoch
  BY <1>1, <1>2, BoundsAssumption
<1> QED
  BY <1>1, <1>2, <1>3, <1>4

LEMMA TaskLeavesTheRest ==
  ASSUME FlowInv, UNCHANGED <<cur, epoch, waiting, building, relight, ops>>
  PROVE  /\ UNCHANGED <<cur, epoch>> /\ waiting' \in 0 .. Len(flows)
         /\ building' \subseteq building /\ relight' \in BOOLEAN
         /\ ops' \in 0 .. MaxOps /\ ops <= ops'
  BY BoundsAssumption DEF FlowInv, Registry

(* What OnNodeDone does to a flow whose task ended: nothing for one that   *)
(* is not registered any more.                                             *)
LEMMA OnNodeDoneHealthy ==
  ASSUME NEW g, NEW f, Healthy(f, epoch), epoch \in 0 .. MaxOps, NEW n \in Node,
         NEW i \in DOMAIN f.tasks[n], g = cur => f.born = epoch /\ f.tasks[n][i].epoch = epoch
  PROVE  LET h == OnNodeDone(g, f, n, i) IN
         /\ Healthy(h, epoch) /\ SameGraph(f, h) /\ Kept(f, h)
         /\ g = cur /\ h.hops <= MaxHops => Busied(h)
         /\ g # cur => h = f
<1> DEFINE d == NodeDone(f, n)
<1>1. CASE g = cur
  <2>1. OnNodeDone(g, f, n, i) = d
    BY <1>1 DEF OnNodeDone
  <2>2. Healthy(d, epoch) /\ SameGraph(f, d) /\ Kept(f, d) /\ (d.hops <= MaxHops => Busied(d))
    BY <1>1, NodeDoneHealthy
  <2> HIDE DEF d
  <2> QED
    BY <1>1, <2>1, <2>2
<1>2. CASE g # cur
  BY <1>2 DEF OnNodeDone, SameGraph, Kept
<1> QED
  BY <1>1, <1>2

LEMMA BodyEndsFits ==
  ASSUME FlowInv, NEW g \in DOMAIN flows, NEW n \in Node, NEW i \in DOMAIN flows[g].tasks[n],
         BodyEnds(g, n, i)
  PROVE  FlowInv'
<1> DEFINE f == flows[g]
<1>1. PICK s \in {"done", "failed"}, h \in {0} \cup Node : flows' = [flows EXCEPT ![g] = Ended(f, n, i, s, h)]
  BY DEF BodyEnds
<1> DEFINE d == Ended(f, n, i, s, h)
<1>2. Healthy(d, epoch) /\ d.born = f.born /\ Settled(d)
  BY TaskThere, EndedHealthy DEF SameGraph
<1>3. flows' = [flows EXCEPT ![g] = d]
  BY <1>1
<1> HIDE DEF d
<1>4. UNCHANGED <<cur, epoch, waiting, building, relight, ops>>
  BY DEF BodyEnds
<1> QED
  BY <1>2, <1>3, <1>4, TaskLeavesTheRest, OneFlow

LEMMA BuildFailsFits ==
  ASSUME FlowInv, NEW g \in DOMAIN flows, NEW n \in Node, NEW i \in DOMAIN flows[g].tasks[n],
         BuildFails(g, n, i)
  PROVE  FlowInv'
<1> DEFINE f == flows[g]
           d == Ended(f, n, i, "failed", 0)
           h == OnNodeDone(g, d, n, i)
           o == Over(h, n, i)
<1>1. /\ Healthy(d, epoch) /\ d.born = f.born
      /\ i \in DOMAIN d.tasks[n] /\ d.tasks[n][i].phase = "shutdown"
      /\ d.tasks[n][i].epoch = f.tasks[n][i].epoch
  BY TaskThere, EndedHealthy DEF SameGraph
<1>2. flows' = [flows EXCEPT ![g] = o]
  BY DEF BuildFails
<1> HIDE DEF d
<1>3. /\ Healthy(h, epoch) /\ SameGraph(d, h) /\ Kept(d, h)
      /\ g = cur /\ h.hops <= MaxHops => Busied(h)
  BY <1>1, TaskThere, OnNodeDoneHealthy
<1> HIDE DEF h
<1>4. i \in DOMAIN h.tasks[n] /\ h.tasks[n][i].phase = "shutdown" /\ h.born = f.born
  BY <1>1, <1>3 DEF Kept, SameGraph
<1>5. Healthy(o, epoch) /\ o.born = f.born /\ o.hops = h.hops /\ (Busied(h) => Busied(o))
  BY <1>3, <1>4, OverHealthy DEF SameGraph
<1> HIDE DEF o
<1>6. g = cur /\ ~relight' /\ o.hops <= MaxHops => Settled(o)
  BY <1>3, <1>5, BusiedIsSettled
<1>7. UNCHANGED <<cur, epoch, waiting, building, relight, ops>>
  BY DEF BuildFails
<1> QED
  BY <1>2, <1>5, <1>6, <1>7, TaskLeavesTheRest, OneFlow

LEMMA TaskEndsFits ==
  ASSUME FlowInv, NEW g \in DOMAIN flows, NEW n \in Node, NEW i \in DOMAIN flows[g].tasks[n],
         TaskEnds(g, n, i)
  PROVE  FlowInv'
<1> DEFINE f == flows[g]
           h == OnNodeDone(g, f, n, i)
           o == Over(h, n, i)
<1>1. flows' = [flows EXCEPT ![g] = o] /\ f.tasks[n][i].phase = "shutdown"
  BY DEF TaskEnds
<1>2. /\ Healthy(h, epoch) /\ SameGraph(f, h) /\ Kept(f, h)
      /\ g = cur /\ h.hops <= MaxHops => Busied(h)
  BY TaskThere, OnNodeDoneHealthy
<1> HIDE DEF h
<1>3. i \in DOMAIN h.tasks[n] /\ h.tasks[n][i].phase = "shutdown" /\ h.born = f.born
  BY <1>1, <1>2 DEF Kept, SameGraph
<1>4. Healthy(o, epoch) /\ o.born = f.born /\ o.hops = h.hops /\ (Busied(h) => Busied(o))
  BY <1>2, <1>3, OverHealthy DEF SameGraph
<1> HIDE DEF o
<1>5. g = cur /\ ~relight' /\ o.hops <= MaxHops => Settled(o)
  BY <1>2, <1>4, BusiedIsSettled
<1>6. UNCHANGED <<cur, epoch, waiting, building, relight, ops>>
  BY DEF TaskEnds
<1> QED
  BY <1>1, <1>4, <1>5, <1>6, TaskLeavesTheRest, OneFlow

LEMMA CallbackFits ==
  ASSUME FlowInv, NEW g \in DOMAIN flows, NEW n \in Node, NEW i \in DOMAIN flows[g].tasks[n],
         Callback(g, n, i)
  PROVE  FlowInv'
<1> DEFINE f == flows[g]
           c == [f EXCEPT !.tasks[n][i].callback = -1]
           rest == Over(c, n, i)
           m == MaybeStart(rest, {n})
           o == IF f.tasks[n][i].callback # epoch THEN rest ELSE m
<1>1. flows' = [flows EXCEPT ![g] = o] /\ f.tasks[n][i].phase = "over"
  BY DEF Callback
<1>2. /\ Healthy(c, epoch) /\ c.born = f.born /\ c.hops = f.hops /\ (Settled(f) => Settled(c))
      /\ i \in DOMAIN c.tasks[n] /\ c.tasks[n][i].phase = "over"
  <2>1. Healthy(f, epoch)
    BY TaskThere
  <2>2. /\ Healthy(c, epoch) /\ SameGraph(f, c) /\ c.hops = f.hops /\ (Settled(f) => Settled(c))
        /\ i \in DOMAIN c.tasks[n] /\ c.tasks[n][i].phase = f.tasks[n][i].phase
    BY <2>1, CalledHealthy
  <2> HIDE DEF c
  <2> QED
    BY <1>1, <2>2 DEF SameGraph
<1> HIDE DEF c
<1>3. Healthy(rest, epoch) /\ rest.born = f.born /\ rest.hops = f.hops /\ (Settled(c) => Settled(rest))
  BY <1>2, OverHealthy DEF SameGraph
<1> HIDE DEF rest
<1>4. ASSUME f.tasks[n][i].callback = epoch PROVE rest.born = epoch /\ epoch \in 0 .. MaxOps
  BY <1>3, <1>4, TaskThere
<1>5. f.tasks[n][i].callback = epoch
        => Healthy(m, epoch) /\ m.born = f.born /\ m.hops = f.hops /\ (Settled(rest) => Settled(m))
  BY <1>3, <1>4, MaybeStartHealthy DEF SameGraph
<1> HIDE DEF m
<1>6. Healthy(o, epoch) /\ o.born = f.born /\ o.hops = f.hops /\ (Settled(f) => Settled(o))
  BY <1>2, <1>3, <1>5
<1> HIDE DEF o
<1>7. g = cur /\ ~relight' /\ o.hops <= MaxHops => Settled(o)
  BY <1>6, TaskThere DEF Callback
<1>8. UNCHANGED <<cur, epoch, waiting, building, relight, ops>>
  BY DEF Callback
<1> QED
  BY <1>1, <1>6, <1>7, <1>8, TaskLeavesTheRest, OneFlow
-----------------------------------------------------------------------------
(* FlowInv is an invariant of FlowCoordinator: whatever node tasks, tool   *)
(* calls, draft edits and /new interleave at the awaits of                 *)
(* flow_coordinator.py, every flow object ever made stays coherent with    *)
(* its tasks, and the registered one is never left with ready work and no  *)
(* task whose end will look for it.                                        *)
THEOREM FlowInvariant == Spec => []FlowInv
<1>1. FlowInv /\ [Next]_vars => FlowInv'
  <2> SUFFICES ASSUME FlowInv, [Next]_vars PROVE FlowInv'
    OBVIOUS
  <2>1. CASE UNCHANGED vars
    BY <2>1, SameFlows DEF vars, FlowInv, Registry
  <2>2. CASE Tool
    <3>1. ASSUME NEW t \in Templates \cup LaterTemplates, NEW n \in Node, NEW auto \in BOOLEAN,
                 SpawnBegins(t, n, auto)
          PROVE  FlowInv'
      BY <3>1, SpawnBeginsFits
    <3>2. ASSUME NEW b \in building, SpawnEnds(b) \/ SpawnFails(b) PROVE FlowInv'
      BY <3>2, SpawnEndsFits, SpawnFailsFits
    <3>3. ASSUME NEW t \in Templates \cup LaterTemplates, Load(t) \/ Rebuild(t) PROVE FlowInv'
      BY <3>3, LoadFits, RebuildFits
    <3>4. ASSUME NEW e \in flows[cur].tmpl.edges, EditEdge(e) PROVE FlowInv'
      BY <3>4, EditEdgeFits
    <3>5. ASSUME NEW n \in Node, RemoveNode(n) PROVE FlowInv'
      BY <3>5, RemoveNodeFits
    <3>6. ASSUME NEW n \in Node, NEW c \in BOOLEAN, Rerun(n, c) PROVE FlowInv'
      BY <3>6, ResetAndRelightFits DEF Rerun
    <3>7. CASE Run \/ Relight \/ Wait \/ WaitReturns \/ Reset
      BY <3>7, RunFits, RelightFits, WaitFits, WaitReturnsFits, ResetFits
    <3>8. CASE Resume
      BY <3>8, ResetAndRelightFits DEF Resume
    <3> QED
      BY <2>2, <3>1, <3>2, <3>3, <3>4, <3>5, <3>6, <3>7, <3>8 DEF Tool
  <2>3. CASE SomeTask
    <3>1. PICK g \in DOMAIN flows, n \in Node : \E i \in DOMAIN flows[g].tasks[n] : TaskStep(g, n, i)
      BY <2>3 DEF SomeTask
    <3>2. PICK i \in DOMAIN flows[g].tasks[n] : TaskStep(g, n, i)
      BY <3>1
    <3> QED
      BY <3>2, BodyEndsFits, BuildFailsFits, TaskEndsFits, CallbackFits DEF TaskStep
  <2> QED
    BY <2>1, <2>2, <2>3 DEF Next
<1> QED
  BY <1>1, InitFits, PTL DEF Spec

(* The flows whose name load took are among those that were made.          *)
Replacements == replaced \subseteq 1 .. MaxFlows

LEMMA ReplacementsFit ==
  ASSUME FlowInv, Replacements, [Next]_vars PROVE Replacements'
<1>1. replaced' = replaced \/ replaced' = replaced \cup ({cur} \ {0})
  <2>1. CASE UNCHANGED vars
    BY <2>1 DEF vars
  <2>2. CASE SomeTask
    <3>1. PICK g \in DOMAIN flows, n \in Node : \E i \in DOMAIN flows[g].tasks[n] : TaskStep(g, n, i)
      BY <2>2 DEF SomeTask
    <3> QED
      BY <3>1 DEF TaskStep, BodyEnds, BuildFails, TaskEnds, Callback
  <2>3. CASE Tool
    <3>1. ASSUME NEW t, NEW n, NEW auto, SpawnBegins(t, n, auto) PROVE replaced' = replaced
      BY <3>1 DEF SpawnBegins
    <3>2. ASSUME NEW b, SpawnEnds(b) \/ SpawnFails(b) PROVE replaced' = replaced
      BY <3>2 DEF SpawnEnds, SpawnFails
    <3>3. ASSUME NEW t, Load(t) PROVE replaced' = replaced \cup ({cur} \ {0})
      BY <3>3 DEF Load
    <3>4. ASSUME NEW t, Rebuild(t) PROVE replaced' = replaced
      BY <3>4 DEF Rebuild
    <3>5. ASSUME NEW e, EditEdge(e) PROVE replaced' = replaced
      BY <3>5 DEF EditEdge
    <3>6. ASSUME NEW n, RemoveNode(n) PROVE replaced' = replaced
      BY <3>6 DEF RemoveNode
    <3>7. ASSUME NEW S, ResetAndRelight(S) PROVE replaced' = replaced
      BY <3>7 DEF ResetAndRelight
    <3>8. Run \/ Relight \/ Wait \/ WaitReturns \/ Reset => replaced' = replaced
      BY DEF Run, Relight, Wait, WaitReturns, Reset
    <3> QED
      BY <2>3, <3>1, <3>2, <3>3, <3>4, <3>5, <3>6, <3>7, <3>8 DEF Tool, Rerun, Resume
  <2> QED
    BY <2>1, <2>2, <2>3 DEF Next
<1>2. \A g \in {cur} \ {0} : g \in 1 .. MaxFlows
  <2>1. cur # 0 => cur \in 1 .. MaxFlows
    BY EpochFits, BoundsAssumption DEF FlowInv, Registry
  <2> QED
    BY <2>1, Zenon
<1>3. \A g \in replaced' : g \in replaced \/ g \in {cur} \ {0}
  BY <1>1, Zenon
<1> QED
  BY <1>2, <1>3, Zenon DEF Replacements

LEMMA FlowInvTyped == FlowInv /\ Replacements => TypeOK
<1> SUFFICES ASSUME FlowInv, Replacements PROVE TypeOK
  OBVIOUS
<1>1. epoch \in 0 .. MaxOps
  BY EpochFits
<1>2. \A g \in DOMAIN flows : Sound(flows[g])
  BY DEF FlowInv, AllHealthy, Healthy
<1> QED
  BY <1>1, <1>2 DEF FlowInv, Registry, Replacements, TypeOK, Sound

(* The state of the coordinator keeps its type: no flow object made by     *)
(* Flow(), load or rebuild_from_projection, and none that an edit, a reset *)
(* or a task's end changes, leaves it, and no node is activated more than  *)
(* max_activations times between two resets.                               *)
THEOREM TypeCorrect == Spec => []TypeOK
<1>1. Init => Replacements
  BY DEF Init, Replacements
<1>2. FlowInv /\ Replacements /\ [Next]_vars => Replacements'
  BY ReplacementsFit
<1> QED
  BY <1>1, <1>2, FlowInvariant, FlowInvTyped, PTL DEF Spec

LEMMA QuietIsStill == ASSUME NEW f, Quiet(f) PROVE ~Stirring(f)
<1>1. \A n \in Node : DOMAIN f.tasks[n] = {}
  BY DEF Quiet
<1> QED
  BY <1>1 DEF Stirring

(* No lost wake-up, for any graph: arrivals that came while their target   *)
(* was running, or in its shutdown, are found by the _check_complete of    *)
(* the task that ends last, however the ends, the callbacks _maybe_start   *)
(* leaves and the tool's calls interleave.                                 *)
THEOREM NothingStranded == Spec => []NoStrandedWork
<1>1. FlowInv => NoStrandedWork
  <2> SUFFICES ASSUME FlowInv, cur # 0, ~relight, Quiet(flows[cur]), flows[cur].hops <= MaxHops,
                      NEW n \in Nodes(flows[cur]), IsReady(flows[cur], n)
               PROVE  n \in flows[cur].parked
    BY DEF NoStrandedWork
  <2>1. Settled(flows[cur])
    BY Current
  <2> QED
    BY <2>1, QuietIsStill DEF Settled
<1> QED
  BY <1>1, FlowInvariant, PTL

(* What is not the flow a step changes stays, and so do activations when   *)
(* the step changes none.                                                  *)
LEMMA Elsewhere ==
  ASSUME FlowInv, NEW g \in DOMAIN flows, NEW k \in DOMAIN flows, NEW f,
         flows' = [flows EXCEPT ![k] = f], k = g => f.act = flows[g].act
  PROVE  flows'[g].act = flows[g].act
<1>1. \A i \in DOMAIN flows : flows'[i] = IF i = k THEN f ELSE flows[i]
  BY Replaced DEF FlowInv, Registry
<1> QED
  BY <1>1

LEMMA ElsewhereNew ==
  ASSUME FlowInv, NEW g \in DOMAIN flows, NEW f, flows' = Append(flows, f)
  PROVE  flows'[g].act = flows[g].act
<1>1. flows'[g] = flows[g]
  BY Appended DEF FlowInv, Registry
<1> QED
  BY <1>1

(* A tool's call starts nothing in a flow that was released, but for a     *)
(* spawn_node that had fetched it before.                                  *)
LEMMA ToolsSpareReleased ==
  ASSUME FlowInv, Tool, NEW g \in DOMAIN flows, flows[g].born < epoch,
         ~\E b \in building : b.flow = g /\ b.auto /\ b \notin building'
  PROVE  flows'[g].act = flows[g].act
<1>0. cur # 0 => cur \in DOMAIN flows /\ cur # g
  <2>1. flows[g].born \in Nat
    BY BoundsAssumption DEF FlowInv, AllHealthy, Healthy, Sound
  <2> QED
    BY <2>1, Current, EpochFits
<1>1. ASSUME NEW t \in Templates \cup LaterTemplates, NEW n \in Node, NEW auto \in BOOLEAN,
             SpawnBegins(t, n, auto)
      PROVE  flows'[g].act = flows[g].act
  <2>1. CASE flows' = Append(flows, NewFlow(t, epoch))
    BY <2>1, ElsewhereNew
  <2>2. CASE UNCHANGED flows
    BY <2>2
  <2> QED
    BY <1>1, <2>1, <2>2 DEF SpawnBegins
<1>2. ASSUME NEW b \in building, SpawnEnds(b) PROVE flows'[g].act = flows[g].act
  <2> DEFINE f == flows[b.flow]
             w == Woven(f, b.node)
             d == Edited(f, w)
             m == MaybeStart(d, {b.node})
             h == IF b.auto THEN m ELSE d
  <2>1. b.flow \in DOMAIN flows /\ b.node \in Node /\ Healthy(f, epoch)
    BY EpochFits DEF FlowInv, Registry, AllHealthy
  <2>2. flows' = [flows EXCEPT ![b.flow] = h] /\ b.node \notin Nodes(f) /\ b \notin building'
    BY <1>2 DEF SpawnEnds, Woven
  <2>3. Healthy(w, epoch) /\ w.act = f.act
    BY <2>1, <2>2, WovenHealthy
  <2> HIDE DEF w
  <2>4. Healthy(d, epoch) /\ d.act = w.act
    BY <2>3, EditedHealthy
  <2> HIDE DEF d, m
  <2>5. b.flow = g => h.act = flows[g].act
    BY <2>2, <2>3, <2>4
  <2> HIDE DEF h
  <2> QED
    BY <2>1, <2>2, <2>5, Elsewhere
<1>3. ASSUME NEW t \in Templates \cup LaterTemplates, Load(t) PROVE flows'[g].act = flows[g].act
  BY <1>3, ElsewhereNew DEF Load
<1>4. ASSUME NEW t \in Templates \cup LaterTemplates, Rebuild(t) PROVE flows'[g].act = flows[g].act
  <2> DEFINE old == [flows[cur] EXCEPT !.done = TRUE]
             s == [flows EXCEPT ![cur] = old]
             f == Loaded(t, epoch)
  <2>1. flows' = Append(s, f) /\ cur \in DOMAIN flows /\ cur # g
    BY <1>0, <1>4 DEF Rebuild
  <2> HIDE DEF old, f
  <2>2. IsSeq(s) /\ DOMAIN s = DOMAIN flows /\ s[g] = flows[g]
    BY <2>1, Replaced DEF FlowInv, Registry
  <2> HIDE DEF s
  <2>3. flows'[g] = s[g]
    BY <2>1, <2>2, Appended
  <2> QED
    BY <2>2, <2>3
<1>5. ASSUME cur # 0, NEW f, flows' = [flows EXCEPT ![cur] = f] PROVE flows'[g].act = flows[g].act
  BY <1>0, <1>5, Elsewhere
<1>6. ASSUME NEW e \in flows[cur].tmpl.edges, EditEdge(e) PROVE flows'[g].act = flows[g].act
  BY <1>5, <1>6 DEF EditEdge
<1>7. ASSUME NEW n \in Node, RemoveNode(n) PROVE flows'[g].act = flows[g].act
  BY <1>5, <1>7 DEF RemoveNode
<1>8. ASSUME NEW S, ResetAndRelight(S) PROVE flows'[g].act = flows[g].act
  BY <1>5, <1>8 DEF ResetAndRelight
<1>9. CASE Run
  BY <1>5, <1>9 DEF Run
<1>10. CASE Relight
  BY <1>5, <1>10 DEF Relight
<1>11. CASE Wait
  BY <1>5, <1>11 DEF Wait
<1>12. CASE Reset
  BY <1>5, <1>12 DEF Reset
<1>13. CASE WaitReturns
  BY <1>13 DEF WaitReturns
<1>14. ASSUME NEW b \in building, SpawnFails(b) PROVE flows'[g].act = flows[g].act
  BY <1>14 DEF SpawnFails
<1> QED
  BY <1>14, <1>1, <1>2, <1>3, <1>4, <1>6, <1>7, <1>8, <1>9, <1>10, <1>11, <1>12, <1>13 DEF Tool, Rerun, Resume

(* Nor does the end of a task of it, or the callback such a task left.     *)
LEMMA TasksSpareReleased ==
  ASSUME FlowInv, NEW k \in DOMAIN flows, NEW n \in Node, NEW i \in DOMAIN flows[k].tasks[n],
         TaskStep(k, n, i), NEW g \in DOMAIN flows, flows[g].born < epoch
  PROVE  flows'[g].act = flows[g].act
<1> DEFINE f == flows[k]
<1>0. /\ Healthy(f, epoch) /\ epoch \in 0 .. MaxOps /\ f.born \in Nat
      /\ f.tasks[n][i].callback \in {-1, f.born}
  <2>1. /\ Healthy(f, epoch) /\ epoch \in 0 .. MaxOps
        /\ f.tasks[n][i].callback \in {-1, f.born}
    BY TaskThere
  <2>2. f.born \in Nat
    BY <2>1, BoundsAssumption DEF Healthy, Sound
  <2> QED
    BY <2>1, <2>2
<1>1. k = g => cur # k /\ f.tasks[n][i].callback # epoch
  BY <1>0, TaskThere, BoundsAssumption
<1>2. CASE BodyEnds(k, n, i)
  <2>1. PICK s \in {"done", "failed"}, h \in {0} \cup Node : flows' = [flows EXCEPT ![k] = Ended(f, n, i, s, h)]
    BY <1>2 DEF BodyEnds
  <2> DEFINE d == Ended(f, n, i, s, h)
  <2>2. Healthy(d, epoch) /\ d.act = f.act
    BY <1>0, EndedHealthy
  <2> QED
    BY <2>1, <2>2, Elsewhere
<1>3. CASE BuildFails(k, n, i)
  <2> DEFINE d == Ended(f, n, i, "failed", 0)
             o == Over(OnNodeDone(k, d, n, i), n, i)
  <2>1. /\ Healthy(d, epoch) /\ d.act = f.act
        /\ i \in DOMAIN d.tasks[n] /\ d.tasks[n][i].phase = "shutdown"
    BY <1>0, EndedHealthy
  <2>2. flows' = [flows EXCEPT ![k] = o]
    BY <1>3 DEF BuildFails
  <2> HIDE DEF d
  <2>3. k = g => o.act = d.act
    BY <1>1, <2>1, OverHealthy DEF OnNodeDone
  <2> HIDE DEF o
  <2>4. k = g => o.act = flows[g].act
    BY <2>1, <2>3
  <2> QED
    BY <2>2, <2>4, Elsewhere
<1>4. CASE TaskEnds(k, n, i)
  <2> DEFINE o == Over(OnNodeDone(k, f, n, i), n, i)
  <2>1. flows' = [flows EXCEPT ![k] = o] /\ f.tasks[n][i].phase = "shutdown"
    BY <1>4 DEF TaskEnds
  <2>2. k = g => o.act = f.act
    BY <1>0, <1>1, <2>1, OverHealthy DEF OnNodeDone
  <2> HIDE DEF o
  <2> QED
    BY <2>1, <2>2, Elsewhere
<1>5. CASE Callback(k, n, i)
  <2> DEFINE c == [f EXCEPT !.tasks[n][i].callback = -1]
             rest == Over(c, n, i)
             m == MaybeStart(rest, {n})
             o == IF f.tasks[n][i].callback # epoch THEN rest ELSE m
  <2>1. flows' = [flows EXCEPT ![k] = o] /\ f.tasks[n][i].phase = "over"
    BY <1>5 DEF Callback
  <2>2. /\ Healthy(c, epoch) /\ c.act = f.act
        /\ i \in DOMAIN c.tasks[n] /\ c.tasks[n][i].phase = f.tasks[n][i].phase
    BY <1>0, CalledHealthy
  <2> HIDE DEF c
  <2>3. rest.act = c.act
    BY <2>1, <2>2, OverHealthy
  <2> HIDE DEF rest, m
  <2>4. k = g => o.act = flows[g].act
    BY <1>1, <2>2, <2>3
  <2> HIDE DEF o
  <2> QED
    BY <2>1, <2>4, Elsewhere
<1> QED
  BY <1>2, <1>3, <1>4, <1>5 DEF TaskStep

(* After /new no node of a flow it released is started, for any graph and  *)
(* any number of generations: a task that ends late finds the guards of    *)
(* _on_node_done, a callback it left finds another epoch.                  *)
THEOREM ReleasedFlowsStayQuiet == Spec => ReleasedStaysQuiet
<1> DEFINE Spares == \A g \in DOMAIN flows :
             (flows[g].born < epoch /\ ~\E b \in building : b.flow = g /\ b.auto /\ b \notin building')
               => flows'[g].act = flows[g].act
<1>1. FlowInv /\ [Next]_vars => [Spares]_vars
  <2> SUFFICES ASSUME FlowInv, Next, NEW g \in DOMAIN flows, flows[g].born < epoch,
                      ~\E b \in building : b.flow = g /\ b.auto /\ b \notin building'
               PROVE  flows'[g].act = flows[g].act
    OBVIOUS
  <2>1. CASE Tool
    BY <2>1, ToolsSpareReleased
  <2>2. CASE SomeTask
    <3>1. PICK k \in DOMAIN flows, n \in Node : \E i \in DOMAIN flows[k].tasks[n] : TaskStep(k, n, i)
      BY <2>2 DEF SomeTask
    <3> QED
      BY <3>1, TasksSpareReleased
  <2> QED
    BY <2>1, <2>2 DEF Next
<1> QED
  BY <1>1, FlowInvariant, PTL DEF Spec, ReleasedStaysQuiet

-----------------------------------------------------------------------------
(* The depth-first search of classify_edges.                               *)

(* Every set of numbers that is not empty has a least one; so a set that   *)
(* holds 0 and with a number the next holds all.                           *)
LEMMA Least ==
  ASSUME NEW T \in SUBSET Nat, T # {}
  PROVE  \E x \in T : \A y \in T : x <= y
<1>1. \A x, y \in Nat : x <= y <=> ~(y < x)
  OBVIOUS
<1>2. PICK R : R = OpToRel(<, Nat)
  OBVIOUS
<1>3. IsWellFoundedOn(R, Nat)
  BY <1>2, NatLessThanWellFounded
<1>4. \E x \in T : \A y \in T : ~(<<y, x>> \in R)
  BY <1>3, WFMin
<1>5. \A x, y \in Nat : <<y, x>> \in R <=> y < x
  BY <1>2 DEF OpToRel
<1> QED BY <1>1, <1>4, <1>5

LEMMA SetInduction ==
  ASSUME NEW T \in SUBSET Nat, 0 \in T, \A n \in T : n + 1 \in T
  PROVE  T = Nat
<1> SUFFICES ASSUME Nat \ T # {} PROVE FALSE
  OBVIOUS
<1>1. PICK x \in Nat \ T : \A y \in Nat \ T : x <= y
  BY Least
<1>2. x # 0 /\ x - 1 \in Nat /\ x - 1 < x /\ x = (x - 1) + 1
  BY <1>1
<1>3. x - 1 \in T BY <1>1, <1>2
<1> QED BY <1>1, <1>2, <1>3


(* The search before its first turn, and the number of its turns.          *)
Start == [stack |-> <<>>, color |-> [n \in Node |-> 0], seen |-> {}, back |-> {}]
Turns(edges) == 2 * Cardinality(Node) + Cardinality(edges)

Runs(order, edges, run) ==
  /\ run[0] = Start
  /\ \A i \in 1 .. Turns(edges) : run[i] = Search(order, edges, run[i - 1])
  /\ KickEdges(order, edges) = {e \in edges : e.on = "error" \/ e \in run[Turns(edges)].back}

(* The recursive function of KickEdges exists: its values are those of the *)
(* search, turn by turn.                                                   *)
LEMMA SearchUnfolds ==
  ASSUME NEW order, NEW edges, Turns(edges) \in Nat
  PROVE  \E run : Runs(order, edges, run)
<1> DEFINE Unfolds(g, k) == g = [i \in 0 .. k |-> IF i = 0 THEN Start ELSE Search(order, edges, g[i - 1])]
           T == {k \in Nat : \E g : Unfolds(g, k)}
           run == CHOOSE g : Unfolds(g, Turns(edges))
<1>1. 0 \in T
  <2> DEFINE g == [i \in 0 .. 0 |-> Start]
  <2>1. Unfolds(g, 0)
    OBVIOUS
  <2> QED BY <2>1
<1>2. ASSUME NEW k \in T PROVE k + 1 \in T
  <2>1. k \in Nat
    OBVIOUS
  <2>2. PICK g : Unfolds(g, k)
    OBVIOUS
  <2> DEFINE h == [i \in 0 .. k + 1 |-> IF i <= k THEN g[i] ELSE Search(order, edges, g[k])]
  <2>3. \A i \in 0 .. k + 1 : h[i] = IF i = 0 THEN Start ELSE Search(order, edges, h[i - 1])
    <3> SUFFICES ASSUME NEW i \in 0 .. k + 1 PROVE h[i] = IF i = 0 THEN Start ELSE Search(order, edges, h[i - 1])
      OBVIOUS
    <3>1. CASE i <= k
      <4>1. i \in 0 .. k /\ h[i] = g[i]
        BY <2>1, <3>1
      <4>2. g[i] = IF i = 0 THEN Start ELSE Search(order, edges, g[i - 1])
        BY <2>2, <4>1
      <4>3. i # 0 => i - 1 \in 0 .. k + 1 /\ i - 1 <= k
        BY <2>1, <3>1
      <4> QED BY <4>1, <4>2, <4>3
    <3>2. CASE i = k + 1
      <4>1. i # 0 /\ i - 1 = k /\ k \in 0 .. k + 1 /\ ~(k + 1 <= k)
        BY <2>1, <3>2
      <4> QED BY <3>2, <4>1
    <3> QED BY <2>1, <3>1, <3>2
  <2>4. Unfolds(h, k + 1) /\ k + 1 \in Nat
    BY <2>1, <2>3
  <2> HIDE DEF h, Unfolds
  <2> QED BY <2>4
<1>3. T = Nat
  BY <1>1, <1>2, SetInduction
<1>4. Unfolds(run, Turns(edges))
  BY <1>3
<1>5. KickEdges(order, edges) = {e \in edges : e.on = "error" \/ e \in run[Turns(edges)].back}
  BY DEF KickEdges, Start, Turns
<1> HIDE DEF run
<1> QED BY <1>4, <1>5 DEF Runs

-----------------------------------------------------------------------------
(* What holds of the search between two turns: the grey nodes are the      *)
(* stack; an edge seen that was not found to go back leads to a node left  *)
(* already or to one above its own; of a node left every edge was seen,    *)
(* and no set of nodes left waits only for each other.                     *)
Above(s, e) == \E i, j \in DOMAIN s.stack : i < j /\ s.stack[i] = e.frm /\ s.stack[j] = e.to

Left(s) == {n \in Node : s.color[n] = 2}
Met(s) == {n \in Node : s.color[n] # 0}

Acyclic(order, edges, s) ==
  \A S \in SUBSET (Left(s) \cap ToSet(order)) :
    S = {} \/ \E n \in S : \A e \in edges \ s.back : e.to = n => e.frm \notin S

Searching(order, edges, s) ==
  /\ DOMAIN s = {"stack", "color", "seen", "back"}
  /\ s.stack \in Seq(Node) /\ s.color \in [Node -> 0 .. 2]
  /\ s.back \subseteq s.seen /\ s.seen \subseteq edges
  /\ \A i, j \in DOMAIN s.stack : s.stack[i] = s.stack[j] => i = j
  /\ \A n \in Node : s.color[n] = 1 <=> \E i \in DOMAIN s.stack : s.stack[i] = n
  /\ \A e \in s.seen : s.color[e.to] # 0
  /\ \A e \in edges : e.frm \in Left(s) \cap ToSet(order) => e \in s.seen
  /\ \A e \in s.seen \ s.back : s.color[e.to] = 2 \/ Above(s, e)
  /\ Acyclic(order, edges, s)

Finished(order, edges, s) == s.stack = <<>> /\ \A n \in Sources(order, edges) : s.color[n] # 0

(* The three things a turn does.                                           *)
Roots(s, t, n) ==
  /\ n \in Node /\ s.stack = <<>> /\ s.color[n] = 0
  /\ t = [s EXCEPT !.stack = <<n>>, !.color[n] = 1]
Leaves(order, edges, s, t, n) ==
  /\ s.stack # <<>> /\ n = Last(s.stack)
  /\ n \in ToSet(order) => OutEdges(edges, n) \subseteq s.seen
  /\ t = [s EXCEPT !.stack = Front(@), !.color[n] = 2]
Looks(edges, s, t, e) ==
  /\ s.stack # <<>> /\ e \in edges \ s.seen /\ e.frm = Last(s.stack)
  /\ t = [s EXCEPT !.seen = @ \cup {e},
                   !.back = IF s.color[e.to] = 1 THEN @ \cup {e} ELSE @,
                   !.stack = IF s.color[e.to] = 0 THEN Append(@, e.to) ELSE @,
                   !.color[e.to] = IF @ = 0 THEN 1 ELSE @]

(* Among the edges of a node there is a first one.                         *)
LEMMA FirstEdge ==
  ASSUME NEW rest \in SUBSET Edge, rest # {}, NEW n, \A e \in rest : e.frm = n
  PROVE  \E e \in rest : \A f \in rest \ {e} : Before(e, f)
<1> DEFINE T == {e.to : e \in rest}
<1>1. T \in SUBSET Nat /\ T # {}
  BY NodeAssumption DEF Edge
<1>2. PICK x \in T : \A y \in T : x <= y
  BY <1>1, Least
<1>3. PICK e \in rest : e.to = x
  OBVIOUS
<1>4. PICK g \in rest : g.to = x /\ ((\E h \in rest : h.to = x /\ h.on = "error") => g.on = "error")
  BY <1>3
<1>5. ASSUME NEW f \in rest \ {g} PROVE Before(g, f)
  <2>1. f \in Edge /\ g \in Edge /\ f.frm = g.frm
    OBVIOUS
  <2>2. f.to \in Nat /\ x \in Nat /\ x <= f.to
    BY <1>1, <1>2
  <2>3. CASE f.to = x
    <3>1. f.on # g.on
      BY <1>4, <2>1, <2>3 DEF Edge
    <3>2. g.on = "error" /\ f.on = "success"
      BY <1>4, <2>1, <2>3, <3>1 DEF Edge
    <3> QED BY <1>4, <2>3, <3>2 DEF Before
  <2>4. CASE f.to # x
    BY <1>4, <2>2, <2>4 DEF Before
  <2> QED BY <2>3, <2>4
<1> QED BY <1>5

LEMMA OneTurn ==
  ASSUME NEW order \in Seq(Node), NEW edges \in SUBSET Edge, NEW s, Searching(order, edges, s)
  PROVE  LET t == Search(order, edges, s) IN
         \/ Finished(order, edges, s) /\ t = s
         \/ ~Finished(order, edges, s) /\ \/ \E n \in Node : Roots(s, t, n)
                                          \/ \E n \in Node : Leaves(order, edges, s, t, n)
                                          \/ \E e \in edges : Looks(edges, s, t, e)
<1> DEFINE t == Search(order, edges, s)
           roots == {i \in DOMAIN order : /\ order[i] \in Sources(order, edges) /\ s.color[order[i]] = 0}
<1>1. CASE s.stack = <<>>
  <2>1. \A n \in Sources(order, edges) : \E i \in DOMAIN order : order[i] = n
    BY DEF Sources, ToSet
  <2>2. t = IF roots = {} THEN s
            ELSE [s EXCEPT !.stack = <<order[Min(roots)]>>, !.color[order[Min(roots)]] = 1]
    BY <1>1 DEF Search
  <2>3. CASE roots = {}
    BY <1>1, <2>1, <2>2, <2>3 DEF Finished
  <2>4. CASE roots # {}
    <3>1. roots \in SUBSET Nat
      BY LenProperties
    <3>2. Min(roots) \in roots
      BY <2>4, <3>1, Least DEF Min
    <3>3. order[Min(roots)] \in Node /\ s.color[order[Min(roots)]] = 0 /\ order[Min(roots)] \in Sources(order, edges)
      BY <3>2, ElementOfSeq, LenProperties
    <3> QED BY <1>1, <2>2, <2>4, <3>3 DEF Finished, Roots
  <2> QED BY <2>3, <2>4
<1>2. CASE s.stack # <<>>
  <2> DEFINE n == Last(s.stack)
             rest == OutEdges(edges, n) \ s.seen
             e == CHOOSE e \in rest : \A f \in rest \ {e} : Before(e, f)
  <2>1. n \in Node
    <3>1. s.stack \in Seq(Node)
      BY DEF Searching
    <3>2. Len(s.stack) \in 1 .. Len(s.stack)
      BY <1>2, <3>1, EmptySeq, LenProperties
    <3> QED BY <3>1, <3>2, ElementOfSeq DEF Last
  <2>2. ~Finished(order, edges, s)
    BY <1>2 DEF Finished
  <2>3. CASE rest = {} \/ n \notin ToSet(order)
    <3>1. t = [s EXCEPT !.stack = Front(@), !.color[n] = 2]
      BY <1>2, <2>3 DEF Search
    <3>2. n \in ToSet(order) => OutEdges(edges, n) \subseteq s.seen
      BY <2>3
    <3>3. Leaves(order, edges, s, t, n)
      BY <1>2, <3>1, <3>2 DEF Leaves
    <3> QED BY <2>1, <2>2, <3>3
  <2>4. CASE ~(rest = {} \/ n \notin ToSet(order))
    <3>1. t = [s EXCEPT !.seen = @ \cup {e},
                        !.back = IF s.color[e.to] = 1 THEN @ \cup {e} ELSE @,
                        !.stack = IF s.color[e.to] = 0 THEN Append(@, e.to) ELSE @,
                        !.color[e.to] = IF @ = 0 THEN 1 ELSE @]
      BY <1>2, <2>4 DEF Search
    <3>2. rest \subseteq Edge /\ \A f \in rest : f.frm = n
      BY DEF OutEdges
    <3>3. \E f \in rest : \A g \in rest \ {f} : Before(f, g)
      <4> HIDE DEF rest, n
      <4> QED BY <2>4, <3>2, FirstEdge
    <3>4. e \in rest
      BY <3>3
    <3>5. e \in edges \ s.seen /\ e.frm = n
      BY <3>4 DEF OutEdges
    <3>6. Looks(edges, s, t, e)
      BY <1>2, <3>1, <3>5 DEF Looks
    <3> QED BY <2>2, <3>5, <3>6
  <2> QED BY <2>3, <2>4
<1> QED BY <1>1, <1>2

(* Every turn keeps what holds of the search.                              *)
LEMMA StartSearching ==
  ASSUME NEW order \in Seq(Node), NEW edges \in SUBSET Edge
  PROVE  Searching(order, edges, Start) /\ Left(Start) = {} /\ Met(Start) = {}
<1>1. /\ DOMAIN Start = {"stack", "color", "seen", "back"}
      /\ Start.stack = <<>> /\ Start.color = [n \in Node |-> 0] /\ Start.seen = {} /\ Start.back = {}
  BY DEF Start
<1>2. Left(Start) = {} /\ Met(Start) = {}
  BY <1>1 DEF Left, Met
<1>3. Start.stack \in Seq(Node) /\ DOMAIN Start.stack = {}
  BY <1>1, EmptySeq
<1> QED BY <1>1, <1>2, <1>3 DEF Searching, Acyclic

LEMMA RootsKeeps ==
  ASSUME NEW order \in Seq(Node), NEW edges \in SUBSET Edge, NEW s, Searching(order, edges, s),
         NEW t, NEW n \in Node, Roots(s, t, n)
  PROVE  /\ Searching(order, edges, t)
         /\ Left(t) = Left(s) /\ Met(t) = Met(s) \cup {n} /\ n \notin Met(s) /\ t.seen = s.seen
<1>1. /\ DOMAIN t = {"stack", "color", "seen", "back"}
      /\ t.stack = <<n>> /\ t.color = [s.color EXCEPT ![n] = 1] /\ t.seen = s.seen /\ t.back = s.back
  BY DEF Roots, Searching
<1>2. t.stack \in Seq(Node) /\ DOMAIN t.stack = {1} /\ t.stack[1] = n
  BY <1>1
<1>3. t.color \in [Node -> 0 .. 2] /\ \A m \in Node : t.color[m] = IF m = n THEN 1 ELSE s.color[m]
  BY <1>1 DEF Searching
<1>4. s.color[n] = 0 /\ \A m \in Node : s.color[m] # 1
  BY DEF Roots, Searching
<1>5. Left(t) = Left(s) /\ Met(t) = Met(s) \cup {n} /\ n \notin Met(s)
  BY <1>3, <1>4 DEF Left, Met
<1>6. \A e \in s.seen : e.to \in Node
  BY DEF Searching, Edge
<1>7. \A e \in t.seen \ t.back : t.color[e.to] = 2
  <2> SUFFICES ASSUME NEW e \in s.seen \ s.back PROVE t.color[e.to] = 2
    BY <1>1
  <2>1. ~Above(s, e)
    BY DEF Above, Roots
  <2>2. s.color[e.to] = 2
    BY <2>1 DEF Searching
  <2> QED BY <1>3, <1>4, <1>6, <2>2
<1>8. Acyclic(order, edges, t)
  BY <1>1, <1>5 DEF Acyclic, Searching
<1>9. \A m \in Node : t.color[m] = 1 <=> \E i \in DOMAIN t.stack : t.stack[i] = m
  BY <1>2, <1>3, <1>4
<1>10. \A e \in t.seen : t.color[e.to] # 0
  BY <1>1, <1>3, <1>6 DEF Searching
<1> QED BY <1>1, <1>2, <1>3, <1>5, <1>7, <1>8, <1>9, <1>10 DEF Searching

LEMMA LeavesKeeps ==
  ASSUME NEW order \in Seq(Node), NEW edges \in SUBSET Edge, NEW s, Searching(order, edges, s),
         NEW t, NEW n \in Node, Leaves(order, edges, s, t, n)
  PROVE  /\ Searching(order, edges, t)
         /\ Left(t) = Left(s) \cup {n} /\ n \notin Left(s) /\ Met(s) \subseteq Met(t) /\ t.seen = s.seen
<1> DEFINE k == Len(s.stack)
<1>1. /\ DOMAIN t = {"stack", "color", "seen", "back"}
      /\ t.stack = Front(s.stack) /\ t.color = [s.color EXCEPT ![n] = 2] /\ t.seen = s.seen /\ t.back = s.back
  BY DEF Leaves, Searching
<1>2. /\ s.stack \in Seq(Node) /\ k \in Nat /\ k # 0 /\ DOMAIN s.stack = 1 .. k /\ s.stack[k] = n
  BY EmptySeq, LenProperties DEF Leaves, Last, Searching
<1>3. /\ t.stack \in Seq(Node) /\ DOMAIN t.stack = 1 .. k - 1
      /\ \A i \in 1 .. k - 1 : t.stack[i] = s.stack[i] /\ s.stack[i] # n
  <2>1. t.stack = [i \in 1 .. k - 1 |-> s.stack[i]]
    BY <1>1, <1>2 DEF Front
  <2>2. ASSUME NEW i \in 1 .. k - 1 PROVE s.stack[i] \in Node /\ s.stack[i] # n
    <3>1. i \in 1 .. k /\ k \in 1 .. k /\ i # k
      BY <1>2
    <3>2. s.stack[i] \in Node
      BY <1>2, <3>1, ElementOfSeq
    <3>3. s.stack[i] # s.stack[k]
      BY <1>2, <3>1 DEF Searching
    <3> QED BY <1>2, <3>2, <3>3
  <2> QED BY <1>2, <2>1, <2>2
<1>4. t.color \in [Node -> 0 .. 2] /\ \A m \in Node : t.color[m] = IF m = n THEN 2 ELSE s.color[m]
  BY <1>1 DEF Searching
<1>5. s.color[n] = 1
  BY <1>2 DEF Searching
<1>6. Left(t) = Left(s) \cup {n} /\ n \notin Left(s) /\ Met(t) = Met(s)
  BY <1>4, <1>5 DEF Left, Met
<1>7. \A e \in s.seen : e.to \in Node /\ e.frm \in Node
  BY DEF Searching, Edge
<1>8. \A e \in t.seen : t.color[e.to] # 0
  BY <1>1, <1>4, <1>7 DEF Searching
<1>9. \A m \in Node : t.color[m] = 1 <=> \E i \in DOMAIN t.stack : t.stack[i] = m
  <2>0. \A m : (\E i \in DOMAIN t.stack : t.stack[i] = m) <=> \E i \in 1 .. k - 1 : s.stack[i] = m
    <3> HIDE DEF k
    <3> QED BY <1>3
  <2> SUFFICES ASSUME NEW m \in Node PROVE t.color[m] = 1 <=> \E i \in 1 .. k - 1 : s.stack[i] = m
    BY <2>0
  <2>1. s.color[m] = 1 <=> \E i \in 1 .. k : s.stack[i] = m
    BY <1>2 DEF Searching
  <2>2. \A i : i \in 1 .. k <=> i \in 1 .. k - 1 \/ i = k
    BY <1>2
  <2> HIDE DEF k
  <2>3. CASE m = n
    BY <1>3, <1>4, <2>3
  <2>4. CASE m # n
    <3>1. s.stack[k] # m /\ t.color[m] = s.color[m]
      BY <1>2, <1>4, <2>4
    <3> QED BY <2>1, <2>2, <3>1
  <2> QED BY <2>3, <2>4
<1>10. \A e \in edges : e.frm \in Left(t) \cap ToSet(order) => e \in t.seen
  <2> SUFFICES ASSUME NEW e \in edges, e.frm \in Left(t), e.frm \in ToSet(order) PROVE e \in s.seen
    BY <1>1
  <2>1. CASE e.frm = n
    BY <2>1 DEF Leaves, OutEdges
  <2>2. CASE e.frm # n
    BY <1>6, <2>2 DEF Searching
  <2> QED BY <2>1, <2>2
<1>11. ASSUME NEW e \in t.seen \ t.back PROVE t.color[e.to] = 2 \/ Above(t, e)
  <2>1. s.color[e.to] = 2 \/ Above(s, e)
    BY <1>1, <1>11 DEF Searching
  <2>2. CASE s.color[e.to] = 2
    BY <1>1, <1>4, <1>7, <1>11, <2>2
  <2>3. CASE Above(s, e)
    <3>1. PICK i, j \in 1 .. k : i < j /\ s.stack[i] = e.frm /\ s.stack[j] = e.to
      BY <1>2, <2>3 DEF Above
    <3>2. CASE j = k
      BY <1>1, <1>2, <1>4, <1>7, <1>11, <3>1, <3>2
    <3>3. CASE j # k
      <4>1. i \in 1 .. k - 1 /\ j \in 1 .. k - 1
        BY <1>2, <3>1, <3>3
      <4>2. t.stack[i] = e.frm /\ t.stack[j] = e.to /\ i \in DOMAIN t.stack /\ j \in DOMAIN t.stack
        BY <1>3, <3>1, <4>1
      <4> QED BY <3>1, <4>2 DEF Above
    <3> QED BY <3>2, <3>3
  <2> QED BY <2>1, <2>2, <2>3
<1>12. ASSUME NEW e \in edges \ s.back, e.to = n PROVE e.frm \notin Left(t) \cap ToSet(order)
  <2> SUFFICES ASSUME e.frm \in Left(t), e.frm \in ToSet(order) PROVE FALSE
    OBVIOUS
  <2>1. e \in t.seen \ t.back
    BY <1>1, <1>10, <1>12
  <2>2. s.color[n] = 2 \/ Above(s, e)
    BY <1>1, <1>12, <2>1 DEF Searching
  <2>3. PICK i, j \in 1 .. k : i < j /\ s.stack[i] = e.frm /\ s.stack[j] = n
    BY <1>2, <1>5, <1>12, <2>2 DEF Above
  <2>4. i \in 1 .. k - 1 /\ e.frm \in Node
    BY <1>2, <2>3 DEF Edge
  <2>5. s.color[e.frm] = 1 /\ e.frm # n
    BY <1>2, <1>3, <2>3, <2>4 DEF Searching
  <2> QED BY <1>6, <2>4, <2>5 DEF Left
<1>13. Acyclic(order, edges, t)
  <2> SUFFICES ASSUME NEW S \in SUBSET (Left(t) \cap ToSet(order)), S # {}
               PROVE  \E m \in S : \A e \in edges \ s.back : e.to = m => e.frm \notin S
    BY <1>1 DEF Acyclic
  <2>1. CASE n \in S
    BY <1>12, <2>1
  <2>2. CASE n \notin S
    <3>1. S \in SUBSET (Left(s) \cap ToSet(order))
      BY <1>6, <2>2
    <3> QED BY <3>1 DEF Searching, Acyclic
  <2> QED BY <2>1, <2>2
<1>14. \A i, j \in DOMAIN t.stack : t.stack[i] = t.stack[j] => i = j
  <2> SUFFICES ASSUME NEW i \in 1 .. k - 1, NEW j \in 1 .. k - 1, t.stack[i] = t.stack[j] PROVE i = j
    BY <1>3
  <2>1. i \in DOMAIN s.stack /\ j \in DOMAIN s.stack
    BY <1>2
  <2>2. s.stack[i] = s.stack[j]
    <3> HIDE DEF k
    <3> QED BY <1>3
  <2> QED BY <2>1, <2>2 DEF Searching
<1>15. t.back \subseteq t.seen /\ t.seen \subseteq edges
  BY <1>1 DEF Searching
<1> HIDE DEF k
<1> QED BY <1>1, <1>3, <1>4, <1>6, <1>8, <1>9, <1>10, <1>11, <1>13, <1>14, <1>15 DEF Searching

LEMMA LooksKeeps ==
  ASSUME NEW order \in Seq(Node), NEW edges \in SUBSET Edge, NEW s, Searching(order, edges, s),
         NEW t, NEW e \in edges, Looks(edges, s, t, e)
  PROVE  /\ Searching(order, edges, t)
         /\ Left(t) = Left(s) /\ Met(s) \subseteq Met(t) /\ t.seen = s.seen \cup {e} /\ e \notin s.seen
<1> DEFINE k == Len(s.stack)
           new == s.color[e.to] = 0
<1>1. /\ DOMAIN t = {"stack", "color", "seen", "back"}
      /\ t.stack = (IF new THEN Append(s.stack, e.to) ELSE s.stack)
      /\ t.color = [s.color EXCEPT ![e.to] = IF s.color[e.to] = 0 THEN 1 ELSE s.color[e.to]]
      /\ t.seen = s.seen \cup {e} /\ e \notin s.seen
      /\ t.back = IF s.color[e.to] = 1 THEN s.back \cup {e} ELSE s.back
  BY DEF Looks, Searching
<1>2. /\ s.stack \in Seq(Node) /\ k \in Nat /\ k # 0 /\ DOMAIN s.stack = 1 .. k /\ s.stack[k] = e.frm
  BY EmptySeq, LenProperties DEF Looks, Last, Searching
<1>3. e.to \in Node /\ e.frm \in Node /\ \A f \in edges : f.to \in Node /\ f.frm \in Node
  BY DEF Edge
<1>4. t.color \in [Node -> 0 .. 2] /\ \A m \in Node : t.color[m] = IF new /\ m = e.to THEN 1 ELSE s.color[m]
  BY <1>1, <1>3 DEF Searching
<1>5. /\ t.stack \in Seq(Node)
      /\ DOMAIN t.stack = 1 .. (IF new THEN k + 1 ELSE k)
      /\ \A i \in 1 .. k : t.stack[i] = s.stack[i]
      /\ new => t.stack[k + 1] = e.to
  <2>1. CASE new
    BY <1>1, <1>2, <1>3, <2>1, AppendProperties
  <2>2. CASE ~new
    BY <1>1, <1>2, <2>2
  <2> QED BY <2>1, <2>2
<1>6. new => \A i \in 1 .. k : s.stack[i] # e.to
  BY <1>2, <1>3 DEF Searching
<1>7. Left(t) = Left(s) /\ Met(s) \subseteq Met(t)
  BY <1>4 DEF Left, Met
<1> HIDE DEF k
<1>8. \A i, j \in DOMAIN t.stack : t.stack[i] = t.stack[j] => i = j
  <2> SUFFICES ASSUME NEW i \in DOMAIN t.stack, NEW j \in DOMAIN t.stack, t.stack[i] = t.stack[j] PROVE i = j
    OBVIOUS
  <2>1. CASE i \in 1 .. k /\ j \in 1 .. k
    BY <1>2, <1>5, <2>1 DEF Searching
  <2>2. CASE ~(i \in 1 .. k /\ j \in 1 .. k)
    <3>1. new /\ DOMAIN t.stack = 1 .. k + 1
      BY <1>5, <2>2
    <3>2. \A l \in 1 .. k : t.stack[l] # t.stack[k + 1]
      BY <1>5, <1>6, <3>1
    <3>3. \A l \in 1 .. k + 1 : l \in 1 .. k \/ l = k + 1
      BY <1>2
    <3> QED BY <2>2, <3>1, <3>2, <3>3
  <2> QED BY <2>1, <2>2
<1>9. \A m \in Node : t.color[m] = 1 <=> \E i \in DOMAIN t.stack : t.stack[i] = m
  <2> SUFFICES ASSUME NEW m \in Node PROVE t.color[m] = 1 <=> \E i \in DOMAIN t.stack : t.stack[i] = m
    OBVIOUS
  <2>1. s.color[m] = 1 <=> \E i \in 1 .. k : s.stack[i] = m
    BY <1>2 DEF Searching
  <2>2. CASE new
    <3>1. k + 1 \in DOMAIN t.stack /\ \A i \in DOMAIN t.stack : i \in 1 .. k \/ i = k + 1
      BY <1>2, <1>5, <2>2
    <3>2. 1 .. k \subseteq DOMAIN t.stack
      BY <1>2, <1>5, <2>2
    <3> QED BY <1>4, <1>5, <2>1, <2>2, <3>1, <3>2
  <2>3. CASE ~new
    BY <1>4, <1>5, <2>1, <2>3
  <2> QED BY <2>2, <2>3
<1>10. t.color[e.to] # 0
  BY <1>3, <1>4
<1>11. \A f \in t.seen : t.color[f.to] # 0
  BY <1>1, <1>3, <1>4, <1>10 DEF Searching
<1>12. \A f \in edges : f.frm \in Left(t) \cap ToSet(order) => f \in t.seen
  BY <1>1, <1>7 DEF Searching
<1>13. ASSUME NEW f \in t.seen \ t.back PROVE t.color[f.to] = 2 \/ Above(t, f)
  <2>1. CASE f = e
    <3>1. s.color[e.to] # 1
      BY <1>1, <1>13, <2>1
    <3>2. CASE new
      <4>1. k \in DOMAIN t.stack /\ k + 1 \in DOMAIN t.stack /\ k < k + 1 /\ t.stack[k] = e.frm /\ t.stack[k + 1] = e.to
        BY <1>2, <1>5, <3>2
      <4> QED BY <2>1, <4>1 DEF Above
    <3>3. CASE ~new
      <4>1. s.color[e.to] \in 0 .. 2
        BY <1>3 DEF Searching
      <4> QED BY <1>3, <1>4, <2>1, <3>1, <3>3, <4>1
    <3> QED BY <3>2, <3>3
  <2>2. CASE f # e
    <3>1. f \in s.seen \ s.back /\ f \in edges
      BY <1>1, <1>13, <2>2 DEF Searching
    <3>2. s.color[f.to] = 2 \/ Above(s, f)
      BY <3>1 DEF Searching
    <3>3. CASE s.color[f.to] = 2
      BY <1>3, <1>4, <3>1, <3>3
    <3>4. CASE Above(s, f)
      <4>1. PICK i, j \in 1 .. k : i < j /\ s.stack[i] = f.frm /\ s.stack[j] = f.to
        BY <1>2, <3>4 DEF Above
      <4>2. 1 .. k \subseteq DOMAIN t.stack
        BY <1>2, <1>5
      <4> QED BY <1>5, <4>1, <4>2 DEF Above
    <3> QED BY <3>2, <3>3, <3>4
  <2> QED BY <2>1, <2>2
<1>14. s.back \subseteq t.back /\ t.back \subseteq t.seen /\ t.seen \subseteq edges
  BY <1>1 DEF Searching
<1>15. Acyclic(order, edges, t)
  <2>1. edges \ t.back \subseteq edges \ s.back
    BY <1>14
  <2>2. Acyclic(order, edges, s)
    BY DEF Searching
  <2> QED BY <1>7, <2>1, <2>2 DEF Acyclic
<1> HIDE DEF new
<1> QED BY <1>1, <1>4, <1>5, <1>7, <1>8, <1>9, <1>11, <1>12, <1>13, <1>14, <1>15 DEF Searching

LEMMA EdgesAreFinite == ASSUME NEW edges \in SUBSET Edge PROVE IsFiniteSet(edges)
<1> DEFINE P == Node \X (Node \X {"success", "error"})
           f == [e \in Edge |-> <<e.frm, <<e.to, e.on>>>>]
<1>1. IsFiniteSet({"success", "error"})
  <2>1. IsFiniteSet({"success"} \cup {"error"})
    BY FS_Singleton, FS_AddElement
  <2>2. {"success"} \cup {"error"} = {"success", "error"}
    OBVIOUS
  <2> QED BY <2>1, <2>2
<1>2. IsFiniteSet(Node \X {"success", "error"})
  BY <1>1, NodeAssumption, FS_Product
<1>3. IsFiniteSet(P)
  BY <1>2, NodeAssumption, FS_Product
<1>4. f \in [Edge -> P]
  BY DEF Edge
<1>5. \A a, b \in Edge : f[a] = f[b] => a = b
  <2> SUFFICES ASSUME NEW a \in Edge, NEW b \in Edge, f[a] = f[b] PROVE a = b
    OBVIOUS
  <2>1. a.frm = b.frm /\ a.to = b.to /\ a.on = b.on
    OBVIOUS
  <2>2. /\ a = [frm |-> a.frm, to |-> a.to, on |-> a.on]
        /\ b = [frm |-> b.frm, to |-> b.to, on |-> b.on]
    BY DEF Edge
  <2> QED BY <2>1, <2>2
<1>6. f \in Injection(Edge, P)
  <2> HIDE DEF f, P
  <2> QED BY <1>4, <1>5 DEF Injection, IsInjective
<1>7. IsFiniteSet(Edge)
  <2> HIDE DEF f, P
  <2> QED BY <1>3, <1>6, FS_Injection
<1> QED BY <1>7, FS_Subset

(* How far the search has come.                                            *)
Weight(s) == Cardinality(Left(s)) + Cardinality(Met(s)) + Cardinality(s.seen)

LEMMA WeightFits ==
  ASSUME NEW order, NEW edges \in SUBSET Edge, NEW s, Searching(order, edges, s)
  PROVE  /\ IsFiniteSet(Left(s)) /\ IsFiniteSet(Met(s)) /\ IsFiniteSet(s.seen)
         /\ Cardinality(Left(s)) \in Nat /\ Cardinality(Met(s)) \in Nat /\ Cardinality(s.seen) \in Nat
         /\ Turns(edges) \in Nat /\ Weight(s) \in Nat /\ Weight(s) <= Turns(edges)
         /\ Weight(s) = Turns(edges) => Left(s) = Node
<1>1. IsFiniteSet(Node) /\ IsFiniteSet(edges)
  BY NodeAssumption, EdgesAreFinite
<1>2. Left(s) \subseteq Node /\ Met(s) \subseteq Node /\ s.seen \subseteq edges
  BY DEF Left, Met, Searching
<1>3. IsFiniteSet(Left(s)) /\ Cardinality(Left(s)) <= Cardinality(Node)
      /\ (Cardinality(Node) = Cardinality(Left(s)) => Node = Left(s))
  BY <1>1, <1>2, FS_Subset
<1>4. IsFiniteSet(Met(s)) /\ Cardinality(Met(s)) <= Cardinality(Node)
  BY <1>1, <1>2, FS_Subset
<1>5. IsFiniteSet(s.seen) /\ Cardinality(s.seen) <= Cardinality(edges)
  BY <1>1, <1>2, FS_Subset
<1>6. /\ Cardinality(Node) \in Nat /\ Cardinality(edges) \in Nat /\ Cardinality(Left(s)) \in Nat
      /\ Cardinality(Met(s)) \in Nat /\ Cardinality(s.seen) \in Nat
  BY <1>1, <1>3, <1>4, <1>5, FS_CardinalityType
<1> QED BY <1>3, <1>4, <1>5, <1>6 DEF Weight, Turns

(* Every turn but one that finds the search finished meets or leaves a     *)
(* node or sees an edge that no turn before it did.                        *)
LEMMA TurnKeeps ==
  ASSUME NEW order \in Seq(Node), NEW edges \in SUBSET Edge, NEW s, Searching(order, edges, s)
  PROVE  LET t == Search(order, edges, s) IN
         /\ Searching(order, edges, t)
         /\ \/ Finished(order, edges, t)
            \/ Weight(t) >= Weight(s) + 1
<1> DEFINE t == Search(order, edges, s)
<1>1. CASE Finished(order, edges, s) /\ t = s
  BY <1>1
<1>2. CASE \E n \in Node : Roots(s, t, n)
  <2>1. PICK n \in Node : Roots(s, t, n)
    BY <1>2
  <2> HIDE DEF t
  <2>2. /\ Searching(order, edges, t)
        /\ Left(t) = Left(s) /\ Met(t) = Met(s) \cup {n} /\ n \notin Met(s) /\ t.seen = s.seen
    BY <2>1, RootsKeeps
  <2>3. Cardinality(Met(t)) = Cardinality(Met(s)) + 1
    BY <2>2, WeightFits, FS_AddElement
  <2> QED BY <2>2, <2>3, WeightFits DEF Weight, t
<1>3. CASE \E n \in Node : Leaves(order, edges, s, t, n)
  <2>1. PICK n \in Node : Leaves(order, edges, s, t, n)
    BY <1>3
  <2> HIDE DEF t
  <2>2. /\ Searching(order, edges, t)
        /\ Left(t) = Left(s) \cup {n} /\ n \notin Left(s) /\ Met(s) \subseteq Met(t) /\ t.seen = s.seen
    <3>1. ASSUME NEW x, Leaves(order, edges, s, x, n)
          PROVE  /\ Searching(order, edges, x)
                 /\ Left(x) = Left(s) \cup {n} /\ n \notin Left(s) /\ Met(s) \subseteq Met(x)
                 /\ x.seen = s.seen
      BY <3>1, LeavesKeeps
    <3> QED BY <2>1, <3>1
  <2>3. Cardinality(Left(t)) = Cardinality(Left(s)) + 1
    BY <2>2, WeightFits, FS_AddElement
  <2>4. Cardinality(Met(s)) <= Cardinality(Met(t))
    BY <2>2, WeightFits, FS_Subset
  <2>5. /\ Cardinality(Left(s)) \in Nat /\ Cardinality(Met(s)) \in Nat /\ Cardinality(s.seen) \in Nat
        /\ Cardinality(Left(t)) \in Nat /\ Cardinality(Met(t)) \in Nat /\ Cardinality(t.seen) \in Nat
    BY <2>2, WeightFits
  <2>6. Cardinality(t.seen) = Cardinality(s.seen)
    BY <2>2
  <2>7. Weight(t) >= Weight(s) + 1
    BY <2>3, <2>4, <2>5, <2>6 DEF Weight
  <2> QED BY <2>2, <2>7 DEF t
<1>4. CASE \E e \in edges : Looks(edges, s, t, e)
  <2>1. PICK e \in edges : Looks(edges, s, t, e)
    BY <1>4
  <2> HIDE DEF t
  <2>2. /\ Searching(order, edges, t)
        /\ Left(t) = Left(s) /\ Met(s) \subseteq Met(t) /\ t.seen = s.seen \cup {e} /\ e \notin s.seen
    BY <2>1, LooksKeeps
  <2>3. Cardinality(t.seen) = Cardinality(s.seen) + 1
    BY <2>2, WeightFits, FS_AddElement
  <2>4. Cardinality(Met(s)) <= Cardinality(Met(t))
    BY <2>2, WeightFits, FS_Subset
  <2>5. /\ Cardinality(Left(s)) \in Nat /\ Cardinality(Met(s)) \in Nat /\ Cardinality(s.seen) \in Nat
        /\ Cardinality(Left(t)) \in Nat /\ Cardinality(Met(t)) \in Nat /\ Cardinality(t.seen) \in Nat
    BY <2>2, WeightFits
  <2>6. Cardinality(Left(t)) = Cardinality(Left(s))
    BY <2>2
  <2>7. Weight(t) >= Weight(s) + 1
    BY <2>3, <2>4, <2>5, <2>6 DEF Weight
  <2> QED BY <2>2, <2>7 DEF t
<1> QED BY <1>1, <1>2, <1>3, <1>4, OneTurn

(* After as many turns as there are nodes to meet and to leave and edges   *)
(* to see, the search is over.                                             *)
LEMMA SearchEnds ==
  ASSUME NEW order \in Seq(Node), NEW edges \in SUBSET Edge
  PROVE  \E s : /\ Searching(order, edges, s) /\ Finished(order, edges, s)
                /\ KickEdges(order, edges) = {e \in edges : e.on = "error" \/ e \in s.back}
<1>0. Turns(edges) \in Nat
  BY StartSearching, WeightFits
<1>a. PICK run : Runs(order, edges, run)
  BY <1>0, SearchUnfolds
<1>1. /\ run[0] = Start
      /\ \A i \in 1 .. Turns(edges) : run[i] = Search(order, edges, run[i - 1])
      /\ KickEdges(order, edges) = {e \in edges : e.on = "error" \/ e \in run[Turns(edges)].back}
  BY <1>a DEF Runs
<1> DEFINE Good(i) == /\ Searching(order, edges, run[i])
                      /\ Finished(order, edges, run[i]) \/ i <= Weight(run[i])
           T == {i \in Nat : i <= Turns(edges) => Good(i)}
<1>2. 0 \in T
  <2>1. Searching(order, edges, Start) /\ Weight(Start) \in Nat
    <3>1. Searching(order, edges, Start)
      BY StartSearching
    <3>2. Cardinality(Left(Start)) \in Nat /\ Cardinality(Met(Start)) \in Nat /\ Cardinality(Start.seen) \in Nat
      BY <3>1, WeightFits
    <3> QED BY <3>1, <3>2 DEF Weight
  <2> QED BY <1>1, <2>1
<1>3. ASSUME NEW i \in T PROVE i + 1 \in T
  <2> SUFFICES ASSUME i + 1 <= Turns(edges) PROVE Good(i + 1)
    OBVIOUS
  <2>1. i \in Nat /\ i + 1 \in 1 .. Turns(edges) /\ (i + 1) - 1 = i /\ i <= Turns(edges)
    BY <1>0
  <2>2. run[i + 1] = Search(order, edges, run[i])
    BY <1>1, <2>1
  <2>3. Good(i)
    BY <2>1
  <2>4. /\ Searching(order, edges, run[i + 1])
        /\ \/ Finished(order, edges, run[i + 1])
           \/ Weight(run[i + 1]) >= Weight(run[i]) + 1
    BY <2>2, <2>3, TurnKeeps
  <2>5. Weight(run[i]) \in Nat /\ Weight(run[i + 1]) \in Nat
    <3>1. Searching(order, edges, run[i])
      BY <2>3
    <3> QED BY <3>1, <2>4, WeightFits
  <2>6. CASE Finished(order, edges, run[i])
    <3>1. run[i + 1] = run[i]
      BY <2>2, <2>3, <2>6, OneTurn
    <3> QED BY <2>4, <2>6, <3>1
  <2>7. CASE i <= Weight(run[i])
    BY <2>1, <2>4, <2>5, <2>7
  <2> QED BY <2>3, <2>6, <2>7
<1>4. T = Nat
  <2> HIDE DEF Good
  <2>1. T \in SUBSET Nat
    OBVIOUS
  <2> HIDE DEF T
  <2> QED BY <1>2, <1>3, <2>1, SetInduction
<1> DEFINE s == run[Turns(edges)]
<1>5. Searching(order, edges, s) /\ (Finished(order, edges, s) \/ Turns(edges) <= Weight(s))
  BY <1>0, <1>4
<1>6. ASSUME Turns(edges) <= Weight(s) PROVE Finished(order, edges, s)
  <2> HIDE DEF s
  <2>1. Weight(s) = Turns(edges)
    BY <1>5, <1>6, WeightFits DEF Weight
  <2>2. Left(s) = Node
    BY <1>5, <2>1, WeightFits
  <2>3. \A n \in Node : s.color[n] = 2
    BY <2>2 DEF Left
  <2>4. s.stack = <<>>
    <3> SUFFICES ASSUME s.stack # <<>> PROVE FALSE
      OBVIOUS
    <3>1. s.stack \in Seq(Node) /\ Len(s.stack) \in Nat \ {0} /\ DOMAIN s.stack = 1 .. Len(s.stack)
      BY <1>5, EmptySeq, LenProperties DEF Searching
    <3>2. 1 \in DOMAIN s.stack /\ s.stack[1] \in Node
      BY <3>1, ElementOfSeq
    <3> QED BY <1>5, <2>3, <3>2 DEF Searching
  <2>5. Sources(order, edges) \subseteq Node
    BY DEF Sources, ToSet
  <2> QED BY <2>3, <2>4, <2>5 DEF Finished
<1> QED BY <1>1, <1>5, <1>6

(* What the search cuts: of the nodes it has left, no set waits only for   *)
(* each other, and it leaves whatever the sources lead to.                 *)
LEMMA LoopsOfOneFlow ==
  ASSUME NEW f, f.order \in Seq(Node), f.edges \subseteq Edge, f.kick = KickEdges(f.order, f.edges),
         NEW S \in SUBSET (Nodes(f) \cap Reached(f)), S # {}
  PROVE  \E n \in S : \A e \in Required(f, n) : e.frm \notin S
<1>1. PICK s : /\ Searching(f.order, f.edges, s) /\ Finished(f.order, f.edges, s)
               /\ f.kick = {e \in f.edges : e.on = "error" \/ e \in s.back}
  BY SearchEnds
<1>2. \A n \in Node : s.color[n] # 0 => n \in Left(s)
  <2>1. s.stack = <<>> /\ DOMAIN s.stack = {}
    BY <1>1 DEF Finished
  <2>2. \A n \in Node : s.color[n] # 1 /\ s.color[n] \in 0 .. 2
    BY <1>1, <2>1 DEF Searching
  <2> QED BY <2>2 DEF Left
<1>3. Left(s) \in SUBSET Node
  BY DEF Left
<1>4. Sources(f.order, f.edges) \subseteq Left(s)
  BY <1>1, <1>2 DEF Finished, Sources, ToSet
<1>5. Closed(f, Left(s))
  <2> SUFFICES ASSUME NEW e \in f.edges, e.frm \in Left(s), e.frm \in ToSet(f.order) PROVE e.to \in Left(s)
    BY DEF Closed, Nodes
  <2>1. e \in s.seen
    BY <1>1 DEF Searching
  <2>2. s.color[e.to] # 0 /\ e.to \in Node
    BY <1>1, <2>1 DEF Searching, Edge
  <2> QED BY <1>2, <2>2
<1>6. Reached(f) \subseteq Left(s)
  BY <1>3, <1>4, <1>5 DEF Reached
<1>7. S \in SUBSET (Left(s) \cap ToSet(f.order))
  BY <1>6 DEF Nodes
<1>8. PICK n \in S : \A e \in f.edges \ s.back : e.to = n => e.frm \notin S
  BY <1>1, <1>7 DEF Searching, Acyclic
<1>9. Required(f, n) \subseteq {e \in f.edges \ s.back : e.to = n}
  BY <1>1 DEF Required, InEdges
<1> QED BY <1>8, <1>9

(* classify_edges cuts every loop that can be entered, in every flow       *)
(* object ever made, for any graph and however it was woven and edited:    *)
(* among the nodes the search reaches no set waits only for each other.    *)
THEOREM LoopsAreAlwaysCut == Spec => []LoopsAreCut
<1>1. FlowInv => LoopsAreCut
  <2> SUFFICES ASSUME FlowInv, NEW g \in DOMAIN flows,
                      NEW S \in SUBSET (Nodes(flows[g]) \cap Reached(flows[g])), S # {}
               PROVE  \E n \in S : \A e \in Required(flows[g], n) : e.frm \notin S
    BY DEF LoopsAreCut
  <2>1. Sound(flows[g])
    BY DEF FlowInv, AllHealthy, Healthy
  <2>2. /\ flows[g].order \in Seq(Node) /\ flows[g].edges \subseteq Edge
        /\ flows[g].kick = KickEdges(flows[g].order, flows[g].edges)
    BY <2>1, TemplatesAreGraphs DEF Sound
  <2> QED BY <2>2, LoopsOfOneFlow
<1> QED BY <1>1, FlowInvariant, PTL
=============================================================================
