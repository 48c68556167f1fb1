-------------------------- MODULE FlowCoordinator --------------------------
(***************************************************************************)
(* The in-session host of the workflow kernel                              *)
(* (src/src/coara/flow_coordinator.py).  Node tasks, the orchestrator      *)
(* tool's calls, /new and the draft editor interleave at the awaits: a     *)
(* task is "body" from create_task to the end of process_message,          *)
(* "shutdown" while it awaits the shutdown of its sub-agent, its status    *)
(* already terminal, and "over" afterwards.                                *)
(*                                                                         *)
(* A flow object is a record and flows a sequence of them: `cur` is the    *)
(* one registered under the flow's name (0: none); the others were         *)
(* replaced by load, rebuild_from_projection or released by reset, and     *)
(* their tasks may still be running.  Cancellation only shortens the life  *)
(* of a task of a flow no longer registered, whose end has no effect, and  *)
(* is not modelled.                                                        *)
(***************************************************************************)
EXTENDS FlowGraph

CONSTANTS
  Templates,    \* the graphs the first flow is woven from: [order, edges, one,
                \* spawned], woven node by node or loaded as a whole
  LaterTemplates, \* those of the flows that follow it
  Cap,          \* max_activations of a node
  MaxHops,      \* max_activations of the graph, the bound of f.hops
  MaxFlows,     \* bound on the flow objects created
  MaxSpawns,    \* bound on the spawn_node calls in flight
  MaxOps        \* bound on reruns, resumes, edits and /new

ASSUME TemplatesAreGraphs ==
  Templates \cup LaterTemplates
    \subseteq [order : Seq(Node), edges : SUBSET Edge, one : SUBSET Node, spawned : BOOLEAN]
ASSUME BoundsAssumption ==
  Cap \in Nat /\ MaxHops \in Nat /\ MaxFlows \in Nat /\ MaxSpawns \in Nat /\ MaxOps \in Nat

VARIABLES
  flows,        \* the flow objects, oldest first
  cur,          \* index of the flow registered in _flows, or 0
  epoch,        \* _epoch, the generation /new increments
  waiting,      \* the flow whose done event a wait() call awaits, or 0
  building,     \* spawn_node calls awaiting _build_subagent: [flow, node, auto]
  relight,      \* a rerun or resume has reset its nodes and not yet called run()
  ops,          \* number of bounded operations performed
  replaced      \* history: the flows whose name load took, and released nobody

vars == <<flows, cur, epoch, waiting, building, relight, ops, replaced>>

\* A task, from its launch until it is over and has no callback to run.
Task == [epoch : 0..MaxOps, phase : {"body", "shutdown", "over"}, callback : -1..MaxOps]
Alive(t) == t.phase \in {"body", "shutdown"}

Status == {"none", "pending", "running", "done", "failed"}

TypeOK ==
  /\ cur \in 0..Len(flows) /\ waiting \in 0..Len(flows) /\ replaced \subseteq 1..MaxFlows
  /\ Len(flows) <= MaxFlows
  /\ epoch \in 0..MaxOps /\ ops \in 0..MaxOps /\ relight \in BOOLEAN
  /\ building \subseteq [flow : 1..Len(flows), node : Node, auto : BOOLEAN]
  /\ \A g \in DOMAIN flows :
       LET f == flows[g] IN
       /\ f.tmpl \in Templates \cup LaterTemplates
       /\ f.order \in Seq(Node) /\ f.edges \subseteq f.tmpl.edges /\ f.kick \subseteq f.edges
       /\ f.q \in [f.tmpl.edges -> Nat]
       /\ f.act \in [Node -> 0..Cap] /\ f.status \in [Node -> Status]
       /\ f.hint \in [Node -> {0} \cup Node] /\ f.result \in [Node -> BOOLEAN]
       /\ f.tasks \in [Node -> Seq(Task)] /\ f.held \subseteq Node /\ f.parked \subseteq Node
       /\ f.hops \in Nat /\ f.done \in BOOLEAN /\ f.born \in 0..MaxOps

-----------------------------------------------------------------------------
(* Helpers on one flow record                                               *)

Nodes(f) == ToSet(f.order)
IsReady(f, n) == Ready(f, n, Cap)
Running(f) == \E n \in Node : f.status[n] = "running"
Terminal(f, n) == f.status[n] \in {"none", "done", "failed"}
Quiet(f) == \A n \in Node : f.tasks[n] = <<>>
AllTerminal(f) == \A n \in Nodes(f) : Terminal(f, n)

\* A flow object as Flow() makes it; nothing is woven yet.
NewFlow(t, e) ==
  [tmpl |-> t, order |-> <<>>, edges |-> {}, kick |-> {}, one |-> t.one,
   q |-> [x \in t.edges |-> 0], act |-> [n \in Node |-> 0],
   status |-> [n \in Node |-> "none"], hint |-> [n \in Node |-> 0],
   result |-> [n \in Node |-> FALSE], tasks |-> [n \in Node |-> <<>>], held |-> {}, hops |-> 0, done |-> FALSE, born |-> e, parked |-> {}]

\* History: the nodes an edit of the graph, and no arrival, made ready.
Edited(f, g) ==
  [g EXCEPT !.parked = @ \cup {n \in Node : IsReady(g, n) /\ ~IsReady(f, n)}]

\* load and rebuild_from_projection: the whole graph, no node states.
Loaded(t, e) ==
  LET f == NewFlow(t, e)
  IN  Edited(f, Refresh([f EXCEPT !.order = t.order, !.edges = t.edges]))

\* _launch of the nodes in S, all of them ready: the tasks are created with
\* the present epoch, and running_task is overwritten.
Launch(f, S) ==
  [Consume(f, S) EXCEPT
     !.status = [n \in Node |-> IF n \in S THEN "running" ELSE @[n]],
     !.hint = [n \in Node |-> IF n \in S THEN 0 ELSE @[n]],
     !.tasks = [n \in Node |-> IF n \in S
                               THEN Append(@[n], [epoch |-> epoch, phase |-> "body", callback |-> -1])
                               ELSE @[n]],
     !.held = @ \cup S, !.parked = @ \ S]

\* Task i of node n is done: its callback is still to run, or it is gone.
Over(f, n, i) ==
  IF f.tasks[n][i].callback # -1 THEN [f EXCEPT !.tasks[n][i].phase = "over"]
  ELSE [f EXCEPT !.tasks[n] = RemoveAt(@, i),
                 !.held = IF i = Len(f.tasks[n]) THEN @ \ {n} ELSE @]

\* run(): every ready node that is not running.
Lit(f) == Launch(f, {n \in Nodes(f) : f.status[n] # "running" /\ IsReady(f, n)})

\* running_task, the newest task of a node in held, is not done.
TaskAlive(f, n) == n \in f.held /\ f.tasks[n] # <<>> /\ Alive(Last(f.tasks[n]))

\* _maybe_start of the nodes in S: a task still in its shutdown gets a done
\* callback that tries again, with the epoch of now.
MaybeStart(f, S) ==
  LET idle == {n \in S : f.status[n] \notin {"none", "running"}}
      busy == {n \in idle : TaskAlive(f, n)}
      told == [f EXCEPT !.tasks = [n \in Node |->
                 IF n \in busy THEN [f.tasks[n] EXCEPT ![Len(f.tasks[n])].callback = epoch]
                               ELSE @[n]]]
  IN  Launch(told, {n \in idle \ busy : IsReady(f, n)})

\* Mutant: what is ready by now is not looked for.
CheckCompleteNoCascade(f) ==
  IF Running(f) THEN f ELSE [f EXCEPT !.done = @ \/ (Nodes(f) # {} /\ AllTerminal(f))]

\* _check_complete: with nothing running, what is ready is started; with
\* nothing left to wait for, _finish sets the done event.
CheckComplete(f) ==
  IF Running(f) THEN f
  ELSE LET g == Lit(f) IN [g EXCEPT !.done = @ \/ (Nodes(g) # {} /\ AllTerminal(g))]

FailPending(f) ==
  LET lost == {n \in Nodes(f) : f.status[n] = "pending"}
  IN  [f EXCEPT !.status = [n \in Node |-> IF n \in lost THEN "failed" ELSE @[n]],
                !.result = [n \in Node |-> @[n] \/ n \in lost]]

\* The edges over which a node that ended delivers.
Chosen(f, n) ==
  LET out == OutEdges(f.edges, n) IN
  IF f.status[n] = "failed" THEN {e \in out : e.on = "error"}
  ELSE IF n \in f.one THEN {e \in out : e.on = "success" /\ e.to = f.hint[n]}
  ELSE {e \in out : e.on = "success"}

\* _on_node_done, past its two guards.
NodeDone(f, n) ==
  LET h == [f EXCEPT !.hops = @ + 1] IN
  IF h.hops > MaxHops THEN [FailPending(h) EXCEPT !.done = TRUE]
  ELSE IF n \notin Nodes(h) THEN CheckComplete(h)
  ELSE LET woken == {e.to : e \in Chosen(h, n)} \cap Nodes(h)
       IN  CheckComplete(MaybeStart(RecordArrivals(h, Chosen(h, n)), woken))

\* Mutant: whoever ends delivers.
OnNodeDoneUnguarded(g, f, n, i) == NodeDone(f, n)

\* The guards of _on_node_done: a task of an older generation, or of a flow
\* no longer registered, changes nothing.
OnNodeDone(g, f, n, i) ==
  IF f.tasks[n][i].epoch # epoch \/ cur # g THEN f ELSE NodeDone(f, n)

-----------------------------------------------------------------------------
(* Node tasks                                                               *)

Init ==
  /\ flows = <<>> /\ cur = 0 /\ epoch = 0 /\ waiting = 0
  /\ building = {} /\ relight = FALSE /\ ops = 0 /\ replaced = {}

\* The result of a node is known: its task has the shutdown before it.
Ended(f, n, i, s, h) ==
  [f EXCEPT !.status[n] = s, !.result[n] = TRUE, !.hint[n] = IF s = "done" THEN h ELSE @,
            !.tasks[n][i].phase = "shutdown"]

\* process_message ends: the status is written, then shutdown is awaited.
BodyEnds(g, n, i) ==
  LET f == flows[g] IN
  /\ f.tasks[n][i].phase = "body"
  /\ \E s \in {"done", "failed"}, h \in IF n \in f.one THEN {0} \cup Node ELSE {0} :
       flows' = [flows EXCEPT ![g] = Ended(f, n, i, s, h)]
  /\ UNCHANGED <<cur, epoch, waiting, building, relight, ops, replaced>>

\* The sub-agent could not be built: no shutdown, the end follows at once.
BuildFails(g, n, i) ==
  LET f == flows[g] IN
  /\ f.tasks[n][i].phase = "body"
  /\ flows' = [flows EXCEPT ![g] = Over(OnNodeDone(g, Ended(f, n, i, "failed", 0), n, i), n, i)]
  /\ UNCHANGED <<cur, epoch, waiting, building, relight, ops, replaced>>

\* The shutdown returned: the end of the finally clause.  The task counts
\* as alive while it runs _on_node_done.
TaskEnds(g, n, i) ==
  LET f == flows[g] IN
  /\ f.tasks[n][i].phase = "shutdown"
  /\ flows' = [flows EXCEPT ![g] = Over(OnNodeDone(g, f, n, i), n, i)]
  /\ UNCHANGED <<cur, epoch, waiting, building, relight, ops, replaced>>

\* The done callback _maybe_start left on a task: it compares epochs first.
Callback(g, n, i) ==
  LET f == flows[g]
      rest == Over([f EXCEPT !.tasks[n][i].callback = -1], n, i) IN
  /\ f.tasks[n][i].phase = "over"
  /\ flows' = [flows EXCEPT ![g] = IF f.tasks[n][i].callback # epoch THEN rest
                                   ELSE MaybeStart(rest, {n})]
  /\ UNCHANGED <<cur, epoch, waiting, building, relight, ops, replaced>>

TaskStep(g, n, i) ==
  BodyEnds(g, n, i) \/ BuildFails(g, n, i) \/ TaskEnds(g, n, i) \/ Callback(g, n, i)

-----------------------------------------------------------------------------
(* Weaving: spawn_node, load, edits                                         *)

\* The graphs a new flow object may get.
Allowed == IF flows = <<>> THEN Templates ELSE LaterTemplates

\* Up to its await, spawn_node has fetched or created the flow object.  The
\* calls of one answer run concurrently, also for one and the same node.
SpawnBegins(t, n, auto) ==
  /\ Cardinality(building) < MaxSpawns /\ t.spawned /\ n \in ToSet(t.order)
  /\ \/ /\ cur = 0 /\ Len(flows) < MaxFlows /\ t \in Allowed
        /\ flows' = Append(flows, NewFlow(t, epoch)) /\ cur' = Len(flows) + 1
     \/ /\ cur # 0 /\ t = flows[cur].tmpl /\ n \notin Nodes(flows[cur])
        /\ UNCHANGED <<flows, cur>>
  /\ building' = building \cup {[flow |-> cur', node |-> n, auto |-> auto]}
  /\ UNCHANGED <<epoch, waiting, relight, ops, replaced>>

\* The sub-agent is built: the node and its edges enter the object fetched
\* before the await, registered or not.
SpawnEnds(b) ==
  LET f == flows[b.flow]
      woven == Refresh([f EXCEPT !.order = Append(@, b.node),
                                 !.edges = @ \cup {e \in f.tmpl.edges : b.node \in {e.frm, e.to}},
                                 !.status[b.node] = "pending"])
  IN
  /\ b \in building /\ building' = building \ {b}
  /\ b.node \notin Nodes(f)
  /\ flows' = [flows EXCEPT ![b.flow] =
                 IF b.auto THEN MaybeStart(Edited(f, woven), {b.node}) ELSE Edited(f, woven)]
  /\ UNCHANGED <<cur, epoch, waiting, relight, ops, replaced>>

\* The sub-agent cannot be built, or add_node refuses a node that another
\* call added meanwhile: the exception ends the call, the graph is untouched.
SpawnFails(b) ==
  /\ b \in building /\ building' = building \ {b}
  /\ UNCHANGED <<flows, cur, epoch, waiting, relight, ops, replaced>>

\* load replaces the registered object and tells nobody.
Load(t) ==
  /\ Len(flows) < MaxFlows /\ t \in Allowed /\ (t.spawned => flows # <<>>)
  /\ flows' = Append(flows, Loaded(t, epoch)) /\ cur' = Len(flows) + 1
  /\ replaced' = replaced \cup ({cur} \ {0})
  /\ UNCHANGED <<epoch, waiting, building, relight, ops>>

\* rebuild_from_projection (a draft edited in the canvas) releases the
\* waiters of the object it replaces.
Rebuild(t) ==
  /\ cur # 0 /\ Len(flows) < MaxFlows /\ t \in Allowed
  /\ flows' = Append([flows EXCEPT ![cur].done = TRUE], Loaded(t, epoch))
  /\ cur' = Len(flows) + 1
  /\ UNCHANGED <<epoch, waiting, building, relight, ops, replaced>>

\* add_flow_edge and remove_flow_edge; the arrivals of a removed edge stay.
EditEdge(e) ==
  LET f == flows[cur] IN
  /\ cur # 0 /\ ops < MaxOps /\ ops' = ops + 1
  /\ \/ e \in f.edges /\ flows' = [flows EXCEPT ![cur] =
                                     Edited(f, Refresh([f EXCEPT !.edges = @ \ {e}]))]
     \/ /\ e \in f.tmpl.edges \ f.edges /\ {e.frm, e.to} \subseteq Nodes(f)
        /\ flows' = [flows EXCEPT ![cur] = Edited(f, Refresh([f EXCEPT !.edges = @ \cup {e}]))]
  /\ UNCHANGED <<cur, epoch, waiting, building, relight, replaced>>

\* remove_flow_node: only a node that was never activated.
RemoveNode(n) ==
  LET f == flows[cur]
      place == CHOOSE i \in DOMAIN f.order : f.order[i] = n
      rest == [f EXCEPT !.order = RemoveAt(@, place),
                        !.edges = {e \in @ : n \notin {e.frm, e.to}},
                        !.status[n] = "none", !.result[n] = FALSE,
                        !.hint[n] = 0, !.held = @ \ {n}] IN
  /\ cur # 0 /\ ops < MaxOps /\ ops' = ops + 1
  /\ n \in Nodes(f) /\ f.act[n] = 0
  /\ flows' = [flows EXCEPT ![cur] = Edited(f, Refresh(rest))]
  /\ UNCHANGED <<cur, epoch, waiting, building, relight, replaced>>

-----------------------------------------------------------------------------
(* Running, waiting, resetting                                              *)

Run ==
  /\ cur # 0
  /\ flows' = [flows EXCEPT ![cur] = Lit(@)]
  /\ UNCHANGED <<cur, epoch, waiting, building, relight, ops, replaced>>

\* reset_flow_nodes: the nodes pending again, their arrivals dropped, the
\* latest result of every upstream outside S delivered anew.
ResetNodes(f, S) ==
  LET kick == KickEdges(f.order, f.edges)
      clean == DropArrivals([f EXCEPT
                 !.status = [n \in Node |-> IF n \in S THEN "pending" ELSE @[n]],
                 !.act    = [n \in Node |-> IF n \in S THEN 0 ELSE @[n]],
                 !.result = [n \in Node |-> @[n] /\ n \notin S],
                 !.hint   = [n \in Node |-> IF n \in S THEN 0 ELSE @[n]]],
                 {e \in f.edges : e.to \in S})
  IN  RecordArrivals(clean, {e \in f.edges \ kick : /\ e.to \in S /\ e.on = "success"
                                                    /\ e.frm \notin S /\ f.result[e.frm]})

\* Everything downstream of a set of nodes, the set included.
Downstream(f, S) ==
  LET grow(T, i) == T \cup {e.to : e \in {x \in f.edges : x.frm \in T}}
  IN  FoldLeft(grow, S, [i \in 1..Cardinality(Node) |-> i]) \cap Nodes(f)

ResetAndRelight(S) ==
  /\ cur # 0 /\ S # {} /\ ops < MaxOps /\ ops' = ops + 1
  /\ ~relight /\ relight' = TRUE
  /\ \A n \in S : flows[cur].status[n] # "running"
  /\ flows' = [flows EXCEPT ![cur] = Edited(@, ResetNodes(@, S))]
  /\ UNCHANGED <<cur, epoch, waiting, building, replaced>>

\* rerun_node, alone or with cascade, up to the await of the shutdowns.
Rerun(n, cascade) ==
  /\ cur # 0 /\ n \in Nodes(flows[cur])
  /\ ResetAndRelight(IF cascade THEN Downstream(flows[cur], {n}) ELSE {n})

\* resume_flow: the failed nodes with everything downstream.
Resume ==
  /\ cur # 0
  /\ ResetAndRelight(LET f == flows[cur] IN
                     Downstream(f, {n \in Nodes(f) : f.status[n] = "failed"}))

\* The run() that ends rerun_node and resume_flow, on what is registered by
\* then.
Relight ==
  /\ relight /\ relight' = FALSE
  /\ flows' = IF cur = 0 THEN flows ELSE [flows EXCEPT ![cur] = Lit(@)]
  /\ UNCHANGED <<cur, epoch, waiting, building, ops, replaced>>

\* The part of wait() before its await: nodes whose upstream was never
\* spawned fail, dangling edges go, and with nothing running whatever is
\* pending fails, unless nothing was ever started.
Swept(f) ==
  LET orphans == {n \in Nodes(f) : /\ f.status[n] = "pending"
                                   /\ \E e \in InEdges(f.edges, n) : e.frm \notin Nodes(f)}
      failed == [f EXCEPT !.status = [n \in Node |-> IF n \in orphans THEN "failed" ELSE @[n]],
                          !.result = [n \in Node |-> @[n] \/ n \in orphans]]
      dangling == {e \in f.edges : ~({e.frm, e.to} \subseteq Nodes(f))}
  IN  IF dangling = {} THEN failed
      ELSE DropArrivals(Refresh([failed EXCEPT !.edges = @ \ dangling]), dangling)

NotLit(f) ==
  /\ \E n \in Nodes(f) : f.status[n] = "none" \/ (f.status[n] = "pending" /\ IsReady(f, n))
  /\ \A n \in Node : f.act[n] = 0

Wait ==
  LET f == flows[cur]
      s == Edited(f, Swept(f))
      w == IF Running(s) \/ NotLit(s) THEN s ELSE FailPending(s)
      returns == \/ ~Running(s) /\ NotLit(s)
                 \/ AllTerminal(w)
                 \/ w.done
  IN
  /\ cur # 0 /\ waiting = 0 /\ Nodes(f) # {}
  /\ flows' = [flows EXCEPT ![cur] = w]
  /\ waiting' = IF returns THEN 0 ELSE cur
  /\ UNCHANGED <<cur, epoch, building, relight, ops, replaced>>

WaitReturns ==
  /\ waiting # 0 /\ flows[waiting].done /\ waiting' = 0
  /\ UNCHANGED <<flows, cur, epoch, building, relight, ops, replaced>>

\* Mutant: /new does not release whoever waits.
ResetKeepsWaiters ==
  /\ ops < MaxOps /\ ops' = ops + 1
  /\ epoch' = epoch + 1 /\ cur' = 0
  /\ UNCHANGED <<flows, waiting, building, relight, replaced>>

\* reset(), called by /new: a new generation, the flow released.
Reset ==
  /\ ops < MaxOps /\ ops' = ops + 1
  /\ epoch' = epoch + 1 /\ cur' = 0
  /\ flows' = IF cur = 0 THEN flows ELSE [flows EXCEPT ![cur].done = TRUE]
  /\ UNCHANGED <<waiting, building, relight, replaced>>

-----------------------------------------------------------------------------
Tool ==
  \/ \E t \in Templates \cup LaterTemplates, n \in Node, auto \in BOOLEAN : SpawnBegins(t, n, auto)
  \/ \E b \in building : SpawnEnds(b) \/ SpawnFails(b)
  \/ \E t \in Templates \cup LaterTemplates : Load(t) \/ Rebuild(t)
  \/ cur # 0 /\ \E e \in flows[cur].tmpl.edges : EditEdge(e)
  \/ \E n \in Node : RemoveNode(n) \/ \E c \in BOOLEAN : Rerun(n, c)
  \/ Run \/ Resume \/ Relight \/ Wait \/ WaitReturns \/ Reset

SomeTask ==
  \E g \in DOMAIN flows, n \in Node : \E i \in DOMAIN flows[g].tasks[n] : TaskStep(g, n, i)

Next == Tool \/ SomeTask

\* A sub-agent answers or fails in bounded time (its tool rounds are
\* limited and the providers time out), shutdown returns, and the event loop
\* runs callbacks and wakes the waiter of a set event.  That some task moves
\* is enough: each makes three steps at most.  Every task that is there can
\* move, so the second conjunct is WF_vars(SomeTask) with ENABLED spelt out,
\* which TLC evaluates far faster.
Fairness ==
  /\ WF_vars(WaitReturns)
  /\ \/ []<>(\A g \in DOMAIN flows : Quiet(flows[g]))
     \/ []<><<SomeTask>>_vars

Spec == Init /\ [][Next]_vars
FairSpec == Spec /\ Fairness

-----------------------------------------------------------------------------
(* No lost wake-up.  Arrivals that come while their target is running or   *)
(* in its shutdown leave no trace but the queue (_maybe_start returns), so *)
(* whoever ends last must find them: once no task of the registered flow   *)
(* is left, a node that is ready is one that an edit, a reset or a load    *)
(* made ready, never one that a result reached.                            *)
NoStrandedWork ==
  (cur # 0 /\ ~relight /\ Quiet(flows[cur]) /\ flows[cur].hops <= MaxHops)
    => \A n \in Nodes(flows[cur]) : IsReady(flows[cur], n) => n \in flows[cur].parked

\* The nodes the search reaches: the least set that holds the sources and
\* whatever an edge of a node that is there points to.  A node named by an
\* edge and not spawned yet is reached, and what lies behind it is not.
Closed(f, C) == \A e \in f.edges : e.frm \in C \cap Nodes(f) => e.to \in C
Reached(f) ==
  {n \in Node : \A C \in SUBSET Node :
     (Sources(f.order, f.edges) \subseteq C /\ Closed(f, C)) => n \in C}

(* classify_edges cuts every loop that can be entered: no set of nodes     *)
(* reachable from a source waits only for each other, whatever order the   *)
(* nodes were added in and however the graph was edited since.             *)
LoopsAreCut ==
  \A g \in DOMAIN flows : \A S \in SUBSET (Nodes(flows[g]) \cap Reached(flows[g])) :
    S = {} \/ \E n \in S : \A e \in Required(flows[g], n) : e.frm \notin S

(* After /new no node of the flow it released is started: not by a task    *)
(* that ends late, not by the callback such a task left.  (spawn_node with *)
(* auto_run writes into the object it fetched before its await: that one   *)
(* start is excepted.)                                                     *)
ReleasedStaysQuiet ==
  [][\A g \in DOMAIN flows :
       (flows[g].born < epoch /\ ~\E b \in building : b.flow = g /\ b.auto /\ b \notin building')
         => flows'[g].act = flows[g].act]_vars

\* load took the flow's name, or no task is left and a node still waits or
\* is missing (remove_flow_node does not look whether it was the last).
\* That /new or a rebuilt draft took the flow away is no excuse: both set
\* the event before.
Unmet(g) ==
  \/ g \in replaced
  \/ /\ Quiet(flows[g])
     /\ \E n \in ToSet(flows[g].tmpl.order) :
          n \notin Nodes(flows[g]) \/ flows[g].status[n] = "pending"

(* A call of wait returns, also when /new or a rebuilt draft takes its     *)
(* flow away: or the flow it waits for is one in which nothing runs any    *)
(* more and a node is still pending (or was removed, or not spawned yet),  *)
(* or one whose name load took without releasing anyone.                   *)
WaitEndsOrUnmet ==
  waiting # 0 ~> waiting = 0 \/ Unmet(waiting)
=============================================================================
