----------------------------- MODULE FlowGraph -----------------------------
(***************************************************************************)
(* The workflow graph and its activation bookkeeping, shared by the two    *)
(* hosts of the workflow kernel: the in-session flow coordinator           *)
(* (src/src/workflow/core) and the wdl engine (src/wdl/src/wdl/core, the   *)
(* same code).  A node is a number, so that the order of identifiers the   *)
(* code sorts by is the order of numbers.  An edge is a record; the queue  *)
(* of texts that arrived over an edge is the number of them.               *)
(***************************************************************************)
EXTENDS Naturals, Sequences, FiniteSets, SequencesExt

CONSTANT Node                   \* the identifiers of nodes, numbers
ASSUME NodeAssumption == Node \subseteq Nat /\ IsFiniteSet(Node)

Edge == [frm : Node, to : Node, on : {"success", "error"}]

InEdges(edges, n)  == {e \in edges : e.to = n}
OutEdges(edges, n) == {e \in edges : e.frm = n}

\* The nodes nothing points at.
Sources(order, edges) == {n \in ToSet(order) : InEdges(edges, n) = {}}

\* sorted((to, on)): "error" comes before "success".
Before(e, f) == e.to < f.to \/ (e.to = f.to /\ e.on = "error" /\ f.on = "success")

\* One turn of the depth-first search.  Colours: 0 unseen, 1 on the stack,
\* 2 left.  With the stack empty the next unseen source, in the order in
\* which the nodes were added, becomes its root.
Search(order, edges, s) ==
  IF s.stack = <<>>
  THEN LET roots == {i \in DOMAIN order : /\ order[i] \in Sources(order, edges)
                                          /\ s.color[order[i]] = 0}
       IN  IF roots = {} THEN s
           ELSE [s EXCEPT !.stack = <<order[Min(roots)]>>, !.color[order[Min(roots)]] = 1]
  ELSE LET n == Last(s.stack)
           rest == OutEdges(edges, n) \ s.seen
       IN  IF rest = {} \/ n \notin ToSet(order)
           THEN [s EXCEPT !.stack = Front(@), !.color[n] = 2]
           ELSE LET e == CHOOSE e \in rest : \A f \in rest \ {e} : Before(e, f)
                IN  [s EXCEPT !.seen = @ \cup {e},
                              !.back = IF s.color[e.to] = 1 THEN @ \cup {e} ELSE @,
                              !.stack = IF s.color[e.to] = 0 THEN Append(@, e.to) ELSE @,
                              !.color[e.to] = IF @ = 0 THEN 1 ELSE @]

\* Mutant: only error edges are kick.
KickEdgesErrorOnly(order, edges) == {e \in edges : e.on = "error"}

\* classify_edges: error edges and the edges that close a loop are "kick".
KickEdges(order, edges) ==
  LET turns == 2 * Cardinality(Node) + Cardinality(edges)
      search[i \in 0..turns] ==
        IF i = 0 THEN [stack |-> <<>>, color |-> [n \in Node |-> 0], seen |-> {}, back |-> {}]
                 ELSE Search(order, edges, search[i - 1])
  IN  {e \in edges : e.on = "error" \/ e \in search[turns].back}

-----------------------------------------------------------------------------
(* ActivationEngine.  An engine is the part [order, edges, kick, q, act]   *)
(* of a flow record f.                                                      *)

\* The edges a first activation waits for.
Required(f, n) == {e \in InEdges(f.edges, n) : e \notin f.kick /\ e.on = "success"}

\* Mutant: the cap is one activation too late.
CanActivateOnceMore(f, n, cap) == f.act[n] <= cap

CanActivate(f, n, cap) == f.act[n] < cap

Ready(f, n, cap) ==
  /\ n \in ToSet(f.order)
  /\ CanActivate(f, n, cap)
  /\ IF f.act[n] = 0 THEN \A e \in Required(f, n) : f.q[e] > 0
                     ELSE \E e \in InEdges(f.edges, n) : f.q[e] > 0

\* One activation of every node in S, in whatever order: counted, and one
\* arrival taken from every in-edge that has any.
Consume(f, S) ==
  [f EXCEPT !.act = [n \in Node |-> IF n \in S THEN @[n] + 1 ELSE @[n]],
            !.q = [e \in DOMAIN @ |-> IF e \in f.edges /\ e.to \in S /\ @[e] > 0
                                      THEN @[e] - 1 ELSE @[e]]]

RecordArrivals(f, arrived) ==
  [f EXCEPT !.q = [e \in DOMAIN @ |-> IF e \in arrived THEN @[e] + 1 ELSE @[e]]]

DropArrivals(f, keys) ==
  [f EXCEPT !.q = [e \in DOMAIN @ |-> IF e \in keys THEN 0 ELSE @[e]]]

Refresh(f) == [f EXCEPT !.kick = KickEdges(f.order, f.edges)]
=============================================================================
