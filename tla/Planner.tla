------------------------------ MODULE Planner ------------------------------
(***************************************************************************)
(* LinearWorkflowPlanner.order_nodes (app/runtime/native/planner.py): the  *)
(* order in which the native engine visits the nodes of a workflow.  A     *)
(* graph w has edges (w.edges) and an entrypoint (w.entry).                *)
(***************************************************************************)
EXTENDS Naturals, Sequences, SequencesExt, FiniteSets

CONSTANTS
  Nodes,      \* node ids
  NodeOrder   \* workflow.nodes, a sequence of Nodes

EdgeType == {"success", "failure"}  \* DEFAULT, HANDOFF, APPROVAL: success
Edge == [from : Nodes, to : Nodes, type : EdgeType]

Incoming(w, n) == {e \in w.edges : e.to = n}
Leaving(w, n) == {e \in w.edges : e.from = n}

\* The graphs considered: any edges without a cycle, and an entrypoint that
\* is a root.  The validator does not ask for either.
Graphs ==
  {g \in [edges : SUBSET {e \in Edge : e.from # e.to}, entry : Nodes] :
     /\ Incoming(g, g.entry) = {}
     /\ \A S \in (SUBSET Nodes) \ {{}} :
          \E n \in S : \A e \in Incoming(g, n) : e.from \notin S}

ASSUME PlannerAssumption ==
  /\ NodeOrder \in Seq(Nodes)
  /\ \A n \in Nodes : \E i \in DOMAIN NodeOrder : NodeOrder[i] = n
  /\ Len(NodeOrder) = Cardinality(Nodes)

\* The nodes of T in the order of workflow.nodes, from its first i nodes.
Lists(T) ==
  LET list[i \in 0..Len(NodeOrder)] ==
        IF i = 0 THEN << >>
        ELSE IF NodeOrder[i] \in T THEN Append(list[i - 1], NodeOrder[i])
        ELSE list[i - 1]
  IN  list
Listed(T) == Lists(T)[Len(NodeOrder)]

\* outgoing[n]; the definition lists its edges in some order.
Outgoing(w, n) == SetToSeq(Leaving(w, n))

\* The queue starts with the entrypoint and the nodes nothing points at.
Queued(w) ==
  <<w.entry>> \o Listed({n \in Nodes \ {w.entry} : Incoming(w, n) = {}})

\* Mutant: a target is queued as soon as one of its sources is planned.
EagerRelease(degree, t) == TRUE

\* A target joins the queue when its last incoming edge has been walked.
Released(degree, t) == degree[t] <= 0

\* An edge to t is walked; d is the queue and the degrees.
Reduced(d, t) ==
  LET degree == [d.degree EXCEPT ![t] = @ - 1]
  IN  [degree |-> degree,
       queue |-> IF Released(degree, t) THEN Append(d.queue, t) ELSE d.queue]

\* The edges of n are walked, one by one.
EdgeWalks(w, n, d) ==
  LET out == Outgoing(w, n)
      walk[i \in 0..Len(out)] ==
        IF i = 0 THEN d ELSE Reduced(walk[i - 1], out[i].to)
  IN  walk

\* One turn of the loop: take the first of the queue, unless seen before.
Turn(w, s) ==
  LET n == Head(s.queue)
      popped == [queue |-> Tail(s.queue), degree |-> s.degree]
      walked == EdgeWalks(w, n, popped)[Len(Outgoing(w, n))]
  IN  IF n \in ToSet(s.ordered)
      THEN [s EXCEPT !.queue = Tail(@)]
      ELSE [queue |-> walked.queue, degree |-> walked.degree,
            ordered |-> Append(s.ordered, n)]

Start(w) ==
  [queue |-> Queued(w), ordered |-> << >>,
   degree |-> [n \in Nodes |-> Cardinality(Incoming(w, n))]]

\* The loop, until the queue is empty: a turn takes one entry, and only an
\* edge or the start puts one in.
TurnBound(w) == Cardinality(w.edges) + Cardinality(Nodes)
Turns(w) ==
  LET turn[k \in 0..TurnBound(w)] ==
        IF k = 0 THEN Start(w)
        ELSE IF turn[k - 1].queue = << >> THEN turn[k - 1]
        ELSE Turn(w, turn[k - 1])
  IN  turn

\* The nodes the loop has not reached follow in the order they are listed.
Order(w) ==
  LET done == Turns(w)[TurnBound(w)].ordered
  IN  done \o Listed(Nodes \ ToSet(done))

-----------------------------------------------------------------------------
\* Every node once, and after all the nodes its incoming edges come from.
Topological(g, plan) ==
  /\ plan \in Seq(Nodes) /\ Len(plan) = Len(NodeOrder)
  /\ \A n \in Nodes : \E i \in DOMAIN plan : plan[i] = n
  /\ \A i, j \in DOMAIN plan : plan[i] = plan[j] => i = j
  /\ \A e \in g.edges, i, j \in DOMAIN plan :
       plan[i] = e.from /\ plan[j] = e.to => i < j
=============================================================================
