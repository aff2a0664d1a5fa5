--------------------------- MODULE MCNativeEngine ---------------------------
(* Small workflows for TLC: three nodes, n1 the entrypoint. *)
EXTENDS NativeEngine

CONSTANTS n1, n2, n3

MCNodeOrder == <<n1, n2, n3>>

E(a, b, types) == {[from |-> a, to |-> b, type |-> t] : t \in types}

\* Acyclic graphs with n1 as a root, in which n3 or n2 comes last.
Shapes3 == {E(n1, n2, a) \cup E(n1, n3, b) \cup c :
             a \in {{"success"}, {"failure"}},
             b \in {{"success"}, EdgeType},
             c \in {E(n2, n3, {"success"}), E(n2, n3, {"failure"}),
                   E(n3, n2, {"success"})}}

\* Two roots that meet.
Join == E(n1, n3, {"success"}) \cup E(n2, n3, {"failure"})

\* Two ends, both reached when the entrypoint succeeds.
Fork == E(n1, n2, {"success"}) \cup E(n1, n3, {"success"})

\* A task, its repair along a failure edge, and a successor of both.
Branch == E(n1, n2, {"success"}) \cup E(n1, n3, {"failure"})
            \cup E(n2, n3, {"success"})

Chain == E(n1, n2, {"success"}) \cup E(n2, n3, {"success"})

Once == [enabled |-> FALSE, maxCycles |-> 0, maxFailures |-> 1, maxSame |-> 0,
         deadline |-> FALSE]
Monitor == [Once EXCEPT !.enabled = TRUE, !.maxFailures = 2]

Flow(edges, policy, mode, cycle) ==
  [edges |-> edges, entry |-> n1, policy |-> policy, mode |-> mode,
   cycle |-> cycle, delegate |-> FALSE, approvals |-> {},
   cond |-> [e \in edges |-> {}]]

Free == [n \in Nodes |-> "none"]
Gated == [Free EXCEPT ![n2] = "required", ![n3] = "on_failure"]
GatedEntry == [Free EXCEPT ![n1] = "required"]
GatedSecond == [Free EXCEPT ![n2] = "required"]

Delegating(w) == [w EXCEPT !.delegate = TRUE]

\* w with approval nodes, and with a condition on the edges that leave n1
Approving(w, nodes) == [w EXCEPT !.approvals = nodes]
Conditional(w, words) ==
  [w EXCEPT !.cond = [e \in w.edges |-> IF e.from = n1 THEN words ELSE {}]]

MCWorkflows ==
  {Flow(g, Free, "task_policy", Once) : g \in Shapes3 \cup {Join, Fork}}
    \cup {Flow(Branch, Gated, "task_policy", Once),
          Flow(Chain, Free, "before_run", Once),
          Flow(Chain, Free, "all_tasks", Once),
          Approving(Flow(Chain, Free, "task_policy", Once), {n2}),
          Approving(Flow(Fork, Free, "task_policy", Once), {n3}),
          Conditional(Flow(Fork, Free, "task_policy", Once), Signals),
          Delegating(Flow(Chain, GatedSecond, "task_policy", Once)),
          Flow(Chain, GatedEntry, "task_policy",
               [Monitor EXCEPT !.maxCycles = 2]),
          Flow(Chain, Free, "task_policy", [Monitor EXCEPT !.maxSame = 1,
                                                           !.deadline = TRUE])}

MCMonitors == {Flow(Chain, Free, "task_policy", Monitor)}
=============================================================================
