----------------------- MODULE NativeEngineWalkProofs -----------------------
(***************************************************************************)
(* What a walk leaves behind, for every acyclic workflow and every bound:  *)
(* the outcomes in each copy of the row are those of a walk that went up   *)
(* to some position of the plan (Walked), so what is reported completed    *)
(* took exactly the branches that match (CompletedWalkIsExact).            *)
(*                                                                         *)
(* That the plan is a topological order is theorem PlannerOrders.          *)
(***************************************************************************)
EXTENDS NativeEngineProofs, PlannerProofs

Size == Len(NodeOrder)
NodeAt(w, i) == Planned[w][i]

\* Reachable, LeadsToTask and Terminals, of a given workflow.
Reaches(w, n, outs) ==
  \/ Incoming(w, n) = {}
  \/ \E e \in Incoming(w, n) :
       /\ outs[e.from] # {} /\ e.type \in outs[e.from]
       /\ w.cond[e] = {} \/ w.cond[e] \cap outs[e.from] # {}
Leads(w, n) ==
  \A S \in SUBSET Nodes :
    (\A e \in w.edges : e.from = n \/ e.from \in S => e.to \in S)
      => S \ w.approvals # {}
Ends(w) == {n \in Nodes \ w.approvals : ~Leads(w, n)}

\* The outcomes of a walk before position k: nodes that were reachable have
\* one and the others have none.
ReachedTo(w, outs, k) ==
  \A i \in 1..Size :
    outs[NodeAt(w, i)] # {} <=> i < k /\ Reaches(w, NodeAt(w, i), outs)
Walked(w, outs) == \E k \in 1..(Size + 1) : ReachedTo(w, outs, k)
Exact(w, outs) == \A n \in Nodes : outs[n] # {} <=> Reaches(w, n, outs)

\* What a walk that has done the last tasks may have left: approval nodes that
\* no task comes after.
Settled(w, outs) ==
  \A n \in Nodes :
    Reaches(w, n, outs) => outs[n] # {} \/ (n \in w.approvals /\ ~Leads(w, n))

\* A copy of the row comes from a walk, and a completed one from a whole walk,
\* or from one that a repair has found to have done its tasks.
CopyWalked(w, r) ==
  /\ Walked(w, r.outs)
  /\ r.status = "completed" =>
       Settled(w, r.outs) /\ (~r.ckpt => Exact(w, r.outs))

Before == {"idle", "queued", "marked"}
OnTask == pc \in {"task", "retry"} \/ (pc \in AskStages /\ ask.tool # "workflow")

Copies ==
  /\ CopyWalked(wf, row) /\ CopyWalked(wf, own) /\ own.status # "completed"
  /\ Walked(wf, mem.outs)

\* Where the walk stands: what has an outcome lies before it, or further on
\* where an earlier run of the same cycle has been, and a node whose task or
\* approval is under way has none.
Position ==
  /\ at \in 1..(Size + 1)
  /\ pc \in Before => at = 1
  /\ pc \in AskStages \cup RunStages =>
       \E k \in at..(Size + 1) : ReachedTo(wf, mem.outs, k)
  /\ OnTask => /\ at <= Size /\ mem.outs[NodeAt(wf, at)] = {}
               /\ Reaches(wf, NodeAt(wf, at), mem.outs)

EngineWalked == Copies /\ Position

WalkInv == Shapes /\ wf \in Workflows /\ EngineWalked /\ CopyWalked(wf, cmd.snap)

-----------------------------------------------------------------------------
(* Plans and walks.                                                        *)

LEMMA SameReachable ==
  /\ \A n, outs : Reachable(n, outs) <=> Reaches(wf, n, outs)
  /\ \A n : LeadsToTask(n) <=> Leads(wf, n)
  /\ Terminals = Ends(wf)
  /\ Node = NodeAt(wf, at)
<1>1. \A n, outs : Reachable(n, outs) <=> Reaches(wf, n, outs)
  BY DEF Reachable, Reaches, Matches
<1>2. \A n : LeadsToTask(n) <=> Leads(wf, n)
  BY DEF LeadsToTask, Leads
<1> QED BY <1>1, <1>2 DEF Terminals, Ends, Node, NodeAt

\* The plan of a workflow is a topological order of its nodes.
LEMMA PlanFacts ==
  ASSUME NEW w \in Workflows
  PROVE  /\ Size \in Nat /\ Size >= 1
         /\ \A i \in 1..Size : NodeAt(w, i) \in Nodes
         /\ \A n \in Nodes : \E i \in 1..Size : NodeAt(w, i) = n
         /\ \A i, j \in 1..Size : NodeAt(w, i) = NodeAt(w, j) => i = j
         /\ \A e \in w.edges, i, j \in 1..Size :
              NodeAt(w, i) = e.from /\ NodeAt(w, j) = e.to => i < j
         /\ w.edges \subseteq Edge
<1> DEFINE plan == Order(GraphOf(w))
<1>1. GraphOf(w) \in Graphs
  BY EngineAssumption
<1>2. GraphOf(w).edges = w.edges /\ GraphOf(w).entry = w.entry
  BY DEF GraphOf
<1>3. w.edges \subseteq Edge /\ w.entry \in Nodes
  <2>1. GraphOf(w) \in [edges : SUBSET {e \in Edge : e.from # e.to}, entry : Nodes]
    BY <1>1 DEF Graphs
  <2> QED BY <1>2, <2>1
<1>4. \A i : NodeAt(w, i) = plan[i]
  BY DEF NodeAt, Planned
<1>5. Topological(GraphOf(w), plan)
  BY <1>1, PlannerOrders
<1> HIDE DEF plan
<1>6. Size \in Nat /\ DOMAIN plan = 1..Size
  BY <1>5, PlannerAssumption DEF Size, Topological
<1>7. Size >= 1
  BY <1>3, <1>5, <1>6 DEF Topological
<1> QED BY <1>2, <1>3, <1>4, <1>5, <1>6, <1>7 DEF Topological

\* Where no node has an outcome yet, the walk has not begun.
LEMMA NothingWalked ==
  ASSUME NEW w \in Workflows
  PROVE  ReachedTo(w, NoOuts, 1) /\ Walked(w, NoOuts)
<1>1. ReachedTo(w, NoOuts, 1)
  BY PlanFacts DEF ReachedTo, NoOuts
<1> QED BY <1>1, PlanFacts DEF Walked

\* Whether a node is reachable depends on earlier positions only.
LEMMA EarlierDecide ==
  ASSUME NEW w \in Workflows, NEW outs \in Outs,
         NEW p \in 1..Size, NEW v, NEW i \in 1..Size, i <= p
  PROVE  Reaches(w, NodeAt(w, i), [outs EXCEPT ![NodeAt(w, p)] = v])
           <=> Reaches(w, NodeAt(w, i), outs)
<1> DEFINE n == NodeAt(w, i)
           new == [outs EXCEPT ![NodeAt(w, p)] = v]
<1>1. ASSUME NEW e \in Incoming(w, n)
      PROVE  [outs EXCEPT ![NodeAt(w, p)] = v][e.from] = outs[e.from]
  <2>1. e \in w.edges /\ e.to = n
    BY <1>1 DEF Incoming
  <2>2. e.from \in Nodes
    BY <2>1, PlanFacts DEF Edge
  <2>3. PICK j \in 1..Size : NodeAt(w, j) = e.from
    BY <2>2, PlanFacts
  <2>4. j < i
    BY <2>1, <2>3, PlanFacts
  <2>5. NodeAt(w, p) # e.from
    BY <2>3, <2>4, PlanFacts
  <2> QED BY <2>2, <2>5 DEF Outs
<1>2. \A e \in Incoming(w, n) : new[e.from] = outs[e.from]
  BY <1>1
<1> HIDE DEF new
<1>3. Reaches(w, n, new) <=> Reaches(w, n, outs)
  BY <1>2 DEF Reaches
<1> QED BY <1>3 DEF new

\* A walk passes a node that has an outcome or is not reachable ...
LEMMA WalkPasses ==
  ASSUME NEW w \in Workflows, NEW outs, NEW p \in 1..Size,
         NEW k \in p..(Size + 1), ReachedTo(w, outs, k),
         outs[NodeAt(w, p)] # {} \/ ~Reaches(w, NodeAt(w, p), outs)
  PROVE  \E l \in (p + 1)..(Size + 1) : ReachedTo(w, outs, l)
<1>1. Size \in Nat
  BY PlanFacts
<1>2. CASE k > p
  BY <1>1, <1>2
<1>3. CASE k = p
  <2>1. ~Reaches(w, NodeAt(w, p), outs)
    BY <1>3 DEF ReachedTo
  <2>2. ReachedTo(w, outs, p + 1)
    BY <1>1, <1>3, <2>1 DEF ReachedTo
  <2> QED BY <1>1, <2>2
<1> QED BY <1>1, <1>2, <1>3

\* ... and stands at any other node it comes to.
LEMMA WalkStands ==
  ASSUME NEW w, NEW outs, Size \in Nat, NEW p \in 1..Size,
         NEW k \in p..(Size + 1), ReachedTo(w, outs, k),
         outs[NodeAt(w, p)] = {}, Reaches(w, NodeAt(w, p), outs)
  PROVE  k = p
  BY DEF ReachedTo

\* The outcome of the node takes the walk one position further.
LEMMA WalkRecords ==
  ASSUME NEW w \in Workflows, NEW outs \in Outs,
         NEW p \in 1..Size, ReachedTo(w, outs, p),
         Reaches(w, NodeAt(w, p), outs), NEW v, v # {}
  PROVE  ReachedTo(w, [outs EXCEPT ![NodeAt(w, p)] = v], p + 1)
<1> DEFINE new == [outs EXCEPT ![NodeAt(w, p)] = v]
<1>1. Size \in Nat
  BY PlanFacts
<1>2. NodeAt(w, p) \in Nodes
  BY PlanFacts
<1>3. new[NodeAt(w, p)] = v
  BY <1>2 DEF Outs
<1>4. ASSUME NEW i \in 1..Size, i # p
      PROVE  new[NodeAt(w, i)] = outs[NodeAt(w, i)]
  <2>1. NodeAt(w, i) \in Nodes /\ NodeAt(w, i) # NodeAt(w, p)
    BY <1>4, PlanFacts
  <2> QED BY <2>1 DEF Outs
<1>5. ASSUME NEW i \in 1..Size, i <= p
      PROVE  Reaches(w, NodeAt(w, i), new) <=> Reaches(w, NodeAt(w, i), outs)
  BY <1>5, EarlierDecide
<1> HIDE DEF new
<1>6. ASSUME NEW i \in 1..Size
      PROVE  new[NodeAt(w, i)] # {}
               <=> i < p + 1 /\ Reaches(w, NodeAt(w, i), new)
  <2>1. CASE i < p
    BY <1>4, <1>5, <2>1 DEF ReachedTo
  <2>2. CASE i = p
    BY <1>3, <1>5, <2>2
  <2>3. CASE i > p
    BY <1>4, <2>3 DEF ReachedTo
  <2> QED BY <2>1, <2>2, <2>3
<1> QED BY <1>6 DEF ReachedTo, new

\* A walk to the end is exact.
LEMMA WholeWalk ==
  ASSUME NEW w \in Workflows, NEW outs,
         ReachedTo(w, outs, Size + 1)
  PROVE  Exact(w, outs)
<1>1. ASSUME NEW n \in Nodes PROVE outs[n] # {} <=> Reaches(w, n, outs)
  <2>1. PICK i \in 1..Size : NodeAt(w, i) = n
    BY PlanFacts
  <2>2. Size \in Nat /\ i < Size + 1
    BY PlanFacts
  <2> QED BY <2>1, <2>2 DEF ReachedTo
<1> QED BY <1>1 DEF Exact

\* What a node leads to is planned after it.
Later(w, i) == {NodeAt(w, j) : j \in (i + 1)..Size}

LEMMA LaterFacts ==
  ASSUME NEW w \in Workflows, NEW i \in 1..Size
  PROVE  /\ Leads(w, NodeAt(w, i))
              => \E j \in (i + 1)..Size : NodeAt(w, j) \notin w.approvals
         /\ Later(w, i) \subseteq w.approvals => ~Leads(w, NodeAt(w, i))
<1>1. Size \in Nat /\ Later(w, i) \in SUBSET Nodes
  BY PlanFacts DEF Later
<1>2. ASSUME NEW e \in w.edges, e.from = NodeAt(w, i) \/ e.from \in Later(w, i)
      PROVE  e.to \in Later(w, i)
  <2>1. PICK j \in i..Size : e.from = NodeAt(w, j)
    BY <1>1, <1>2 DEF Later
  <2>2. e.to \in Nodes
    BY PlanFacts DEF Edge
  <2>3. PICK l \in 1..Size : NodeAt(w, l) = e.to
    BY <2>2, PlanFacts
  <2>4. j \in 1..Size /\ j < l
    <3>1. j \in 1..Size
      BY <1>1
    <3> QED BY <2>1, <2>3, <3>1, PlanFacts
  <2>5. l \in (i + 1)..Size
    BY <1>1, <2>4
  <2> QED BY <2>3, <2>5 DEF Later
<1>3. ASSUME Leads(w, NodeAt(w, i)) PROVE Later(w, i) \ w.approvals # {}
  BY <1>1, <1>2, <1>3 DEF Leads
<1>4. ASSUME Later(w, i) \ w.approvals # {}
      PROVE  \E j \in (i + 1)..Size : NodeAt(w, j) \notin w.approvals
  BY <1>4 DEF Later
<1>5. ASSUME Later(w, i) \ w.approvals = {} PROVE ~Leads(w, NodeAt(w, i))
  BY <1>1, <1>2, <1>5 DEF Leads
<1> QED BY <1>3, <1>4, <1>5

\* The last task of the plan is an end.
LEMMA LastTask ==
  ASSUME NEW w \in Workflows, Ends(w) # {}
  PROVE  \E t \in 1..Size :
           /\ NodeAt(w, t) \in Ends(w)
           /\ \A j \in 1..Size : NodeAt(w, j) \notin w.approvals => j <= t
<1> DEFINE tasks == {i \in 1..Size : NodeAt(w, i) \notin w.approvals}
           back == {Size - i : i \in tasks}
<1>1. Size \in Nat
  BY PlanFacts
<1>2. PICK n \in Nodes \ w.approvals : TRUE
  BY DEF Ends
<1>3. PICK p \in 1..Size : NodeAt(w, p) = n
  BY PlanFacts
<1>4. p \in tasks
  BY <1>2, <1>3
<1>5. back \in SUBSET Nat /\ back # {}
  BY <1>1, <1>4
<1>6. PICK m \in back : \A k \in back : m <= k
  <2> HIDE DEF back
  <2> QED BY <1>5, LeastNumber
<1>7. PICK t \in tasks : m = Size - t
  OBVIOUS
<1>8. ASSUME NEW j \in 1..Size, NodeAt(w, j) \notin w.approvals PROVE j <= t
  <2>1. Size - j \in back
    BY <1>8
  <2>2. Size - t <= Size - j
    BY <1>6, <1>7, <2>1
  <2> QED BY <1>1, <2>2
<1>9. t \in 1..Size /\ NodeAt(w, t) \in Nodes \ w.approvals
  BY PlanFacts
<1>10. Later(w, t) \subseteq w.approvals
  <2> SUFFICES ASSUME NEW j \in (t + 1)..Size PROVE NodeAt(w, j) \in w.approvals
    BY DEF Later
  <2>1. j \in 1..Size /\ ~(j <= t)
    BY <1>1, <1>9
  <2> QED BY <1>8, <2>1
<1>11. NodeAt(w, t) \in Ends(w)
  BY <1>9, <1>10, LaterFacts DEF Ends
<1> QED BY <1>8, <1>9, <1>11

\* A walk that has done the last tasks has nothing left but approval nodes that
\* no task comes after.
LEMMA EndsReached ==
  ASSUME NEW w \in Workflows, NEW outs, Walked(w, outs), Ends(w) # {},
         Ends(w) \subseteq Done(outs)
  PROVE  Settled(w, outs)
<1>1. PICK k \in 1..(Size + 1) : ReachedTo(w, outs, k)
  BY DEF Walked
<1>2. Size \in Nat
  BY PlanFacts
<1>3. PICK t \in 1..Size :
        /\ NodeAt(w, t) \in Ends(w)
        /\ \A j \in 1..Size : NodeAt(w, j) \notin w.approvals => j <= t
  BY LastTask
<1>4. t < k
  BY <1>1, <1>3 DEF ReachedTo, Done
<1>5. ASSUME NEW n \in Nodes, Reaches(w, n, outs), outs[n] = {}
      PROVE  n \in w.approvals /\ ~Leads(w, n)
  <2>1. PICK i \in 1..Size : NodeAt(w, i) = n
    BY PlanFacts
  <2>2. ~(i < k)
    BY <1>1, <1>5, <2>1 DEF ReachedTo
  <2>3. ~(i <= t)
    BY <1>2, <1>4, <2>2
  <2>4. n \in w.approvals
    BY <1>3, <2>1, <2>3
  <2>5. ASSUME Leads(w, n) PROVE FALSE
    <3>1. PICK j \in (i + 1)..Size : NodeAt(w, j) \notin w.approvals
      BY <2>1, <2>5, LaterFacts
    <3>2. j \in 1..Size /\ ~(j <= t)
      BY <1>2, <2>3
    <3> QED BY <1>3, <3>1, <3>2
  <2> QED BY <2>4, <2>5
<1> QED BY <1>5 DEF Settled

-----------------------------------------------------------------------------
(* The ways a walk ends.                                                   *)

\* The steps below are taken with these facts.
Walking == WalkInv /\ wf' = wf

LEMMA RowOuts ==
  ASSUME NEW T, NEW r \in RowIn(T), NEW m
  PROVE  /\ Checkpoint(r, m).outs = m.outs /\ Checkpoint(r, m).status = r.status
         /\ ResetCycle(r).outs = NoOuts /\ ResetCycle(r).status = "paused"
         /\ CycleStarted(r).outs = r.outs /\ CycleStarted(r).status = r.status
  BY DEF RowIn, Checkpoint, ResetCycle, CycleStarted

LEMMA StatusOuts ==
  ASSUME NEW T, NEW r \in RowIn(T), NEW s
  PROVE  /\ [r EXCEPT !.status = s].outs = r.outs
         /\ [r EXCEPT !.status = s].status = s
  BY DEF RowIn

LEMMA WalkingFacts ==
  ASSUME Walking
  PROVE  /\ wf \in Workflows /\ row \in RowIn(AnyTool) /\ own \in RowIn(AnyTool)
         /\ mem \in MemIn(AnyTool) /\ mem.outs \in Outs
         /\ cmd.snap \in RowIn(AnyTool)
  BY DEF Walking, WalkInv, Shapes, EngineOK, EngineShape, TableShape, MemIn

\* A run that returns leaves the walk's outcomes behind and no position.
LEMMA ReturnWalks ==
  ASSUME Walking, NEW r, CopyWalked(wf, r), Return(r),
         Walked(wf, mem'.outs)
  PROVE  EngineWalked'
<1>1. CopyWalked(wf, NewRow) /\ NewRow.status # "completed"
  BY WalkingFacts, NothingWalked DEF CopyWalked, NewRow
<1>2. Size \in Nat
  BY WalkingFacts, PlanFacts
<1>3. /\ row' = r /\ own' = NewRow /\ pc' = "idle" /\ at' = 1 /\ wf' = wf
  BY DEF Return, Walking
<1>4. Copies'
  BY <1>1, <1>3 DEF Copies
<1>5. Position'
  BY <1>2, <1>3 DEF Position, Before, AskStages, RunStages, OnTask
<1> QED BY <1>4, <1>5 DEF EngineWalked

LEMMA CancelWalks ==
  ASSUME Walking, EndCancelled, UNCHANGED mem
  PROVE  EngineWalked'
<1> DEFINE c == Checkpoint(own, mem)
           r == [c EXCEPT !.status = "cancelled"]
<1>1. c \in RowIn(AnyTool) /\ c.outs = mem.outs
  BY WalkingFacts, CheckpointKeeps, RowOuts
<1>2. Return(r)
  BY DEF EndCancelled
<1> HIDE DEF c
<1>3. r.outs = mem.outs /\ r.status = "cancelled"
  BY <1>1, StatusOuts
<1> HIDE DEF r
<1>4. Walked(wf, mem.outs) /\ Walked(wf, mem'.outs)
  BY DEF Walking, WalkInv, EngineWalked, Copies
<1>5. CopyWalked(wf, r)
  BY <1>3, <1>4 DEF CopyWalked
<1> QED BY <1>2, <1>4, <1>5, ReturnWalks

LEMMA UnwindWalks ==
  ASSUME Walking, NEW c \in RowIn(AnyTool), Unwind(c),
         UNCHANGED mem
  PROVE  EngineWalked'
<1> DEFINE b == IF c.status \in Suspended THEN c ELSE [own EXCEPT !.status = "paused"]
           r == Checkpoint(b, mem)
<1>1. b \in RowIn(AnyTool) /\ b.status # "completed"
  BY WalkingFacts, StatusKeeps, StatusOuts DEF Suspended, Status
<1>2. Return(r)
  BY DEF Unwind
<1> HIDE DEF b
<1>3. r.outs = mem.outs /\ r.status # "completed"
  BY <1>1, RowOuts
<1> HIDE DEF r
<1>4. Walked(wf, mem.outs) /\ Walked(wf, mem'.outs)
  BY DEF Walking, WalkInv, EngineWalked, Copies
<1>5. CopyWalked(wf, r)
  BY <1>3, <1>4 DEF CopyWalked
<1> QED BY <1>2, <1>4, <1>5, ReturnWalks

LEMMA GuardWalks ==
  ASSUME Walking, NEW r \in RowIn(AnyTool),
         GuardPause(r) \/ Sleeps(r)
  PROVE  EngineWalked'
<1> DEFINE z == ResetCycle(r)
<1>1. z.outs = NoOuts /\ z.status = "paused"
  BY RowOuts
<1>2. mem'.outs = NoOuts
  BY WalkingFacts DEF GuardPause, Sleeps, Schedule, Forget, MemIn
<1>3. Walked(wf, NoOuts)
  BY WalkingFacts, NothingWalked
<1>4. GuardPause(r) => Return(z)
  BY DEF GuardPause
<1>5. Sleeps(r) => /\ own' = z /\ row' = z /\ at' = at
                  /\ pc' \in {"sleep_wait", "sleep_again"}
  BY DEF Sleeps, Schedule, Save
<1> HIDE DEF z
<1>6. CopyWalked(wf, z) /\ Walked(wf, mem'.outs)
  BY <1>1, <1>2, <1>3 DEF CopyWalked
<1>7. CASE GuardPause(r)
  BY <1>4, <1>6, <1>7, ReturnWalks
<1>8. CASE Sleeps(r)
  <2>1. Copies'
    BY <1>1, <1>5, <1>6, <1>8 DEF Copies, Walking
  <2>2. at \in 1..(Size + 1)
    BY DEF Walking, WalkInv, EngineWalked, Position
  <2>3. Position'
    BY <1>5, <1>8, <2>2 DEF Position, Before, AskStages, RunStages, OnTask
  <2> QED BY <2>1, <2>3 DEF EngineWalked
<1> QED BY <1>7, <1>8

LEMMA FailureWalks ==
  ASSUME Walking, NEW r \in RowIn(AnyTool), Fails(r)
  PROVE  EngineWalked'
<1> DEFINE f == [r EXCEPT !.cyc.fails = @ + 1]
<1>1. r.cyc \in CycleCounts /\ [r.cyc EXCEPT !.fails = @ + 1] \in CycleCounts
  BY DEF RowIn, CycleCounts
<1>2. f \in RowIn(AnyTool)
  BY <1>1 DEF RowIn
<1>3. GuardPause(f) \/ Sleeps(f)
  BY DEF Fails, CycleFailure, Sleeps
<1> QED BY <1>2, <1>3, GuardWalks

LEMMA FailRunWalks ==
  ASSUME Walking, FailRun
  PROVE  EngineWalked'
<1>1. CASE Fails(own)
  BY <1>1, WalkingFacts, FailureWalks
<1>2. CASE /\ Return([Checkpoint(own, mem) EXCEPT !.status = "failed"])
           /\ UNCHANGED mem
  <2> DEFINE c == Checkpoint(own, mem)
             r == [c EXCEPT !.status = "failed"]
  <2>1. c \in RowIn(AnyTool) /\ c.outs = mem.outs
    BY WalkingFacts, CheckpointKeeps, RowOuts
  <2>2. Return(r)
    BY <1>2
  <2> HIDE DEF c
  <2>3. r.outs = mem.outs /\ r.status = "failed"
    BY <2>1, StatusOuts
  <2> HIDE DEF r
  <2>4. Walked(wf, mem.outs) /\ Walked(wf, mem'.outs)
    BY <1>2 DEF Walking, WalkInv, EngineWalked, Copies
  <2>5. CopyWalked(wf, r)
    BY <2>3, <2>4 DEF CopyWalked
  <2> QED BY <2>2, <2>4, <2>5, ReturnWalks
<1> QED BY <1>1, <1>2 DEF FailRun, Fails

\* Only a walk to the end is concluded.
LEMMA ConcludeWalks ==
  ASSUME Walking, NEW r \in RowIn(AnyTool), Conclude(r),
         ReachedTo(wf, mem.outs, Size + 1)
  PROVE  EngineWalked'
<1>1. Exact(wf, mem.outs)
  BY WalkingFacts, WholeWalk
<1>2. Walked(wf, mem.outs)
  BY DEF Walking, WalkInv, EngineWalked, Copies
<1>5. Settled(wf, mem.outs)
  BY <1>1 DEF Exact, Settled
<1>3. ASSUME NEW s, Return(Finished(r, s)), UNCHANGED mem
      PROVE  EngineWalked'
  <2> DEFINE f == Finished(r, s)
  <2>1. f.outs = mem.outs
    BY DEF Finished, RowIn
  <2>2. Return(f) /\ Walked(wf, mem'.outs)
    BY <1>2, <1>3
  <2> HIDE DEF f
  <2>3. CopyWalked(wf, f)
    BY <1>1, <1>2, <1>5, <2>1 DEF CopyWalked
  <2> QED BY <2>2, <2>3, ReturnWalks
<1>4. CASE Fails(r)
  BY <1>4, FailureWalks
<1> QED BY <1>3, <1>4 DEF Conclude, Fails

LEMMA SuccessWalks ==
  ASSUME Walking, CycleSuccess,
         ReachedTo(wf, mem.outs, Size + 1)
  PROVE  EngineWalked'
<1>1. PICK r \in RowIn(AnyTool) : Conclude(r) \/ GuardPause(r) \/ Sleeps(r)
  BY WalkingFacts, CycleRow
<1> QED BY <1>1, ConcludeWalks, GuardWalks

-----------------------------------------------------------------------------
(* The steps of a walk.                                                    *)

LEMMA OutcomeFacts ==
  /\ \A n : Outcomes(n) \subseteq Outcome
  /\ \A v \in Outcome : v # {}
  BY DEF Outcome, Outcomes

LEMMA RecordWalks ==
  ASSUME Walking, OnTask, NEW outcome \in Outcome,
         Record(outcome)
  PROVE  EngineWalked'
<1>1. CASE EndCancelled /\ UNCHANGED mem
  BY <1>1, CancelWalks
<1>2. CASE ~mem.cancelled
  <2> DEFINE o == [mem.outs EXCEPT ![Node] = outcome]
             e == IF "failure" \in outcome THEN mem.errs \cup {Node} ELSE mem.errs
             m == [mem EXCEPT !.outs = o, !.errs = e]
  <2>1. /\ mem' = m /\ own' = Checkpoint(own, m) /\ row' = Checkpoint(own, m)
        /\ pc' = "walk" /\ at' = at + 1
    BY <1>2 DEF Record, Save
  <2>2. m.outs = o
    BY WalkingFacts DEF MemIn
  <2>3. Node = NodeAt(wf, at) /\ outcome # {} /\ Size \in Nat
    BY SameReachable, WalkingFacts, PlanFacts DEF Outcome
  <2>4. /\ at \in 1..Size /\ mem.outs[NodeAt(wf, at)] = {}
        /\ Reaches(wf, NodeAt(wf, at), mem.outs)
        /\ pc \in AskStages \cup RunStages
    BY <2>3 DEF Walking, WalkInv, EngineWalked, Position, OnTask, RunStages
  <2>5. PICK k \in at..(Size + 1) : ReachedTo(wf, mem.outs, k)
    BY <2>4 DEF Walking, WalkInv, EngineWalked, Position
  <2>6. ReachedTo(wf, mem.outs, at)
    BY <2>3, <2>4, <2>5, WalkStands
  <2>7. ReachedTo(wf, o, at + 1)
    BY <2>3, <2>4, <2>6, WalkingFacts, WalkRecords
  <2>8. own.status # "completed"
    BY DEF Walking, WalkInv, EngineWalked, Copies
  <2> HIDE DEF o, m
  <2>13. Checkpoint(own, m).outs = o /\ Checkpoint(own, m).status = own.status
    BY <2>2, WalkingFacts, RowOuts
  <2>9. Walked(wf, o) /\ at + 1 \in 1..(Size + 1)
    BY <2>3, <2>4, <2>7 DEF Walked
  <2>10. Copies'
    BY <2>1, <2>2, <2>8, <2>9, <2>13 DEF Copies, CopyWalked, Walking
  <2>11. \E l \in (at + 1)..(Size + 1) : ReachedTo(wf, o, l)
    BY <2>7, <2>9
  <2>12. Position'
    BY <2>1, <2>2, <2>9, <2>11
       DEF Position, Before, OnTask, AskStages, RunStages, Walking
  <2> QED BY <2>10, <2>12 DEF EngineWalked
<1> QED BY <1>1, <1>2 DEF Record

LEMMA RaisedWalks ==
  ASSUME Walking, OnTask, TaskRaised
  PROVE  EngineWalked'
<1>1. CASE \E outcome \in Outcomes(Node) : Record(outcome)
  BY <1>1, OutcomeFacts, RecordWalks
<1>2. CASE FailRun
  BY <1>2, FailRunWalks
<1> QED BY <1>1, <1>2 DEF TaskRaised

\* A step that neither moves the walk nor records an outcome.
LEMMA StandsStill ==
  ASSUME Walking, CopyWalked(wf, row'), own'.outs = own.outs,
         own'.status = own.status, mem'.outs = mem.outs, at' = at,
         pc' \in Before => pc \in Before,
         pc' \in AskStages \cup RunStages => pc \in AskStages \cup RunStages,
         OnTask' => OnTask
  PROVE  EngineWalked'
<1>1. Copies'
  BY DEF Walking, WalkInv, EngineWalked, Copies, CopyWalked
<1>2. Position'
  BY DEF Walking, WalkInv, EngineWalked, Position
<1> QED BY <1>1, <1>2 DEF EngineWalked

LEMMA SameCopy ==
  ASSUME Walking, NEW r, r.outs = row.outs,
         r.status = "completed" => row.status = "completed" /\ r.ckpt = row.ckpt
  PROVE  CopyWalked(wf, r)
  BY DEF Walking, WalkInv, EngineWalked, Copies, CopyWalked

LEMMA StartWalks ==
  ASSUME Walking, StartExecution
  PROVE  EngineWalked'
<1>1. /\ CopyWalked(wf, row) /\ Walked(wf, mem.outs) /\ Walked(wf, row.outs)
      /\ at = 1
  BY DEF Walking, WalkInv, EngineWalked, Copies, CopyWalked, Position, Before,
         StartExecution
<1>2. CASE Return(row) /\ UNCHANGED mem
  BY <1>1, <1>2, ReturnWalks
<1>3. CASE row.status \notin Terminal
  <2> DEFINE c == CycleStarted(row)
             r == [c EXCEPT !.status = "running"]
             m == [mem EXCEPT !.paused = FALSE, !.cancelled = FALSE]
  <2>1. /\ row' = r /\ own' = r /\ mem' = Hydrate(m, row)
        /\ pc' \in {"ask", "walk"} /\ ask' = NoAsk /\ at' = at
    BY <1>3 DEF StartExecution, Save
  <2>2. c \in RowIn(AnyTool) /\ c.outs = row.outs
    BY WalkingFacts, CycleStartedKeeps, RowOuts
  <2> HIDE DEF c
  <2>3. r.outs = row.outs /\ r.status = "running"
    BY <2>2, StatusOuts
  <2> HIDE DEF r
  <2>4. m.outs = mem.outs /\ m \in MemIn(AnyTool)
    BY WalkingFacts DEF MemIn
  <2> HIDE DEF m
  <2>5. mem'.outs = mem.outs \/ mem'.outs = row.outs
    BY <2>1, <2>4 DEF Hydrate, MemIn
  <2>6. Walked(wf, mem'.outs) /\ CopyWalked(wf, r)
    BY <1>1, <2>3, <2>5 DEF CopyWalked
  <2>7. Copies'
    BY <2>1, <2>3, <2>6 DEF Copies, Walking
  <2>8. Size \in Nat
    BY WalkingFacts, PlanFacts
  <2>9. Position'
    BY <1>1, <2>1, <2>6, <2>8
       DEF Position, Before, OnTask, NoAsk, Walked, Walking
  <2> QED BY <2>7, <2>9 DEF EngineWalked
<1> QED BY <1>2, <1>3 DEF StartExecution

\* The walk comes to a node.
LEMMA VisitWalks ==
  ASSUME Walking, Skip \/ Enter
  PROVE  EngineWalked'
<1>1. /\ pc = "walk" /\ Size \in Nat /\ at \in 1..Size
      /\ UNCHANGED <<row, own, mem>>
  <2>1. pc = "walk" /\ at <= Size /\ UNCHANGED <<row, own, mem>>
    BY DEF Skip, Enter, Size
  <2>2. at \in 1..(Size + 1) /\ Size \in Nat
    BY WalkingFacts, PlanFacts DEF Walking, WalkInv, EngineWalked, Position
  <2> QED BY <2>1, <2>2
<1>2. PICK k \in at..(Size + 1) : ReachedTo(wf, mem.outs, k)
  BY <1>1 DEF Walking, WalkInv, EngineWalked, Position, RunStages
<1>3. CASE Skip
  <2>1. \E l \in (at + 1)..(Size + 1) : ReachedTo(wf, mem.outs, l)
    <3>1. mem.outs[NodeAt(wf, at)] # {} \/ ~Reaches(wf, NodeAt(wf, at), mem.outs)
      BY <1>3, SameReachable DEF Skip
    <3> QED BY <1>1, <1>2, <3>1, WalkingFacts, WalkPasses
  <2>2. at' = at + 1 /\ pc' = "walk" /\ at + 1 \in 1..(Size + 1)
    BY <1>1, <1>3 DEF Skip
  <2>3. Copies'
    BY <1>1 DEF Walking, WalkInv, EngineWalked, Copies
  <2>4. Position'
    BY <1>1, <2>1, <2>2 DEF Position, Before, OnTask, AskStages, Walking
  <2> QED BY <2>3, <2>4 DEF EngineWalked
<1>4. CASE Enter
  <2>1. /\ mem.outs[NodeAt(wf, at)] = {} /\ Reaches(wf, NodeAt(wf, at), mem.outs)
        /\ at' = at /\ pc' \in {"ask", "task"}
    BY <1>4, SameReachable DEF Enter
  <2>2. Copies'
    BY <1>1 DEF Walking, WalkInv, EngineWalked, Copies
  <2>3. Position'
    BY <1>1, <1>2, <2>1 DEF Position, Before, OnTask, AskStages, RunStages, Walking
  <2> QED BY <2>2, <2>3 DEF EngineWalked
<1> QED BY <1>3, <1>4

LEMMA FinishWalks ==
  ASSUME Walking, Finish
  PROVE  EngineWalked'
<1>1. Size \in Nat /\ at \in 1..(Size + 1) /\ pc = "walk" /\ at > Size
  BY WalkingFacts, PlanFacts
     DEF Walking, WalkInv, EngineWalked, Position, Finish, Size
<1>2. PICK k \in at..(Size + 1) : ReachedTo(wf, mem.outs, k)
  BY <1>1 DEF Walking, WalkInv, EngineWalked, Position, RunStages
<1>3. ReachedTo(wf, mem.outs, Size + 1)
  <2>1. k = Size + 1
    BY <1>1, <1>2
  <2> QED BY <1>2, <2>1
<1> QED BY <1>3, WalkingFacts, ConcludeWalks, SuccessWalks DEF Finish

\* The task of a node.
LEMMA TaskWalks ==
  ASSUME Walking, Interrupted \/ TaskReturns \/ TaskFails
  PROVE  EngineWalked'
<1>1. pc \in {"task", "retry"} /\ OnTask
  BY DEF Interrupted, TaskReturns, TaskFails, OnTask
<1>2. CASE Interrupted
  BY <1>2, WalkingFacts, CancelWalks, UnwindWalks DEF Interrupted
<1>3. CASE TaskReturns
  BY <1>1, <1>3, OutcomeFacts, RecordWalks DEF TaskReturns
<1>4. CASE TaskFails
  <2>1. CASE TaskRaised
    BY <1>1, <2>1, RaisedWalks
  <2>2. CASE pc' = "ask" /\ UNCHANGED <<row, own, mem, at>>
    <3>1. CopyWalked(wf, row')
      BY <2>2, SameCopy
    <3> QED BY <1>1, <2>2, <3>1, StandsStill DEF Before, RunStages
  <2> QED BY <1>4, <2>1, <2>2 DEF TaskFails
<1> QED BY <1>2, <1>3, <1>4

\* A grant takes the walk to the node it is for, or to the walk itself.
LEMMA GrantWalks ==
  ASSUME Walking, pc \in AskStages, Granted, CopyWalked(wf, row'), UNCHANGED own
  PROVE  EngineWalked'
<1>1. /\ UNCHANGED <<mem, at, ask>> /\ pc' \in RunStages
      /\ pc' \in {"task", "retry"} => ask.tool # "workflow"
  BY DEF Granted, RunStages
<1> QED BY <1>1, StandsStill DEF OnTask, Before, RunStages, AskStages

\* Asking for an approval.
LEMMA ApprovalWalks ==
  ASSUME Walking,
         \/ Consume \/ CreateRequest \/ CreateWait \/ WaitRefused \/ Park
         \/ Delegated \/ Suspend
  PROVE  EngineWalked'
<1>1. CASE Consume
  <2> DEFINE r == [row EXCEPT !.pend = 0]
  <2>1. /\ r \in RowIn(AnyTool) /\ r.outs = row.outs /\ r.status = row.status
        /\ r.ckpt = row.ckpt
    BY WalkingFacts DEF RowIn
  <2>2. pc \in AskStages
    BY <1>1 DEF Consume, AskStages
  <2>3. CopyWalked(wf, r)
    BY <2>1, SameCopy
  <2>4. \/ row' = r /\ Granted /\ UNCHANGED own
        \/ Unwind(r) /\ UNCHANGED mem
        \/ ask.tool # "workflow" /\ TaskRaised
    BY <1>1 DEF Consume, Refused
  <2> HIDE DEF r
  <2>5. CASE row' = r /\ Granted /\ UNCHANGED own
    BY <2>2, <2>3, <2>5, GrantWalks
  <2>6. CASE Unwind(r) /\ UNCHANGED mem
    BY <2>1, <2>6, UnwindWalks
  <2>7. CASE ask.tool # "workflow" /\ TaskRaised
    BY <2>2, <2>7, RaisedWalks DEF OnTask
  <2> QED BY <2>4, <2>5, <2>6, <2>7
<1>2. CASE CreateRequest \/ CreateWait
  <2>1. /\ UNCHANGED <<row, own, mem, at, ask>>
        /\ pc \in AskStages /\ pc' \in AskStages
    BY <1>2 DEF CreateRequest, CreateWait, AskStages
  <2>2. CopyWalked(wf, row')
    BY <2>1, SameCopy
  <2> QED BY <2>1, <2>2, StandsStill DEF OnTask, AskStages, Before
<1>3. CASE Park
  <2>1. /\ UNCHANGED <<own, mem, at, ask>>
        /\ pc \in AskStages /\ pc' \in AskStages
        /\ row'.outs = row.outs /\ row'.status = "waiting_for_approval"
    BY <1>3, WalkingFacts DEF Park, AskStages, RowIn
  <2>2. CopyWalked(wf, row')
    BY <2>1, SameCopy
  <2> QED BY <2>1, <2>2, StandsStill DEF OnTask, AskStages, Before
<1>4. CASE Delegated
  <2>1. pc \in AskStages /\ Granted /\ UNCHANGED own
    BY <1>4 DEF Delegated, AskStages
  <2>2. /\ row'.outs = row.outs /\ row'.status \in {"running", row.status}
        /\ row'.ckpt = row.ckpt
    BY <1>4, WalkingFacts DEF Delegated, RowIn
  <2>3. CopyWalked(wf, row')
    BY <2>2, SameCopy
  <2> QED BY <2>1, <2>3, GrantWalks
<1>5. CASE Suspend
  BY <1>5, WalkingFacts, UnwindWalks DEF Suspend
<1>6. CASE WaitRefused
  <2>1. pc = "wait" /\ (FailRun \/ (ask.tool # "workflow" /\ TaskRaised))
    BY <1>6 DEF WaitRefused
  <2>2. CASE FailRun
    BY <2>2, FailRunWalks
  <2>3. CASE ask.tool # "workflow" /\ TaskRaised
    BY <2>1, <2>3, RaisedWalks DEF OnTask, AskStages
  <2> QED BY <2>1, <2>2, <2>3
<1> QED BY <1>1, <1>2, <1>3, <1>4, <1>5, <1>6

LEMMA EngineWalks ==
  ASSUME Walking, Engine
  PROVE  EngineWalked' /\ UNCHANGED cmd
<1>1. UNCHANGED cmd
  BY DEF Engine, MarkRunning, StartExecution, Finish, SleepWait, SleepRefused, SleepRow,
         VisitCancelled, Skip, Enter, Interrupted, TaskReturns, TaskFails,
         Consume, CreateRequest, CreateWait, WaitRefused, Park, Delegated, Suspend
<1>2. CASE MarkRunning
  <2>1. /\ UNCHANGED <<own, mem, at>> /\ pc = "queued" /\ pc' = "marked"
        /\ row'.outs = row.outs /\ row'.status = "running"
    BY <1>2, WalkingFacts DEF MarkRunning, RowIn
  <2>2. CopyWalked(wf, row')
    BY <2>1, SameCopy
  <2> QED BY <1>1, <2>1, <2>2, StandsStill DEF OnTask, AskStages, RunStages, Before
<1>3. CASE SleepWait
  <2>1. /\ UNCHANGED <<row, mem, at>> /\ pc' = "sleep_row"
        /\ own'.outs = own.outs /\ own'.status = own.status
    BY <1>3, WalkingFacts DEF SleepWait, RowIn
  <2>2. CopyWalked(wf, row')
    BY <2>1, SameCopy
  <2> QED BY <1>1, <2>1, <2>2, StandsStill DEF OnTask, AskStages, RunStages, Before
<1>4. CASE SleepRow
  <2> DEFINE r == [own EXCEPT !.status = "sleeping"]
  <2>1. Return(r) /\ UNCHANGED mem
    BY <1>4 DEF SleepRow
  <2>2. r.outs = own.outs /\ r.status = "sleeping"
    BY WalkingFacts, StatusOuts
  <2> HIDE DEF r
  <2>3. CopyWalked(wf, r) /\ Walked(wf, mem'.outs)
    BY <2>1, <2>2 DEF Walking, WalkInv, EngineWalked, Copies, CopyWalked
  <2> QED BY <1>1, <2>1, <2>3, ReturnWalks
<1>5. CASE VisitCancelled
  BY <1>1, <1>5, CancelWalks DEF VisitCancelled
<1>6. CASE SleepRefused
  <2>1. CASE Fails(own)
    BY <1>1, <2>1, WalkingFacts, FailureWalks
  <2>2. CASE Return(row) /\ UNCHANGED mem
    <3>1. CopyWalked(wf, row) /\ Walked(wf, mem'.outs)
      BY <2>2 DEF Walking, WalkInv, EngineWalked, Copies
    <3> QED BY <1>1, <2>2, <3>1, ReturnWalks
  <2> QED BY <1>6, <2>1, <2>2 DEF SleepRefused, Fails
<1> QED BY <1>1, <1>2, <1>3, <1>4, <1>5, <1>6, StartWalks, FinishWalks, VisitWalks,
           TaskWalks, ApprovalWalks
        DEF Engine

-----------------------------------------------------------------------------
(* Commands, decisions, crashes and repairs.                               *)

\* Nothing is under way in a process that is down.
Down == ~up => pc = "idle" /\ cmd.op = "none" /\ waking = 0

LEMMA DownStays == ASSUME Down, Next PROVE Down'
<1>1. ASSUME Engine PROVE pc # "idle" /\ up' = up
  BY <1>1
     DEF Engine, MarkRunning, StartExecution, Finish, SleepWait, SleepRefused, SleepRow,
         VisitCancelled, Skip, Enter, Interrupted, TaskReturns, TaskFails,
         Consume, CreateRequest, CreateWait, WaitRefused, Park, Delegated, Suspend
<1>2. ASSUME Environment PROVE Down'
  BY <1>2
     DEF Down, Environment, Decide, Wake, CycleDue, BeginStart, EndStart,
         BeginPause, EndPause, BeginCancel, EndCancel, Preserve, Crash,
         Restart, RecoverLocal, RepairStale, Command, NoCmd, engine
<1> QED BY <1>1, <1>2 DEF Next, Down

\* A repair reports completed only what has done the last tasks.
LEMMA RepairWalks ==
  ASSUME Walking
  PROVE  CopyWalked(wf, Repaired(row))
<1>1. row \in RowIn(AnyTool) /\ CopyWalked(wf, row)
  BY WalkingFacts DEF Walking, WalkInv, EngineWalked, Copies
<1>2. /\ Repaired(row).outs = row.outs /\ Repaired(row).ckpt = row.ckpt
      /\ Repaired(row).status = "completed" => CompletedCheckpoint(row)
  BY <1>1 DEF Repaired, RowIn
<1>3. CompletedCheckpoint(row) => row.ckpt /\ Settled(wf, row.outs)
  BY <1>1, SameReachable, WalkingFacts, EndsReached
     DEF CompletedCheckpoint, CopyWalked
<1> QED BY <1>1, <1>2, <1>3 DEF CopyWalked

\* A queued start leaves the walk alone, or opens the way to a new one.
LEMMA QueueWalks ==
  ASSUME Walking, NEW r \in RowIn(AnyTool), Walked(wf, r.outs), QueueStart(r),
         mem'.outs = mem.outs
  PROVE  EngineWalked'
<1>1. row'.outs = r.outs /\ row'.status = "queued"
  BY DEF QueueStart, RowIn
<1>2. CopyWalked(wf, row')
  BY <1>1 DEF CopyWalked
<1>3. UNCHANGED <<own, at, ask>> /\ (pc' = pc \/ (pc = "idle" /\ pc' = "queued"))
  BY DEF QueueStart
<1> QED BY <1>2, <1>3, StandsStill DEF OnTask, AskStages, RunStages, Before

\* A command, a decision or a repair that leaves the engine alone.
LEMMA CommandWalks ==
  ASSUME Walking, UNCHANGED <<own, pc, at, ask>>, mem'.outs = mem.outs,
         CopyWalked(wf, row'), CopyWalked(wf, cmd'.snap)
  PROVE  EngineWalked' /\ CopyWalked(wf', cmd'.snap)
<1>1. EngineWalked'
  BY StandsStill DEF OnTask
<1> QED BY <1>1 DEF Walking

LEMMA EnvironmentWalks ==
  ASSUME Walking, Down, Environment
  PROVE  EngineWalked' /\ CopyWalked(wf', cmd'.snap)
<1>1. /\ wf' = wf /\ CopyWalked(wf, row) /\ CopyWalked(wf, cmd.snap)
      /\ Walked(wf, row.outs) /\ Walked(wf, cmd.snap.outs)
      /\ row \in RowIn(AnyTool) /\ cmd.snap \in RowIn(AnyTool) /\ mem \in MemIn(AnyTool)
  BY WalkingFacts DEF Walking, WalkInv, EngineWalked, Copies, CopyWalked
<1>2. /\ CopyWalked(wf, NewRow) /\ NoCmd.snap = NewRow
      /\ \A b : CopyWalked(wf, [NewRow EXCEPT !.ckpt = b])
  BY WalkingFacts, NothingWalked DEF CopyWalked, NewRow, NoCmd
<1>3. \A b : [mem EXCEPT !.paused = b].outs = mem.outs
  BY <1>1 DEF MemIn
<1>4. CASE Decide
  BY <1>1, <1>4, CommandWalks DEF Decide, engine
<1>5. CASE Wake \/ CycleDue
  <2> DEFINE r == [row EXCEPT !.active = 0]
  <2>1. r \in RowIn(AnyTool) /\ r.outs = row.outs
    BY <1>1 DEF RowIn
  <2>2. /\ UNCHANGED cmd
        /\ \/ QueueStart(r) /\ mem' = [mem EXCEPT !.paused = FALSE]
           \/ UNCHANGED <<row, engine>>
    BY <1>5 DEF Wake, CycleDue
  <2> HIDE DEF r
  <2>3. CASE QueueStart(r) /\ mem' = [mem EXCEPT !.paused = FALSE]
    BY <1>1, <1>3, <2>1, <2>2, <2>3, QueueWalks
  <2>4. CASE UNCHANGED <<row, engine>>
    BY <1>1, <2>2, <2>4, CommandWalks DEF engine
  <2> QED BY <2>2, <2>3, <2>4
<1>6. CASE BeginStart
  <2>1. cmd'.snap = row /\ mem'.outs = mem.outs
        /\ UNCHANGED <<row, own, pc, at, ask>>
    BY <1>3, <1>6 DEF BeginStart
  <2> QED BY <1>1, <2>1, CommandWalks
<1>7. CASE EndStart
  <2>1. QueueStart(cmd.snap) /\ cmd' = NoCmd /\ UNCHANGED mem
    BY <1>7 DEF EndStart
  <2> QED BY <1>1, <1>2, <2>1, QueueWalks
<1>8. CASE BeginPause
  <2>1. /\ row'.outs = row.outs /\ row'.ckpt = row.ckpt
        /\ row'.status = "completed" => row.status = "completed"
        /\ cmd'.snap = row' /\ UNCHANGED <<own, pc, at, ask>>
    BY <1>1, <1>8 DEF BeginPause, RowIn
  <2>2. mem'.outs = mem.outs
    BY <1>3, <1>8 DEF BeginPause
  <2>3. CopyWalked(wf, row')
    BY <2>1, SameCopy
  <2> QED BY <2>1, <2>2, <2>3, CommandWalks
<1>9. CASE EndPause
  <2>1. /\ row'.outs = cmd.snap.outs /\ row'.status # "completed"
        /\ cmd' = NoCmd /\ UNCHANGED engine
    BY <1>1, <1>9 DEF EndPause, RowIn, Suspended
  <2>2. CopyWalked(wf, row')
    BY <1>1, <2>1 DEF CopyWalked
  <2> QED BY <1>2, <2>1, <2>2, CommandWalks DEF engine
<1>10. CASE BeginCancel
  <2>1. /\ row'.outs = row.outs /\ row'.status # "completed"
        /\ cmd'.snap = [NewRow EXCEPT !.ckpt = row.ckpt] /\ UNCHANGED engine
    BY <1>1, <1>10 DEF BeginCancel, RowIn
  <2>2. CopyWalked(wf, row')
    BY <2>1, SameCopy
  <2> QED BY <1>2, <2>1, <2>2, CommandWalks DEF engine
<1>11. CASE EndCancel
  <2>1. /\ row'.outs = row.outs /\ row'.ckpt = row.ckpt
        /\ row'.status = "completed" => row.status = "completed"
    BY <1>1, <1>11 DEF EndCancel, RowIn
  <2>2. mem'.outs = mem.outs
    BY <1>1, <1>11 DEF EndCancel, MemIn
  <2>3. UNCHANGED <<own, pc, at, ask>> /\ (cmd' = NoCmd \/ cmd'.snap = row')
    BY <1>11 DEF EndCancel
  <2>4. CopyWalked(wf, row')
    BY <2>1, SameCopy
  <2> QED BY <1>2, <2>2, <2>3, <2>4, CommandWalks
<1>12. CASE Preserve
  BY <1>1, <1>2, <1>12, CommandWalks DEF Preserve, engine
<1>13. CASE Crash
  <2>1. /\ own' = NewRow /\ mem' = NewMem /\ pc' = "idle" /\ at' = 1
        /\ cmd' = NoCmd /\ row' = row
    BY <1>13 DEF Crash
  <2>2. Walked(wf, NewMem.outs) /\ NewRow.status # "completed" /\ Size \in Nat
    BY WalkingFacts, NothingWalked, PlanFacts DEF NewMem, NewRow
  <2>3. Copies'
    BY <1>1, <1>2, <2>1, <2>2 DEF Copies
  <2>4. Position'
    BY <2>1, <2>2 DEF Position, OnTask, AskStages, RunStages, Before
  <2> QED BY <1>1, <1>2, <2>1, <2>3, <2>4 DEF EngineWalked
<1>14. CASE RecoverLocal
  <2>1. /\ row' = Repaired(row) /\ pc = "idle" /\ pc' \in {"idle", "queued"}
        /\ UNCHANGED <<own, mem, at, ask, cmd>>
    BY <1>14 DEF RecoverLocal
  <2>2. CopyWalked(wf, row')
    BY <1>1, <2>1, RepairWalks
  <2>3. EngineWalked'
    BY <2>1, <2>2, StandsStill DEF OnTask, AskStages, RunStages, Before
  <2> QED BY <1>1, <2>1, <2>3
<1>15. CASE RepairStale
  <2>1. row' = Repaired(row) /\ UNCHANGED <<own, mem, pc, at, ask, cmd>>
    BY <1>15 DEF RepairStale, engine
  <2> QED BY <1>1, <2>1, RepairWalks, CommandWalks
<1>16. CASE Restart
  BY <1>1, <1>16, CommandWalks DEF Restart, engine
<1> QED BY <1>4, <1>5, <1>6, <1>7, <1>8, <1>9, <1>10, <1>11, <1>12, <1>13,
           <1>14, <1>15, <1>16
        DEF Environment

LEMMA WalkInvStays ==
  ASSUME WalkInv, Down, [Next]_vars
  PROVE  WalkInv' /\ Down'
<1>1. CASE Next
  <2>1. wf' = wf /\ Shapes' /\ Down'
    BY <1>1, DefinitionStays, ShapesStay, DownStays DEF WalkInv
  <2>2. Walking
    BY <2>1 DEF Walking
  <2>3. EngineWalked' /\ CopyWalked(wf', cmd'.snap)
    <3>1. CASE Engine
      BY <2>1, <2>2, <3>1, EngineWalks DEF WalkInv
    <3>2. CASE Environment
      BY <2>2, <3>2, EnvironmentWalks
    <3> QED BY <1>1, <3>1, <3>2 DEF Next
  <2> QED BY <2>1, <2>3 DEF WalkInv
<1>2. CASE UNCHANGED vars
  <2>1. Shapes'
    BY <1>2, SameTools
       DEF WalkInv, vars, engine, counters, Shapes, EngineOK, EngineShape,
           EnginePointers, TableShape
  <2>2. EngineWalked' /\ CopyWalked(wf, cmd.snap)'
    BY <1>2 DEF vars, engine, counters, WalkInv, EngineWalked, Copies, Position, OnTask
  <2> QED BY <1>2, <2>1, <2>2 DEF vars, WalkInv, Down
<1> QED BY <1>1, <1>2

LEMMA InitWalks == ASSUME Init PROVE WalkInv /\ Down
<1>1. Shapes
  BY InitInv DEF IInv
<1>2. Size \in Nat
  BY PlanFacts DEF Init
<1>3. CopyWalked(wf, NewRow) /\ NewRow.status # "completed" /\ Walked(wf, NewMem.outs)
  BY NothingWalked DEF Init, CopyWalked, NewRow, NewMem
<1>4. Copies
  BY <1>3 DEF Init, Copies
<1>5. Position
  BY <1>2 DEF Init, Position, Before, OnTask, AskStages, RunStages
<1> QED BY <1>1, <1>3, <1>4, <1>5 DEF Init, WalkInv, EngineWalked, NoCmd, Down

LEMMA WalkInvHolds == Spec => [](WalkInv /\ Down)
<1>1. Init => WalkInv /\ Down
  BY InitWalks
<1>2. WalkInv /\ Down /\ [Next]_vars => WalkInv' /\ Down'
  BY WalkInvStays
<1> QED BY <1>1, <1>2, PTL DEF Spec

\* A run reported completed, by the engine or by a repair, took exactly the
\* branches that match, for every acyclic workflow: no crash, pause, decision
\* or overwritten row loses an outcome or adds one (engine.py:244,
\* control_plane.py:602, 726); a repair may leave out approval nodes that no
\* task comes after, and nothing else (control_plane.py:750).
THEOREM WalkIsExact == Spec => []CompletedWalkIsExact
<1>1. ASSUME WalkInv PROVE CompletedWalkIsExact
  <2> SUFFICES ASSUME row.status = "completed", NEW n \in Nodes
               PROVE  /\ row.outs[n] # {} => Reachable(n, row.outs)
                      /\ Reachable(n, row.outs) =>
                           \/ row.outs[n] # {}
                           \/ row.ckpt /\ n \in wf.approvals /\ ~LeadsToTask(n)
    BY DEF CompletedWalkIsExact
  <2>1. /\ Walked(wf, row.outs) /\ Settled(wf, row.outs) /\ wf \in Workflows
        /\ ~row.ckpt => Exact(wf, row.outs)
    BY <1>1 DEF WalkInv, EngineWalked, Copies, CopyWalked
  <2>2. PICK i \in 1..Size : NodeAt(wf, i) = n
    BY <2>1, PlanFacts
  <2>3. row.outs[n] # {} => Reaches(wf, n, row.outs)
    BY <2>1, <2>2 DEF Walked, ReachedTo
  <2>4. Reaches(wf, n, row.outs) =>
          row.outs[n] # {} \/ (row.ckpt /\ n \in wf.approvals /\ ~Leads(wf, n))
    BY <2>1 DEF Settled, Exact
  <2> QED BY <2>3, <2>4, SameReachable
<1> QED BY <1>1, WalkInvHolds, PTL

\* The order the engine walks is topological, whatever the graph: a node is
\* visited once and after all the nodes it depends on (planner.py:10).
THEOREM PlanHolds == Spec => []PlanIsTopological
<1>1. WalkInv => PlanIsTopological
  <2> SUFFICES ASSUME WalkInv PROVE PlanIsTopological
    OBVIOUS
  <2>1. wf \in Workflows
    BY DEF WalkInv, Shapes
  <2>2. GraphOf(wf) \in Graphs
    BY <2>1, EngineAssumption
  <2> QED BY <2>1, <2>2, PlannerOrders DEF PlanIsTopological, Planned
<1> QED BY <1>1, WalkInvHolds, PTL

-----------------------------------------------------------------------------
(* A node runs once, in a workflow that is not repeated.                   *)

SleepStages == {"sleep_wait", "sleep_again", "sleep_row"}

\* No copy of the row knows an outcome that the walk has forgotten, except
\* before a run has read it; nothing then knows more than the row.
Kept ==
  \/ /\ pc \in Before /\ Done(mem.outs) = {}
     /\ Done(cmd.snap.outs) \subseteq Done(row.outs)
  \/ /\ Done(row.outs) \subseteq Done(mem.outs)
     /\ Done(cmd.snap.outs) \subseteq Done(mem.outs)

OnceInv == Kept /\ pc \notin SleepStages

\* The end of a walk saves the outcomes it has.
LEMMA EndOuts ==
  ASSUME Walking, ~wf.cycle.enabled,
         \/ (EndCancelled \/ \E c \in RowIn(AnyTool) : Unwind(c)) /\ UNCHANGED mem
         \/ FailRun \/ Conclude(own)
  PROVE  row'.outs = mem.outs /\ mem' = mem /\ pc' = "idle"
<1>1. own \in RowIn(AnyTool) /\ mem \in MemIn(AnyTool)
  BY WalkingFacts
<1>2. ASSUME NEW s
      PROVE  [Checkpoint(own, mem) EXCEPT !.status = s].outs = mem.outs
  <2>1. Checkpoint(own, mem) \in RowIn(AnyTool) /\ Checkpoint(own, mem).outs = mem.outs
    BY <1>1, CheckpointKeeps, RowOuts
  <2> QED BY <2>1, StatusOuts
<1>3. CASE EndCancelled /\ UNCHANGED mem
  BY <1>2, <1>3 DEF EndCancelled, Return
<1>4. ASSUME NEW c \in RowIn(AnyTool), Unwind(c), UNCHANGED mem
      PROVE  row'.outs = mem.outs /\ mem' = mem /\ pc' = "idle"
  <2> DEFINE b == IF c.status \in Suspended THEN c ELSE [own EXCEPT !.status = "paused"]
  <2>1. b \in RowIn(AnyTool)
    BY <1>1, StatusKeeps DEF Status
  <2>2. row' = Checkpoint(b, mem) /\ pc' = "idle"
    BY <1>4 DEF Unwind, Return
  <2> HIDE DEF b
  <2> QED BY <1>4, <2>1, <2>2, RowOuts
<1>5. CASE FailRun
  BY <1>2, <1>5 DEF FailRun, Return
<1>6. CASE Conclude(own)
  <2>1. \A s : Finished(own, s).outs = mem.outs
    BY <1>1 DEF Finished, RowIn
  <2> QED BY <1>6, <2>1 DEF Conclude, Return
<1> QED BY <1>3, <1>4, <1>5, <1>6

\* An outcome is added and saved, or the walk ends.
LEMMA RecordOuts ==
  ASSUME Walking, ~wf.cycle.enabled, NEW outcome \in Outcome,
         Record(outcome)
  PROVE  /\ row'.outs = mem'.outs /\ Done(mem.outs) \subseteq Done(mem'.outs)
         /\ pc' \in {"walk", "idle"}
<1> DEFINE m == [mem EXCEPT !.outs[Node] = outcome,
                   !.errs = IF "failure" \in outcome THEN @ \cup {Node} ELSE @]
<1>1. CASE EndCancelled /\ UNCHANGED mem
  BY <1>1, EndOuts
<1>2. CASE mem' = m /\ Save(Checkpoint(own, m)) /\ pc' = "walk"
  <2>1. m.outs = [mem.outs EXCEPT ![Node] = outcome] /\ outcome # {}
    BY WalkingFacts, OutcomeFacts DEF MemIn
  <2> HIDE DEF m
  <2>2. row'.outs = m.outs
    BY <1>2, WalkingFacts, RowOuts DEF Save
  <2>3. Done(mem.outs) \subseteq Done(m.outs)
    BY <2>1, WalkingFacts DEF Done, Outs
  <2> QED BY <1>2, <2>2, <2>3
<1> QED BY <1>1, <1>2 DEF Record

LEMMA RaisedOuts ==
  ASSUME Walking, ~wf.cycle.enabled, TaskRaised \/ FailRun
  PROVE  /\ row'.outs = mem'.outs /\ Done(mem.outs) \subseteq Done(mem'.outs)
         /\ pc' \in {"walk", "idle"}
<1>1. CASE \E outcome \in Outcomes(Node) : Record(outcome)
  BY <1>1, OutcomeFacts, RecordOuts
<1>2. CASE FailRun
  BY <1>2, EndOuts
<1> QED BY <1>1, <1>2 DEF TaskRaised

LEMMA EngineOnce ==
  ASSUME Walking, ~wf.cycle.enabled, OnceInv, Engine, UNCHANGED cmd
  PROVE  OnceInv'
<1>1. /\ mem \in MemIn(AnyTool) /\ row \in RowIn(AnyTool) /\ own \in RowIn(AnyTool)
      /\ pc \notin SleepStages
  BY WalkingFacts DEF OnceInv
<1>2. CASE MarkRunning
  <2>1. /\ row'.outs = row.outs /\ UNCHANGED mem /\ pc \in Before /\ pc' \in Before
        /\ pc' \notin SleepStages
    BY <1>1, <1>2 DEF MarkRunning, RowIn, Before, SleepStages
  <2> QED BY <2>1 DEF OnceInv, Kept
<1>3. CASE StartExecution
  <2>1. CASE Return(row) /\ UNCHANGED mem
    BY <2>1 DEF Return, OnceInv, Kept, Before, SleepStages
  <2>2. CASE row.status \notin Terminal
    <3> DEFINE c == CycleStarted(row)
               m == [mem EXCEPT !.paused = FALSE, !.cancelled = FALSE]
    <3>1. c \in RowIn(AnyTool) /\ c.outs = row.outs
      BY <1>1, CycleStartedKeeps, RowOuts
    <3>2. row' = [c EXCEPT !.status = "running"] /\ mem' = Hydrate(m, row)
          /\ pc' \in {"ask", "walk"}
      BY <1>3, <2>2 DEF StartExecution, Save
    <3> HIDE DEF c
    <3>3. row'.outs = row.outs
      BY <3>1, <3>2, StatusOuts
    <3>4. m.outs = mem.outs /\ m \in MemIn(AnyTool)
      BY <1>1 DEF MemIn
    <3> HIDE DEF m
    <3>5. \/ mem'.outs = mem.outs /\ (Done(mem.outs) # {} \/ Done(row.outs) = {})
          \/ mem'.outs = row.outs /\ Done(mem.outs) = {}
      BY <3>2, <3>4 DEF Hydrate, MemIn
    <3> QED BY <3>2, <3>3, <3>5 DEF OnceInv, Kept, SleepStages
  <2> QED BY <1>3, <2>1, <2>2 DEF StartExecution
<1>4. CASE pc \notin Before
  <2>1. /\ Done(row.outs) \subseteq Done(mem.outs)
        /\ Done(cmd.snap.outs) \subseteq Done(mem.outs)
    BY <1>4 DEF OnceInv, Kept
  <2>2. ASSUME row'.outs = mem'.outs, Done(mem.outs) \subseteq Done(mem'.outs),
               pc' \in {"walk", "idle"}
        PROVE  OnceInv'
    BY <2>1, <2>2 DEF OnceInv, Kept, SleepStages
  <2>3. ASSUME row'.outs = row.outs, mem' = mem, pc' \notin SleepStages
        PROVE  OnceInv'
    BY <2>1, <2>3 DEF OnceInv, Kept
  <2>4. CASE VisitCancelled \/ Interrupted \/ Suspend \/ Finish
    <3>1. \/ (EndCancelled \/ \E c \in RowIn(AnyTool) : Unwind(c)) /\ UNCHANGED mem
          \/ Conclude(own)
      BY <1>1, <2>4 DEF VisitCancelled, Interrupted, Suspend, Finish,
                        Walking
    <3> QED BY <2>2, <3>1, EndOuts
  <2>5. CASE Skip \/ Enter \/ CreateRequest \/ CreateWait
    BY <2>3, <2>5 DEF Skip, Enter, CreateRequest, CreateWait, SleepStages
  <2>6. CASE Park
    <3>1. row'.outs = row.outs /\ mem' = mem /\ pc' \notin SleepStages
      BY <1>1, <2>6 DEF Park, RowIn, SleepStages
    <3> QED BY <2>3, <3>1
  <2>7. CASE TaskReturns
    BY <2>2, <2>7, OutcomeFacts, RecordOuts DEF TaskReturns
  <2>8. CASE TaskFails
    <3>1. CASE TaskRaised
      BY <2>2, <3>1, RaisedOuts
    <3>2. CASE pc' = "ask" /\ UNCHANGED <<row, mem>>
      BY <2>3, <3>2 DEF SleepStages
    <3> QED BY <2>8, <3>1, <3>2 DEF TaskFails
  <2>9. CASE Delegated
    <3>1. row'.outs = row.outs /\ mem' = mem /\ pc' \notin SleepStages
      BY <1>1, <2>9 DEF Delegated, Granted, RowIn, SleepStages
    <3> QED BY <2>3, <3>1
  <2>10. CASE Consume
    <3> DEFINE r == [row EXCEPT !.pend = 0]
    <3>1. r \in RowIn(AnyTool) /\ r.outs = row.outs
      BY <1>1 DEF RowIn
    <3>2. \/ row' = r /\ Granted
          \/ Unwind(r) /\ UNCHANGED mem
          \/ TaskRaised
      BY <2>10 DEF Consume, Refused
    <3> HIDE DEF r
    <3>3. CASE row' = r /\ Granted
      BY <2>3, <3>1, <3>3 DEF Granted, SleepStages
    <3>4. CASE Unwind(r) /\ UNCHANGED mem
      BY <2>2, <3>1, <3>4, EndOuts
    <3>5. CASE TaskRaised
      BY <2>2, <3>5, RaisedOuts
    <3> QED BY <3>2, <3>3, <3>4, <3>5
  <2>11. CASE WaitRefused
    BY <2>2, <2>11, RaisedOuts DEF WaitRefused
  <2> QED BY <1>1, <1>4, <2>4, <2>5, <2>6, <2>7, <2>8, <2>9, <2>10, <2>11
          DEF Engine, MarkRunning, StartExecution, SleepWait, SleepRefused, SleepRow, Before, SleepStages
<1>5. CASE pc \in Before /\ ~MarkRunning /\ ~StartExecution
  BY <1>5 DEF Engine, Before, Finish, SleepWait, SleepRefused, SleepRow,
         VisitCancelled, Skip, Enter, Interrupted, TaskReturns, TaskFails,
         Consume, CreateRequest, CreateWait, WaitRefused, Park, Delegated, Suspend
<1> QED BY <1>2, <1>3, <1>4, <1>5

LEMMA EnvironmentOnce ==
  ASSUME Walking, OnceInv, Down, Environment
  PROVE  OnceInv'
<1>1. mem \in MemIn(AnyTool) /\ row \in RowIn(AnyTool) /\ cmd.snap \in RowIn(AnyTool)
  BY WalkingFacts
<1>2. Done(NewRow.outs) = {} /\ NoCmd.snap = NewRow /\ Done(NewMem.outs) = {}
      /\ \A b : Done([NewRow EXCEPT !.ckpt = b].outs) = {}
  BY DEF NewRow, NewMem, NoCmd, NoOuts, Done
<1>3. CASE Crash
  BY <1>2, <1>3 DEF Crash, OnceInv, Kept, Before, SleepStages
<1>4. CASE ~Crash
  <2>1. mem'.outs = mem.outs
    BY <1>1, <1>4
       DEF Environment, Decide, Wake, CycleDue, BeginStart, EndStart,
           BeginPause, EndPause, BeginCancel, EndCancel, Preserve, Restart, RecoverLocal,
           RepairStale, engine, MemIn
  <2>2. pc' \notin SleepStages /\ (pc \in Before => pc' \in Before)
        /\ (pc' = pc \/ pc \in Before)
    BY <1>4
       DEF Environment, Decide, Wake, CycleDue, BeginStart, EndStart,
           BeginPause, EndPause, BeginCancel, EndCancel, Preserve, Restart, RecoverLocal,
           RepairStale, engine, QueueStart, OnceInv, Before, SleepStages, Down
  <2>3. \/ row'.outs = row.outs /\ \/ cmd' = cmd
                                   \/ Done(cmd'.snap.outs) = {}
                                   \/ cmd'.snap.outs = row.outs
        \/ row'.outs = cmd.snap.outs /\ Done(cmd'.snap.outs) = {}
    <3>1. CASE Decide \/ Wake \/ CycleDue \/ Restart \/ RecoverLocal \/ RepairStale
      <4>1. Repaired(row).outs = row.outs
        BY <1>1 DEF Repaired, RowIn
      <4> QED BY <1>1, <3>1, <4>1
              DEF Decide, Wake, CycleDue, Restart, RecoverLocal, RepairStale, QueueStart, RowIn
    <3>2. CASE BeginStart \/ BeginPause
      <4>1. CASE BeginStart
        BY <4>1 DEF BeginStart
      <4>2. CASE BeginPause
        <5>1. row'.outs = row.outs /\ cmd'.snap = row'
          BY <1>1, <4>2 DEF BeginPause, RowIn
        <5> QED BY <5>1
      <4> QED BY <3>2, <4>1, <4>2
    <3>3. CASE EndStart \/ EndPause \/ Preserve
      BY <1>1, <1>2, <3>3 DEF EndStart, EndPause, Preserve, QueueStart, RowIn
    <3>4. CASE BeginCancel
      BY <1>1, <1>2, <3>4 DEF BeginCancel, RowIn
    <3>5. CASE EndCancel
      BY <1>1, <1>2, <3>5 DEF EndCancel, RowIn
    <3> QED BY <1>4, <3>1, <3>2, <3>3, <3>4, <3>5 DEF Environment
  <2> QED BY <2>1, <2>2, <2>3 DEF OnceInv, Kept
<1> QED BY <1>3, <1>4

\* A task starts only for a node without an outcome.
LEMMA TasksAreNew ==
  ASSUME Walking, Next, StartsTask
  PROVE  Node \in Nodes /\ mem.outs[Node] = {} /\ pc \notin Before
<1>1. pc \in {"walk", "ask", "delegate"} /\ pc' \in {"task", "retry"}
      /\ pc \notin Before
  BY DEF StartsTask, Before
<1>2. Enter \/ (ask.tool # "workflow" /\ pc \in AskStages)
  <2>1. CASE Environment
    BY <1>1, <2>1
       DEF Environment, Decide, Wake, CycleDue, BeginStart, EndStart,
           BeginPause, EndPause, BeginCancel, EndCancel, Preserve, Restart, RecoverLocal,
           RepairStale, Crash, engine, QueueStart
  <2>2. CASE Engine /\ ~Finish /\ ~Consume /\ ~Delegated /\ ~SleepRefused
             /\ ~WaitRefused
    BY <1>1, <2>2
       DEF Engine, MarkRunning, StartExecution, SleepWait, SleepRefused, SleepRow, Return,
           VisitCancelled, Skip, Interrupted, TaskReturns, TaskFails, EndCancelled,
           Unwind, CreateRequest, CreateWait, WaitRefused, Park, Suspend
  <2>3. CASE Finish
    <3>1. Quiet /\ Shapes /\ own \in RowIn(AnyTool) /\ own.pend <= Len(reqs)
      BY <2>3 DEF Finish, Quiet, Walking, WalkInv, Shapes, EngineOK, EngineShape,
                  EnginePointers
    <3>2. pc' \in OtherStages
      BY <2>3, <3>1, SuccessEnds, ConcludeEnds DEF Finish
    <3> QED BY <1>1, <3>2 DEF OtherStages
  <2>4. CASE Consume \/ Delegated
    <3>1. CASE Granted
      BY <1>1, <2>4, <3>1 DEF Granted, Consume, Delegated, AskStages
    <3>2. CASE Refused /\ Consume
      BY <1>1, <3>2 DEF Refused, Unwind, Return, Consume, AskStages
    <3> QED BY <2>4, <3>1, <3>2 DEF Consume, Delegated
  <2>5. CASE SleepRefused \/ WaitRefused
    BY <1>1, <2>5 DEF SleepRefused, WaitRefused
  <2> QED BY <2>1, <2>2, <2>3, <2>4, <2>5 DEF Next
<1>3. at \in 1..Size /\ mem.outs[NodeAt(wf, at)] = {}
  <2>1. at \in 1..(Size + 1) /\ Size \in Nat
    BY WalkingFacts, PlanFacts DEF Walking, WalkInv, EngineWalked, Position
  <2>2. CASE Enter
    BY <2>1, <2>2, SameReachable DEF Enter, Size
  <2>3. CASE ask.tool # "workflow" /\ pc \in AskStages
    BY <2>1, <2>3 DEF Walking, WalkInv, EngineWalked, Position, OnTask
  <2> QED BY <1>2, <2>2, <2>3
<1> QED BY <1>1, <1>3, SameReachable, WalkingFacts, PlanFacts

LEMMA OnceStep ==
  ASSUME WalkInv, Down, ~wf.cycle.enabled, OnceInv, [Next]_vars
  PROVE  OnceInv' /\ (StartsTask => row.outs[Node] = {})
<1>1. CASE Next
  <2>1. Walking
    BY <1>1, DefinitionStays DEF Walking
  <2>2. OnceInv'
    <3>1. CASE Engine
      BY <2>1, <3>1, EngineOnce, EngineWalks
    <3>2. CASE Environment
      BY <2>1, <3>2, EnvironmentOnce
    <3> QED BY <1>1, <3>1, <3>2 DEF Next
  <2>3. ASSUME StartsTask PROVE row.outs[Node] = {}
    <3>1. Node \in Nodes /\ mem.outs[Node] = {} /\ pc \notin Before
      BY <1>1, <2>1, <2>3, TasksAreNew
    <3>2. Done(row.outs) \subseteq Done(mem.outs)
      BY <3>1 DEF OnceInv, Kept
    <3> QED BY <3>1, <3>2 DEF Done
  <2> QED BY <2>2, <2>3
<1>2. CASE UNCHANGED vars
  BY <1>2 DEF vars, engine, OnceInv, Kept, StartsTask
<1> QED BY <1>1, <1>2

\* Where the workflow is not repeated, a task whose output is in the row is
\* never run again, whatever is paused, overwritten, crashed or repaired
\* (engine.py:720, control_plane.py:773).
THEOREM TasksRunOnce ==
  ASSUME \A w \in Workflows : ~w.cycle.enabled
  PROVE  Spec => NodesRunOnce
<1>1. Init => OnceInv
  BY DEF Init, OnceInv, Kept, SleepStages, Before, NewRow, NewMem, NoCmd
<1>2. WalkInv => ~wf.cycle.enabled
  BY DEF WalkInv
<1>3. WalkInv /\ Down /\ OnceInv /\ [Next]_vars => OnceInv'
  BY <1>2, OnceStep
<1>4. WalkInv /\ Down /\ OnceInv /\ [Next]_vars
      => [StartsTask /\ row.cyc.n = own.cyc.n => row.outs[Node] = {}]_vars
  BY <1>2, OnceStep
<1> QED BY <1>1, <1>3, <1>4, WalkInvHolds, PTL DEF Spec, NodesRunOnce

-----------------------------------------------------------------------------
(* Types.                                                                  *)

\* The copies of the row name nodes and waits that exist.
RowTight(r, n) == r.errs \subseteq Nodes /\ r.active <= n

EngineTight ==
  /\ RowTight(row, Len(waits)) /\ RowTight(own, Len(waits))
  /\ mem.errs \subseteq Nodes /\ ask.tool \in Tools

TablesTight ==
  /\ \A i \in DOMAIN reqs : reqs[i].tool \in Tools
  /\ Len(reqs) <= MaxRequests
  /\ RowTight(cmd.snap, Len(waits)) /\ waking <= Len(waits)

CountersTight ==
  /\ up \in BOOLEAN /\ commands \in 0..MaxCommands
  /\ decisions \in 0..MaxDecisions /\ crashes \in 0..MaxCrashes

Tight == EngineTight /\ TablesTight /\ CountersTight

\* An engine step that leaves the waits alone.
Tightly == Walking /\ EngineTight /\ waits' = waits

LEMMA RowParts ==
  ASSUME NEW T, NEW r \in RowIn(T), NEW n \in Nat
  PROVE  /\ \A m : /\ Checkpoint(r, m).errs = m.errs
                   /\ Checkpoint(r, m).active = r.active
         /\ ResetCycle(r).errs = {} /\ ResetCycle(r).active = r.active
         /\ CycleStarted(r).errs = r.errs /\ CycleStarted(r).active = r.active
         /\ \A s : /\ [r EXCEPT !.status = s].errs = r.errs
                   /\ [r EXCEPT !.status = s].active = r.active
  BY DEF RowIn, Checkpoint, ResetCycle, CycleStarted

LEMMA NewTight ==
  ASSUME NEW n \in Nat
  PROVE  /\ RowTight(NewRow, n) /\ NewMem.errs = {} /\ NoAsk.tool \in Tools
         /\ RowTight(NoCmd.snap, n)
         /\ \A b : RowTight([NewRow EXCEPT !.ckpt = b], n)
  BY DEF RowTight, NewRow, NewMem, NoAsk, NoCmd, Tools

LEMMA TightFacts ==
  ASSUME Walking
  PROVE  /\ row \in RowIn(AnyTool) /\ own \in RowIn(AnyTool) /\ mem \in MemIn(AnyTool)
         /\ cmd.snap \in RowIn(AnyTool) /\ waits \in Seq(WaitRow)
         /\ Len(waits) \in Nat /\ waking \in Nat
         /\ reqs \in Seq(RequestIn(AnyTool)) /\ Len(reqs) \in Nat
  BY DEF Walking, WalkInv, Shapes, EngineOK, EngineShape, TableShape

LEMMA ReturnTight ==
  ASSUME Walking, NEW r, RowTight(r, Len(waits)), Return(r), waits' = waits,
         mem'.errs \subseteq Nodes
  PROVE  EngineTight'
<1>1. Len(waits) \in Nat
  BY TightFacts
<1> QED BY <1>1, NewTight DEF Return, EngineTight

LEMMA EndTight ==
  ASSUME Tightly, UNCHANGED mem,
         \/ EndCancelled
         \/ \E c \in RowIn(AnyTool) : RowTight(c, Len(waits)) /\ Unwind(c)
  PROVE  EngineTight'
<1>1. /\ own \in RowIn(AnyTool) /\ Len(waits) \in Nat /\ waits' = waits /\ Walking
      /\ RowTight(own, Len(waits)) /\ mem.errs \subseteq Nodes /\ mem'.errs \subseteq Nodes
  BY TightFacts DEF Tightly, EngineTight
<1>2. ASSUME NEW b \in RowIn(AnyTool), RowTight(b, Len(waits))
      PROVE  /\ Checkpoint(b, mem) \in RowIn(AnyTool)
             /\ RowTight(Checkpoint(b, mem), Len(waits))
  BY <1>1, <1>2, TightFacts, CheckpointKeeps, RowParts DEF RowTight
<1>3. CASE EndCancelled
  <2> DEFINE c == Checkpoint(own, mem)
             r == [c EXCEPT !.status = "cancelled"]
  <2>1. c \in RowIn(AnyTool) /\ RowTight(c, Len(waits))
    BY <1>1, <1>2
  <2>2. Return(r)
    BY <1>3 DEF EndCancelled
  <2> HIDE DEF c
  <2>3. RowTight(r, Len(waits))
    BY <1>1, <2>1, RowParts DEF RowTight
  <2> HIDE DEF r
  <2> QED BY <1>1, <2>2, <2>3, ReturnTight
<1>4. ASSUME NEW c \in RowIn(AnyTool), RowTight(c, Len(waits)), Unwind(c)
      PROVE  EngineTight'
  <2> DEFINE p == [own EXCEPT !.status = "paused"]
             b == IF c.status \in Suspended THEN c ELSE p
             r == Checkpoint(b, mem)
  <2>1. p \in RowIn(AnyTool) /\ RowTight(p, Len(waits))
    <3>1. "paused" \in Status
      BY DEF Status
    <3>2. p \in RowIn(AnyTool)
      BY <1>1, <3>1, StatusKeeps
    <3>3. p.errs = own.errs /\ p.active = own.active
      BY <1>1, RowParts
    <3> HIDE DEF p
    <3> QED BY <1>1, <3>2, <3>3 DEF RowTight
  <2> HIDE DEF p
  <2>2. b \in RowIn(AnyTool) /\ RowTight(b, Len(waits))
    BY <1>4, <2>1
  <2>3. Return(r)
    BY <1>4 DEF Unwind, p
  <2> HIDE DEF b
  <2>4. RowTight(r, Len(waits))
    BY <1>2, <2>2
  <2> HIDE DEF r
  <2> QED BY <1>1, <2>3, <2>4, ReturnTight
<1> QED BY <1>3, <1>4

LEMMA GuardTight ==
  ASSUME Tightly, NEW r \in RowIn(AnyTool), RowTight(r, Len(waits)),
         GuardPause(r) \/ Sleeps(r)
  PROVE  EngineTight'
<1> DEFINE z == ResetCycle(r)
<1>1. Len(waits) \in Nat /\ waits' = waits /\ Walking
  BY TightFacts DEF Tightly
<1>2. RowTight(z, Len(waits))
  BY <1>1, RowParts DEF RowTight
<1>3. mem'.errs = {}
  BY <1>1, TightFacts DEF GuardPause, Sleeps, Schedule, Forget, MemIn
<1>4. GuardPause(r) => Return(z)
  BY DEF GuardPause
<1>5. Sleeps(r) => own' = z /\ row' = z /\ ask' = ask
  BY DEF Sleeps, Schedule, Save
<1> HIDE DEF z
<1>6. CASE GuardPause(r)
  BY <1>1, <1>2, <1>3, <1>4, <1>6, ReturnTight
<1>7. CASE Sleeps(r)
  BY <1>1, <1>2, <1>3, <1>5, <1>7 DEF EngineTight, Tightly
<1> QED BY <1>6, <1>7

LEMMA FailureTight ==
  ASSUME Tightly, NEW r \in RowIn(AnyTool), RowTight(r, Len(waits)), Fails(r)
  PROVE  EngineTight'
<1> DEFINE f == [r EXCEPT !.cyc.fails = @ + 1]
<1>1. r.cyc \in CycleCounts /\ [r.cyc EXCEPT !.fails = @ + 1] \in CycleCounts
  BY DEF RowIn, CycleCounts
<1>2. f \in RowIn(AnyTool) /\ f.errs = r.errs /\ f.active = r.active
  BY <1>1 DEF RowIn
<1>3. GuardPause(f) \/ Sleeps(f)
  BY DEF Fails, CycleFailure, Sleeps
<1> HIDE DEF f
<1> QED BY <1>2, <1>3, GuardTight DEF RowTight

LEMMA FailRunTight ==
  ASSUME Tightly, FailRun
  PROVE  EngineTight'
<1>1. /\ own \in RowIn(AnyTool) /\ Len(waits) \in Nat /\ waits' = waits /\ Walking
      /\ RowTight(own, Len(waits)) /\ mem.errs \subseteq Nodes
      /\ mem \in MemIn(AnyTool)
  BY TightFacts DEF Tightly, EngineTight
<1>2. CASE Fails(own)
  BY <1>1, <1>2, FailureTight
<1>3. CASE /\ Return([Checkpoint(own, mem) EXCEPT !.status = "failed"])
           /\ UNCHANGED mem
  <2> DEFINE c == Checkpoint(own, mem)
             r == [c EXCEPT !.status = "failed"]
  <2>1. c \in RowIn(AnyTool) /\ RowTight(c, Len(waits))
    BY <1>1, CheckpointKeeps, RowParts DEF RowTight
  <2>2. Return(r)
    BY <1>3
  <2> HIDE DEF c
  <2>3. RowTight(r, Len(waits))
    BY <1>1, <2>1, RowParts DEF RowTight
  <2> HIDE DEF r
  <2> QED BY <1>1, <1>3, <2>2, <2>3, ReturnTight
<1> QED BY <1>2, <1>3 DEF FailRun, Fails

LEMMA ConcludeTight ==
  ASSUME Tightly, NEW r \in RowIn(AnyTool), RowTight(r, Len(waits)), Conclude(r)
  PROVE  EngineTight'
<1>1. waits' = waits /\ Walking /\ mem.errs \subseteq Nodes
  BY DEF Tightly, EngineTight
<1>2. \A s : RowTight(Finished(r, s), Len(waits))
  BY DEF RowTight, Finished, RowIn
<1>3. CASE Fails(r)
  BY <1>3, FailureTight
<1> QED BY <1>1, <1>2, <1>3, ReturnTight DEF Conclude, Fails

LEMMA SuccessTight ==
  ASSUME Tightly, CycleSuccess
  PROVE  EngineTight'
<1>1. own \in RowIn(AnyTool) /\ RowTight(own, Len(waits))
  BY TightFacts DEF Tightly, EngineTight
<1>2. PICK r \in RowIn(AnyTool) :
        /\ r.errs = own.errs /\ r.active = own.active
        /\ Conclude(r) \/ GuardPause(r) \/ Sleeps(r)
  BY <1>1, CycleRow
<1>3. RowTight(r, Len(waits))
  BY <1>1, <1>2 DEF RowTight
<1> QED BY <1>2, <1>3, ConcludeTight, GuardTight

\* Only a node of the plan gets an error.
LEMMA RecordTight ==
  ASSUME Tightly, OnTask, NEW outcome \in Outcome,
         Record(outcome)
  PROVE  EngineTight'
<1>1. CASE EndCancelled /\ UNCHANGED mem
  BY <1>1, EndTight
<1>2. CASE ~mem.cancelled
  <2> DEFINE e == IF "failure" \in outcome THEN mem.errs \cup {Node} ELSE mem.errs
             m == [mem EXCEPT !.outs[Node] = outcome, !.errs = e]
             c == Checkpoint(own, m)
  <2>1. mem' = m /\ own' = c /\ row' = c /\ ask' = ask
    BY <1>2 DEF Record, Save
  <2>2. /\ own \in RowIn(AnyTool) /\ mem \in MemIn(AnyTool) /\ waits' = waits
        /\ RowTight(own, Len(waits)) /\ mem.errs \subseteq Nodes
        /\ ask.tool \in Tools /\ wf \in Workflows
    BY WalkingFacts DEF Tightly, EngineTight
  <2>3. Node \in Nodes
    <3>1. at \in 1..(Size + 1) /\ at <= Size
      BY DEF Tightly, Walking, WalkInv, EngineWalked, Position
    <3>2. Size \in Nat
      BY <2>2, PlanFacts
    <3> QED BY <2>2, <3>1, <3>2, PlanFacts, SameReachable
  <2>4. m.errs = e /\ e \subseteq Nodes
    BY <2>2, <2>3 DEF MemIn
  <2> HIDE DEF m
  <2>5. c.errs = m.errs /\ c.active = own.active
    BY <2>2, RowParts, TightFacts DEF Tightly
  <2> HIDE DEF c, e
  <2> QED BY <2>1, <2>2, <2>4, <2>5 DEF EngineTight, RowTight
<1> QED BY <1>1, <1>2 DEF Record

LEMMA RaisedTight ==
  ASSUME Tightly, OnTask, TaskRaised
  PROVE  EngineTight'
<1>1. CASE \E outcome \in Outcomes(Node) : Record(outcome)
  BY <1>1, OutcomeFacts, RecordTight
<1>2. CASE FailRun
  BY <1>2, FailRunTight
<1> QED BY <1>1, <1>2 DEF TaskRaised

\* Engine steps that leave requests and waits alone.
LEMMA QuietTight ==
  ASSUME Tightly,
         \/ MarkRunning \/ StartExecution \/ Finish \/ SleepRow \/ VisitCancelled
         \/ Skip \/ Enter \/ Interrupted \/ TaskReturns \/ TaskFails \/ Consume
         \/ Park \/ Suspend \/ SleepRefused \/ WaitRefused
  PROVE  EngineTight'
<1>1. /\ row \in RowIn(AnyTool) /\ own \in RowIn(AnyTool) /\ mem \in MemIn(AnyTool)
      /\ RowTight(row, Len(waits)) /\ RowTight(own, Len(waits))
      /\ mem.errs \subseteq Nodes /\ ask.tool \in Tools /\ Len(waits) \in Nat
      /\ waits' = waits /\ Walking /\ wf \in Workflows
  BY TightFacts, WalkingFacts DEF Tightly, EngineTight
<1>2. CASE MarkRunning \/ Park
  <2>1. UNCHANGED <<own, mem, ask>>
    BY <1>2 DEF MarkRunning, Park
  <2>2. CASE MarkRunning
    <3>1. row'.errs = row.errs /\ row'.active = row.active
      BY <1>1, <2>2 DEF MarkRunning, RowIn
    <3> QED BY <1>1, <2>1, <3>1 DEF EngineTight, RowTight
  <2>3. CASE Park
    <3>1. row'.errs = row.errs /\ row'.active = Len(waits)
      BY <1>1, <2>3 DEF Park, RowIn
    <3> QED BY <1>1, <2>1, <3>1 DEF EngineTight, RowTight
  <2> QED BY <1>2, <2>2, <2>3
<1>3. CASE StartExecution
  <2>1. CASE Return(row) /\ UNCHANGED mem
    BY <1>1, <2>1, ReturnTight
  <2>2. CASE row.status \notin Terminal
    <3> DEFINE c == CycleStarted(row)
               r == [c EXCEPT !.status = "running"]
               m == [mem EXCEPT !.paused = FALSE, !.cancelled = FALSE]
    <3>1. /\ row' = r /\ own' = r /\ mem' = Hydrate(m, row) /\ ask' = NoAsk
      BY <1>3, <2>2 DEF StartExecution, Save
    <3>2. c \in RowIn(AnyTool) /\ c.errs = row.errs /\ c.active = row.active
      BY <1>1, CycleStartedKeeps, RowParts
    <3> HIDE DEF c
    <3>3. r.errs = row.errs /\ r.active = row.active
      BY <1>1, <3>2, RowParts
    <3> HIDE DEF r
    <3>4. m.errs = mem.errs /\ m \in MemIn(AnyTool)
      BY <1>1 DEF MemIn
    <3> HIDE DEF m
    <3>5. mem'.errs = mem.errs \/ mem'.errs = row.errs
      BY <3>1, <3>4 DEF Hydrate, MemIn
    <3> QED BY <1>1, <3>1, <3>3, <3>5, NewTight DEF EngineTight, RowTight
  <2> QED BY <1>3, <2>1, <2>2 DEF StartExecution
<1>4. CASE Finish
  BY <1>1, <1>4, SuccessTight, ConcludeTight DEF Finish
<1>5. CASE SleepRow
  <2>1. RowTight([own EXCEPT !.status = "sleeping"], Len(waits))
    BY <1>1, RowParts DEF RowTight
  <2> QED BY <1>1, <1>5, <2>1, ReturnTight DEF SleepRow
<1>6. CASE VisitCancelled \/ Interrupted \/ Suspend
  BY <1>1, <1>6, EndTight DEF VisitCancelled, Interrupted, Suspend
<1>7. CASE Skip
  BY <1>1, <1>7 DEF Skip, EngineTight
<1>8. CASE Enter
  <2>1. at \in 1..Size
    BY <1>1, <1>8, PlanFacts
       DEF Enter, Size, Walking, WalkInv, EngineWalked, Position
  <2>2. Node \in Tools
    BY <1>1, <2>1, PlanFacts, SameReachable DEF Tools
  <2>3. UNCHANGED <<row, own, mem>> /\ ask'.tool = Node
    BY <1>8 DEF Enter
  <2> QED BY <1>1, <2>2, <2>3 DEF EngineTight
<1>9. CASE TaskReturns
  BY <1>9, OutcomeFacts, RecordTight DEF TaskReturns, OnTask
<1>10. CASE TaskFails
  <2>1. pc \in {"task", "retry"} /\ OnTask
    BY <1>10 DEF TaskFails, OnTask
  <2>2. CASE TaskRaised
    BY <2>1, <2>2, RaisedTight
  <2>3. CASE UNCHANGED <<row, own, mem>> /\ ask' = [tool |-> Node, why |-> "failure"]
    <3>1. at \in 1..Size
      BY <1>1, <2>1, PlanFacts DEF Walking, WalkInv, EngineWalked, Position
    <3>2. Node \in Tools
      BY <1>1, <3>1, PlanFacts, SameReachable DEF Tools
    <3> QED BY <1>1, <2>3, <3>2 DEF EngineTight
  <2> QED BY <1>10, <2>2, <2>3 DEF TaskFails
<1>11. CASE Consume
  <2> DEFINE r == [row EXCEPT !.pend = 0]
  <2>1. r \in RowIn(AnyTool) /\ RowTight(r, Len(waits))
    BY <1>1 DEF RowIn, RowTight
  <2>2. /\ pc \in AskStages
        /\ \/ row' = r /\ Granted /\ UNCHANGED own
           \/ Unwind(r) /\ UNCHANGED mem
           \/ ask.tool # "workflow" /\ TaskRaised
    BY <1>11 DEF Consume, Refused, AskStages
  <2> HIDE DEF r
  <2>3. CASE row' = r /\ Granted /\ UNCHANGED own
    BY <1>1, <2>1, <2>3 DEF Granted, EngineTight
  <2>4. CASE Unwind(r) /\ UNCHANGED mem
    BY <2>1, <2>4, EndTight
  <2>5. CASE ask.tool # "workflow" /\ TaskRaised
    BY <2>2, <2>5, RaisedTight DEF OnTask
  <2> QED BY <2>2, <2>3, <2>4, <2>5
<1>12. CASE SleepRefused
  <2>1. CASE Fails(own)
    BY <1>1, <2>1, FailureTight
  <2>2. CASE Return(row) /\ UNCHANGED mem
    BY <1>1, <2>2, ReturnTight
  <2> QED BY <1>12, <2>1, <2>2 DEF SleepRefused, Fails
<1>13. CASE WaitRefused
  <2>1. pc = "wait" /\ (FailRun \/ (ask.tool # "workflow" /\ TaskRaised))
    BY <1>13 DEF WaitRefused
  <2>2. CASE FailRun
    BY <2>2, FailRunTight
  <2>3. CASE ask.tool # "workflow" /\ TaskRaised
    BY <2>1, <2>3, RaisedTight DEF OnTask, AskStages
  <2> QED BY <2>1, <2>2, <2>3
<1> QED BY <1>2, <1>3, <1>4, <1>5, <1>6, <1>7, <1>8, <1>9, <1>10, <1>11,
           <1>12, <1>13

\* A decision and an expiry change what was asked for in nothing but its status.
LEMMA DecisionTools ==
  ASSUME Shapes, NEW tool, NEW status \in {"approved", "rejected"},
         Resolvable(tool, status), Resolve(tool, status)
  PROVE  /\ Len(reqs') = Len(reqs) /\ DOMAIN reqs' = DOMAIN reqs
         /\ \A i \in DOMAIN reqs : reqs'[i].tool = reqs[i].tool
         /\ Len(waits') = Len(waits)
<1>1. reqs \in Seq(RequestIn(AnyTool)) /\ waits \in Seq(WaitRow)
  BY DEF Shapes, TableShape
<1>2. reqs' \in Seq(RequestIn(AnyTool)) /\ Len(reqs') = Len(reqs)
  BY ResolveKeeps
<1>3. DOMAIN reqs' = DOMAIN reqs
  BY <1>1, <1>2
<1>4. reqs' = [reqs EXCEPT ![Latest(tool)].status = status]
  BY DEF Resolve
<1>5. ASSUME NEW i \in DOMAIN reqs PROVE reqs'[i].tool = reqs[i].tool
  <2>1. reqs[i] \in RequestIn(AnyTool)
    BY <1>1
  <2> QED BY <1>4, <2>1 DEF RequestIn
<1>6. Len(waits') = Len(waits)
  BY <1>1 DEF Resolve
<1> QED BY <1>2, <1>3, <1>5, <1>6

LEMMA ExpiryTools ==
  ASSUME Shapes, reqs' = reqs \/ reqs' = Expired(row)
  PROVE  /\ Len(reqs') = Len(reqs) /\ DOMAIN reqs' = DOMAIN reqs
         /\ \A i \in DOMAIN reqs : reqs'[i].tool = reqs[i].tool
<1>1. reqs \in Seq(RequestIn(AnyTool))
  BY DEF Shapes, TableShape
<1>2. \A i \in DOMAIN reqs : [reqs[i] EXCEPT !.status = "expired"].tool = reqs[i].tool
  BY <1>1 DEF RequestIn
<1>3. CASE reqs' = Expired(row)
  BY <1>1, <1>2, <1>3 DEF Expired
<1> QED BY <1>3

LEMMA BoundFacts ==
  {MaxCommands, MaxRequests, MaxDecisions, MaxCycle, MaxCrashes} \subseteq Nat
  BY EngineAssumption

\* Waits and requests that the engine adds.
LEMMA EngineTightStays ==
  ASSUME Walking, Tight, Engine
  PROVE  Tight'
<1>1. /\ row \in RowIn(AnyTool) /\ own \in RowIn(AnyTool) /\ mem \in MemIn(AnyTool)
      /\ waits \in Seq(WaitRow) /\ Len(waits) \in Nat
      /\ reqs \in Seq(RequestIn(AnyTool)) /\ Len(reqs) \in Nat
      /\ row.active \in Nat /\ own.active \in Nat /\ cmd.snap.active \in Nat
      /\ waking \in Nat
  BY TightFacts DEF RowIn
<1>2. /\ EngineTight /\ TablesTight /\ CountersTight /\ Shapes
  BY DEF Tight, Walking, WalkInv
<1>3. UNCHANGED <<waking, cmd, up, commands, decisions, crashes>>
  BY DEF Engine, MarkRunning, StartExecution, Finish, SleepWait, SleepRefused, SleepRow,
         VisitCancelled, Skip, Enter, Interrupted, TaskReturns, TaskFails,
         Consume, CreateRequest, CreateWait, WaitRefused, Park, Delegated, Suspend, counters
<1>4. CASE \/ MarkRunning \/ StartExecution \/ Finish \/ SleepRow \/ VisitCancelled
           \/ Skip \/ Enter \/ Interrupted \/ TaskReturns \/ TaskFails \/ Consume
           \/ Park \/ Suspend \/ SleepRefused \/ WaitRefused
  <2>1. reqs' = reqs /\ waits' = waits
    BY <1>4 DEF MarkRunning, StartExecution, Finish, SleepRow, VisitCancelled,
                Skip, Enter, Interrupted, TaskReturns, TaskFails, Consume, Park,
                Suspend, SleepRefused, WaitRefused
  <2>2. EngineTight'
    BY <1>2, <1>4, <2>1, QuietTight DEF Tightly
  <2> QED BY <1>2, <1>3, <2>1, <2>2 DEF Tight, TablesTight, CountersTight
<1>5. CASE SleepWait
  <2> DEFINE same == SameWait
  <2>1. UNCHANGED <<row, mem, ask, reqs>>
    BY <1>5 DEF SleepWait
  <2>2. own'.errs = own.errs /\ Len(waits') >= Len(waits) /\ Len(waits') \in Nat
        /\ own'.active <= Len(waits')
    <3>1. CASE same # {}
      <4>1. (CHOOSE i \in same : TRUE) \in DOMAIN waits
        BY <3>1 DEF SameWait
      <4>2. waits' = waits /\ own' = [own EXCEPT !.active = CHOOSE i \in same : TRUE]
        BY <1>5, <3>1 DEF SleepWait
      <4> HIDE DEF same
      <4>3. own'.errs = own.errs /\ own'.active = CHOOSE i \in same : TRUE
        BY <1>1, <4>2 DEF RowIn
      <4> QED BY <1>1, <4>1, <4>2, <4>3
    <3>2. CASE same = {}
      <4>1. /\ waits' = Append(waits, [kind |-> "sleep", key |-> own.cyc.next,
                                       status |-> "pending"])
            /\ own' = [own EXCEPT !.active = Len(waits) + 1]
        BY <1>5, <3>2 DEF SleepWait
      <4>2. Len(waits') = Len(waits) + 1
        BY <1>1, <4>1
      <4> QED BY <1>1, <4>1, <4>2 DEF RowIn
    <3> QED BY <3>1, <3>2
  <2>3. EngineTight'
    BY <1>1, <1>2, <2>1, <2>2 DEF EngineTight, RowTight
  <2>4. TablesTight'
    BY <1>1, <1>2, <1>3, <2>1, <2>2 DEF TablesTight, RowTight
  <2> QED BY <1>2, <1>3, <2>3, <2>4 DEF Tight, CountersTight
<1>6. CASE CreateRequest
  <2>1. /\ UNCHANGED <<row, own, mem, ask, waits>> /\ Len(reqs) < MaxRequests
        /\ reqs' = Append(reqs, [tool |-> ask.tool, why |-> ask.why,
                                 status |-> "pending"])
    BY <1>6 DEF CreateRequest
  <2>2. EngineTight'
    BY <1>2, <2>1 DEF EngineTight
  <2>3. Len(reqs') <= MaxRequests /\ \A i \in DOMAIN reqs' : reqs'[i].tool \in Tools
    BY <1>1, <1>2, <2>1, BoundFacts DEF TablesTight, EngineTight
  <2> QED BY <1>2, <1>3, <2>1, <2>2, <2>3 DEF Tight, TablesTight, CountersTight
<1>7. CASE CreateWait
  <2>1. /\ UNCHANGED <<row, own, mem, ask, reqs>>
        /\ waits' = Append(waits, [kind |-> "approval", key |-> Len(reqs),
                                   status |-> "pending"])
    BY <1>7 DEF CreateWait
  <2>2. Len(waits') = Len(waits) + 1
    BY <1>1, <2>1
  <2>3. EngineTight'
    BY <1>1, <1>2, <2>1, <2>2 DEF EngineTight, RowTight
  <2>4. TablesTight'
    BY <1>1, <1>2, <1>3, <2>1, <2>2 DEF TablesTight, RowTight
  <2> QED BY <1>2, <1>3, <2>3, <2>4 DEF Tight, CountersTight
<1>8. CASE Delegated
  <2>1. /\ Len(reqs') = Len(reqs) /\ DOMAIN reqs' = DOMAIN reqs
        /\ \A i \in DOMAIN reqs : reqs'[i].tool = reqs[i].tool
        /\ Len(waits') = Len(waits)
    BY <1>2, <1>8, DecisionTools DEF Delegated
  <2>2. row'.errs = row.errs /\ row'.active = 0 /\ UNCHANGED <<own, mem, ask>>
    BY <1>1, <1>8 DEF Delegated, Granted, RowIn
  <2>3. EngineTight'
    BY <1>1, <1>2, <2>1, <2>2 DEF EngineTight, RowTight
  <2>4. TablesTight'
    BY <1>2, <1>3, <2>1 DEF TablesTight
  <2> QED BY <1>2, <1>3, <2>3, <2>4 DEF Tight, CountersTight
<1> QED BY <1>4, <1>5, <1>6, <1>7, <1>8 DEF Engine

LEMMA EnvironmentTight ==
  ASSUME Walking, Tight, Environment
  PROVE  Tight'
<1>1. /\ row \in RowIn(AnyTool) /\ mem \in MemIn(AnyTool)
      /\ cmd.snap \in RowIn(AnyTool) /\ waits \in Seq(WaitRow) /\ Len(waits) \in Nat
      /\ reqs \in Seq(RequestIn(AnyTool)) /\ row.active \in Nat
  BY TightFacts DEF RowIn
<1>2. /\ RowTight(row, Len(waits)) /\ RowTight(own, Len(waits))
      /\ mem.errs \subseteq Nodes /\ ask.tool \in Tools
      /\ RowTight(cmd.snap, Len(waits)) /\ waking <= Len(waits)
      /\ Len(reqs) <= MaxRequests /\ \A i \in DOMAIN reqs : reqs[i].tool \in Tools
      /\ CountersTight /\ Shapes
  BY DEF Tight, EngineTight, TablesTight, Walking, WalkInv
<1>3. /\ Len(reqs') = Len(reqs) /\ DOMAIN reqs' = DOMAIN reqs
      /\ \A i \in DOMAIN reqs : reqs'[i].tool = reqs[i].tool
      /\ Len(waits') = Len(waits)
  <2>1. CASE Decide
    BY <1>2, <2>1, DecisionTools DEF Decide
  <2>2. CASE Restart \/ RecoverLocal \/ RepairStale
    <3>1. waits' = waits /\ (reqs' = reqs \/ reqs' = Expired(row))
      BY <2>2 DEF Restart, RecoverLocal, RepairStale
    <3> QED BY <1>2, <3>1, ExpiryTools
  <2>3. CASE Environment /\ ~Decide /\ ~Restart /\ ~RecoverLocal /\ ~RepairStale
    <3>1. reqs' = reqs
      BY <2>3 DEF Environment, Wake, CycleDue, BeginStart, EndStart, BeginPause,
                  EndPause, BeginCancel, EndCancel, Preserve, Crash
    <3>2. \/ waits' = waits
          \/ \E kinds : waits' = Closed(kinds)
          \/ waits' = [waits EXCEPT ![row.active].status = "resolved"]
      BY <2>3 DEF Environment, Wake, CycleDue, BeginStart, EndStart, BeginPause,
                  EndPause, BeginCancel, EndCancel, Preserve, Crash
    <3>3. DOMAIN waits' = DOMAIN waits
      BY <1>1, <3>2 DEF Closed
    <3>4. waits' \in Seq(WaitRow)
      <4>1. Shapes'
        BY ShapesStay, <1>2 DEF Next
      <4> QED BY <4>1 DEF Shapes, TableShape
    <3> QED BY <1>1, <3>1, <3>3, <3>4
  <2> QED BY <2>1, <2>2, <2>3
<1>4. RowTight(row', Len(waits))
  <2>1. CASE \/ Decide \/ BeginStart \/ Crash \/ Wake \/ CycleDue
    <3>1. row'.errs = row.errs /\ row'.active \in {0, row.active}
      BY <1>1, <2>1
         DEF Decide, BeginStart, Crash, Wake, CycleDue, QueueStart, RowIn
    <3> QED BY <1>1, <1>2, <3>1 DEF RowTight
  <2>2. CASE BeginPause \/ BeginCancel \/ EndCancel
    <3>1. row'.errs = row.errs /\ row'.active \in {0, row.active}
      BY <1>1, <2>2 DEF BeginPause, BeginCancel, EndCancel, RowIn
    <3> QED BY <1>1, <1>2, <3>1 DEF RowTight
  <2>3. CASE EndStart \/ EndPause \/ Preserve
    <3>1. row'.errs = cmd.snap.errs /\ row'.active = cmd.snap.active
      BY <1>1, <2>3 DEF EndStart, EndPause, Preserve, QueueStart, RowIn
    <3> QED BY <1>2, <3>1 DEF RowTight
  <2>4. CASE Restart \/ RecoverLocal \/ RepairStale
    <3>1. row' = row \/ row' = Repaired(row)
      BY <2>4 DEF Restart, RecoverLocal, RepairStale
    <3>2. Repaired(row).errs = row.errs /\ Repaired(row).active = row.active
      BY <1>1 DEF Repaired, RowIn
    <3> QED BY <1>2, <3>1, <3>2 DEF RowTight
  <2> QED BY <2>1, <2>2, <2>3, <2>4 DEF Environment
<1>5. RowTight(cmd'.snap, Len(waits))
  <2>1. CASE \/ Decide \/ Wake \/ CycleDue \/ Restart \/ RecoverLocal \/ RepairStale
    <3>1. cmd' = cmd
      BY <2>1 DEF Decide, Wake, CycleDue, Restart, RecoverLocal, RepairStale
    <3> QED BY <1>2, <3>1
  <2>2. CASE BeginStart \/ BeginPause
    <3>1. CASE BeginStart
      BY <1>2, <3>1 DEF BeginStart
    <3>2. CASE BeginPause
      <4>1. cmd'.snap = row'
        BY <3>2 DEF BeginPause
      <4> QED BY <1>4, <4>1
    <3> QED BY <2>2, <3>1, <3>2
  <2>3. CASE EndStart \/ EndPause \/ Preserve \/ Crash
    <3>1. cmd' = NoCmd
      BY <2>3 DEF EndStart, EndPause, Preserve, Crash
    <3> QED BY <1>1, <3>1, NewTight
  <2>4. CASE BeginCancel
    <3>1. cmd'.snap = [NewRow EXCEPT !.ckpt = row.ckpt]
      BY <2>4 DEF BeginCancel
    <3> QED BY <1>1, <3>1, NewTight
  <2>5. CASE EndCancel
    <3>1. cmd' = NoCmd \/ cmd'.snap = row'
      BY <2>5 DEF EndCancel
    <3> QED BY <1>1, <1>4, <3>1, NewTight
  <2> QED BY <2>1, <2>2, <2>3, <2>4, <2>5 DEF Environment
<1>6. /\ RowTight(own', Len(waits)) /\ mem'.errs \subseteq Nodes
      /\ ask'.tool \in Tools
  <2>1. CASE Crash
    BY <1>1, <2>1, NewTight DEF Crash
  <2>2. CASE Environment /\ ~Crash
    <3>1. own' = own /\ ask' = ask
      BY <2>2
         DEF Environment, Decide, Wake, CycleDue, BeginStart, EndStart,
             BeginPause, EndPause, BeginCancel, EndCancel, Preserve, Restart, RecoverLocal,
             RepairStale, engine, QueueStart
    <3>2. mem'.errs = mem.errs
      BY <1>1, <2>2
         DEF Environment, Decide, Wake, CycleDue, BeginStart, EndStart,
             BeginPause, EndPause, BeginCancel, EndCancel, Preserve, Restart, RecoverLocal,
             RepairStale, engine, MemIn
    <3> QED BY <1>2, <3>1, <3>2
  <2> QED BY <2>1, <2>2
<1>7. waking' <= Len(waits)
  <2>1. CASE Decide
    <3>1. waking' \in {0, row.active}
      BY <2>1 DEF Decide
    <3> QED BY <1>1, <1>2, <3>1 DEF RowTight
  <2>2. CASE ~Decide
    <3>1. waking' \in {0, waking}
      BY <2>2
         DEF Environment, Wake, CycleDue, BeginStart, EndStart, BeginPause,
             EndPause, BeginCancel, EndCancel, Preserve, Crash, Restart, RecoverLocal, RepairStale
    <3> QED BY <1>1, <1>2, <3>1
  <2> QED BY <2>1, <2>2
<1>8. CountersTight'
  <2>1. /\ up' \in BOOLEAN /\ commands' \in {commands, commands + 1}
        /\ commands' # commands => commands < MaxCommands
    BY <1>2
       DEF Environment, Decide, Wake, CycleDue, BeginStart, EndStart, BeginPause,
           EndPause, BeginCancel, EndCancel, Preserve, Crash, Restart, RecoverLocal,
           RepairStale, Command, CountersTight, counters
  <2>2. /\ decisions' \in {decisions, decisions + 1}
        /\ decisions' # decisions => decisions < MaxDecisions
        /\ crashes' \in {crashes, crashes + 1}
        /\ crashes' # crashes => crashes < MaxCrashes
    BY DEF Environment, Decide, Wake, CycleDue, BeginStart, EndStart, BeginPause,
           EndPause, BeginCancel, EndCancel, Preserve, Crash, Restart, RecoverLocal,
           RepairStale, counters
  <2>3. commands \in 0..MaxCommands /\ decisions \in 0..MaxDecisions
        /\ crashes \in 0..MaxCrashes
    BY <1>2 DEF CountersTight
  <2> QED BY <2>1, <2>2, <2>3, BoundFacts DEF CountersTight
<1> QED BY <1>2, <1>3, <1>4, <1>5, <1>6, <1>7, <1>8
        DEF Tight, EngineTight, TablesTight

LEMMA TightStays ==
  ASSUME WalkInv, Tight, [Next]_vars
  PROVE  Tight'
<1>1. CASE Next
  <2>1. Walking
    BY <1>1, DefinitionStays DEF Walking
  <2> QED BY <1>1, <2>1, EngineTightStays, EnvironmentTight DEF Next
<1>2. CASE UNCHANGED vars
  BY <1>2 DEF vars, engine, counters, Tight, EngineTight, TablesTight, CountersTight
<1> QED BY <1>1, <1>2

LEMMA InitTight == ASSUME Init PROVE Tight
<1>1. Len(waits) = 0 /\ DOMAIN reqs = {} /\ Len(reqs) = 0
  BY DEF Init
<1> QED BY <1>1, NewTight, BoundFacts
        DEF Init, Tight, EngineTight, TablesTight, CountersTight

\* The row, its copies and the tables keep their types for every acyclic
\* workflow: errors and requests name nodes of it, the walk stays inside the
\* plan, and every id of a request or a wait is one that exists.
THEOREM TypesKept ==
  Spec => []TypeOK
<1>1. Init => Tight
  BY InitTight
<1>2. WalkInv /\ Tight /\ [Next]_vars => Tight'
  BY TightStays
<1>3. ASSUME WalkInv, Tight PROVE TypeOK
  <2>1. /\ Shapes /\ EngineTight /\ TablesTight /\ CountersTight /\ wf \in Workflows
    BY <1>3 DEF WalkInv, Tight
  <2>2. ASSUME NEW r \in RowIn(AnyTool), r.errs \subseteq Nodes PROVE r \in Row
    BY <2>2 DEF RowIn, Row, CycleCounts
  <2>3. row \in Row /\ own \in Row /\ cmd.snap \in Row
    BY <2>1, <2>2 DEF Shapes, EngineOK, EngineShape, TableShape, EngineTight,
                      TablesTight, RowTight
  <2>4. mem \in [outs : Outs, errs : SUBSET Nodes, paused : BOOLEAN,
                 cancelled : BOOLEAN]
    BY <2>1 DEF Shapes, EngineOK, EngineShape, EngineTight, MemIn
  <2>5. ask \in Asking
    BY <2>1 DEF Shapes, EngineOK, EngineShape, EngineTight, Asking, Why
  <2>6. pc \in {"idle", "queued", "marked", "walk", "ask", "wait", "park",
                "delegate", "task", "retry", "sleep_wait", "sleep_again", "sleep_row"}
    BY <2>1 DEF Shapes, EngineOK, EngineShape, AskStages, RunStages, OtherStages
  <2>7. at \in 1..(Len(NodeOrder) + 1)
    BY <1>3 DEF WalkInv, EngineWalked, Position, Size
  <2>8. reqs \in Seq([tool : Tools, why : {"policy", "failure"},
                      status : {"pending", "approved", "rejected", "expired"}])
    <3>1. reqs \in Seq(RequestIn(AnyTool))
      BY <2>1 DEF Shapes, TableShape
    <3>2. ASSUME NEW i \in DOMAIN reqs PROVE reqs[i] \in RequestIn(Tools)
      <4>1. reqs[i] \in RequestIn(AnyTool)
        BY <3>1, <3>2
      <4>2. reqs[i].tool \in Tools
        BY <2>1, <3>2 DEF TablesTight
      <4> QED BY <4>1, <4>2 DEF RequestIn
    <3>3. reqs \in Seq(RequestIn(Tools))
      BY <3>1, <3>2
    <3> QED BY <3>3 DEF RequestIn, Why, RequestStatus
  <2>9. /\ waits \in Seq(WaitRow) /\ Len(waits) \in Nat /\ Len(reqs) \in Nat
        /\ row.pend \in 0..Len(reqs)
        /\ row.active \in 0..Len(waits) /\ waking \in 0..Len(waits)
    BY <2>1 DEF Shapes, EngineOK, EngineShape, EnginePointers, TableShape,
                EngineTight, TablesTight, RowTight, RowIn
  <2>10. cmd \in [op : {"none", "start", "resume", "pause", "cancel", "preserve"},
                  snap : Row]
    BY <2>1, <2>3 DEF Shapes, TableShape
  <2> QED BY <2>1, <2>3, <2>4, <2>5, <2>6, <2>7, <2>8, <2>9, <2>10
          DEF TypeOK, TablesTight, CountersTight, WaitRow
<1> QED BY <1>1, <1>2, <1>3, WalkInvHolds, PTL DEF Spec
=============================================================================
