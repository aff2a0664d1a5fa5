---------------------------- MODULE NativeEngine ----------------------------
(***************************************************************************)
(* The walk of the native engine over a workflow graph                     *)
(* (app/runtime/native/engine.py): nodes run in the order of Planner when  *)
(* an incoming edge matches, every outcome is checkpointed in              *)
(* the execution row, approvals (approvals.py) suspend the walk, a         *)
(* persistent monitor repeats it in cycles, and a crashed run is repaired  *)
(* (control_plane.py) and walked again from its checkpoint.                *)
(*                                                                         *)
(* One execution.  row is its database row; the engine works on own, the   *)
(* copy it read when it started, and saves ALL of own at each checkpoint;  *)
(* mem is the NativeExecutionState that outlives a run inside the process. *)
(* A save through a fresh read (approvals, repair, waits) is one step; the *)
(* interleavings inside those handlers are the subject of ExecutionWaits.  *)
(* The lock, heartbeats, events, agents and models are left out: a task    *)
(* ends with any outcome or raises, and a row without a live task may be   *)
(* found stale at any moment.  Every node is a task or an approval node    *)
(* (which runs a task too, once it is approved), and approval-gated tools  *)
(* inside a task are not modelled.                                         *)
(***************************************************************************)
EXTENDS Planner

CONSTANTS
  Workflows,      \* the definitions a behaviour may start with
  Signals,        \* words of an output that conditions of edges look for
  MaxCommands,    \* bound on operator commands
  MaxRequests,    \* bound on approval requests
  MaxDecisions,   \* bound on approve and reject calls
  MaxCycle,       \* bound on the cycle number
  MaxCrashes      \* bound on process crashes

ApprovalPolicy == {"none", "required", "on_failure"}
ApprovalMode == {"task_policy", "before_run", "all_tasks"}

\* PersistentCyclePolicy; 0 stands for an absent limit.
CyclePolicy == [enabled : BOOLEAN, maxCycles : Nat, maxFailures : Nat \ {0},
                maxSame : Nat, deadline : BOOLEAN]

GraphOf(w) == [edges |-> w.edges, entry |-> w.entry]

ASSUME EngineAssumption ==
  /\ Signals \cap EdgeType = {}
  /\ \A w \in Workflows :
       /\ GraphOf(w) \in Graphs
       /\ w.approvals \subseteq Nodes /\ w.cond \in [w.edges -> SUBSET Signals]
       /\ w.policy \in [Nodes -> ApprovalPolicy] /\ w.mode \in ApprovalMode
       /\ w.cycle \in CyclePolicy /\ w.delegate \in BOOLEAN
  /\ {MaxCommands, MaxRequests, MaxDecisions, MaxCycle, MaxCrashes}
       \subseteq Nat

VARIABLES
  wf,         \* the workflow definition, never changed
  row,        \* the executions row
  own,        \* the engine's copy of the row
  mem,        \* NativeExecutionState
  pc,         \* what the engine task does next
  at,         \* position of the walk in the planned order
  ask,        \* the approval being asked for
  reqs,       \* approval_requests, oldest first
  waits,      \* execution_waits, oldest first
  waking,     \* the wait a decision handler is about to wake, 0 for none
  cmd,        \* the operator command in flight and the row it has read
  up,         \* the backend process is running
  commands, decisions, crashes  \* counted against their bounds

vars == <<wf, row, own, mem, pc, at, ask, reqs, waits, waking, cmd, up,
          commands, decisions, crashes>>
engine == <<own, mem, pc, at, ask>>
counters == <<commands, decisions, crashes>>

-----------------------------------------------------------------------------
(* The plan and the routing.                                               *)

Planned == [w \in Workflows |-> Order(GraphOf(w))]

Node == Planned[wf][at]

\* A task can be reached from n: whatever is closed under the edges and holds
\* the targets of n has a node that is not an approval node.
LeadsToTask(n) ==
  \A S \in SUBSET Nodes :
    (\A e \in wf.edges : e.from = n \/ e.from \in S => e.to \in S)
      => S \ wf.approvals # {}

\* _terminal_executable_node_ids: the tasks no task comes after.  A node of
\* type approval is never among them, though it runs a task.
Terminals == {n \in Nodes \ wf.approvals : ~LeadsToTask(n)}

\* Mutant: an edge waits for all the words its condition lists.
MatchesAll(e, outcome) == e.type \in outcome /\ wf.cond[e] \subseteq outcome

\* _edge_condition_matches: an outcome is the set of its signals, of which
\* the condition names alternatives.
Matches(e, outcome) ==
  /\ e.type \in outcome
  /\ wf.cond[e] = {} \/ wf.cond[e] \cap outcome # {}

\* _node_is_reachable, given the outcomes so far
Reachable(n, outs) ==
  \/ Incoming(wf, n) = {}
  \/ \E e \in Incoming(wf, n) : outs[e.from] # {} /\ Matches(e, outs[e.from])

\* _task_runtime_overrides, human_approval_required, node type, approval_mode
Policy(n) == IF wf.mode = "all_tasks" \/ n \in wf.approvals THEN "required"
             ELSE wf.policy[n]

-----------------------------------------------------------------------------
(* State.                                                                  *)

Terminal == {"completed", "failed", "cancelled"}
Suspended == {"waiting_for_approval", "sleeping"}
Status == {"created", "queued", "running", "paused", "cancelling"}
            \cup Suspended \cup Terminal

\* _condition_signals of an output; {} for a node without one
Outcome == {{result} \cup heard : result \in EdgeType, heard \in SUBSET Signals}
Outs == [Nodes -> Outcome \cup {{}}]

\* The outcomes of n, as far as the conditions of its edges tell them apart
Outcomes(n) ==
  LET heard == UNION {wf.cond[e] : e \in Leaving(wf, n)}
  IN  {outcome \in Outcome : outcome \subseteq EdgeType \cup heard}

NoOuts == [n \in Nodes |-> {}]
Done(outs) == {n \in Nodes : outs[n] # {}}

\* The approval tool ids: the workflow's and one per task.
Tools == Nodes \cup {"workflow"}
Asking == [tool : Tools, why : {"policy", "failure"}]
NoAsk == [tool |-> "workflow", why |-> "policy"]

\* output_payload (outs, errs, ckpt: it has a checkpoint) and the metadata
\* pending_approval, active_wait and persistent_cycle
Row == [status : Status, outs : Outs, errs : SUBSET Nodes, ckpt : BOOLEAN,
        pend : Nat, active : Nat,
        cyc : [n : Nat, next : Nat, fails : Nat, same : Nat]]

NewRow == [status |-> "created", outs |-> NoOuts, errs |-> {},
           ckpt |-> FALSE, pend |-> 0, active |-> 0,
           cyc |-> [n |-> 0, next |-> 0, fails |-> 0, same |-> 0]]

NewMem == [outs |-> NoOuts, errs |-> {}, paused |-> FALSE,
           cancelled |-> FALSE]

NoCmd == [op |-> "none", snap |-> NewRow]

\* The type of every variable.
TypeOK ==
  /\ wf \in Workflows
  /\ row \in Row /\ own \in Row
  /\ mem \in [outs : Outs, errs : SUBSET Nodes, paused : BOOLEAN,
              cancelled : BOOLEAN]
  /\ pc \in {"idle", "queued", "marked", "walk", "ask", "wait", "park",
             "delegate", "task", "retry", "sleep_wait", "sleep_again",
             "sleep_row"}
  /\ at \in 1..(Len(NodeOrder) + 1)
  /\ ask \in Asking
  /\ reqs \in Seq([tool : Tools, why : {"policy", "failure"},
                   status : {"pending", "approved", "rejected", "expired"}])
  /\ waits \in Seq([kind : {"approval", "sleep"}, key : Nat,
                    status : {"pending", "resolved", "cancelled"}])
  /\ Len(reqs) <= MaxRequests
  /\ row.pend \in 0..Len(reqs) /\ row.active \in 0..Len(waits)
  /\ waking \in 0..Len(waits)
  /\ cmd \in [op : {"none", "start", "resume", "pause", "cancel",
                      "preserve"}, snap : Row]
  /\ up \in BOOLEAN
  /\ commands \in 0..MaxCommands /\ decisions \in 0..MaxDecisions
  /\ crashes \in 0..MaxCrashes

Init ==
  /\ wf \in Workflows
  /\ row = NewRow /\ own = NewRow /\ mem = NewMem
  /\ pc = "idle" /\ at = 1 /\ ask = NoAsk
  /\ reqs = << >> /\ waits = << >> /\ waking = 0
  /\ cmd = NoCmd /\ up = TRUE
  /\ commands = 0 /\ decisions = 0 /\ crashes = 0

Pending == {i \in DOMAIN waits : waits[i].status = "pending"}

\* update_execution of the engine's copy
Save(r) == own' = r /\ row' = r

\* The engine task is over; its local variables are gone.
Return(r) ==
  /\ row' = r
  /\ own' = NewRow /\ pc' = "idle" /\ at' = 1 /\ ask' = NoAsk

\* _execution_checkpoint_payload
Checkpoint(r, m) == [r EXCEPT !.outs = m.outs, !.errs = m.errs, !.ckpt = TRUE]

-----------------------------------------------------------------------------
(* start_execution: from the lock to the first node                        *)

\* _run_execution holds the lock and marks the row as running.
MarkRunning ==
  /\ pc = "queued"
  /\ row' = [row EXCEPT !.status = "running"]
  /\ pc' = "marked"
  /\ UNCHANGED <<wf, own, mem, at, ask, reqs, waits, waking, cmd, up, counters>>

\* _mark_persistent_cycle_started
CycleStarted(r) ==
  LET c == r.cyc
      n == IF c.next > 0 THEN c.next ELSE IF c.n > 0 THEN c.n ELSE 1
  IN  IF wf.cycle.enabled
      THEN [r EXCEPT !.cyc = [c EXCEPT !.n = n, !.next = 0]] ELSE r

\* Mutant: the state left in the process is all a run resumes from.
HydrateNothing(m, r) == m

\* _hydrate_resume_checkpoint: the row counts only if memory has no outputs.
Hydrate(m, r) ==
  IF Done(m.outs) # {} \/ Done(r.outs) = {} THEN m
  ELSE [m EXCEPT !.outs = r.outs, !.errs = r.errs]

\* The row is read; a terminal one is refused.
StartExecution ==
  /\ pc = "marked"
  /\ IF row.status \in Terminal
     THEN /\ Return(row)
          /\ UNCHANGED mem
     ELSE /\ Save([CycleStarted(row) EXCEPT !.status = "running"])
          /\ mem' = Hydrate([mem EXCEPT !.paused = FALSE, !.cancelled = FALSE],
                            row)
          /\ pc' = IF wf.mode = "before_run" THEN "ask" ELSE "walk"
          /\ ask' = NoAsk
          /\ UNCHANGED at
  /\ UNCHANGED <<wf, reqs, waits, waking, cmd, up, counters>>

-----------------------------------------------------------------------------
(* The ways a walk ends                                                    *)

\* except ExecutionCancelledError
EndCancelled == Return([Checkpoint(own, mem) EXCEPT !.status = "cancelled"])

\* except ExecutionPausedError: a durable status in the row is preserved, and
\* with it the row's metadata; otherwise the engine's copy is saved.
Unwind(current) ==
  Return(Checkpoint(IF current.status \in Suspended THEN current
                    ELSE [own EXCEPT !.status = "paused"], mem))

\* _reset_cycle_checkpoint
ResetCycle(r) == [r EXCEPT !.outs = NoOuts, !.errs = {}, !.ckpt = FALSE,
                           !.cyc.next = r.cyc.n + 1, !.status = "paused"]

Forget == mem' = [mem EXCEPT !.outs = NoOuts, !.errs = {}]

\* _pause_persistent_cycle_for_guard
GuardPause(r) == Return(ResetCycle(r)) /\ Forget

\* _schedule_persistent_cycle, up to the save that precedes the wait; what
\* follows is in the try block or already in its except clause.
Schedule(r, then) ==
  /\ Save(ResetCycle(r))
  /\ Forget
  /\ pc' = then
  /\ UNCHANGED <<at, ask>>

\* _handle_persistent_cycle_failure
CycleFailure(r, then) ==
  LET f == [r EXCEPT !.cyc.fails = @ + 1]
  IN  \/ f.cyc.fails >= wf.cycle.maxFailures /\ GuardPause(f)
      \/ f.cyc.fails < wf.cycle.maxFailures /\ wf.cycle.deadline /\ GuardPause(f)
      \/ f.cyc.fails < wf.cycle.maxFailures /\ Schedule(f, then)

\* except Exception, without a failure edge to route it
FailRun ==
  \/ wf.cycle.enabled /\ CycleFailure(own, "sleep_again")
  \/ /\ ~wf.cycle.enabled
     /\ Return([Checkpoint(own, mem) EXCEPT !.status = "failed"])
     /\ UNCHANGED mem

\* The last save of a run: its output without a checkpoint.
Finished(r, status) == [r EXCEPT !.status = status, !.outs = mem.outs,
                                 !.errs = {}, !.ckpt = FALSE]

\* After the last cycle, or without cycles: a node error fails the run.
Conclude(r) ==
  IF mem.errs = {}
  THEN Return(Finished(r, "completed")) /\ UNCHANGED mem
  ELSE IF wf.cycle.enabled THEN CycleFailure(r, "sleep_wait")
  ELSE Return(Finished(r, "failed")) /\ UNCHANGED mem

\* _handle_persistent_cycle_success; the output may repeat the last one.
CycleSuccess ==
  \E repeated \in IF own.cyc.n > 1 THEN BOOLEAN ELSE {FALSE} :
    LET r == [own EXCEPT !.cyc.fails = 0,
                         !.cyc.same = IF repeated THEN @ + 1 ELSE 0]
        last == wf.cycle.maxCycles > 0 /\ r.cyc.n >= wf.cycle.maxCycles
        stuck == wf.cycle.maxSame > 0 /\ r.cyc.same >= wf.cycle.maxSame
    IN  \/ (last \/ wf.cycle.deadline) /\ Conclude(r)
        \/ ~last /\ stuck /\ GuardPause(r)
        \/ ~last /\ ~stuck /\ Schedule(r, "sleep_wait")

Finish ==
  /\ pc = "walk" /\ at > Len(NodeOrder)
  /\ IF wf.cycle.enabled THEN CycleSuccess ELSE Conclude(own)
  /\ UNCHANGED <<wf, reqs, waits, waking, cmd, up, counters>>

\* create_execution_wait for the next cycle: a row with the key is returned ...
SameWait == {i \in DOMAIN waits :
               waits[i].kind = "sleep" /\ waits[i].key = own.cyc.next}

SleepWait ==
  /\ pc \in {"sleep_wait", "sleep_again"}
  /\ \/ /\ SameWait # {}
        /\ own' = [own EXCEPT !.active = CHOOSE i \in SameWait : TRUE]
        /\ UNCHANGED waits
     \/ /\ SameWait = {} /\ Pending = {}
        /\ waits' = Append(waits, [kind |-> "sleep", key |-> own.cyc.next,
                                  status |-> "pending"])
        /\ own' = [own EXCEPT !.active = Len(waits) + 1]
  /\ pc' = "sleep_row"
  /\ UNCHANGED <<wf, row, mem, at, ask, reqs, waking, cmd, up, counters>>

\* ... and another pending wait makes it raise: the cycle fails, and when the
\* except clause raises, the task is over and the row stays paused.
SleepRefused ==
  /\ SameWait = {} /\ Pending # {}
  /\ \/ pc = "sleep_wait" /\ CycleFailure(own, "sleep_again")
     \/ pc = "sleep_again" /\ Return(row) /\ UNCHANGED mem
  /\ UNCHANGED <<wf, reqs, waits, waking, cmd, up, counters>>

SleepRow ==
  /\ pc = "sleep_row"
  /\ Return([own EXCEPT !.status = "sleeping"])
  /\ UNCHANGED <<wf, mem, reqs, waits, waking, cmd, up, counters>>

-----------------------------------------------------------------------------
(* The walk                                                                *)

\* _raise_if_cancelled before each node
VisitCancelled ==
  /\ pc = "walk" /\ at <= Len(NodeOrder) /\ mem.cancelled
  /\ EndCancelled
  /\ UNCHANGED <<wf, mem, reqs, waits, waking, cmd, up, counters>>

\* An unreachable node, or one with an output, is passed over.
Skip ==
  /\ pc = "walk" /\ at <= Len(NodeOrder) /\ ~mem.cancelled
  /\ mem.outs[Node] # {} \/ ~Reachable(Node, mem.outs)
  /\ at' = at + 1
  /\ UNCHANGED <<wf, row, own, mem, pc, ask, reqs, waits, waking, cmd, up,
                 counters>>

\* _maybe_request_task_approval before the task of the node
Enter ==
  /\ pc = "walk" /\ at <= Len(NodeOrder) /\ ~mem.cancelled
  /\ mem.outs[Node] = {} /\ Reachable(Node, mem.outs)
  /\ pc' = IF Policy(Node) = "required" THEN "ask" ELSE "task"
  /\ ask' = [tool |-> Node, why |-> "policy"]
  /\ UNCHANGED <<wf, row, own, mem, at, reqs, waits, waking, cmd, up, counters>>

\* The outcome of the node is recorded and the row saved.
Record(outcome) ==
  LET m == [mem EXCEPT !.outs[Node] = outcome,
              !.errs = IF "failure" \in outcome THEN @ \cup {Node} ELSE @]
  IN  IF mem.cancelled THEN EndCancelled /\ UNCHANGED mem
      ELSE /\ mem' = m
           /\ Save(Checkpoint(own, m))
           /\ pc' = "walk" /\ at' = at + 1
           /\ UNCHANGED ask

\* An exception of the node is routed along a failure edge, if it has one.
TaskRaised ==
  LET routed == \E e \in wf.edges : e.from = Node /\ e.type = "failure"
  IN  \/ /\ routed
         /\ \E outcome \in Outcomes(Node) :
              "failure" \in outcome /\ Record(outcome)
      \/ ~routed /\ FailRun

\* The agent sees the cancel or pause flag before its next model call.
Interrupted ==
  /\ pc \in {"task", "retry"}
  /\ \/ mem.cancelled /\ EndCancelled
     \/ ~mem.cancelled /\ mem.paused /\ Unwind(row)
  /\ UNCHANGED <<wf, mem, reqs, waits, waking, cmd, up, counters>>

\* The task returns, with a status or required tool result that may fail it.
TaskReturns ==
  /\ pc \in {"task", "retry"}
  /\ \E outcome \in Outcomes(Node) : Record(outcome)
  /\ UNCHANGED <<wf, reqs, waits, waking, cmd, up, counters>>

\* Retries used up, or the workflow's time: on_failure asks for one more try,
\* unless it was the workflow that timed out.
TaskFails ==
  /\ pc \in {"task", "retry"}
  /\ \/ /\ pc = "task" /\ Policy(Node) = "on_failure"
        /\ pc' = "ask"
        /\ ask' = [tool |-> Node, why |-> "failure"]
        /\ UNCHANGED <<row, own, mem, at>>
     \/ TaskRaised
  /\ UNCHANGED <<wf, reqs, waits, waking, cmd, up, counters>>

-----------------------------------------------------------------------------
(* ApprovalManager.request_approval, called for ask                        *)

\* Where the walk goes on after a granted request.
Granted ==
  /\ pc' = IF ask.tool = "workflow" THEN "walk"
           ELSE IF ask.why = "policy" THEN "task" ELSE "retry"
  /\ UNCHANGED <<mem, at, ask>>

\* A rejected workflow pauses the run, a rejected task raises.
Refused ==
  IF ask.tool = "workflow"
  THEN Unwind([row EXCEPT !.pend = 0]) /\ UNCHANGED mem
  ELSE TaskRaised

\* Mutant: a decided request of another tool is taken for this one.
DecidedAny(i) == i > 0 /\ reqs[i].status # "pending"

\* A decided request for the same tool and the same arguments.
Decided(i) ==
  /\ i > 0
  /\ reqs[i].tool = ask.tool /\ reqs[i].why = ask.why
  /\ reqs[i].status # "pending"

\* _consume_resolved_decision: pending_approval is removed from the row (not
\* from the engine's copy).
Consume ==
  /\ pc = "ask" /\ Decided(row.pend)
  /\ IF reqs[row.pend].status = "approved"
     THEN row' = [row EXCEPT !.pend = 0] /\ Granted /\ UNCHANGED own
     ELSE Refused
  /\ UNCHANGED <<wf, reqs, waits, waking, cmd, up, counters>>

\* The failure that asks again may have another message, thus other arguments.
CreateRequest ==
  /\ pc = "ask" /\ (~Decided(row.pend) \/ ask.why = "failure")
  /\ Len(reqs) < MaxRequests
  /\ reqs' = Append(reqs, [tool |-> ask.tool, why |-> ask.why,
                           status |-> "pending"])
  /\ pc' = "wait"
  /\ UNCHANGED <<wf, row, own, mem, at, ask, waits, waking, cmd, up, counters>>

\* _create_durable_approval_wait; the key is new, as the request is.
CreateWait ==
  /\ pc = "wait" /\ Pending = {}
  /\ waits' = Append(waits, [kind |-> "approval", key |-> Len(reqs),
                             status |-> "pending"])
  /\ pc' = "park"
  /\ UNCHANGED <<wf, row, own, mem, at, ask, reqs, waking, cmd, up, counters>>

\* Another pending wait takes the slot: the insert raises, as a task or the
\* approval of the workflow would, and the request stays pending.
WaitRefused ==
  /\ pc = "wait" /\ Pending # {}
  /\ IF ask.tool = "workflow" THEN FailRun ELSE TaskRaised
  /\ UNCHANGED <<wf, reqs, waits, waking, cmd, up, counters>>

\* The row waits for the decision.
Park ==
  /\ pc = "park"
  /\ row' = [row EXCEPT !.status = "waiting_for_approval",
                        !.pend = Len(reqs), !.active = Len(waits)]
  /\ pc' = "delegate"
  /\ UNCHANGED <<wf, own, mem, at, ask, reqs, waits, waking, cmd, up, counters>>

\* The latest request of a tool
Latest(tool) ==
  LET mine == {i \in DOMAIN reqs : reqs[i].tool = tool}
  IN  IF mine = {} THEN 0 ELSE CHOOSE i \in mine : \A j \in mine : j <= i

\* resolve_pending_approval_request, then the wait of the request
Resolvable(tool, status) ==
  Latest(tool) # 0 /\ reqs[Latest(tool)].status \in {"pending", status}

Resolve(tool, status) ==
  LET i == Latest(tool)
  IN  /\ reqs' = [reqs EXCEPT ![i].status = status]
      /\ waits' = [j \in DOMAIN waits |->
                     IF waits[j] = [kind |-> "approval", key |-> i,
                                    status |-> "pending"]
                     THEN [waits[j] EXCEPT !.status = "resolved"]
                     ELSE waits[j]]

\* The main agent approves inline (_finish_inline_decision) where the
\* workflow delegates approvals, even a request decided meanwhile ...
Delegated ==
  /\ pc = "delegate" /\ wf.delegate
  /\ IF Resolvable(ask.tool, "approved") THEN Resolve(ask.tool, "approved")
     ELSE UNCHANGED <<reqs, waits>>
  /\ row' = [row EXCEPT !.pend = 0, !.active = 0,
               !.status = IF @ = "waiting_for_approval" THEN "running" ELSE @]
  /\ Granted
  /\ UNCHANGED <<wf, own, waking, cmd, up, counters>>

\* ... or the walk is suspended until an operator does.
Suspend ==
  /\ pc = "delegate"
  /\ Unwind(row)
  /\ UNCHANGED <<wf, mem, reqs, waits, waking, cmd, up, counters>>

\* approve, reject: the request, its wait, and a wake if the row waits for it
Decide ==
  /\ up /\ waking = 0 /\ decisions < MaxDecisions
  /\ \E tool \in Tools, status \in {"approved", "rejected"} :
       /\ Resolvable(tool, status)
       /\ Resolve(tool, status)
  /\ waking' = IF row.active # 0 /\ waits'[row.active].kind = "approval"
                    /\ waits'[row.active].status # "pending"
               THEN row.active ELSE 0
  /\ decisions' = decisions + 1
  /\ UNCHANGED <<wf, row, engine, cmd, up, commands, crashes>>

\* queue_start: a new engine task, unless one is still alive
QueueStart(r) ==
  /\ row' = [r EXCEPT !.status = "queued"]
  /\ pc' = IF pc = "idle" THEN "queued" ELSE pc
  /\ UNCHANGED <<own, at, ask>>

\* _wake_after_approval_decision, once the suspending task has ended
Wake ==
  /\ waking # 0 /\ pc = "idle"
  /\ waking' = 0
  /\ IF row.active = waking
     THEN /\ QueueStart([row EXCEPT !.active = 0])
          /\ mem' = [mem EXCEPT !.paused = FALSE]
     ELSE UNCHANGED <<row, engine>>
  /\ UNCHANGED <<wf, reqs, waits, cmd, up, counters>>

\* The timer of a sleeping monitor (wake_due_waits).  An interval is at least
\* a second, so a command in flight ends before the next cycle begins.
CycleDue ==
  /\ up /\ pc = "idle" /\ cmd = NoCmd /\ row.status = "sleeping"
  /\ row.active # 0 /\ waits[row.active].status = "pending"
  /\ row.cyc.next <= MaxCycle
  /\ waits' = [waits EXCEPT ![row.active].status = "resolved"]
  /\ QueueStart([row EXCEPT !.active = 0])
  /\ mem' = [mem EXCEPT !.paused = FALSE]
  /\ UNCHANGED <<wf, reqs, waking, cmd, up, counters>>

-----------------------------------------------------------------------------
(* Operator commands: the row is read in one step and written in another.  *)

Command(op) ==
  /\ up /\ cmd = NoCmd /\ commands < MaxCommands
  /\ commands' = commands + 1

\* start, resume: refused for a terminal row and while a wait is pending
BeginStart ==
  /\ \E op \in {"start", "resume"} :
       /\ Command(op)
       /\ cmd' = [op |-> op, snap |-> row]
       /\ mem' = IF op = "resume" THEN [mem EXCEPT !.paused = FALSE] ELSE mem
  /\ row.status \notin Terminal /\ Pending = {}
  /\ UNCHANGED <<wf, row, own, pc, at, ask, reqs, waits, waking, up, decisions,
                 crashes>>

EndStart ==
  /\ cmd.op \in {"start", "resume"}
  /\ QueueStart(cmd.snap)
  /\ cmd' = NoCmd
  /\ UNCHANGED <<wf, mem, reqs, waits, waking, up, counters>>

\* Waits closed by an operator
Closed(kinds) ==
  [i \in DOMAIN waits |->
     IF i \in Pending /\ waits[i].kind \in kinds
     THEN [waits[i] EXCEPT !.status = "cancelled"] ELSE waits[i]]

\* pause: a sleeping monitor's timer is cancelled first
BeginPause ==
  /\ Command("pause")
  /\ LET sleeping == row.status = "sleeping"
         r == IF sleeping THEN [row EXCEPT !.status = "paused", !.active = 0]
              ELSE row
     IN  /\ row' = r
         /\ waits' = IF sleeping THEN Closed({"sleep"}) ELSE waits
         /\ cmd' = [op |-> "pause", snap |-> r]
  /\ mem' = [mem EXCEPT !.paused = TRUE]
  /\ UNCHANGED <<wf, own, pc, at, ask, reqs, waking, up, decisions, crashes>>

EndPause ==
  /\ cmd.op = "pause"
  /\ row' = IF cmd.snap.status \in Suspended THEN cmd.snap
            ELSE [cmd.snap EXCEPT !.status = "paused"]
  /\ cmd' = NoCmd
  /\ UNCHANGED <<wf, engine, reqs, waits, waking, up, counters>>

\* cancel: pending waits are closed and the row marked; then the engine's
\* cancel_execution reads the row again.
BeginCancel ==
  /\ Command("cancel")
  /\ row.status \notin Terminal \cup {"cancelling"}
  /\ waits' = Closed({"approval", "sleep"})
  /\ row' = [row EXCEPT !.status = "cancelling",
                        !.active = IF Pending # {} THEN 0 ELSE @]
  /\ cmd' = [op |-> "cancel", snap |-> [NewRow EXCEPT !.ckpt = row.ckpt]]
  /\ UNCHANGED <<wf, engine, reqs, waking, up, decisions, crashes>>

EndCancel ==
  /\ cmd.op = "cancel"
  /\ IF row.status \in {"completed", "failed"} THEN UNCHANGED <<row, mem>>
     ELSE /\ mem' = [mem EXCEPT !.cancelled = TRUE]
          /\ row' = [row EXCEPT !.status = IF @ = "running" THEN "cancelling"
                                           ELSE "cancelled"]
  /\ \/ ~cmd.snap.ckpt /\ cmd' = NoCmd
     \/ cmd' = [op |-> "preserve", snap |-> row']
  /\ UNCHANGED <<wf, own, pc, at, ask, reqs, waits, waking, up, counters>>

\* With output or artifacts to preserve, cancel saves its copy once more.
Preserve ==
  /\ cmd.op = "preserve"
  /\ row' = cmd.snap
  /\ cmd' = NoCmd
  /\ UNCHANGED <<wf, engine, reqs, waits, waking, up, counters>>

-----------------------------------------------------------------------------
(* Crash, restart, repair                                                  *)

Crash ==
  /\ up /\ crashes < MaxCrashes
  /\ up' = FALSE /\ crashes' = crashes + 1
  /\ own' = NewRow /\ mem' = NewMem /\ pc' = "idle" /\ at' = 1 /\ ask' = NoAsk
  /\ waking' = 0 /\ cmd' = NoCmd
  /\ UNCHANGED <<wf, row, reqs, waits, commands, decisions>>

\* Mutant: one terminal node with an output is enough.
SomeTerminalDone(r) ==
  r.ckpt /\ Done(r.outs) \cap Terminals # {}

\* _has_completed_workflow_checkpoint
CompletedCheckpoint(r) ==
  /\ r.ckpt /\ Done(r.outs) # {}
  /\ Terminals # {} /\ Terminals \subseteq Done(r.outs)

\* Mutant: the name of the audit event is written as the status.
RepairedAsEvent(r) == [r EXCEPT !.status = "repaired"]

\* repair_stale_executions: what becomes of a row without a heartbeat
Repaired(r) ==
  CASE r.status = "waiting_for_approval" ->
         [r EXCEPT !.status = "failed", !.pend = 0]
    [] r.status = "cancelling" -> [r EXCEPT !.status = "cancelled"]
    [] OTHER -> [r EXCEPT !.status = IF CompletedCheckpoint(r)
                                     THEN "completed" ELSE "queued"]

Stale(r) == r.status \in {"queued", "running", "cancelling",
                          "waiting_for_approval"}

\* _expire_pending_execution_approvals, for an abandoned approval
Expired(r) ==
  IF r.status # "waiting_for_approval" THEN reqs
  ELSE [i \in DOMAIN reqs |->
          IF reqs[i].status = "pending" /\ i = Latest(reqs[i].tool)
          THEN [reqs[i] EXCEPT !.status = "expired"] ELSE reqs[i]]

\* A new process
Restart ==
  /\ ~up /\ up' = TRUE
  /\ UNCHANGED <<wf, row, engine, reqs, waits, waking, cmd, counters>>

\* _recover_stale_local_executions, at start-up and every 10 seconds: a row
\* without a live task and with an old heartbeat is repaired, and started if
\* that has queued it and no wait is pending.
RecoverLocal ==
  /\ up /\ pc = "idle" /\ Stale(row)
  /\ row' = Repaired(row)
  /\ reqs' = Expired(row)
  /\ pc' = IF row'.status = "queued" /\ Pending = {} THEN "queued" ELSE "idle"
  /\ UNCHANGED <<wf, own, mem, at, ask, waits, waking, cmd, up, counters>>

\* Repair asked for by an operator or the monitor; nothing is started.
RepairStale ==
  /\ Command("repair") /\ pc = "idle" /\ Stale(row)
  /\ row' = Repaired(row)
  /\ reqs' = Expired(row)
  /\ UNCHANGED <<wf, engine, waits, waking, cmd, up, decisions, crashes>>

-----------------------------------------------------------------------------
Engine ==
  \/ MarkRunning \/ StartExecution \/ Finish \/ SleepWait \/ SleepRefused \/ SleepRow
  \/ VisitCancelled \/ Skip \/ Enter
  \/ Interrupted \/ TaskReturns \/ TaskFails
  \/ Consume \/ CreateRequest \/ CreateWait \/ WaitRefused \/ Park \/ Delegated \/ Suspend

Environment ==
  \/ Decide \/ Wake \/ CycleDue
  \/ BeginStart \/ EndStart \/ BeginPause \/ EndPause
  \/ BeginCancel \/ EndCancel \/ Preserve
  \/ Crash \/ Restart \/ RecoverLocal \/ RepairStale

Next == Engine \/ Environment

Spec == Init /\ [][Next]_vars

-----------------------------------------------------------------------------
(* Properties.                                                             *)

\* The plan of the workflow lists every node once, and after all the nodes its
\* incoming edges come from, also when the definition lists it before them
\* (planner.py:36-45); the walk decides whether a node is reachable when it gets
\* there, and does not come back (engine.py:244).
PlanIsTopological == Topological(GraphOf(wf), Planned[wf])

\* When a run is reported completed, by the engine or by a repair, a node has
\* an output only if it is a root or an edge from a recorded outcome leads to
\* it, and every such node has one: no branch was lost or taken by a crash, a
\* pause, an overwritten row or a decision (engine.py:244, control_plane.py:602,
\* 726).  The one exception is the code's: a repair looks at tasks only, so it
\* completes a run whose last tasks are done though an approval node that no
\* task comes after has not run (engine.py:433, control_plane.py:750).
CompletedWalkIsExact ==
  row.status = "completed" =>
    \A n \in Nodes :
      /\ row.outs[n] # {} => Reachable(n, row.outs)
      /\ Reachable(n, row.outs) =>
           row.outs[n] # {} \/ (row.ckpt /\ n \in wf.approvals /\ ~LeadsToTask(n))

StartsTask == pc \in {"walk", "ask", "delegate"} /\ pc' \in {"task", "retry"}

\* A task whose output is in the row is not run again in the same cycle,
\* whatever was crashed, paused or repaired before (engine.py:720; the side
\* effects of a task must not be repeated, control_plane.py:773).
NodesRunOnce ==
  [][StartsTask /\ row.cyc.n = own.cyc.n => row.outs[Node] = {}]_vars

GrantedFor(tool, why) ==
  \E i \in DOMAIN reqs : reqs[i] = [tool |-> tool, why |-> why,
                                    status |-> "approved"]

\* A task that needs an approval is not started, and no task of a workflow
\* with approval before the run, unless a request of its own was approved: a
\* grant for another task, an expired or a rejected request never opens the
\* gate (engine.py:1718, approvals.py:157).
RunsAreApproved ==
  [][StartsTask /\ ~wf.delegate =>
       /\ Policy(Node) = "required" => GrantedFor(Node, "policy")'
       /\ wf.mode = "before_run" => GrantedFor("workflow", "policy")']_vars

\* A monitor without a limit of cycles and without a deadline goes on until
\* an operator pauses or cancels it (docs/runtime.md:253): it is never
\* completed.
MonitorGoesOn ==
  wf.cycle.enabled /\ wf.cycle.maxCycles = 0 /\ ~wf.cycle.deadline
    => row.status # "completed"
=============================================================================
