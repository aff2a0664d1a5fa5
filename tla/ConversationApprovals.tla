----------------------- MODULE ConversationApprovals -----------------------
(***************************************************************************)
(* Approval requests of conversations and the monitor that raises them     *)
(* (app/services/conversations/core.py,                                    *)
(* app/services/main_agent_workflow_monitor.py): what a person decides is  *)
(* saved on the approval row and then carried out by the same request, on  *)
(* workflows, tools, agents and executions.                                *)
(*                                                                         *)
(* Every repository call is a transaction of its own and no row carries a  *)
(* version, so a request is a chain of reads and whole-row writes that     *)
(* anybody may interleave with.  A definition is abstracted to the set of  *)
(* changes it contains: an edit of a user, or the change an approval       *)
(* proposes, named by the number of that approval (the first one of the    *)
(* family, for approvals made by a split).  Revision numbers are left out: *)
(* the code writes them and never compares them.                           *)
(***************************************************************************)
EXTENDS Naturals, Sequences, FiniteSets

CONSTANTS
  Workflows, Tools, Agents,  \* definitions, all but Fresh stored at the start
  Fresh,          \* definitions that do not exist yet
  Edits,          \* what users do to workflows directly, each at most once
  Findings,       \* what a scan may find, by finding: its workflow, noise key,
                  \* the ways it is followed up, whether its proposal has a
                  \* part to review, asks for a restart, changes the workflow
  Proposals,      \* what the main agent may propose in a chat
  Operators,      \* concurrent requests that decide approvals
  Decisions,      \* the endpoints they call
  Monitors,       \* concurrent scans of the monitor
  MaxApprovals,   \* bound on approval rows
  MaxProposals,   \* bound on the rows that chats create
  MaxScans,       \* bound on scans
  MaxFaults       \* bound on crashes of the backend

ASSUME ApprovalsAssumption ==
  /\ Fresh \subseteq Workflows \cup Tools
  /\ Workflows \cap Tools = {} /\ Workflows \cap Agents = {} /\ Tools \cap Agents = {}
  /\ Edits \cap Nat = {}
  /\ Decisions \subseteq {"approve", "reject", "changes", "split"}
  /\ \A f \in DOMAIN Findings :
       /\ Findings[f].workflow \in Workflows
       /\ Findings[f].parts \in Nat
       /\ Findings[f].restart \in BOOLEAN /\ Findings[f].changes \in BOOLEAN
  /\ \A p \in Proposals :
       /\ p.action \in {"workflow_create", "workflow_update", "tool_create",
                        "tool_update", "agent_update", "workflow_execution",
                        "tool_execution"}
       /\ p.target \in Workflows \cup Tools \cup Agents /\ p.extra \in BOOLEAN
       /\ p.action = "agent_update" => p.target \in Agents
  /\ MaxApprovals \in Nat /\ MaxProposals \in Nat
  /\ MaxScans \in Nat /\ MaxFaults \in Nat

VARIABLES
  approvals,  \* conversation_approval_requests, in the order of creation
  defs,       \* workflow, tool and agent definitions
  execs,      \* executions, in the order of creation; findings are about the first
  recorded,   \* findings with a MONITOR_FINDING_CREATED event
  op,         \* where each deciding request stands, with the rows it has read
  mon,        \* where each scan stands, with the rows it has read
  seen,       \* _seen_finding_keys of the monitor
  applied,    \* how often the change of each approval has been carried out
  edited,     \* edits made
  scans, faults

vars == <<approvals, defs, execs, recorded, op, mon, seen, applied, edited,
          scans, faults>>

Defs == Workflows \cup Tools \cup Agents
FindingIds == DOMAIN Findings
Rows == DOMAIN approvals
None == "none"

NoDef == [live |-> FALSE, published |-> FALSE, content |-> {}, origin |-> 0,
          scheduled |-> FALSE]
NoCopy == [workflow |-> None]
Idle == [pc |-> "idle", id |-> 0, decision |-> None, row |-> None,
         current |-> NoDef, copy |-> NoCopy, left |-> {}]
Resting == [pc |-> "idle", snap |-> None, todo |-> {}, f |-> None,
            id |-> 0, copy |-> NoCopy]

(* An execution of a workflow; its metadata holds the steering requests.   *)
Run(w, from, superseded) ==
  [workflow |-> w, active |-> TRUE, superseded |-> superseded, from |-> from,
   requests |-> [f \in FindingIds |-> None]]

Init ==
  /\ approvals = <<>>
  /\ defs = [d \in Defs |-> IF d \in Fresh THEN NoDef
                             ELSE [NoDef EXCEPT !.live = TRUE, !.published = TRUE]]
  /\ \E w \in Workflows \ Fresh : execs = <<Run(w, 0, FALSE)>>
  /\ recorded = {} /\ seen = {}
  /\ op = [o \in Operators |-> Idle]
  /\ mon = [m \in Monitors |-> Resting]
  /\ applied = [a \in 1..MaxApprovals |-> 0]
  /\ edited = {} /\ scans = 0 /\ faults = 0

-----------------------------------------------------------------------------
(* Approval rows.                                                          *)

(* Mutant: a change is named after the previous request. *)
RequestMisnumbered(action, target, content, extra) ==
  [status |-> "pending", action |-> action, target |-> target,
   payload |-> content, change |-> Len(approvals), extra |-> extra,
   key |-> None, kind |-> None, finding |-> None, parts |-> 0, exec |-> 0]
Request(action, target, content, extra) ==
  [status |-> "pending", action |-> action, target |-> target,
   payload |-> content, change |-> Len(approvals) + 1, extra |-> extra,
   key |-> None, kind |-> None, finding |-> None, parts |-> 0, exec |-> 0]

CreateApproval(row) ==
  /\ Len(approvals) < MaxApprovals
  /\ approvals' = Append(approvals, row)

(* A turn of the main agent proposes a change: the payload is the          *)
(* definition as it is now with the change made.  A new definition gets an *)
(* id of its own.                                                          *)
ProposeInChat(p) ==
  /\ IF p.action \in {"workflow_create", "tool_create"}
     THEN p.target \in Fresh /\ \A a \in Rows : approvals[a].target # p.target
     ELSE defs[p.target].live
  /\ Cardinality({a \in Rows : approvals[a].kind = None}) < MaxProposals
  /\ CreateApproval(Request(p.action, p.target,
                            defs[p.target].content \cup {Len(approvals) + 1},
                            p.extra))
  /\ UNCHANGED <<defs, execs, recorded, op, mon, seen, applied, edited, scans,
                 faults>>

-----------------------------------------------------------------------------
(* approve_request, reject_request, request_changes_to_approval and        *)
(* split_approval_request: the row is read and must be pending, then it is *)
(* read again and saved whole, and what follows from the decision is done  *)
(* one call after the other.                                               *)

(* Mutant: a split leaves the request it splits open. *)
StatusLeftOpen(decision) ==
  CASE decision = "approve" -> "approved"
    [] decision = "reject"  -> "rejected"
    [] decision = "changes" -> "cancelled"
    [] OTHER                -> "pending"
StatusOf(decision) ==
  CASE decision = "approve" -> "approved"
    [] decision = "reject"  -> "rejected"
    [] OTHER                -> "cancelled"

(* _split_approval_parts *)
PartCount(row) == IF row.action = "review" THEN row.parts ELSE 1 + row.parts
SplitParts(row) == 1..PartCount(row)

Unmoved == <<recorded, mon, seen, edited, scans, faults>>
Goto(o, pc) == op' = [op EXCEPT ![o].pc = pc]
Finish(o) == op' = [op EXCEPT ![o] = Idle]

(* Mutant: a rejected or cancelled request may be decided again. *)
OpenUnlessApproved(row) == row.status # "approved"
Open(row) == row.status = "pending"

Decide(o, id, decision) ==
  /\ op[o].pc = "idle"
  /\ Open(approvals[id])
  /\ decision = "split" =>
       /\ approvals[id].action \in {"workflow_create", "workflow_update", "review"}
       /\ PartCount(approvals[id]) >= 2
  /\ op' = [op EXCEPT ![o] = [Idle EXCEPT !.pc = "fetch", !.id = id,
                                          !.decision = decision,
                                          !.row = approvals[id]]]
  /\ UNCHANGED <<approvals, defs, execs, applied, Unmoved>>

(* conversation_approval_repo.update reads the row; the metadata a handler *)
(* passes is its own earlier copy.                                         *)
Fetch(o) ==
  /\ op[o].pc = "fetch"
  /\ LET stored == approvals[op[o].id]
         status == StatusOf(op[o].decision)
     IN  op' = [op EXCEPT ![o].pc = "save",
                  ![o].row = [stored EXCEPT !.status = status,
                                !.exec = IF op[o].decision = "reject" THEN @
                                         ELSE op[o].row.exec]]
  /\ UNCHANGED <<approvals, defs, execs, applied, Unmoved>>

(* Mutant: the change of a rejected request is carried out as well. *)
EffectIgnoringDecision(decision, row) ==
  IF row.action \in {"workflow_create", "tool_create"} THEN "define"
  ELSE IF row.action = "workflow_execution" THEN "launch"
  ELSE IF row.action = "tool_execution" THEN "run"
  ELSE "read"
(* The first step that follows from a decision. *)
Effect(decision, row) ==
  CASE decision = "approve" /\ row.action \in {"workflow_create", "tool_create"} -> "define"
    [] decision = "approve" /\ row.action \in {"workflow_update", "tool_update",
                                               "agent_update"} -> "read"
    [] decision = "approve" /\ row.action = "supervisor_steering" -> "steer"
    [] decision = "approve" /\ row.action = "workflow_execution" -> "launch"
    [] decision = "approve" /\ row.action = "tool_execution" -> "run"
    [] decision = "reject" /\ row.action = "supervisor_steering" -> "mark"
    [] decision = "reject" /\ row.action = "workflow_create" -> "draft"
    [] decision = "split" -> "children"
    [] OTHER -> "done"

Save(o) ==
  /\ op[o].pc = "save"
  /\ approvals' = [approvals EXCEPT ![op[o].id] = op[o].row]
  /\ LET next == Effect(op[o].decision, op[o].row)
     IN  IF next = "done" THEN Finish(o)
         ELSE op' = [op EXCEPT ![o].pc = next,
                       ![o].left = IF next = "children" THEN SplitParts(op[o].row)
                                   ELSE {}]
  /\ UNCHANGED <<defs, execs, applied, Unmoved>>

(* split_approval_request creates one pending request per part, one after  *)
(* the other: the definition keeps its action, the other parts are reviews *)
(* without effect.  The metadata of the parent is copied, parts included.  *)
Child(row, part) ==
  [row EXCEPT !.status = "pending",
              !.action = IF part = 1 /\ @ # "review" THEN @ ELSE "review"]

CreateChild(o) ==
  /\ op[o].pc = "children"
  /\ LET part == CHOOSE p \in op[o].left : \A q \in op[o].left : p <= q
         left == op[o].left \ {part}
     IN  /\ CreateApproval(Child(op[o].row, part))
         /\ IF left = {} THEN Finish(o) ELSE op' = [op EXCEPT ![o].left = left]
  /\ UNCHANGED <<defs, execs, applied, Unmoved>>

Applied(c) == applied' = [applied EXCEPT ![c] = @ + 1]

(* check_workflow_mutation_enabled, check_tool_mutation_enabled: the       *)
(* change is not made, the request stays approved.                         *)
Blocked(o) ==
  /\ op[o].pc \in {"define", "read"}
  /\ op[o].row.action \in {"workflow_create", "workflow_update", "tool_create",
                           "tool_update"}
  /\ op[o].current = NoDef
  /\ Finish(o)
  /\ UNCHANGED <<approvals, defs, execs, applied, Unmoved>>

(* The definition to change is read; the handler raises when it is gone.   *)
(* An approved steering request without a workflow it can change leaves    *)
(* guidance only.                                                          *)
ReadTarget(o) ==
  /\ op[o].pc = "read"
  /\ LET target == defs[op[o].row.target]
         steering == op[o].row.action = "supervisor_steering"
     IN  \/ /\ target.live
            /\ op' = [op EXCEPT ![o].pc = "define", ![o].current = target]
         \/ /\ ~target.live /\ ~steering
            /\ Finish(o)
         \/ /\ steering
            /\ Goto(o, "guide")
  /\ UNCHANGED <<approvals, defs, execs, applied, Unmoved>>

(* What is saved: the whole payload of the request, which is the           *)
(* definition as it was when the request was made; a steering change is    *)
(* made to the definition that was just read.                              *)
Proposed(row, current) ==
  [live |-> TRUE, published |-> TRUE,
   content |-> IF row.action = "supervisor_steering"
               THEN current.content \cup {row.change} ELSE row.payload,
   origin |-> IF row.action \in {"workflow_create", "tool_create"}
              THEN row.change ELSE current.origin,
   scheduled |-> current.scheduled]

Define(o) ==
  /\ op[o].pc = "define"
  /\ LET row == op[o].row
     IN  /\ defs' = [defs EXCEPT ![row.target] = Proposed(row, op[o].current)]
         /\ Applied(row.change)
         /\ CASE row.action = "workflow_create" /\ row.extra -> Goto(o, "schedule")
              [] row.action = "workflow_update" /\ row.extra -> Goto(o, "restart")
              [] row.action = "supervisor_steering" -> Goto(o, "restart")
              [] row.action = "agent_update" -> Goto(o, "list")
              [] OTHER -> Finish(o)
  /\ UNCHANGED <<approvals, execs, Unmoved>>

(* _maybe_create_requested_schedule_for_workflow *)
CreateSchedule(o) ==
  /\ op[o].pc = "schedule"
  /\ defs' = [defs EXCEPT ![op[o].row.target].scheduled = TRUE]
  /\ Finish(o)
  /\ UNCHANGED <<approvals, execs, applied, Unmoved>>

AfterRestart(o) ==
  IF op[o].row.action = "supervisor_steering"
  THEN op' = [op EXCEPT ![o].pc = "guide", ![o].left = {}] ELSE Finish(o)

(* replace_active_executions_for_workflow_revision lists the runs to       *)
(* replace and then replaces them one by one; a run that is itself such a  *)
(* replacement is not a candidate.                                         *)
ListRuns(o) ==
  /\ op[o].pc = "restart"
  /\ LET left == {i \in DOMAIN execs : /\ execs[i].workflow = op[o].row.target
                                       /\ execs[i].active /\ ~execs[i].superseded}
     IN  IF left = {} THEN AfterRestart(o)
         ELSE op' = [op EXCEPT ![o].pc = "replace", ![o].left = left]
  /\ UNCHANGED <<approvals, defs, execs, applied, Unmoved>>

(* The replacement is created and queued, then the run is cancelled.       *)
ReplaceRun(o) ==
  /\ op[o].pc = "replace"
  /\ \E i \in op[o].left :
       /\ execs' = Append([execs EXCEPT ![i].active = FALSE, ![i].superseded = TRUE],
                          Run(execs[i].workflow, execs[i].from, TRUE))
       /\ IF op[o].left = {i} THEN AfterRestart(o)
          ELSE op' = [op EXCEPT ![o].left = @ \ {i}]
  /\ UNCHANGED <<approvals, defs, applied, Unmoved>>

(* _sync_agent_definition_into_workflows: all workflows are listed, then   *)
(* each one that embeds the agent is saved as it was listed.               *)
AgentChanges == {approvals[a].change : a \in {b \in Rows : approvals[b].action = "agent_update"}}

ListWorkflows(o) ==
  /\ op[o].pc = "list"
  /\ LET left == {w \in Workflows : defs[w].live}
     IN  IF left = {} THEN Finish(o)
         ELSE op' = [op EXCEPT ![o].pc = "sync", ![o].current = defs, ![o].left = left]
  /\ UNCHANGED <<approvals, defs, execs, applied, Unmoved>>

SyncWorkflow(o) ==
  /\ op[o].pc = "sync"
  /\ \E w \in op[o].left :
       /\ defs' = [defs EXCEPT ![w] = [op[o].current[w] EXCEPT
                     !.content = (@ \ AgentChanges) \cup op[o].row.payload]]
       /\ IF op[o].left = {w} THEN Finish(o)
          ELSE op' = [op EXCEPT ![o].left = @ \ {w}]
  /\ UNCHANGED <<approvals, execs, applied, Unmoved>>

(* _maybe_launch_execution_from_approval *)
Launch(o) ==
  /\ op[o].pc = "launch"
  /\ LET row == op[o].row
     IN  \/ /\ row.exec # 0 \/ ~defs[row.target].live
            /\ Finish(o)
            /\ UNCHANGED <<execs, applied>>
         \/ /\ row.exec = 0 /\ defs[row.target].live
            /\ execs' = Append(execs, Run(row.target, row.change, FALSE))
            /\ Applied(row.change)
            /\ op' = [op EXCEPT ![o].pc = "link", ![o].row.exec = Len(execs) + 1]
  /\ UNCHANGED <<approvals, defs, Unmoved>>

(* The id of the execution is put on the request: read, then saved whole.  *)
Link(o) ==
  /\ op[o].pc = "link"
  /\ op' = [op EXCEPT ![o].pc = "linked",
              ![o].row = [approvals[op[o].id] EXCEPT !.exec = op[o].row.exec]]
  /\ UNCHANGED <<approvals, defs, execs, applied, Unmoved>>

SaveLink(o) ==
  /\ op[o].pc = "linked"
  /\ approvals' = [approvals EXCEPT ![op[o].id] = op[o].row]
  /\ Finish(o)
  /\ UNCHANGED <<defs, execs, applied, Unmoved>>

(* _maybe_execute_tool_from_approval: an unavailable tool is reported.     *)
RunTool(o) ==
  /\ op[o].pc = "run"
  /\ IF defs[op[o].row.target].live THEN Applied(op[o].row.change)
     ELSE UNCHANGED applied
  /\ Finish(o)
  /\ UNCHANGED <<approvals, defs, execs, Unmoved>>

(* _maybe_apply_supervisor_steering_from_approval reads the execution      *)
(* first.  A request for human review only leaves guidance.                *)
Steer(o) ==
  /\ op[o].pc = "steer"
  /\ op' = [op EXCEPT ![o].pc = IF op[o].row.extra THEN "read" ELSE "guide",
                      ![o].copy = execs[1]]
  /\ UNCHANGED <<approvals, defs, execs, applied, Unmoved>>

(* _record_execution_level_steering_guidance saves the execution as the    *)
(* handler read it.                                                        *)
Guide(o) ==
  /\ op[o].pc = "guide"
  /\ execs' = [execs EXCEPT ![1] = op[o].copy]
  /\ Goto(o, "mark")
  /\ UNCHANGED <<approvals, defs, applied, Unmoved>>

(* _update_supervisor_steering_pending_request: read, then saved whole.    *)
Marked(copy, f, status) ==
  IF copy.requests[f] = None THEN copy ELSE [copy EXCEPT !.requests[f] = status]

Mark(o) ==
  /\ op[o].pc = "mark"
  /\ op' = [op EXCEPT ![o].pc = "marked", ![o].copy = execs[1]]
  /\ UNCHANGED <<approvals, defs, execs, applied, Unmoved>>

SaveMark(o) ==
  /\ op[o].pc = "marked"
  /\ LET status == IF op[o].decision = "approve" THEN "applied" ELSE "rejected"
     IN  execs' = [execs EXCEPT ![1] = Marked(op[o].copy, op[o].row.finding, status)]
  /\ Finish(o)
  /\ UNCHANGED <<approvals, defs, applied, Unmoved>>

(* _maybe_persist_rejected_create_draft *)
SaveDraft(o) ==
  /\ op[o].pc = "draft"
  /\ LET row == op[o].row
     IN  defs' = [defs EXCEPT ![row.target] =
                    [Proposed(row, NoDef) EXCEPT !.published = FALSE]]
  /\ Finish(o)
  /\ UNCHANGED <<approvals, execs, applied, Unmoved>>

OperatorStep(o) ==
  \/ \E id \in Rows, decision \in Decisions : Decide(o, id, decision)
  \/ Fetch(o) \/ Save(o) \/ CreateChild(o) \/ Blocked(o)
  \/ ReadTarget(o) \/ Define(o) \/ CreateSchedule(o)
  \/ ListRuns(o) \/ ReplaceRun(o) \/ ListWorkflows(o) \/ SyncWorkflow(o)
  \/ Launch(o) \/ Link(o) \/ SaveLink(o) \/ RunTool(o)
  \/ Steer(o) \/ Guide(o) \/ Mark(o) \/ SaveMark(o) \/ SaveDraft(o)

-----------------------------------------------------------------------------
(* The monitor.  A scan works on the workflows as listed at its start.     *)
(* For every finding, in turn: record it, ask for steering, have the       *)
(* steering approved or apply it, propose an improvement.                  *)

MonUnmoved == <<defs, op, applied, edited, faults>>
(* The scan ends with the last step of its last finding. *)
Advance(m, new) ==
  mon' = [mon EXCEPT ![m] = IF new.pc = "next" /\ new.todo = {} THEN Resting ELSE new]

Scan(m, found) ==
  /\ mon[m].pc = "idle" /\ scans < MaxScans
  /\ found # {} /\ found \cap (seen \cup recorded) = {}
  /\ \A f \in found : defs[Findings[f].workflow].live
  /\ seen' = seen \cup recorded \cup found
  /\ Advance(m, [Resting EXCEPT !.pc = "next", !.todo = found,
                                !.snap = [w \in Workflows |-> defs[w]]])
  /\ scans' = scans + 1
  /\ UNCHANGED <<approvals, execs, recorded, MonUnmoved>>

Follow(m, f) ==
  IF Findings[f].kinds \cap {"steer", "auto"} # {} THEN "request"
  ELSE IF "improve" \in Findings[f].kinds THEN "propose" ELSE "next"

(* _record_finding *)
RecordFinding(m) ==
  /\ mon[m].pc = "next"
  /\ LET f == CHOOSE g \in mon[m].todo : TRUE IN
       /\ recorded' = recorded \cup {f}
       /\ Advance(m, [mon[m] EXCEPT !.f = f, !.todo = @ \ {f},
                        !.pc = IF f \in recorded THEN "next" ELSE Follow(m, f)])
  /\ UNCHANGED <<approvals, execs, seen, scans, MonUnmoved>>

(* The execution is read, and saved whole with the request in its          *)
(* metadata: _persist_pending_supervisor_intervention,                     *)
(* _persist_applied_supervisor_intervention and                            *)
(* _attach_steering_approval_to_pending_request.                           *)
ReadRun(m) ==
  /\ mon[m].pc \in {"request", "auto", "attach"}
  /\ Advance(m, [mon[m] EXCEPT !.copy = execs[1],
                   !.pc = CASE @ = "request" -> "requested"
                            [] @ = "auto"    -> "autoapplied"
                            [] @ = "attach"  -> "attached"])
  /\ UNCHANGED <<approvals, execs, recorded, seen, scans, MonUnmoved>>

AfterSteering(m) == IF "improve" \in Findings[mon[m].f].kinds THEN "propose" ELSE "next"

SaveRun(m) ==
  /\ mon[m].pc \in {"requested", "autoapplied", "attached"}
  /\ LET f == mon[m].f
         copy == mon[m].copy
         row == CASE mon[m].pc = "requested"   -> [copy EXCEPT !.requests[f] = "requested"]
                  [] mon[m].pc = "autoapplied" -> Marked(copy, f, "applied")
                  [] mon[m].pc = "attached"    -> Marked(copy, f, "pending_approval")
     IN  /\ execs' = [execs EXCEPT ![1] = row]
         /\ Advance(m, [mon[m] EXCEPT !.copy = NoCopy,
                          !.pc = IF @ # "requested" THEN AfterSteering(m)
                                 ELSE IF "auto" \in Findings[f].kinds THEN "auto"
                                 ELSE "ask"])
  /\ UNCHANGED <<approvals, recorded, seen, scans, MonUnmoved>>

(* _pending_monitor_approval_for_noise_key *)
(* Mutant: only a request about the same finding is a duplicate. *)
PendingForFinding(f, kind) ==
  \E a \in Rows : /\ approvals[a].status = "pending"
                  /\ approvals[a].kind = kind
                  /\ approvals[a].finding = f
PendingFor(f, kind) ==
  \E a \in Rows : /\ approvals[a].status = "pending"
                  /\ approvals[a].target = Findings[f].workflow
                  /\ approvals[a].kind = kind
                  /\ approvals[a].key = Findings[f].key

CheckDuplicate(m) ==
  /\ mon[m].pc \in {"ask", "propose"}
  /\ LET kind == IF mon[m].pc = "ask" THEN "steering" ELSE "improvement"
     IN  Advance(m, [mon[m] EXCEPT
           !.pc = IF PendingFor(mon[m].f, kind)
                  THEN IF @ = "ask" THEN AfterSteering(m) ELSE "next"
                  ELSE IF @ = "ask" THEN "asking" ELSE "proposing"])
  /\ UNCHANGED <<approvals, execs, recorded, seen, scans, MonUnmoved>>

(* _maybe_create_steering_approval_request and _maybe_create_approval_     *)
(* request; the improvement is made to the workflow of the snapshot.       *)
MonitorRequest(f, kind, content) ==
  [Request(IF kind = "steering" THEN "supervisor_steering" ELSE "workflow_update",
           Findings[f].workflow, content,
           IF kind = "steering" THEN Findings[f].changes ELSE Findings[f].restart)
   EXCEPT !.key = Findings[f].key, !.kind = kind, !.finding = f,
          !.parts = IF kind = "steering" THEN 0 ELSE Findings[f].parts]

AskForSteering(m) ==
  /\ mon[m].pc = "asking"
  /\ CreateApproval(MonitorRequest(mon[m].f, "steering", {}))
  /\ Advance(m, [mon[m] EXCEPT !.pc = "attach"])
  /\ UNCHANGED <<execs, recorded, seen, scans, MonUnmoved>>

ProposeImprovement(m) ==
  /\ mon[m].pc = "proposing"
  /\ LET w == Findings[mon[m].f].workflow
     IN  CreateApproval(MonitorRequest(mon[m].f, "improvement",
                          mon[m].snap[w].content \cup {Len(approvals) + 1}))
  /\ Advance(m, [mon[m] EXCEPT !.pc = "next"])
  /\ UNCHANGED <<execs, recorded, seen, scans, MonUnmoved>>

MonitorStep(m) ==
  \/ \E found \in SUBSET FindingIds : Scan(m, found)
  \/ RecordFinding(m) \/ ReadRun(m) \/ SaveRun(m)
  \/ CheckDuplicate(m) \/ AskForSteering(m) \/ ProposeImprovement(m)

-----------------------------------------------------------------------------
(* Users edit or delete a workflow directly.                               *)
EditWorkflow(w, e) ==
  /\ e \notin edited /\ defs[w].live
  /\ edited' = edited \cup {e}
  /\ \/ defs' = [defs EXCEPT ![w].content = @ \cup {e}]
     \/ defs' = [defs EXCEPT ![w].live = FALSE]
  /\ UNCHANGED <<approvals, execs, recorded, op, mon, seen, applied, scans, faults>>

(* The backend stops: every request and scan ends where it stands, and the *)
(* new process remembers no finding.  With nothing under way a stop has no *)
(* effect: what the monitor has seen is then recorded.                     *)
Crash ==
  /\ faults < MaxFaults
  /\ \/ \E o \in Operators : op[o] # Idle
     \/ \E m \in Monitors : mon[m] # Resting
  /\ faults' = faults + 1
  /\ op' = [o \in Operators |-> Idle]
  /\ mon' = [m \in Monitors |-> Resting]
  /\ seen' = {}
  /\ UNCHANGED <<approvals, defs, execs, recorded, applied, edited, scans>>

Next ==
  \/ \E p \in Proposals : ProposeInChat(p)
  \/ \E o \in Operators : OperatorStep(o)
  \/ \E m \in Monitors : MonitorStep(m)
  \/ \E w \in Workflows, e \in Edits : EditWorkflow(w, e)
  \/ Crash

Spec == Init /\ [][Next]_vars

-----------------------------------------------------------------------------
Approved(c) == \E a \in Rows : approvals[a].change = c /\ approvals[a].status = "approved"

ApprovalRow ==
  [status : {"pending", "approved", "rejected", "cancelled"},
   action : {"workflow_create", "workflow_update", "tool_create", "tool_update",
             "agent_update", "workflow_execution", "tool_execution",
             "supervisor_steering", "review"},
   target : Defs, payload : SUBSET (Edits \cup 1..MaxApprovals),
   change : 1..MaxApprovals, extra : BOOLEAN,
   key : {None} \cup {Findings[f].key : f \in FindingIds},
   kind : {None, "steering", "improvement"}, finding : {None} \cup FindingIds,
   parts : Nat, exec : Nat]

(* The rows keep their shapes; every change in a definition is an edit or  *)
(* the change of an approval row.                                          *)
TypeOK ==
  /\ approvals \in Seq(ApprovalRow) /\ Len(approvals) <= MaxApprovals
  /\ \A d \in Defs : /\ defs[d].live \in BOOLEAN /\ defs[d].published \in BOOLEAN
                     /\ defs[d].content \subseteq Edits \cup Rows
  /\ \A i \in DOMAIN execs : execs[i].from \in {0} \cup Rows
  /\ recorded \subseteq FindingIds /\ seen \subseteq FindingIds
  /\ \A o \in Operators : op[o].id \in {0} \cup Rows

(* Nothing is carried out that nobody approved: every change made, every   *)
(* run launched and every steering request marked as applied belongs to a  *)
(* request whose row says approved, whatever users, the monitor and        *)
(* crashes do in between (docs/main-agent.md: the workflow is updated only *)
(* after approval).  A rejected new workflow is kept, as a draft, and      *)
(* steering the workflow applies automatically needs no request.           *)
AppliedIsApproved ==
  /\ \A c \in DOMAIN applied : applied[c] > 0 => Approved(c)
  /\ \A d \in Defs : \A c \in defs[d].content \ Edits :
       c = defs[d].origin \/ Approved(c)
  /\ \A f \in FindingIds : execs[1].requests[f] = "applied" =>
       \/ "auto" \in Findings[f].kinds
       \/ \E a \in Rows : approvals[a].finding = f /\ approvals[a].status = "approved"

(* An approval is carried out at most once, also when it is split into     *)
(* several requests and also when the backend crashes: no handler retries. *)
AppliedOnce == \A c \in DOMAIN applied : applied[c] <= 1

(* A decision is final: the writes that follow it (the link to the         *)
(* execution, the metadata) never reopen or change it.                     *)
DecisionIsFinal ==
  [][\A a \in Rows : approvals[a].status # "pending" =>
       approvals'[a].status = approvals[a].status]_vars

(* The monitor asks once for a problem: of the requests with a given noise *)
(* key, at most one is pending that was not made by a split.               *)
OnePendingPerProblem ==
  \A a, b \in Rows :
    /\ approvals[a].status = "pending" /\ approvals[b].status = "pending"
    /\ approvals[a].kind # None /\ approvals[a].kind = approvals[b].kind
    /\ approvals[a].key = approvals[b].key
    /\ approvals[a].target = approvals[b].target
    /\ approvals[a].change = a /\ approvals[b].change = b
    => a = b

=============================================================================
