--------------------- MODULE ConversationApprovalsProofs ---------------------
(***************************************************************************)
(* What holds of conversation approvals for every number of approvals,     *)
(* operators, monitors, findings and faults.                               *)
(*                                                                         *)
(* conversation_approval_repo.update saves a row whole without comparing   *)
(* its status, and the monitor looks for a duplicate in one transaction    *)
(* and inserts in another.  The theorems about decisions therefore assume  *)
(* that no two requests decide the same row at once (DecidedAlone), and    *)
(* the one about duplicates that no two scans ask about the same problem   *)
(* at once (AskedAlone); everything else may interleave.                   *)
(***************************************************************************)
EXTENDS ConversationApprovals, TLAPS

\* No two requests handle the same approval at the same time.
DecidedAlone ==
  \A o, p \in Operators :
    op[o].pc # "idle" /\ op[p].pc # "idle" /\ op[o].id = op[p].id => o = p

\* No two scans are about to ask about the same problem.
AskedAlone ==
  \A m, n \in Monitors :
    /\ mon[m].pc \in {"asking", "proposing"} /\ mon[m].pc = mon[n].pc
    /\ Findings[mon[m].f].workflow = Findings[mon[n].f].workflow
    /\ Findings[mon[m].f].key = Findings[mon[n].f].key
    => m = n

-----------------------------------------------------------------------------
(* Shapes.  n is the number of approval rows: changes are named by them.   *)

Creates == {"workflow_create", "tool_create"}
Updates == {"workflow_update", "tool_update", "agent_update"}
Actions == Creates \cup Updates \cup
           {"workflow_execution", "tool_execution", "supervisor_steering", "review"}
Settlements == {"approved", "rejected", "cancelled"}
Keys == {Findings[f].key : f \in FindingIds}

Changes(n) == Edits \cup 1..n
RowIn(n) ==
  [status : Settlements \cup {"pending"}, action : Actions, target : Defs,
   payload : SUBSET Changes(n), change : 1..n, extra : BOOLEAN,
   key : {None} \cup Keys, kind : {None, "steering", "improvement"},
   finding : {None} \cup FindingIds, parts : Nat, exec : Nat]
DefIn(n) ==
  [live : BOOLEAN, published : BOOLEAN, content : SUBSET Changes(n),
   origin : 0..n, scheduled : BOOLEAN]
RunIn(n) ==
  [workflow : Defs, active : BOOLEAN, superseded : BOOLEAN, from : 0..n,
   requests : [FindingIds -> {None, "requested", "applied", "rejected",
                              "pending_approval"}]]

\* The stages of a deciding request: before its save, when its change is
\* still to be made, and after.
Choosing == {"fetch", "save"}
Applying == {"define", "read", "steer", "launch", "run"}
Following == {"schedule", "restart", "replace", "list", "sync", "link",
              "linked", "guide"}
Closing == {"mark", "marked", "draft", "children"}
Busy == Choosing \cup Applying \cup Following \cup Closing

OpRecord(n) ==
  [pc : {"idle"} \cup Busy, id : 0..n, decision : Decisions \cup {None},
   row : RowIn(n) \cup {None}, current : DefIn(n) \cup [Defs -> DefIn(n)],
   copy : RunIn(n) \cup {NoCopy}, left : SUBSET (Nat \cup Workflows)]

\* What each stage carries.
OpStage(x, n, e) ==
  /\ x.pc \in Busy => /\ x.id \in 1..n /\ x.row \in RowIn(n)
                      /\ x.decision \in Decisions
  /\ x.pc # "sync" => x.current \in DefIn(n)
  /\ x.pc = "sync" => x.current \in [Defs -> DefIn(n)] /\ x.left \subseteq Workflows
  /\ x.pc = "replace" => x.left \subseteq 1..e
  /\ x.pc = "marked" => x.copy \in RunIn(n)
  /\ x.pc \in {"read", "define", "restart", "replace", "guide"}
       /\ x.row.action = "supervisor_steering" => x.copy \in RunIn(n)
  /\ x.pc \in {"guide", "steer"} => x.row.action = "supervisor_steering"
  /\ x.pc \in Choosing /\ x.decision = "split" => PartCount(x.row) >= 1
  /\ x.pc = "children" => \E k \in Nat \ {0}, l \in Nat : k <= l /\ x.left = k..l

MonStages == {"next", "request", "requested", "auto", "autoapplied", "ask",
              "asking", "attach", "attached", "propose", "proposing"}

MonRecord(n) ==
  [pc : {"idle"} \cup MonStages, snap : [Workflows -> DefIn(n)] \cup {None},
   todo : SUBSET FindingIds, f : FindingIds \cup {None}, id : {0},
   copy : RunIn(n) \cup {NoCopy}]

MonStage(x, n) ==
  /\ x.pc \in MonStages => x.snap \in [Workflows -> DefIn(n)]
  /\ x.pc \in MonStages \ {"next"} => x.f \in FindingIds
  /\ x.pc = "next" => x.todo # {}
  /\ x.pc \in {"requested", "autoapplied", "attached"} => x.copy \in RunIn(n)
  /\ x.pc \in {"auto", "autoapplied"} => "auto" \in Findings[x.f].kinds

RowsShape == approvals \in Seq(RowIn(Len(approvals))) /\ Len(approvals) <= MaxApprovals
DefsShape == defs \in [Defs -> DefIn(Len(approvals))]
ExecsShape == execs \in Seq(RunIn(Len(approvals))) /\ Len(execs) >= 1
OpsShape ==
  /\ op \in [Operators -> OpRecord(Len(approvals))]
  /\ \A o \in Operators : OpStage(op[o], Len(approvals), Len(execs))
MonsShape ==
  /\ mon \in [Monitors -> MonRecord(Len(approvals))]
  /\ \A m \in Monitors : MonStage(mon[m], Len(approvals))
RestShape ==
  /\ recorded \subseteq FindingIds /\ seen \subseteq FindingIds
  /\ applied \in [1..MaxApprovals -> Nat]

Shapes == RowsShape /\ DefsShape /\ ExecsShape /\ OpsShape /\ MonsShape /\ RestShape

-----------------------------------------------------------------------------
(* Invariants.                                                             *)

\* All but the status and the execution of a row never change.
SameRequest(r, s) ==
  /\ r.action = s.action /\ r.target = s.target /\ r.payload = s.payload
  /\ r.change = s.change /\ r.extra = s.extra /\ r.key = s.key
  /\ r.kind = s.kind /\ r.finding = s.finding /\ r.parts = s.parts

\* What a request has read is the row it decides, and once it has saved its
\* decision the row is not pending any more.
ReadsItsRow(x) ==
  x.pc \in Busy =>
    /\ SameRequest(x.row, approvals[x.id])
    /\ x.pc \notin Choosing => approvals[x.id].status # "pending"
    /\ x.pc \in {"save", "linked"} => x.row.status # "pending"
Requests == \A o \in Operators : ReadsItsRow(op[o])

\* Under DecidedAlone the row says what the request decided.
DecidesItsRow(x) ==
  /\ x.pc \in Choosing => approvals[x.id].status = "pending"
  /\ x.pc \in Busy \ Choosing => approvals[x.id].status = StatusOf(x.decision)
  /\ x.pc \in {"save", "linked"} => x.row.status = StatusOf(x.decision)
  /\ x.pc \in Applying \cup Following => x.decision = "approve"
  /\ x.pc \in {"mark", "marked"} =>
       x.decision = "approve" \/ x.decision = "reject"
  /\ x.pc = "draft" => x.row.action = "workflow_create"
  /\ x.pc \in {"list", "sync"} => x.row.action = "agent_update"
  /\ x.pc \in Applying => x.row.action # "review"
  /\ x.pc = "define" /\ x.row.action \notin Creates => x.current.live
Decided == \A o \in Operators : DecidesItsRow(op[o])

\* A request that can still be approved and carried out, and a deciding
\* request that has yet to carry out its change or to pass it to a part.
Alive(a) == approvals[a].status = "pending" /\ approvals[a].action # "review"
Due(x) ==
  \/ x.pc \in Applying
  \/ x.pc = "children" /\ 1 \in x.left /\ x.row.action # "review"

\* Of each change there is one chance to carry it out.
OneChance ==
  /\ \A a, b \in Rows : Alive(a) /\ Alive(b)
       /\ approvals[a].change = approvals[b].change => a = b
  /\ \A a \in Rows, o \in Operators :
       Alive(a) /\ Due(op[o]) => approvals[a].change # op[o].row.change
  /\ \A o, p \in Operators : Due(op[o]) /\ Due(op[p])
       /\ op[o].row.change = op[p].row.change => o = p
  /\ \A c \in DOMAIN applied : applied[c] > 0 =>
       /\ applied[c] = 1 /\ c <= Len(approvals)
       /\ \A a \in Rows : Alive(a) => approvals[a].change # c
       /\ \A o \in Operators : Due(op[o]) => op[o].row.change # c

\* Where a change in a definition may come from.
Creator(c, d) ==
  \E a \in Rows : /\ approvals[a].change = c /\ approvals[a].target = d
                  /\ approvals[a].action \in Creates
FromApproved(d, x) ==
  /\ \A c \in x.content \ Edits : c = x.origin \/ Approved(c)
  /\ x.origin = 0 \/ Creator(x.origin, d)
  /\ x.live /\ d \in Fresh => x.origin # 0
Steered(run) ==
  \A f \in FindingIds : run.requests[f] = "applied" =>
    \/ "auto" \in Findings[f].kinds
    \/ \E a \in Rows : approvals[a].finding = f /\ approvals[a].status = "approved"

\* A definition is created by one request, which is not split; a payload
\* holds the change of its request and what was there before.
Proposes ==
  /\ \A a \in Rows :
       /\ approvals[a].action \in Creates =>
            approvals[a].target \in Fresh /\ approvals[a].parts = 0
       /\ approvals[a].action = "agent_update" => approvals[a].target \in Agents
       /\ \A c \in approvals[a].payload \ Edits :
            \/ c = approvals[a].change \/ Approved(c)
            \/ Creator(c, approvals[a].target)
  /\ \A a, b \in Rows :
       /\ approvals[a].action \in Creates /\ approvals[b].action \in Creates
       /\ approvals[a].target = approvals[b].target
       => a = b

OpHolds(x) ==
  /\ x.pc \in Busy /\ x.decision = "split" => x.row.action \notin Creates
  /\ x.pc = "children" => x.row.action \notin Creates
  /\ x.pc = "define" /\ x.row.action \notin Creates =>
       FromApproved(x.row.target, x.current)
  /\ x.pc = "sync" => \A w \in Workflows : FromApproved(w, x.current[w])
  /\ x.pc = "marked" => Steered(x.copy)
  /\ x.pc \in {"read", "define", "restart", "replace", "guide"}
       /\ x.row.action = "supervisor_steering" => Steered(x.copy)
MonHolds(x) ==
  /\ x.pc \in MonStages => \A w \in Workflows : FromApproved(w, x.snap[w])
  /\ x.pc \in {"requested", "autoapplied", "attached"} => Steered(x.copy)

Sourced ==
  /\ \A d \in Defs : FromApproved(d, defs[d])
  /\ Steered(execs[1])
  /\ \A o \in Operators : OpHolds(op[o])
  /\ \A m \in Monitors : MonHolds(mon[m])
  /\ \A c \in DOMAIN applied : applied[c] > 0 => Approved(c)

\* A scan that is about to ask has found no request about the problem.
Asks(a, f, kind) ==
  /\ approvals[a].status = "pending" /\ approvals[a].change = a
  /\ approvals[a].kind = kind /\ approvals[a].key = Findings[f].key
  /\ approvals[a].target = Findings[f].workflow
NotAsked ==
  \A m \in Monitors, a \in Rows :
    /\ mon[m].pc = "asking" => ~Asks(a, mon[m].f, "steering")
    /\ mon[m].pc = "proposing" => ~Asks(a, mon[m].f, "improvement")

-----------------------------------------------------------------------------
(* More approvals, or more executions, leave every shape as it is.         *)

LEMMA ShapesGrow ==
  ASSUME NEW n \in Nat, NEW m \in Nat, n <= m
  PROVE  /\ Changes(n) \subseteq Changes(m) /\ RowIn(n) \subseteq RowIn(m)
         /\ DefIn(n) \subseteq DefIn(m) /\ RunIn(n) \subseteq RunIn(m)
         /\ OpRecord(n) \subseteq OpRecord(m) /\ MonRecord(n) \subseteq MonRecord(m)
<1>1. 1..n \subseteq 1..m /\ 0..n \subseteq 0..m
  OBVIOUS
<1>2. Changes(n) \subseteq Changes(m)
  BY <1>1 DEF Changes
<1>3. RowIn(n) \subseteq RowIn(m)
  BY <1>1, <1>2 DEF RowIn
<1>4. DefIn(n) \subseteq DefIn(m)
  BY <1>1, <1>2 DEF DefIn
<1>5. RunIn(n) \subseteq RunIn(m)
  BY <1>1 DEF RunIn
<1>6. [Defs -> DefIn(n)] \subseteq [Defs -> DefIn(m)]
      /\ [Workflows -> DefIn(n)] \subseteq [Workflows -> DefIn(m)]
  BY <1>4
<1>7. OpRecord(n) \subseteq OpRecord(m)
  BY <1>1, <1>3, <1>4, <1>5, <1>6 DEF OpRecord
<1>8. MonRecord(n) \subseteq MonRecord(m)
  BY <1>5, <1>6 DEF MonRecord
<1> QED BY <1>2, <1>3, <1>4, <1>5, <1>7, <1>8

LEMMA StagesGrow ==
  ASSUME NEW n \in Nat, NEW m \in Nat, n <= m, NEW d \in Nat, NEW e \in Nat, d <= e,
         NEW x
  PROVE  /\ OpStage(x, n, d) => OpStage(x, m, e)
         /\ MonStage(x, n) => MonStage(x, m)
<1>1. /\ RowIn(n) \subseteq RowIn(m) /\ DefIn(n) \subseteq DefIn(m)
      /\ RunIn(n) \subseteq RunIn(m)
  BY ShapesGrow
<1>2. 1..n \subseteq 1..m /\ 1..d \subseteq 1..e
  OBVIOUS
<1>3. [Defs -> DefIn(n)] \subseteq [Defs -> DefIn(m)]
      /\ [Workflows -> DefIn(n)] \subseteq [Workflows -> DefIn(m)]
  BY <1>1
<1>4. OpStage(x, n, d) => OpStage(x, m, e)
  BY <1>1, <1>2, <1>3 DEF OpStage
<1>5. MonStage(x, n) => MonStage(x, m)
  BY <1>1, <1>3 DEF MonStage
<1> QED BY <1>4, <1>5

\* A table keeps its shape when a row is replaced or appended.
LEMMA ReplaceKeeps ==
  ASSUME NEW S, NEW s \in Seq(S), NEW i, NEW e, i \in DOMAIN s => e \in S
  PROVE  [s EXCEPT ![i] = e] \in Seq(S) /\ Len([s EXCEPT ![i] = e]) = Len(s)
<1> DEFINE t == [j \in 1..Len(s) |-> IF j = i THEN e ELSE s[j]]
<1>1. [s EXCEPT ![i] = e] = t
  OBVIOUS
<1>2. \A j \in 1..Len(s) : t[j] \in S
  OBVIOUS
<1>3. t \in Seq(S) /\ Len(t) = Len(s)
  BY <1>2
<1> QED BY <1>1, <1>3

LEMMA AppendKeeps ==
  ASSUME NEW S, NEW T, S \subseteq T, NEW s \in Seq(S), NEW e \in T
  PROVE  /\ Append(s, e) \in Seq(T) /\ Len(Append(s, e)) = Len(s) + 1
         /\ Append(s, e)[Len(s) + 1] = e
         /\ \A i \in 1..Len(s) : Append(s, e)[i] = s[i]
<1>1. s \in Seq(T)
  <2>1. s \in [1..Len(s) -> T] /\ Len(s) \in Nat
    OBVIOUS
  <2> QED BY <2>1
<1> QED BY <1>1

LEMMA EmptyShapes ==
  ASSUME NEW n \in Nat, NEW e \in Nat
  PROVE  /\ NoDef \in DefIn(n)
         /\ Idle \in OpRecord(n) /\ OpStage(Idle, n, e)
         /\ Resting \in MonRecord(n) /\ MonStage(Resting, n)
<1>1. NoDef \in DefIn(n)
  BY DEF NoDef, DefIn
<1>2. Idle \in OpRecord(n)
  BY <1>1 DEF Idle, OpRecord
<1>3. OpStage(Idle, n, e)
  BY <1>1 DEF Idle, OpStage, Busy, Choosing, Applying, Following, Closing
<1>4. Resting \in MonRecord(n)
  BY DEF Resting, MonRecord
<1>5. MonStage(Resting, n)
  BY DEF Resting, MonStage, MonStages
<1> QED BY <1>1, <1>2, <1>3, <1>4, <1>5

\* A step adds rows to the tables and removes none.
Wider ==
  /\ Len(approvals) \in Nat /\ Len(approvals') \in Nat /\ Len(approvals) <= Len(approvals')
  /\ Len(execs) \in Nat /\ Len(execs') \in Nat /\ Len(execs) <= Len(execs')

\* What a step leaves alone keeps its shape ...
LEMMA UnmovedKeeps ==
  ASSUME Shapes, Wider
  PROVE  /\ defs' = defs => DefsShape'
         /\ execs' = execs => ExecsShape'
         /\ op' = op => OpsShape'
         /\ mon' = mon => MonsShape'
<1> DEFINE n == Len(approvals)
           m == Len(approvals')
           d == Len(execs)
           e == Len(execs')
<1>0. n \in Nat /\ m \in Nat /\ n <= m /\ d \in Nat /\ e \in Nat /\ d <= e
  BY DEF Wider
<1>1. /\ DefIn(n) \subseteq DefIn(m) /\ RunIn(n) \subseteq RunIn(m)
      /\ OpRecord(n) \subseteq OpRecord(m) /\ MonRecord(n) \subseteq MonRecord(m)
  BY <1>0, ShapesGrow
<1>2. \A x : /\ OpStage(x, n, d) => OpStage(x, m, e)
             /\ MonStage(x, n) => MonStage(x, m)
  BY <1>0, StagesGrow
<1> HIDE DEF n, m, d, e
<1>3. defs' = defs => DefsShape'
  BY <1>1 DEF Shapes, DefsShape, n, m
<1>4. execs' = execs => ExecsShape'
  <2>1. execs \in Seq(RunIn(n)) /\ Len(execs) >= 1
    BY DEF Shapes, ExecsShape, n
  <2>2. execs \in Seq(RunIn(m))
    BY <1>1, <2>1
  <2> QED BY <2>1, <2>2 DEF ExecsShape, m
<1>5. op' = op => OpsShape'
  <2>1. op \in [Operators -> OpRecord(n)] /\ \A o \in Operators : OpStage(op[o], n, d)
    BY DEF Shapes, OpsShape, n, d
  <2>2. op \in [Operators -> OpRecord(m)] /\ \A o \in Operators : OpStage(op[o], m, e)
    BY <1>1, <1>2, <2>1
  <2> QED BY <2>2 DEF OpsShape, m, e
<1>6. mon' = mon => MonsShape'
  <2>1. mon \in [Monitors -> MonRecord(n)] /\ \A x \in Monitors : MonStage(mon[x], n)
    BY DEF Shapes, MonsShape, n
  <2>2. mon \in [Monitors -> MonRecord(m)] /\ \A x \in Monitors : MonStage(mon[x], m)
    BY <1>1, <1>2, <2>1
  <2> QED BY <2>2 DEF MonsShape, m
<1> QED BY <1>3, <1>4, <1>5, <1>6

\* ... and so does what it sets to a value of the right shape.
LEMMA OpSet ==
  ASSUME Shapes, Wider, NEW o \in Operators, NEW r,
         op' = [op EXCEPT ![o] = r],
         r \in OpRecord(Len(approvals')), OpStage(r, Len(approvals'), Len(execs'))
  PROVE  OpsShape'
<1> DEFINE n == Len(approvals)
           m == Len(approvals')
           d == Len(execs)
           e == Len(execs')
<1>0. n \in Nat /\ m \in Nat /\ n <= m /\ d \in Nat /\ e \in Nat /\ d <= e
  BY DEF Wider
<1>1. OpRecord(n) \subseteq OpRecord(m)
  BY <1>0, ShapesGrow
<1>2. \A x : OpStage(x, n, d) => OpStage(x, m, e)
  BY <1>0, StagesGrow
<1>3. op \in [Operators -> OpRecord(n)] /\ \A p \in Operators : OpStage(op[p], n, d)
  BY DEF Shapes, OpsShape
<1>4. r \in OpRecord(m) /\ OpStage(r, m, e)
  OBVIOUS
<1> HIDE DEF n, m, d, e
<1>5. op' \in [Operators -> OpRecord(m)]
  BY <1>1, <1>3, <1>4
<1>6. \A p \in Operators : OpStage(op'[p], m, e)
  BY <1>2, <1>3, <1>4
<1> QED BY <1>5, <1>6 DEF OpsShape, m, e

LEMMA MonSet ==
  ASSUME Shapes, Wider, NEW m \in Monitors, NEW r,
         mon' = [mon EXCEPT ![m] = r],
         r \in MonRecord(Len(approvals')), MonStage(r, Len(approvals'))
  PROVE  MonsShape'
<1> DEFINE k == Len(approvals)
           l == Len(approvals')
<1>0. k \in Nat /\ l \in Nat /\ k <= l
  BY DEF Wider
<1>1. MonRecord(k) \subseteq MonRecord(l)
  BY <1>0, ShapesGrow
<1>2. \A x : MonStage(x, k) => MonStage(x, l)
  BY <1>0, StagesGrow
<1>3. mon \in [Monitors -> MonRecord(k)] /\ \A p \in Monitors : MonStage(mon[p], k)
  BY DEF Shapes, MonsShape
<1>4. r \in MonRecord(l) /\ MonStage(r, l)
  OBVIOUS
<1> HIDE DEF k, l
<1>5. mon' \in [Monitors -> MonRecord(l)]
  BY <1>1, <1>3, <1>4
<1>6. \A p \in Monitors : MonStage(mon'[p], l)
  BY <1>2, <1>3, <1>4
<1> QED BY <1>5, <1>6 DEF MonsShape, l

LEMMA DefSet ==
  ASSUME Shapes, Wider, NEW d, NEW x \in DefIn(Len(approvals')),
         defs' = [defs EXCEPT ![d] = x]
  PROVE  DefsShape'
<1> DEFINE n == Len(approvals)
           m == Len(approvals')
<1>1. DefIn(n) \subseteq DefIn(m)
  BY ShapesGrow DEF Wider
<1>2. defs \in [Defs -> DefIn(n)] /\ x \in DefIn(m)
  BY DEF Shapes, DefsShape
<1> HIDE DEF n, m
<1>3. defs' \in [Defs -> DefIn(m)]
  BY <1>1, <1>2
<1> QED BY <1>3 DEF DefsShape, m

-----------------------------------------------------------------------------
(* Every step keeps the shapes.                                            *)

LEMMA RowTyped ==
  ASSUME Shapes, NEW a \in Rows
  PROVE  approvals[a] \in RowIn(Len(approvals)) /\ a \in 1..Len(approvals)
         /\ Len(approvals) \in Nat
  BY DEF Shapes, RowsShape, Rows

LEMMA OpTyped ==
  ASSUME Shapes, NEW o \in Operators
  PROVE  /\ op[o] \in OpRecord(Len(approvals))
         /\ OpStage(op[o], Len(approvals), Len(execs))
         /\ \A r : [op EXCEPT ![o] = r][o] = r
  BY DEF Shapes, OpsShape

\* With the same approvals and executions the tables are as wide as before.
LEMMA SameWidth ==
  ASSUME Shapes, Len(approvals') = Len(approvals), Len(execs') = Len(execs)
  PROVE  Wider
  BY DEF Shapes, RowsShape, ExecsShape, Wider

\* A request that only moves on.
OnlyOp == approvals' = approvals /\ defs' = defs /\ execs' = execs
          /\ applied' = applied

LEMMA OnlyOpShapes ==
  ASSUME Shapes, OnlyOp, UNCHANGED Unmoved, NEW o \in Operators, NEW r,
         op' = [op EXCEPT ![o] = r],
         r \in OpRecord(Len(approvals)), OpStage(r, Len(approvals), Len(execs))
  PROVE  Shapes'
<1>1. Wider
  BY SameWidth DEF OnlyOp
<1>2. OpsShape'
  BY <1>1, OpSet DEF OnlyOp
<1>3. DefsShape' /\ ExecsShape' /\ MonsShape'
  BY <1>1, UnmovedKeeps DEF OnlyOp, Unmoved
<1>4. RowsShape' /\ RestShape'
  BY DEF Shapes, RowsShape, RestShape, OnlyOp, Unmoved
<1> QED BY <1>2, <1>3, <1>4 DEF Shapes

\* Decide and Fetch, and the steps that end a request or read for it.
LEMMA ReadingShapes ==
  ASSUME Shapes, Requests, NEW o \in Operators,
         \/ \E id \in Rows, decision \in Decisions : Decide(o, id, decision)
         \/ Fetch(o) \/ Blocked(o) \/ ReadTarget(o) \/ ListRuns(o)
         \/ ListWorkflows(o) \/ Link(o) \/ Steer(o) \/ Mark(o)
  PROVE  Shapes'
<1> DEFINE n == Len(approvals)
           e == Len(execs)
           x == op[o]
<1>0. n \in Nat /\ e \in Nat /\ e >= 1
  BY DEF Shapes, RowsShape, ExecsShape
<1>1. x \in OpRecord(n) /\ OpStage(x, n, e)
  BY OpTyped
<1>2. \A a \in Rows : approvals[a] \in RowIn(n) /\ a \in 1..n
  BY RowTyped
<1>3. Idle \in OpRecord(n) /\ OpStage(Idle, n, e) /\ NoDef \in DefIn(n)
  BY <1>0, EmptyShapes
<1>4. execs[1] \in RunIn(n)
  BY <1>0 DEF Shapes, ExecsShape
<1>5. defs \in [Defs -> DefIn(n)]
  BY DEF Shapes, DefsShape
<1>6. op \in [Operators -> OpRecord(n)]
  BY DEF Shapes, OpsShape
<1>7. x.pc \in Busy => x.id \in Rows
  BY <1>1 DEF Shapes, RowsShape, OpStage, Rows
<1>8. SUFFICES \E r : /\ op' = [op EXCEPT ![o] = r]
                      /\ r \in OpRecord(n) /\ OpStage(r, n, e)
  BY OnlyOpShapes DEF OnlyOp, Decide, Fetch, Blocked, ReadTarget, ListRuns,
     ListWorkflows, Link, Steer, Mark, Unmoved
<1> HIDE DEF n, e
<1>9. ASSUME NEW id \in Rows, NEW decision \in Decisions, Decide(o, id, decision)
      PROVE  \E r : /\ op' = [op EXCEPT ![o] = r]
                    /\ r \in OpRecord(n) /\ OpStage(r, n, e)
  <2> DEFINE r == [Idle EXCEPT !.pc = "fetch", !.id = id, !.decision = decision,
                               !.row = approvals[id]]
  <2>1. op' = [op EXCEPT ![o] = r]
    BY <1>9 DEF Decide
  <2>2. id \in 1..n /\ id \in 0..n /\ approvals[id] \in RowIn(n)
    BY <1>0, <1>2
  <2>3. r \in OpRecord(n)
    BY <1>3, <2>2 DEF OpRecord, Busy, Choosing
  <2>4. decision = "split" => PartCount(approvals[id]) >= 1
    <3>1. PartCount(approvals[id]) \in Nat
      BY <2>2 DEF RowIn, PartCount
    <3>2. decision = "split" => PartCount(approvals[id]) >= 2
      BY <1>9 DEF Decide
    <3> QED BY <3>1, <3>2
  <2>6. /\ r.pc = "fetch" /\ r.id = id /\ r.decision = decision
        /\ r.row = approvals[id] /\ r.current = Idle.current
    BY <1>3 DEF OpRecord
  <2>7. Idle.current \in DefIn(n)
    BY <1>3 DEF Idle
  <2> HIDE DEF r
  <2>5. OpStage(r, n, e)
    BY <2>2, <2>4, <2>6, <2>7 DEF OpStage
  <2> QED BY <2>1, <2>3, <2>5
<1>10. CASE Fetch(o)
  <2> DEFINE row == [approvals[x.id] EXCEPT !.status = StatusOf(x.decision),
                       !.exec = IF x.decision = "reject" THEN @ ELSE x.row.exec]
             r == [x EXCEPT !.pc = "save", !.row = row]
  <2>1. op' = [op EXCEPT ![o] = r]
    BY <1>6, <1>10 DEF Fetch
  <2>2. x.pc = "fetch" /\ x.row \in RowIn(n) /\ x.id \in Rows
    BY <1>1, <1>7, <1>10 DEF Fetch, OpStage, Busy, Choosing
  <2>3. row \in RowIn(n)
    BY <1>2, <2>2 DEF RowIn, StatusOf, Settlements
  <2>6. PartCount(row) = PartCount(x.row)
    <3>1. SameRequest(x.row, approvals[x.id])
      BY <2>2 DEF Requests, ReadsItsRow, Busy, Choosing
    <3>2. approvals[x.id] \in RowIn(n)
      BY <1>2, <2>2
    <3>3. row.action = x.row.action /\ row.parts = x.row.parts
      BY <3>1, <3>2 DEF SameRequest, RowIn
    <3> QED BY <3>3 DEF PartCount
  <2> HIDE DEF row
  <2>4. r \in OpRecord(n)
    BY <1>1, <2>3 DEF OpRecord, Busy, Choosing
  <2>5. OpStage(r, n, e)
    BY <1>1, <2>2, <2>3, <2>6 DEF OpStage, OpRecord, Busy, Choosing, Applying, Following, Closing
  <2> QED BY <2>1, <2>4, <2>5
<1>11. CASE Blocked(o)
  BY <1>3, <1>11 DEF Blocked, Finish
<1>12. CASE ReadTarget(o)
  <2> DEFINE t == defs[x.row.target]
             r == [x EXCEPT !.pc = "define", !.current = t]
             q == [x EXCEPT !.pc = "guide"]
  <2>1. \/ op' = [op EXCEPT ![o] = r]
        \/ op' = [op EXCEPT ![o] = Idle]
        \/ op' = [op EXCEPT ![o] = q] /\ x.row.action = "supervisor_steering"
    BY <1>6, <1>12 DEF ReadTarget, Finish, Goto
  <2>2. x.pc = "read" /\ x.row \in RowIn(n)
    BY <1>1, <1>12 DEF ReadTarget, OpStage, Busy, Applying
  <2>3. t \in DefIn(n)
    BY <1>5, <2>2 DEF RowIn
  <2> HIDE DEF t
  <2>4. r \in OpRecord(n) /\ q \in OpRecord(n)
    BY <1>1, <2>3 DEF OpRecord, Busy, Applying, Following
  <2>5. OpStage(r, n, e)
    BY <1>1, <2>2, <2>3 DEF OpStage, OpRecord, Busy, Choosing, Applying, Following, Closing
  <2>6. x.row.action = "supervisor_steering" => OpStage(q, n, e)
    BY <1>1, <2>2 DEF OpStage, OpRecord, Busy, Choosing, Applying, Following, Closing
  <2> QED BY <1>3, <2>1, <2>4, <2>5, <2>6
<1>13. CASE ListRuns(o)
  <2> DEFINE left == {i \in DOMAIN execs : /\ execs[i].workflow = x.row.target
                                            /\ execs[i].active /\ ~execs[i].superseded}
             r == [x EXCEPT !.pc = "replace", !.left = left]
             q == [x EXCEPT !.pc = "guide", !.left = {}]
  <2>1. \/ op' = [op EXCEPT ![o] = r]
        \/ op' = [op EXCEPT ![o] = Idle]
        \/ op' = [op EXCEPT ![o] = q] /\ x.row.action = "supervisor_steering"
    BY <1>6, <1>13 DEF ListRuns, AfterRestart, Finish
  <2>2. left \subseteq 1..e /\ left \subseteq Nat
    BY DEF Shapes, ExecsShape, e
  <2>3. x.pc = "restart"
    BY <1>13 DEF ListRuns
  <2> HIDE DEF left
  <2>4. r \in OpRecord(n) /\ q \in OpRecord(n)
    BY <1>1, <2>2 DEF OpRecord, Busy, Following
  <2>5. OpStage(r, n, e)
    BY <1>1, <2>2, <2>3 DEF OpStage, OpRecord, Busy, Choosing, Applying, Following, Closing
  <2>6. x.row.action = "supervisor_steering" => OpStage(q, n, e)
    BY <1>1, <2>3 DEF OpStage, OpRecord, Busy, Choosing, Applying, Following, Closing
  <2> QED BY <1>3, <2>1, <2>4, <2>5, <2>6
<1>14. CASE ListWorkflows(o)
  <2> DEFINE left == {w \in Workflows : defs[w].live}
             r == [x EXCEPT !.pc = "sync", !.current = defs, !.left = left]
  <2>1. \/ op' = [op EXCEPT ![o] = r]
        \/ op' = [op EXCEPT ![o] = Idle]
    BY <1>6, <1>14 DEF ListWorkflows, Finish
  <2>2. left \subseteq Workflows
    OBVIOUS
  <2>3. x.pc = "list"
    BY <1>14 DEF ListWorkflows
  <2> HIDE DEF left
  <2>4. r \in OpRecord(n)
    BY <1>1, <1>5, <2>2 DEF OpRecord, Busy, Following
  <2>5. OpStage(r, n, e)
    BY <1>1, <1>5, <2>2, <2>3 DEF OpStage, OpRecord, Busy, Choosing, Applying, Following, Closing
  <2> QED BY <1>3, <2>1, <2>4, <2>5
<1>15. CASE Link(o)
  <2> DEFINE row == [approvals[x.id] EXCEPT !.exec = x.row.exec]
             r == [x EXCEPT !.pc = "linked", !.row = row]
  <2>1. op' = [op EXCEPT ![o] = r]
    BY <1>6, <1>15 DEF Link
  <2>2. x.pc = "link" /\ x.row \in RowIn(n) /\ x.id \in Rows
    BY <1>1, <1>7, <1>15 DEF Link, OpStage, Busy, Following
  <2>3. row \in RowIn(n)
    BY <1>2, <2>2 DEF RowIn
  <2> HIDE DEF row
  <2>4. r \in OpRecord(n)
    BY <1>1, <2>3 DEF OpRecord, Busy, Following
  <2>5. OpStage(r, n, e)
    BY <1>1, <2>2, <2>3 DEF OpStage, OpRecord, Busy, Choosing, Applying, Following, Closing
  <2> QED BY <2>1, <2>4, <2>5
<1>16. CASE Steer(o)
  <2> DEFINE r == [x EXCEPT !.pc = IF x.row.extra THEN "read" ELSE "guide",
                            !.copy = execs[1]]
  <2>1. op' = [op EXCEPT ![o] = r]
    BY <1>6, <1>16 DEF Steer
  <2>2. x.pc = "steer"
    BY <1>16 DEF Steer
  <2>4. r \in OpRecord(n)
    BY <1>1, <1>4, ZenonT(60) DEF OpRecord, Busy, Applying, Following
  <2>5. OpStage(r, n, e)
    BY <1>1, <1>4, <2>2 DEF OpStage, OpRecord, Busy, Choosing, Applying, Following, Closing
  <2> QED BY <2>1, <2>4, <2>5
<1>17. CASE Mark(o)
  <2> DEFINE r == [x EXCEPT !.pc = "marked", !.copy = execs[1]]
  <2>1. op' = [op EXCEPT ![o] = r]
    BY <1>6, <1>17 DEF Mark
  <2>2. x.pc = "mark"
    BY <1>17 DEF Mark
  <2>4. r \in OpRecord(n)
    BY <1>1, <1>4 DEF OpRecord, Busy, Closing
  <2>5. OpStage(r, n, e)
    BY <1>1, <1>4, <2>2 DEF OpStage, OpRecord, Busy, Choosing, Applying, Following, Closing
  <2> QED BY <2>1, <2>4, <2>5
<1> QED BY <1>9, <1>10, <1>11, <1>12, <1>13, <1>14, <1>15, <1>16, <1>17

\* The steps that write an approval row: the decision, the link to the
\* execution, and the parts of a split.
LEMMA RowOpShapes ==
  ASSUME Shapes, NEW o \in Operators, NEW r, NEW m \in Nat, m = Len(approvals'),
         Len(approvals) <= m, m <= MaxApprovals, approvals' \in Seq(RowIn(m)),
         op' = [op EXCEPT ![o] = r], r \in OpRecord(m), OpStage(r, m, Len(execs)),
         UNCHANGED <<defs, execs, applied, Unmoved>>
  PROVE  Shapes'
<1>1. Wider
  BY DEF Wider, Shapes, RowsShape, ExecsShape
<1>2. OpsShape'
  BY <1>1, OpSet
<1>3. RowsShape' /\ RestShape'
  BY DEF Shapes, RowsShape, RestShape, Unmoved
<1> QED BY <1>1, <1>2, <1>3, UnmovedKeeps DEF Shapes, Unmoved

LEMMA RowWritingShapes ==
  ASSUME Shapes, NEW o \in Operators, Save(o) \/ SaveLink(o) \/ CreateChild(o)
  PROVE  Shapes'
<1> DEFINE n == Len(approvals)
           e == Len(execs)
           x == op[o]
<1>0. /\ n \in Nat /\ e \in Nat /\ n <= MaxApprovals
      /\ approvals \in Seq(RowIn(n)) /\ op \in [Operators -> OpRecord(n)]
  BY DEF Shapes, RowsShape, ExecsShape, OpsShape
<1>1. x \in OpRecord(n) /\ OpStage(x, n, e)
  BY OpTyped
<1>2. /\ x.pc \in Busy /\ x.id \in 1..n /\ x.row \in RowIn(n)
      /\ x.decision \in Decisions
  BY <1>1 DEF Save, SaveLink, CreateChild, OpStage, Busy, Choosing, Following, Closing
<1>3. \A k \in Nat : Idle \in OpRecord(k) /\ OpStage(Idle, k, e)
  BY <1>0, EmptyShapes
<1>4. UNCHANGED <<defs, execs, applied, Unmoved>>
  BY DEF Save, SaveLink, CreateChild
<1>5. CASE Save(o)
  <2> DEFINE next == Effect(x.decision, x.row)
             left == IF next = "children" THEN SplitParts(x.row) ELSE {}
             r == [x EXCEPT !.pc = next, !.left = left]
  <2>1. approvals' = [approvals EXCEPT ![x.id] = x.row]
    BY <1>5 DEF Save
  <2>2. approvals' \in Seq(RowIn(n)) /\ Len(approvals') = n
    BY <1>0, <1>2, <2>1, ReplaceKeeps
  <2>3. next # "done" => op' = [op EXCEPT ![o] = r]
    BY <1>0, <1>5 DEF Save
  <2>4. next = "done" => op' = [op EXCEPT ![o] = Idle]
    BY <1>5 DEF Save, Finish
  <2>5. x.pc = "save"
    BY <1>5 DEF Save
  <2>6. next \in {"define", "read", "steer", "launch", "run", "mark", "draft",
                  "children", "done"}
    BY DEF Effect
  <2>7. /\ next = "steer" => x.row.action = "supervisor_steering"
        /\ next \in {"define", "read"} => x.row.action # "supervisor_steering"
        /\ next = "children" => x.decision = "split"
    BY DEF Effect
  <2>8. /\ left \subseteq Nat
        /\ next = "children" => left = 1..PartCount(x.row) /\ PartCount(x.row) \in Nat
    BY <1>2 DEF SplitParts, PartCount, RowIn
  <2>9. next = "children" => PartCount(x.row) >= 1
    BY <1>1, <2>5, <2>7 DEF OpStage, Choosing
  <2> HIDE DEF next, left
  <2>10. next # "done" => r \in OpRecord(n)
    BY <1>1, <2>6, <2>8 DEF OpRecord, Busy, Applying, Closing
  <2>11. next # "done" => OpStage(r, n, e)
    <3>1. next = "children" => \E k \in Nat \ {0}, l \in Nat : k <= l /\ left = k..l
      BY <2>8, <2>9
    <3>2. /\ r.pc = next /\ r.left = left /\ r.row = x.row /\ r.id = x.id
          /\ r.decision = x.decision /\ r.current = x.current /\ r.copy = x.copy
      BY <1>1 DEF OpRecord
    <3>3. x.current \in DefIn(n)
      BY <1>1, <2>5 DEF OpStage
    <3> HIDE DEF r
    <3> QED BY <1>2, <2>6, <2>7, <3>1, <3>2, <3>3 DEF OpStage, Choosing
  <2> HIDE DEF r
  <2>12. CASE next # "done"
    BY <1>0, <1>4, <2>2, <2>3, <2>10, <2>11, <2>12, RowOpShapes
  <2>13. CASE next = "done"
    BY <1>0, <1>3, <1>4, <2>2, <2>4, <2>13, RowOpShapes
  <2> QED BY <2>12, <2>13
<1>6. CASE SaveLink(o)
  <2>1. approvals' = [approvals EXCEPT ![x.id] = x.row]
    BY <1>6 DEF SaveLink
  <2>2. approvals' \in Seq(RowIn(n)) /\ Len(approvals') = n
    BY <1>0, <1>2, <2>1, ReplaceKeeps
  <2>3. op' = [op EXCEPT ![o] = Idle]
    BY <1>6 DEF SaveLink, Finish
  <2>4. Idle \in OpRecord(n) /\ OpStage(Idle, n, e) /\ n <= n
    BY <1>0, <1>3
  <2> HIDE DEF x
  <2> QED BY <1>0, <1>4, <2>2, <2>3, <2>4, RowOpShapes
<1>7. CASE CreateChild(o)
  <2> DEFINE part == CHOOSE p \in x.left : \A q \in x.left : p <= q
             c == Child(x.row, part)
             r == [x EXCEPT !.left = x.left \ {part}]
  <2>1. approvals' = Append(approvals, c) /\ n < MaxApprovals /\ x.pc = "children"
    BY <1>7 DEF CreateChild, CreateApproval
  <2>2. \/ op' = [op EXCEPT ![o] = Idle]
        \/ op' = [op EXCEPT ![o] = r] /\ x.left \ {part} # {}
    BY <1>0, <1>7 DEF CreateChild, Finish
  <2>3. /\ RowIn(n) \subseteq RowIn(n + 1) /\ OpRecord(n) \subseteq OpRecord(n + 1)
        /\ OpStage(x, n + 1, e)
    BY <1>0, <1>1, ShapesGrow, StagesGrow
  <2>4. c \in RowIn(n)
    BY <1>2 DEF Child, RowIn, Actions
  <2>5. PICK k \in Nat \ {0}, l \in Nat : k <= l /\ x.left = k..l
    BY <1>1, <2>1 DEF OpStage
  <2>6. part = k
    BY <2>5
  <2> HIDE DEF part, c
  <2>7. approvals' \in Seq(RowIn(n + 1)) /\ Len(approvals') = n + 1
    BY <1>0, <2>1, <2>3, <2>4, AppendKeeps
  <2>8. x.left \ {part} # {} =>
          \E i \in Nat \ {0}, j \in Nat : i <= j /\ x.left \ {part} = i..j
    <3>1. (k..l) \ {k} = (k + 1)..l
      BY <2>5
    <3>2. (k + 1)..l # {} => k + 1 <= l
      BY <2>5
    <3>3. k + 1 \in Nat \ {0}
      BY <2>5
    <3> QED BY <2>5, <2>6, <3>1, <3>2, <3>3
  <2>9. r \in OpRecord(n + 1)
    BY <1>1, <2>3 DEF OpRecord
  <2>10. x.left \ {part} # {} => OpStage(r, n + 1, e)
    <3>1. /\ r.pc = "children" /\ r.left = x.left \ {part} /\ r.row = x.row
          /\ r.id = x.id /\ r.decision = x.decision /\ r.current = x.current
      BY <1>1, <2>1 DEF OpRecord
    <3>2. /\ x.id \in 1..(n + 1) /\ x.row \in RowIn(n + 1) /\ x.decision \in Decisions
          /\ x.current \in DefIn(n + 1)
      BY <2>1, <2>3 DEF OpStage, Busy, Closing
    <3> HIDE DEF r
    <3> QED BY <2>8, <3>1, <3>2 DEF OpStage, Choosing
  <2> HIDE DEF r
  <2>11. n + 1 \in Nat /\ n <= n + 1 /\ n + 1 <= MaxApprovals
    BY <1>0, <2>1, ApprovalsAssumption
  <2>12. CASE op' = [op EXCEPT ![o] = Idle]
    BY <1>3, <1>4, <2>7, <2>11, <2>12, RowOpShapes
  <2>13. CASE op' = [op EXCEPT ![o] = r] /\ x.left \ {part} # {}
    BY <1>4, <2>7, <2>9, <2>10, <2>11, <2>13, RowOpShapes
  <2> QED BY <2>2, <2>12, <2>13
<1> QED BY <1>5, <1>6, <1>7

\* The steps that write definitions or executions: the table written keeps
\* its shape, and what the request carries on with has the shape of its stage.
LEMMA WorkKeeps ==
  ASSUME Shapes, NEW o \in Operators, NEW r, op' = [op EXCEPT ![o] = r],
         approvals' = approvals, UNCHANGED Unmoved,
         NEW e \in Nat, e = Len(execs'), Len(execs) <= e,
         r \in OpRecord(Len(approvals)), OpStage(r, Len(approvals), e),
         execs' \in Seq(RunIn(Len(approvals))),
         defs' \in [Defs -> DefIn(Len(approvals))],
         applied' \in [1..MaxApprovals -> Nat]
  PROVE  Shapes'
<1>1. Wider
  BY DEF Wider, Shapes, RowsShape, ExecsShape
<1>2. OpsShape'
  BY <1>1, OpSet
<1>3. MonsShape'
  BY <1>1, UnmovedKeeps DEF Unmoved
<1>4. RowsShape' /\ RestShape'
  BY DEF Shapes, RowsShape, RestShape, Unmoved
<1>5. DefsShape' /\ ExecsShape'
  BY DEF Shapes, DefsShape, ExecsShape
<1> QED BY <1>2, <1>3, <1>4, <1>5 DEF Shapes

LEMMA MarkedShape ==
  ASSUME NEW n \in Nat, NEW copy \in RunIn(n), NEW f,
         NEW status \in {"requested", "applied", "rejected", "pending_approval"}
  PROVE  /\ Marked(copy, f, status) \in RunIn(n)
         /\ [copy EXCEPT !.requests[f] = status] \in RunIn(n)
  BY DEF Marked, RunIn

LEMMA RunShape ==
  ASSUME NEW n \in Nat, NEW w \in Defs, NEW from \in 0..n, NEW s \in BOOLEAN
  PROVE  Run(w, from, s) \in RunIn(n)
  BY DEF Run, RunIn

LEMMA ProposedShape ==
  ASSUME NEW n \in Nat, NEW row \in RowIn(n), NEW current \in DefIn(n)
  PROVE  Proposed(row, current) \in DefIn(n)
<1>1. row.change \in 1..n /\ row.change \in 0..n /\ row.payload \in SUBSET Changes(n)
  BY DEF RowIn
<1>2. row.change \in Changes(n)
  BY <1>1 DEF Changes
<1> QED BY <1>1, <1>2 DEF Proposed, DefIn

LEMMA WritingShapes ==
  ASSUME Shapes, NEW o \in Operators,
         \/ Define(o) \/ CreateSchedule(o) \/ SyncWorkflow(o) \/ RunTool(o)
         \/ SaveDraft(o) \/ Guide(o) \/ SaveMark(o) \/ ReplaceRun(o) \/ Launch(o)
  PROVE  Shapes'
<1> DEFINE n == Len(approvals)
           e == Len(execs)
           x == op[o]
<1>0. /\ n \in Nat /\ e \in Nat /\ e >= 1 /\ e <= e /\ n <= MaxApprovals
      /\ op \in [Operators -> OpRecord(n)] /\ defs \in [Defs -> DefIn(n)]
      /\ execs \in Seq(RunIn(n)) /\ applied \in [1..MaxApprovals -> Nat]
  BY DEF Shapes, RowsShape, ExecsShape, OpsShape, DefsShape, RestShape
<1>1. x \in OpRecord(n) /\ OpStage(x, n, e)
  BY OpTyped
<1>2. /\ x.pc \in Busy /\ x.id \in 1..n /\ x.row \in RowIn(n)
      /\ x.decision \in Decisions
  BY <1>1 DEF Define, CreateSchedule, SyncWorkflow, RunTool, SaveDraft, Guide,
     SaveMark, ReplaceRun, Launch, OpStage, Busy, Applying, Following, Closing
<1>3. \A k \in Nat : Idle \in OpRecord(n) /\ OpStage(Idle, n, k)
  BY <1>0, EmptyShapes
<1>4. NoDef \in DefIn(n)
  BY <1>0, EmptyShapes
<1>5. x.row.target \in Defs /\ x.row.change \in 0..n /\ x.row.payload \in SUBSET Changes(n)
  BY <1>0, <1>2 DEF RowIn
<1>6. approvals' = approvals /\ UNCHANGED Unmoved
  BY DEF Define, CreateSchedule, SyncWorkflow, RunTool, SaveDraft, Guide,
     SaveMark, ReplaceRun, Launch
<1>7. ASSUME NEW c, Applied(c) PROVE applied' \in [1..MaxApprovals -> Nat]
  <2>1. \A b \in 1..MaxApprovals : applied[b] + 1 \in Nat
    BY <1>0
  <2>2. applied' = [applied EXCEPT ![c] = applied[c] + 1]
    BY <1>7 DEF Applied
  <2> QED BY <1>0, <2>1, <2>2
<1> HIDE DEF n, e
<1>8. ASSUME NEW r, op' = [op EXCEPT ![o] = r], r \in OpRecord(n), OpStage(r, n, Len(execs')),
             Len(execs') \in Nat, e <= Len(execs'), execs' \in Seq(RunIn(n)),
             defs' \in [Defs -> DefIn(n)], applied' \in [1..MaxApprovals -> Nat]
      PROVE  Shapes'
  BY <1>6, <1>8, WorkKeeps DEF n, e
<1>9. CASE Define(o)
  <2> DEFINE d == Proposed(x.row, x.current)
  <2>1. /\ defs' = [defs EXCEPT ![x.row.target] = d] /\ execs' = execs
        /\ x.pc = "define" /\ Applied(x.row.change)
    BY <1>9 DEF Define
  <2>2. d \in DefIn(n)
    BY <1>0, <1>1, <1>2, <2>1, ProposedShape DEF OpStage
  <2> HIDE DEF d
  <2>3. defs' \in [Defs -> DefIn(n)] /\ applied' \in [1..MaxApprovals -> Nat]
    BY <1>0, <1>7, <2>1, <2>2
  <2>4. ASSUME NEW pc \in {"schedule", "restart", "list"}
        PROVE  [x EXCEPT !.pc = pc] \in OpRecord(n) /\ OpStage([x EXCEPT !.pc = pc], n, e)
    <3> DEFINE r == [x EXCEPT !.pc = pc]
    <3>1. r \in OpRecord(n)
      BY <1>1 DEF OpRecord, Busy, Following
    <3>2. /\ r.pc = pc /\ r.left = x.left /\ r.row = x.row /\ r.id = x.id
          /\ r.decision = x.decision /\ r.current = x.current /\ r.copy = x.copy
      BY <1>1 DEF OpRecord
    <3> HIDE DEF r
    <3>3. OpStage(r, n, e)
      BY <1>1, <1>2, <2>1, <3>2 DEF OpStage, Choosing
    <3> QED BY <3>1, <3>3 DEF r
  <2>5. \/ op' = [op EXCEPT ![o] = Idle]
        \/ \E pc \in {"schedule", "restart", "list"} :
             op' = [op EXCEPT ![o] = [x EXCEPT !.pc = pc]]
    BY <1>0, <1>9 DEF Define, Goto, Finish
  <2>6. Len(execs') = e /\ execs' \in Seq(RunIn(n))
    BY <1>0, <2>1 DEF e
  <2>7. CASE op' = [op EXCEPT ![o] = Idle]
    BY <1>0, <1>3, <1>8, <2>3, <2>6, <2>7
  <2>8. CASE \E pc \in {"schedule", "restart", "list"} :
               op' = [op EXCEPT ![o] = [x EXCEPT !.pc = pc]]
    <3>1. PICK pc \in {"schedule", "restart", "list"} :
                 op' = [op EXCEPT ![o] = [x EXCEPT !.pc = pc]]
      BY <2>8
    <3> QED BY <1>0, <1>8, <2>3, <2>4, <2>6, <3>1
  <2> QED BY <2>5, <2>7, <2>8
<1>10. CASE CreateSchedule(o)
  <2>1. /\ defs' = [defs EXCEPT ![x.row.target].scheduled = TRUE] /\ execs' = execs
        /\ op' = [op EXCEPT ![o] = Idle] /\ applied' = applied
    BY <1>10 DEF CreateSchedule, Finish
  <2>2. defs' \in [Defs -> DefIn(n)]
    BY <1>0, <2>1 DEF DefIn
  <2> QED BY <1>0, <1>3, <1>8, <2>1, <2>2 DEF e
<1>11. CASE SyncWorkflow(o)
  <2>1. /\ x.pc = "sync" /\ x.current \in [Defs -> DefIn(n)] /\ x.left \subseteq Workflows
    BY <1>1, <1>11 DEF SyncWorkflow, OpStage
  <2>2. PICK w \in x.left :
          /\ defs' = [defs EXCEPT ![w] = [x.current[w] EXCEPT
                        !.content = (@ \ AgentChanges) \cup x.row.payload]]
          /\ IF x.left = {w} THEN Finish(o) ELSE op' = [op EXCEPT ![o].left = @ \ {w}]
    BY <1>11 DEF SyncWorkflow
  <2>3. w \in Defs /\ x.current[w] \in DefIn(n)
    BY <2>1 DEF Defs
  <2> DEFINE d == [x.current[w] EXCEPT !.content = (@ \ AgentChanges) \cup x.row.payload]
             r == [x EXCEPT !.left = x.left \ {w}]
  <2>4. d \in DefIn(n)
    BY <1>5, <2>3 DEF DefIn
  <2>5. defs' = [defs EXCEPT ![w] = d]
    BY <2>2
  <2> HIDE DEF d
  <2>6. defs' \in [Defs -> DefIn(n)]
    BY <1>0, <2>4, <2>5
  <2>7. r \in OpRecord(n)
    BY <1>1, <2>1 DEF OpRecord
  <2>8. OpStage(r, n, e)
    <3>1. /\ r.pc = "sync" /\ r.left = x.left \ {w} /\ r.row = x.row /\ r.id = x.id
          /\ r.decision = x.decision /\ r.current = x.current
      BY <1>1, <2>1 DEF OpRecord
    <3> HIDE DEF r
    <3> QED BY <1>2, <2>1, <3>1 DEF OpStage, Choosing
  <2>9. op' = [op EXCEPT ![o] = Idle] \/ op' = [op EXCEPT ![o] = r]
    BY <1>0, <2>2 DEF Finish
  <2> HIDE DEF r
  <2>10. execs' = execs /\ applied' = applied
    BY <1>11 DEF SyncWorkflow
  <2>11. CASE op' = [op EXCEPT ![o] = Idle]
    BY <1>0, <1>3, <1>8, <2>6, <2>10, <2>11 DEF e
  <2>12. CASE op' = [op EXCEPT ![o] = r]
    BY <1>0, <1>8, <2>6, <2>7, <2>8, <2>10, <2>12 DEF e
  <2> QED BY <2>9, <2>11, <2>12
<1>12. CASE RunTool(o)
  <2>1. /\ op' = [op EXCEPT ![o] = Idle] /\ execs' = execs /\ defs' = defs
        /\ Applied(x.row.change) \/ applied' = applied
    BY <1>12 DEF RunTool, Finish
  <2>2. applied' \in [1..MaxApprovals -> Nat]
    BY <1>0, <1>7, <2>1
  <2> QED BY <1>0, <1>3, <1>8, <2>1, <2>2 DEF e
<1>13. CASE SaveDraft(o)
  <2> DEFINE p == Proposed(x.row, NoDef)
             d == [p EXCEPT !.published = FALSE]
  <2>1. /\ op' = [op EXCEPT ![o] = Idle] /\ execs' = execs /\ applied' = applied
        /\ defs' = [defs EXCEPT ![x.row.target] = d]
    BY <1>13 DEF SaveDraft, Finish
  <2>2. p \in DefIn(n)
    BY <1>0, <1>2, <1>4, ProposedShape
  <2> HIDE DEF p
  <2>3. d \in DefIn(n)
    BY <2>2 DEF DefIn
  <2> HIDE DEF d
  <2>4. defs' \in [Defs -> DefIn(n)]
    BY <1>0, <2>1, <2>3
  <2> QED BY <1>0, <1>3, <1>8, <2>1, <2>4 DEF e
<1>14. CASE Guide(o)
  <2> DEFINE r == [x EXCEPT !.pc = "mark"]
  <2>1. /\ x.pc = "guide" /\ execs' = [execs EXCEPT ![1] = x.copy]
        /\ op' = [op EXCEPT ![o] = r] /\ defs' = defs /\ applied' = applied
    BY <1>0, <1>14 DEF Guide, Goto
  <2>2. x.copy \in RunIn(n)
    BY <1>1, <2>1 DEF OpStage
  <2>3. execs' \in Seq(RunIn(n)) /\ Len(execs') = e
    BY <1>0, <2>1, <2>2, ReplaceKeeps DEF e
  <2>4. r \in OpRecord(n)
    BY <1>1 DEF OpRecord, Busy, Closing
  <2>5. OpStage(r, n, e)
    <3>1. /\ r.pc = "mark" /\ r.row = x.row /\ r.id = x.id
          /\ r.decision = x.decision /\ r.current = x.current
      BY <1>1, <2>1 DEF OpRecord
    <3> HIDE DEF r
    <3> QED BY <1>1, <1>2, <2>1, <3>1 DEF OpStage, Choosing
  <2> HIDE DEF r
  <2> QED BY <1>0, <1>8, <2>1, <2>3, <2>4, <2>5
<1>15. CASE SaveMark(o)
  <2> DEFINE status == IF x.decision = "approve" THEN "applied" ELSE "rejected"
             c == Marked(x.copy, x.row.finding, status)
  <2>1. /\ x.pc = "marked" /\ execs' = [execs EXCEPT ![1] = c]
        /\ op' = [op EXCEPT ![o] = Idle] /\ defs' = defs /\ applied' = applied
    BY <1>15 DEF SaveMark, Finish
  <2>2. x.copy \in RunIn(n)
    BY <1>1, <2>1 DEF OpStage
  <2>3. c \in RunIn(n)
    BY <1>0, <2>2, MarkedShape
  <2> HIDE DEF c
  <2>4. execs' \in Seq(RunIn(n)) /\ Len(execs') = e
    BY <1>0, <2>1, <2>3, ReplaceKeeps DEF e
  <2> QED BY <1>0, <1>3, <1>8, <2>1, <2>4
<1>16. CASE ReplaceRun(o)
  <2>1. PICK i \in x.left :
          /\ execs' = Append([execs EXCEPT ![i].active = FALSE, ![i].superseded = TRUE],
                             Run(execs[i].workflow, execs[i].from, TRUE))
          /\ IF x.left = {i} THEN AfterRestart(o) ELSE op' = [op EXCEPT ![o].left = @ \ {i}]
    BY <1>16 DEF ReplaceRun
  <2>2. x.pc = "replace" /\ x.left \subseteq 1..e /\ defs' = defs /\ applied' = applied
    BY <1>1, <1>16 DEF ReplaceRun, OpStage
  <2>3. execs[i] \in RunIn(n) /\ i \in 1..Len(execs)
    BY <1>0, <2>2 DEF e
  <2> DEFINE c == [execs[i] EXCEPT !.active = FALSE, !.superseded = TRUE]
             s == [execs EXCEPT ![i] = c]
             k == Run(execs[i].workflow, execs[i].from, TRUE)
             r == [x EXCEPT !.left = x.left \ {i}]
             q == [x EXCEPT !.pc = "guide", !.left = {}]
  <2>4. execs' = Append(s, k)
    BY <1>0, <2>1, <2>3
  <2>5. c \in RunIn(n)
    BY <2>3 DEF RunIn
  <2>6. k \in RunIn(n)
    <3>1. execs[i].workflow \in Defs /\ execs[i].from \in 0..n
      BY <2>3 DEF RunIn
    <3> QED BY <1>0, <3>1, RunShape
  <2> HIDE DEF c, k
  <2>7. s \in Seq(RunIn(n)) /\ Len(s) = e
    BY <1>0, <2>5, ReplaceKeeps DEF e
  <2> HIDE DEF s
  <2>8. execs' \in Seq(RunIn(n)) /\ Len(execs') = e + 1
    BY <2>4, <2>6, <2>7
  <2>9. r \in OpRecord(n) /\ q \in OpRecord(n)
    BY <1>1 DEF OpRecord, Busy, Following
  <2>10. e + 1 \in Nat /\ e <= e + 1
    BY <1>0
  <2>11. OpStage(r, n, e + 1)
    <3>1. /\ r.pc = "replace" /\ r.left = x.left \ {i} /\ r.row = x.row /\ r.id = x.id
          /\ r.decision = x.decision /\ r.current = x.current /\ r.copy = x.copy
      BY <1>1, <2>2 DEF OpRecord
    <3>2. r.left \subseteq 1..(e + 1)
      BY <1>0, <2>2, <3>1
    <3> HIDE DEF r
    <3> QED BY <1>1, <1>2, <2>2, <3>1, <3>2 DEF OpStage, Choosing
  <2>12. x.row.action = "supervisor_steering" => OpStage(q, n, e + 1)
    <3>1. /\ q.pc = "guide" /\ q.row = x.row /\ q.id = x.id
          /\ q.decision = x.decision /\ q.current = x.current /\ q.copy = x.copy
      BY <1>1, <2>2 DEF OpRecord
    <3> HIDE DEF q
    <3> QED BY <1>1, <1>2, <2>2, <3>1 DEF OpStage, Choosing
  <2>13. \/ op' = [op EXCEPT ![o] = Idle] \/ op' = [op EXCEPT ![o] = r]
         \/ op' = [op EXCEPT ![o] = q] /\ x.row.action = "supervisor_steering"
    BY <1>0, <2>1 DEF Finish, AfterRestart
  <2> HIDE DEF r, q
  <2>14. CASE op' = [op EXCEPT ![o] = Idle]
    BY <1>0, <1>3, <1>8, <2>2, <2>8, <2>10, <2>14
  <2>15. CASE op' = [op EXCEPT ![o] = r]
    BY <1>0, <1>8, <2>2, <2>8, <2>9, <2>10, <2>11, <2>15
  <2>16. CASE op' = [op EXCEPT ![o] = q] /\ x.row.action = "supervisor_steering"
    BY <1>0, <1>8, <2>2, <2>8, <2>9, <2>10, <2>12, <2>16
  <2> QED BY <2>13, <2>14, <2>15, <2>16
<1>17. CASE Launch(o)
  <2> DEFINE k == Run(x.row.target, x.row.change, FALSE)
             row == [x.row EXCEPT !.exec = e + 1]
             r == [x EXCEPT !.pc = "link", !.row = row]
  <2>1. \/ /\ op' = [op EXCEPT ![o] = Idle] /\ execs' = execs /\ applied' = applied
        \/ /\ op' = [op EXCEPT ![o] = r] /\ execs' = Append(execs, k)
           /\ Applied(x.row.change)
    <3>1. [op EXCEPT ![o].pc = "link", ![o].row.exec = e + 1] = [op EXCEPT ![o] = r]
      BY <1>0
    <3> QED BY <1>17, <3>1 DEF Launch, Finish, e
  <2>2. defs' = defs /\ x.pc = "launch"
    BY <1>17 DEF Launch
  <2>3. k \in RunIn(n)
    BY <1>0, <1>5, RunShape
  <2> HIDE DEF k
  <2>4. execs' = Append(execs, k) => execs' \in Seq(RunIn(n)) /\ Len(execs') = e + 1
    BY <1>0, <2>3 DEF e
  <2>5. row \in RowIn(n)
    <3>1. e + 1 \in Nat
      BY <1>0
    <3> QED BY <1>2, <3>1 DEF RowIn
  <2> HIDE DEF row
  <2>6. r \in OpRecord(n)
    BY <1>1, <2>5 DEF OpRecord, Busy, Following
  <2>7. OpStage(r, n, e + 1)
    <3>1. /\ r.pc = "link" /\ r.row = row /\ r.id = x.id
          /\ r.decision = x.decision /\ r.current = x.current
      BY <1>1, <2>2 DEF OpRecord
    <3> HIDE DEF r
    <3> QED BY <1>1, <1>2, <2>2, <2>5, <3>1 DEF OpStage, Choosing
  <2> HIDE DEF r
  <2>8. CASE op' = [op EXCEPT ![o] = Idle] /\ execs' = execs /\ applied' = applied
    BY <1>0, <1>3, <1>8, <2>2, <2>8 DEF e
  <2>9. CASE op' = [op EXCEPT ![o] = r] /\ execs' = Append(execs, k) /\ Applied(x.row.change)
    <3>1. e + 1 \in Nat /\ e <= e + 1 /\ applied' \in [1..MaxApprovals -> Nat]
      BY <1>0, <1>7, <2>9
    <3> QED BY <1>0, <1>8, <2>2, <2>4, <2>6, <2>7, <2>9, <3>1
  <2> QED BY <2>1, <2>8, <2>9
<1> QED BY <1>9, <1>10, <1>11, <1>12, <1>13, <1>14, <1>15, <1>16, <1>17

\* A scan that goes on has the shape of its stage; one that ends is at rest.
LEMMA AdvanceKeeps ==
  ASSUME Shapes, Wider, NEW m \in Monitors, NEW r, Advance(m, r),
         r \in MonRecord(Len(approvals')),
         ~(r.pc = "next" /\ r.todo = {}) => MonStage(r, Len(approvals'))
  PROVE  MonsShape'
<1>1. Resting \in MonRecord(Len(approvals')) /\ MonStage(Resting, Len(approvals'))
  BY EmptyShapes DEF Wider
<1>2. CASE r.pc = "next" /\ r.todo = {}
  BY <1>1, <1>2, MonSet DEF Advance
<1>3. CASE ~(r.pc = "next" /\ r.todo = {})
  BY <1>3, MonSet DEF Advance
<1> QED BY <1>2, <1>3

LEMMA RequestShape ==
  ASSUME NEW n \in Nat, n = Len(approvals), NEW action \in Actions, NEW target \in Defs,
         NEW content \in SUBSET Changes(n + 1), NEW extra \in BOOLEAN
  PROVE  Request(action, target, content, extra) \in RowIn(n + 1)
<1>1. n + 1 \in 1..(n + 1)
  OBVIOUS
<1> QED BY <1>1 DEF Request, RowIn, Settlements

\* A new request has the next number.
LEMMA CreateKeeps ==
  ASSUME Shapes, NEW row \in RowIn(Len(approvals) + 1), CreateApproval(row)
  PROVE  /\ RowsShape' /\ Len(approvals') = Len(approvals) + 1
         /\ approvals'[Len(approvals) + 1] = row
         /\ \A a \in Rows : approvals'[a] = approvals[a]
         /\ Rows' = Rows \cup {Len(approvals) + 1}
         /\ Rows = 1..Len(approvals)
<1> DEFINE n == Len(approvals)
<1>0. n \in Nat /\ n < MaxApprovals /\ approvals \in Seq(RowIn(n))
  BY DEF Shapes, RowsShape, CreateApproval
<1>1. RowIn(n) \subseteq RowIn(n + 1)
  BY <1>0, ShapesGrow
<1>2. /\ approvals' \in Seq(RowIn(n + 1)) /\ Len(approvals') = n + 1
      /\ approvals'[n + 1] = row
      /\ \A i \in 1..n : approvals'[i] = approvals[i]
  BY <1>0, <1>1, AppendKeeps DEF CreateApproval
<1>3. n + 1 <= MaxApprovals
  BY <1>0, ApprovalsAssumption
<1>4. Rows = 1..n /\ Rows' = 1..(n + 1)
  BY <1>0, <1>2 DEF Rows
<1>5. 1..(n + 1) = (1..n) \cup {n + 1}
  BY <1>0
<1> QED BY <1>2, <1>3, <1>4, <1>5 DEF RowsShape

LEMMA MonitorShapes ==
  ASSUME Shapes, NEW m \in Monitors, MonitorStep(m)
  PROVE  Shapes'
<1> DEFINE n == Len(approvals)
           x == mon[m]
<1>0. /\ n \in Nat /\ Len(execs) \in Nat /\ Len(execs) >= 1
      /\ execs \in Seq(RunIn(n)) /\ defs \in [Defs -> DefIn(n)]
      /\ mon \in [Monitors -> MonRecord(n)] /\ recorded \subseteq FindingIds
      /\ seen \subseteq FindingIds
  BY DEF Shapes, RowsShape, ExecsShape, DefsShape, MonsShape, RestShape
<1>1. x \in MonRecord(n) /\ MonStage(x, n)
  BY DEF Shapes, MonsShape
<1>2. execs[1] \in RunIn(n)
  BY <1>0
<1>3. defs' = defs /\ op' = op /\ applied' = applied
  BY DEF MonitorStep, MonUnmoved, Scan, RecordFinding, ReadRun, SaveRun,
     CheckDuplicate, AskForSteering, ProposeImprovement
<1>4. ASSUME NEW r, approvals' = approvals, execs' \in Seq(RunIn(n)),
             Len(execs') = Len(execs), Advance(m, r), r \in MonRecord(n),
             ~(r.pc = "next" /\ r.todo = {}) => MonStage(r, n),
             recorded' \subseteq FindingIds, seen' \subseteq FindingIds
      PROVE  Shapes'
  <2>1. Wider
    BY <1>0, <1>4 DEF Wider
  <2>2. MonsShape'
    BY <1>4, <2>1, AdvanceKeeps
  <2>3. DefsShape' /\ OpsShape'
    BY <1>3, <2>1, UnmovedKeeps
  <2>4. RowsShape' /\ RestShape' /\ ExecsShape'
    BY <1>0, <1>3, <1>4 DEF Shapes, RowsShape, RestShape, ExecsShape
  <2> QED BY <2>2, <2>3, <2>4 DEF Shapes
<1>5. ASSUME NEW f \in FindingIds, NEW kind, NEW content \in SUBSET Changes(n + 1),
             NEW r, CreateApproval(MonitorRequest(f, kind, content)),
             kind \in {"steering", "improvement"},
             execs' = execs, recorded' = recorded, seen' = seen, Advance(m, r),
             r \in MonRecord(n), ~(r.pc = "next" /\ r.todo = {}) => MonStage(r, n)
      PROVE  Shapes'
  <2>1. MonitorRequest(f, kind, content) \in RowIn(n + 1)
    <3> DEFINE action == IF kind = "steering" THEN "supervisor_steering" ELSE "workflow_update"
               extra == IF kind = "steering" THEN Findings[f].changes ELSE Findings[f].restart
               q == Request(action, Findings[f].workflow, content, extra)
    <3>1. /\ action \in Actions /\ extra \in BOOLEAN /\ Findings[f].workflow \in Defs
          /\ Findings[f].parts \in Nat /\ Findings[f].key \in Keys
      BY <1>5, ApprovalsAssumption DEF FindingIds, Defs, Keys, Actions, Updates
    <3> HIDE DEF action, extra
    <3>2. q \in RowIn(n + 1)
      BY <1>0, <1>5, <3>1, RequestShape
    <3>3. MonitorRequest(f, kind, content) =
            [q EXCEPT !.key = Findings[f].key, !.kind = kind, !.finding = f,
                      !.parts = IF kind = "steering" THEN 0 ELSE Findings[f].parts]
      BY DEF MonitorRequest, action, extra
    <3>4. kind \in {None, "steering", "improvement"}
      BY <1>5
    <3> DEFINE parts == IF kind = "steering" THEN 0 ELSE Findings[f].parts
    <3>5. parts \in Nat
      BY <3>1
    <3> HIDE DEF q, parts
    <3>6. [q EXCEPT !.key = Findings[f].key, !.kind = kind, !.finding = f,
                    !.parts = parts] \in RowIn(n + 1)
      BY <3>1, <3>2, <3>4, <3>5 DEF RowIn
    <3> QED BY <3>3, <3>6 DEF parts
  <2>2. RowsShape' /\ Len(approvals') = n + 1
    BY <1>5, <2>1, CreateKeeps
  <2>3. Wider
    BY <1>0, <1>5, <2>2 DEF Wider
  <2>4. MonRecord(n) \subseteq MonRecord(n + 1) /\ (MonStage(r, n) => MonStage(r, n + 1))
    BY <1>0, ShapesGrow, StagesGrow
  <2>5. MonsShape'
    BY <1>5, <2>2, <2>3, <2>4, AdvanceKeeps
  <2> QED BY <1>3, <1>5, <2>2, <2>3, <2>5, UnmovedKeeps DEF Shapes, RestShape
<1> HIDE DEF n
<1>6. ASSUME NEW found \in SUBSET FindingIds, Scan(m, found) PROVE Shapes'
  <2> DEFINE r == [Resting EXCEPT !.pc = "next", !.todo = found,
                                  !.snap = [w \in Workflows |-> defs[w]]]
  <2>1. /\ Advance(m, r) /\ approvals' = approvals /\ execs' = execs
        /\ recorded' = recorded /\ seen' = seen \cup recorded \cup found
    BY <1>6 DEF Scan
  <2>2. [w \in Workflows |-> defs[w]] \in [Workflows -> DefIn(n)]
    BY <1>0 DEF Defs
  <2>3. Resting \in MonRecord(n)
    BY <1>0, EmptyShapes
  <2>4. r \in MonRecord(n)
    BY <2>2, <2>3 DEF MonRecord, MonStages
  <2>5. r.pc = "next" /\ r.todo = found /\ r.snap = [w \in Workflows |-> defs[w]]
    BY <2>3 DEF MonRecord
  <2> HIDE DEF r
  <2>6. r.todo # {} => MonStage(r, n)
    BY <2>2, <2>5 DEF MonStage
  <2> QED BY <1>0, <1>4, <2>1, <2>4, <2>5, <2>6
<1>7. CASE RecordFinding(m)
  <2> DEFINE f == CHOOSE g \in x.todo : TRUE
             pc == IF f \in recorded THEN "next" ELSE Follow(m, f)
             r == [x EXCEPT !.f = f, !.todo = x.todo \ {f}, !.pc = pc]
  <2>1. /\ Advance(m, r) /\ approvals' = approvals /\ execs' = execs /\ x.pc = "next"
        /\ recorded' = recorded \cup {f} /\ seen' = seen
    BY <1>7 DEF RecordFinding
  <2>2. f \in x.todo /\ f \in FindingIds /\ x.todo \subseteq FindingIds
    BY <1>1, <2>1 DEF MonStage, MonRecord
  <2>3. pc \in {"next", "request", "propose"}
    BY DEF Follow
  <2> HIDE DEF f, pc
  <2>4. r \in MonRecord(n)
    BY <1>1, <2>2, <2>3 DEF MonRecord, MonStages
  <2>5. r.pc = pc /\ r.f = f /\ r.snap = x.snap /\ r.todo = x.todo \ {f}
    BY <1>1 DEF MonRecord
  <2>6. x.snap \in [Workflows -> DefIn(n)]
    BY <1>1, <2>1 DEF MonStage, MonStages
  <2> HIDE DEF r
  <2>7. ~(r.pc = "next" /\ r.todo = {}) => MonStage(r, n)
    BY <2>2, <2>3, <2>5, <2>6 DEF MonStage
  <2> QED BY <1>0, <1>4, <2>1, <2>2, <2>4, <2>7
<1>8. ASSUME x.pc \in MonStages \ {"next"}
      PROVE  /\ x.f \in FindingIds /\ x.snap \in [Workflows -> DefIn(n)]
             /\ AfterSteering(m) \in {"next", "propose"}
  BY <1>1, <1>8 DEF MonStage, AfterSteering
<1>9. CASE ReadRun(m)
  <2> DEFINE pc == CASE x.pc = "request" -> "requested"
                     [] x.pc = "auto"    -> "autoapplied"
                     [] x.pc = "attach"  -> "attached"
             r == [x EXCEPT !.copy = execs[1], !.pc = pc]
  <2>1. /\ Advance(m, r) /\ approvals' = approvals /\ execs' = execs
        /\ recorded' = recorded /\ seen' = seen
        /\ x.pc \in {"request", "auto", "attach"}
    BY <1>9 DEF ReadRun
  <2>2. pc \in {"requested", "autoapplied", "attached"}
        /\ (pc = "autoapplied" => x.pc = "auto")
    BY <2>1
  <2> HIDE DEF pc
  <2>3. r \in MonRecord(n)
    BY <1>1, <1>2, <2>2 DEF MonRecord, MonStages
  <2>4. r.pc = pc /\ r.f = x.f /\ r.snap = x.snap /\ r.copy = execs[1]
    BY <1>1 DEF MonRecord
  <2>5. x.f \in FindingIds /\ x.snap \in [Workflows -> DefIn(n)]
    BY <1>8, <2>1 DEF MonStages
  <2>6. pc = "autoapplied" => "auto" \in Findings[x.f].kinds
    BY <1>1, <2>2 DEF MonStage
  <2> HIDE DEF r
  <2>7. MonStage(r, n)
    BY <1>2, <2>2, <2>4, <2>5, <2>6 DEF MonStage
  <2> QED BY <1>0, <1>4, <2>1, <2>3, <2>7
<1>10. CASE SaveRun(m)
  <2> DEFINE row == CASE x.pc = "requested"   -> [x.copy EXCEPT !.requests[x.f] = "requested"]
                      [] x.pc = "autoapplied" -> Marked(x.copy, x.f, "applied")
                      [] x.pc = "attached"    -> Marked(x.copy, x.f, "pending_approval")
             pc == IF x.pc # "requested" THEN AfterSteering(m)
                   ELSE IF "auto" \in Findings[x.f].kinds THEN "auto" ELSE "ask"
             r == [x EXCEPT !.copy = NoCopy, !.pc = pc]
  <2>1. /\ Advance(m, r) /\ approvals' = approvals /\ execs' = [execs EXCEPT ![1] = row]
        /\ recorded' = recorded /\ seen' = seen
        /\ x.pc \in {"requested", "autoapplied", "attached"}
    BY <1>10 DEF SaveRun
  <2>2. x.f \in FindingIds /\ x.snap \in [Workflows -> DefIn(n)] /\ x.copy \in RunIn(n)
        /\ AfterSteering(m) \in {"next", "propose"}
    BY <1>1, <1>8, <2>1 DEF MonStage, MonStages
  <2>3. row \in RunIn(n)
    BY <1>0, <2>1, <2>2, MarkedShape
  <2>4. pc \in {"next", "propose", "auto", "ask"}
        /\ (pc = "auto" => "auto" \in Findings[x.f].kinds)
    BY <2>2
  <2> HIDE DEF row, pc
  <2>5. execs' \in Seq(RunIn(n)) /\ Len(execs') = Len(execs)
    BY <1>0, <2>1, <2>3, ReplaceKeeps
  <2>6. r \in MonRecord(n)
    BY <1>1, <2>4 DEF MonRecord, MonStages
  <2>7. r.pc = pc /\ r.f = x.f /\ r.snap = x.snap /\ r.todo = x.todo
    BY <1>1 DEF MonRecord
  <2> HIDE DEF r
  <2>8. ~(r.pc = "next" /\ r.todo = {}) => MonStage(r, n)
    BY <2>2, <2>4, <2>7 DEF MonStage
  <2> QED BY <1>0, <1>4, <2>1, <2>5, <2>6, <2>8
<1>11. CASE CheckDuplicate(m)
  <2> DEFINE kind == IF x.pc = "ask" THEN "steering" ELSE "improvement"
             pc == IF PendingFor(x.f, kind)
                   THEN IF x.pc = "ask" THEN AfterSteering(m) ELSE "next"
                   ELSE IF x.pc = "ask" THEN "asking" ELSE "proposing"
             r == [x EXCEPT !.pc = pc]
  <2>1. /\ Advance(m, r) /\ approvals' = approvals /\ execs' = execs
        /\ recorded' = recorded /\ seen' = seen /\ x.pc \in {"ask", "propose"}
    BY <1>11 DEF CheckDuplicate
  <2>2. x.f \in FindingIds /\ x.snap \in [Workflows -> DefIn(n)]
        /\ AfterSteering(m) \in {"next", "propose"}
    BY <1>8, <2>1 DEF MonStages
  <2>3. pc \in {"next", "propose", "asking", "proposing"}
    BY <2>2
  <2> HIDE DEF pc
  <2>4. r \in MonRecord(n)
    BY <1>1, <2>3 DEF MonRecord, MonStages
  <2>5. r.pc = pc /\ r.f = x.f /\ r.snap = x.snap /\ r.todo = x.todo
    BY <1>1 DEF MonRecord
  <2> HIDE DEF r
  <2>6. ~(r.pc = "next" /\ r.todo = {}) => MonStage(r, n)
    BY <2>2, <2>3, <2>5 DEF MonStage
  <2> QED BY <1>0, <1>4, <2>1, <2>4, <2>6
<1>12. CASE AskForSteering(m)
  <2> DEFINE r == [x EXCEPT !.pc = "attach"]
  <2>1. /\ CreateApproval(MonitorRequest(x.f, "steering", {})) /\ Advance(m, r)
        /\ execs' = execs /\ recorded' = recorded /\ seen' = seen /\ x.pc = "asking"
    BY <1>12 DEF AskForSteering
  <2>2. x.f \in FindingIds /\ x.snap \in [Workflows -> DefIn(n)]
    BY <1>8, <2>1 DEF MonStages
  <2>3. r \in MonRecord(n)
    BY <1>1 DEF MonRecord, MonStages
  <2>4. r.pc = "attach" /\ r.f = x.f /\ r.snap = x.snap
    BY <1>1 DEF MonRecord
  <2> HIDE DEF r
  <2>5. MonStage(r, n)
    BY <2>2, <2>4 DEF MonStage
  <2>6. {} \in SUBSET Changes(n + 1)
    OBVIOUS
  <2> QED BY <1>5, <2>1, <2>2, <2>3, <2>5, <2>6
<1>13. CASE ProposeImprovement(m)
  <2> DEFINE r == [x EXCEPT !.pc = "next"]
             content == x.snap[Findings[x.f].workflow].content \cup {n + 1}
  <2>1. /\ CreateApproval(MonitorRequest(x.f, "improvement", content)) /\ Advance(m, r)
        /\ execs' = execs /\ recorded' = recorded /\ seen' = seen /\ x.pc = "proposing"
    BY <1>13 DEF ProposeImprovement, n
  <2>2. x.f \in FindingIds /\ x.snap \in [Workflows -> DefIn(n)]
    BY <1>8, <2>1 DEF MonStages
  <2>3. r \in MonRecord(n)
    BY <1>1 DEF MonRecord, MonStages
  <2>4. r.pc = "next" /\ r.f = x.f /\ r.snap = x.snap /\ r.todo = x.todo
    BY <1>1 DEF MonRecord
  <2> HIDE DEF r
  <2>5. ~(r.pc = "next" /\ r.todo = {}) => MonStage(r, n)
    BY <2>2, <2>4 DEF MonStage
  <2>6. content \in SUBSET Changes(n + 1)
    <3>1. Findings[x.f].workflow \in Workflows
      BY <2>2, ApprovalsAssumption DEF FindingIds
    <3>2. x.snap[Findings[x.f].workflow].content \in SUBSET Changes(n)
      BY <2>2, <3>1 DEF DefIn
    <3>3. Changes(n) \subseteq Changes(n + 1) /\ n + 1 \in Changes(n + 1)
      BY <1>0 DEF Changes
    <3> QED BY <3>2, <3>3
  <2> HIDE DEF content
  <2> QED BY <1>5, <2>1, <2>2, <2>3, <2>5, <2>6
<1> QED BY <1>6, <1>7, <1>9, <1>10, <1>11, <1>12, <1>13 DEF MonitorStep

LEMMA OtherShapes ==
  ASSUME Shapes,
         \/ \E p \in Proposals : ProposeInChat(p)
         \/ \E w \in Workflows, e \in Edits : EditWorkflow(w, e)
         \/ Crash \/ UNCHANGED vars
  PROVE  Shapes'
<1> DEFINE n == Len(approvals)
<1>0. /\ n \in Nat /\ Len(execs) \in Nat /\ Len(execs) >= 1
      /\ defs \in [Defs -> DefIn(n)]
  BY DEF Shapes, RowsShape, ExecsShape, DefsShape
<1>1. ASSUME NEW p \in Proposals, ProposeInChat(p) PROVE Shapes'
  <2> DEFINE content == defs[p.target].content \cup {n + 1}
             row == Request(p.action, p.target, content, p.extra)
  <2>1. p.action \in Actions /\ p.target \in Defs /\ p.extra \in BOOLEAN
    BY ApprovalsAssumption DEF Actions, Creates, Updates, Defs
  <2>2. content \in SUBSET Changes(n + 1)
    <3>1. defs[p.target].content \in SUBSET Changes(n)
      BY <1>0, <2>1 DEF DefIn
    <3>2. Changes(n) \subseteq Changes(n + 1) /\ n + 1 \in Changes(n + 1)
      BY <1>0 DEF Changes
    <3> QED BY <3>1, <3>2
  <2>3. CreateApproval(row)
    BY <1>1 DEF ProposeInChat
  <2> HIDE DEF content
  <2>4. row \in RowIn(n + 1)
    BY <1>0, <2>1, <2>2, RequestShape
  <2> HIDE DEF row
  <2>5. RowsShape' /\ Len(approvals') = n + 1
    BY <2>3, <2>4, CreateKeeps
  <2>6. execs' = execs
    BY <1>1 DEF ProposeInChat
  <2>7. Wider
    BY <1>0, <2>5, <2>6 DEF Wider
  <2> QED BY <1>1, <2>5, <2>7, UnmovedKeeps DEF Shapes, RestShape, ProposeInChat
<1>2. ASSUME NEW w \in Workflows, NEW e \in Edits, EditWorkflow(w, e) PROVE Shapes'
  <2>1. Wider /\ approvals' = approvals /\ execs' = execs
    BY <1>2, SameWidth DEF EditWorkflow
  <2>2. defs[w] \in DefIn(n) /\ e \in Changes(n)
    BY <1>0 DEF Defs, Changes
  <2>3. /\ [defs[w] EXCEPT !.content = @ \cup {e}] \in DefIn(n)
        /\ [defs[w] EXCEPT !.live = FALSE] \in DefIn(n)
    BY <2>2 DEF DefIn
  <2>4. \/ defs' = [defs EXCEPT ![w] = [defs[w] EXCEPT !.content = @ \cup {e}]]
        \/ defs' = [defs EXCEPT ![w] = [defs[w] EXCEPT !.live = FALSE]]
    BY <1>0, <1>2 DEF EditWorkflow
  <2>5. DefsShape'
    BY <2>1, <2>3, <2>4, DefSet
  <2> QED BY <1>2, <2>1, <2>5, UnmovedKeeps
          DEF Shapes, RowsShape, RestShape, EditWorkflow
<1>3. CASE Crash
  <2>1. Wider /\ approvals' = approvals /\ execs' = execs /\ defs' = defs
    BY <1>3, SameWidth DEF Crash
  <2>2. /\ Idle \in OpRecord(n) /\ OpStage(Idle, n, Len(execs))
        /\ Resting \in MonRecord(n) /\ MonStage(Resting, n)
    BY <1>0, EmptyShapes
  <2>3. OpsShape' /\ MonsShape'
    BY <1>3, <2>1, <2>2 DEF OpsShape, MonsShape, Crash
  <2> QED BY <1>3, <2>1, <2>3, UnmovedKeeps DEF Shapes, RowsShape, RestShape, Crash
<1>4. CASE UNCHANGED vars
  <2>1. Wider
    BY <1>4, SameWidth DEF vars
  <2> QED BY <1>4, <2>1, UnmovedKeeps DEF Shapes, RowsShape, RestShape, vars
<1> QED BY <1>1, <1>2, <1>3, <1>4

-----------------------------------------------------------------------------
(* How a step moves the requests and the rows.                             *)

\* A request takes a row that is pending ...
Begins(x, y) ==
  /\ x.pc = "idle" /\ y.pc = "fetch"
  /\ y.id \in Rows /\ y.row = approvals[y.id] /\ y.row.status = "pending"
  /\ y.decision = "split" =>
       /\ y.row.action \in {"workflow_create", "workflow_update", "review"}
       /\ PartCount(y.row) >= 2

\* ... and goes on with it, from stage to stage.
Goes(x, y) ==
  /\ x.pc \in Busy /\ y.pc \in Busy \ {"fetch"}
  /\ y.id = x.id /\ y.decision = x.decision /\ SameRequest(y.row, x.row)
  /\ \/ x.pc = "fetch" /\ y.row.status = StatusOf(x.decision)
     \/ x.pc = "link" /\ y.row.status = approvals[x.id].status
     \/ x.pc \notin {"fetch", "link"} /\ y.row.status = x.row.status
  /\ \/ x.pc = "fetch" /\ y.pc = "save"
     \/ x.pc = "save" /\ y.pc = Effect(x.decision, x.row)
     \/ x.pc = "children" /\ y.pc = "children" /\ 1 \notin y.left
     \/ x.pc = "read" /\ y.pc = "define" /\ y.current = defs[x.row.target]
        /\ y.current.live /\ y.copy = x.copy
     \/ x.pc \in {"read", "restart", "replace"} /\ y.pc = "guide" /\ y.copy = x.copy
     \/ x.pc = "define" /\ y.pc \in {"schedule", "restart"} /\ y.copy = x.copy
     \/ x.pc = "define" /\ y.pc = "list" /\ x.row.action = "agent_update"
     \/ x.pc \in {"restart", "replace"} /\ y.pc = "replace" /\ y.copy = x.copy
     \/ x.pc = "list" /\ y.pc = "sync" /\ y.current = defs
     \/ x.pc = "sync" /\ y.pc = "sync" /\ y.current = x.current
     \/ x.pc = "launch" /\ y.pc = "link"
     \/ x.pc = "link" /\ y.pc = "linked"
     \/ x.pc = "steer" /\ y.pc \in {"read", "guide"} /\ y.copy = execs[1]
     \/ x.pc = "guide" /\ y.pc = "mark"
     \/ x.pc = "mark" /\ y.pc = "marked" /\ y.copy = execs[1]

LEMMA OperatorMoves ==
  ASSUME Shapes, Requests, NEW o \in Operators, OperatorStep(o)
  PROVE  /\ \A p \in Operators : p # o => op'[p] = op[p]
         /\ \/ Begins(op[o], op'[o])
            \/ op[o].pc \in Busy /\ op'[o] = Idle
            \/ Goes(op[o], op'[o])
<1> DEFINE n == Len(approvals)
           x == op[o]
           y == op'[o]
<1>0. op \in [Operators -> OpRecord(n)] /\ x \in OpRecord(n)
  BY OpTyped DEF Shapes, OpsShape
<1>1. OpStage(x, n, Len(execs))
  BY OpTyped
<1>2. ASSUME NEW r, op' = [op EXCEPT ![o] = r]
      PROVE  y = r /\ \A p \in Operators : p # o => op'[p] = op[p]
  BY <1>0, <1>2
<1>3. ASSUME NEW r, op' = [op EXCEPT ![o] = r], Goes(x, r)
      PROVE  /\ \A p \in Operators : p # o => op'[p] = op[p]
             /\ Goes(x, y)
  BY <1>2, <1>3
<1>4. ASSUME op' = [op EXCEPT ![o] = Idle], x.pc \in Busy
      PROVE  /\ \A p \in Operators : p # o => op'[p] = op[p]
             /\ x.pc \in Busy /\ y = Idle
  BY <1>2, <1>4
<1>5. SameRequest(x.row, x.row)
  BY DEF SameRequest
<1> HIDE DEF n
<1>6. ASSUME NEW id \in Rows, NEW decision \in Decisions, Decide(o, id, decision)
      PROVE  /\ \A p \in Operators : p # o => op'[p] = op[p]
             /\ Begins(x, y)
  <2> DEFINE r == [Idle EXCEPT !.pc = "fetch", !.id = id, !.decision = decision,
                               !.row = approvals[id]]
  <2>1. op' = [op EXCEPT ![o] = r] /\ x.pc = "idle" /\ approvals[id].status = "pending"
    BY <1>6 DEF Decide, Open
  <2>2. /\ r.pc = "fetch" /\ r.id = id /\ r.decision = decision /\ r.row = approvals[id]
    <3>1. Idle \in OpRecord(n)
      BY EmptyShapes DEF Shapes, RowsShape, ExecsShape, n
    <3> QED BY <3>1 DEF OpRecord
  <2>3. decision = "split" =>
          /\ approvals[id].action \in {"workflow_create", "workflow_update", "review"}
          /\ PartCount(approvals[id]) >= 2
    BY <1>6 DEF Decide
  <2> HIDE DEF r
  <2>4. y = r /\ \A p \in Operators : p # o => op'[p] = op[p]
    BY <1>2, <2>1
  <2> QED BY <2>1, <2>2, <2>3, <2>4 DEF Begins
<1>7. CASE Fetch(o)
  <2> DEFINE row == [approvals[x.id] EXCEPT !.status = StatusOf(x.decision),
                       !.exec = IF x.decision = "reject" THEN @ ELSE x.row.exec]
             r == [x EXCEPT !.pc = "save", !.row = row]
  <2>1. op' = [op EXCEPT ![o] = r] /\ x.pc = "fetch"
    BY <1>0, <1>7 DEF Fetch
  <2>2. x.id \in Rows
    BY <1>1, <2>1 DEF OpStage, Busy, Choosing, Shapes, RowsShape, Rows, n
  <2>3. approvals[x.id] \in RowIn(n)
    BY <2>2, RowTyped DEF n
  <2>4. row.status = StatusOf(x.decision) /\ SameRequest(row, approvals[x.id])
    BY <2>3 DEF SameRequest, RowIn
  <2>5. SameRequest(row, x.row)
    BY <2>1, <2>4 DEF Requests, ReadsItsRow, Busy, Choosing, SameRequest
  <2> HIDE DEF row
  <2>6. r.pc = "save" /\ r.id = x.id /\ r.decision = x.decision /\ r.row = row
    BY <1>0 DEF OpRecord
  <2> HIDE DEF r
  <2>7. Goes(x, r)
    BY <2>1, <2>4, <2>5, <2>6 DEF Goes, Busy, Choosing
  <2> QED BY <1>3, <2>1, <2>7
<1>8. CASE Save(o)
  <2> DEFINE next == Effect(x.decision, x.row)
             r == [x EXCEPT !.pc = next, !.left = IF next = "children" THEN SplitParts(x.row)
                                                  ELSE {}]
  <2>1. x.pc = "save"
    BY <1>8 DEF Save
  <2>2. \/ op' = [op EXCEPT ![o] = r] /\ next # "done"
        \/ op' = [op EXCEPT ![o] = Idle]
    BY <1>0, <1>8 DEF Save, Finish
  <2>3. next # "done" => next \in Busy \ {"fetch"}
    BY DEF Effect, Busy, Choosing, Applying, Following, Closing
  <2>4. r.pc = next /\ r.id = x.id /\ r.decision = x.decision /\ r.row = x.row
    BY <1>0 DEF OpRecord
  <2> HIDE DEF r
  <2>5. next # "done" => Goes(x, r)
    BY <1>5, <2>1, <2>3, <2>4 DEF Goes, Busy, Choosing
  <2> QED BY <1>3, <1>4, <2>1, <2>2, <2>5 DEF Busy, Choosing
<1>9. CASE CreateChild(o)
  <2> DEFINE part == CHOOSE p \in x.left : \A q \in x.left : p <= q
             r == [x EXCEPT !.left = x.left \ {part}]
  <2>1. x.pc = "children"
    BY <1>9 DEF CreateChild
  <2>2. op' = [op EXCEPT ![o] = r] \/ op' = [op EXCEPT ![o] = Idle]
    BY <1>0, <1>9 DEF CreateChild, Finish
  <2>3. PICK k \in Nat \ {0}, l \in Nat : k <= l /\ x.left = k..l
    BY <1>1, <2>1 DEF OpStage
  <2>4. part = k
    BY <2>3
  <2>5. 1 \notin x.left \ {part}
    BY <2>3, <2>4
  <2> HIDE DEF part
  <2>6. /\ r.pc = x.pc /\ r.id = x.id /\ r.decision = x.decision /\ r.row = x.row
        /\ r.left = x.left \ {part}
    BY <1>0 DEF OpRecord
  <2> HIDE DEF r
  <2>7. Goes(x, r)
    BY <1>5, <2>1, <2>5, <2>6 DEF Goes, Busy, Choosing, Closing
  <2> QED BY <1>3, <1>4, <2>1, <2>2, <2>7 DEF Busy, Closing
<1>10. CASE ReadTarget(o)
  <2> DEFINE r == [x EXCEPT !.pc = "define", !.current = defs[x.row.target]]
             q == [x EXCEPT !.pc = "guide"]
  <2>1. /\ x.pc = "read"
        /\ \/ op' = [op EXCEPT ![o] = r] /\ defs[x.row.target].live
           \/ op' = [op EXCEPT ![o] = Idle] \/ op' = [op EXCEPT ![o] = q]
    BY <1>0, <1>10 DEF ReadTarget, Finish, Goto
  <2>2. /\ r.pc = "define" /\ r.id = x.id /\ r.decision = x.decision /\ r.row = x.row
        /\ r.current = defs[x.row.target] /\ r.copy = x.copy
        /\ q.pc = "guide" /\ q.id = x.id /\ q.decision = x.decision /\ q.row = x.row
        /\ q.copy = x.copy
    BY <1>0 DEF OpRecord
  <2> HIDE DEF r, q
  <2>3. defs[x.row.target].live => Goes(x, r)
    BY <1>5, <2>1, <2>2 DEF Goes, Busy, Choosing, Applying
  <2>4. Goes(x, q)
    BY <1>5, <2>1, <2>2 DEF Goes, Busy, Choosing, Applying, Following
  <2> QED BY <1>3, <1>4, <2>1, <2>3, <2>4 DEF Busy, Applying
<1>11. CASE Define(o)
  <2>1. /\ x.pc = "define"
        /\ \/ op' = [op EXCEPT ![o] = Idle]
           \/ \E pc \in {"schedule", "restart", "list"} :
                /\ op' = [op EXCEPT ![o] = [x EXCEPT !.pc = pc]]
                /\ pc = "list" => x.row.action = "agent_update"
    BY <1>0, <1>11 DEF Define, Goto, Finish
  <2>2. ASSUME NEW pc \in {"schedule", "restart", "list"},
               pc = "list" => x.row.action = "agent_update"
        PROVE  Goes(x, [x EXCEPT !.pc = pc])
    <3> DEFINE r == [x EXCEPT !.pc = pc]
    <3>1. /\ r.pc = pc /\ r.id = x.id /\ r.decision = x.decision /\ r.row = x.row
          /\ r.copy = x.copy
      BY <1>0 DEF OpRecord
    <3> HIDE DEF r
    <3>2. Goes(x, r)
      BY <1>5, <2>1, <2>2, <3>1 DEF Goes, Busy, Choosing, Applying, Following
    <3> QED BY <3>2 DEF r
  <2> QED BY <1>3, <1>4, <2>1, <2>2 DEF Busy, Applying
<1>12. CASE ListRuns(o) \/ ReplaceRun(o)
  <2> DEFINE Replacing(left) == [x EXCEPT !.pc = "replace", !.left = left]
             q == [x EXCEPT !.pc = "guide", !.left = {}]
  <2>1. /\ x.pc \in {"restart", "replace"}
        /\ \/ op' = [op EXCEPT ![o] = Idle] \/ op' = [op EXCEPT ![o] = q]
           \/ \E left : op' = [op EXCEPT ![o] = Replacing(left)]
    <3>1. CASE ListRuns(o)
      BY <1>0, <3>1 DEF ListRuns, AfterRestart, Finish
    <3>2. CASE ReplaceRun(o)
      <4>1. PICK i \in x.left :
              IF x.left = {i} THEN AfterRestart(o) ELSE op' = [op EXCEPT ![o].left = @ \ {i}]
        BY <3>2 DEF ReplaceRun
      <4>2. x.pc = "replace"
        BY <3>2 DEF ReplaceRun
      <4>3. [op EXCEPT ![o].left = @ \ {i}] = [op EXCEPT ![o] = Replacing(x.left \ {i})]
        <5>1. [x EXCEPT !.left = @ \ {i}] = Replacing(x.left \ {i})
          BY <1>0, <4>2 DEF OpRecord
        <5> QED BY <1>0, <5>1
      <4> QED BY <1>0, <4>1, <4>2, <4>3 DEF AfterRestart, Finish
    <3> QED BY <1>12, <3>1, <3>2
  <2>2. \A left : /\ Replacing(left).pc = "replace" /\ Replacing(left).id = x.id
                  /\ Replacing(left).decision = x.decision /\ Replacing(left).row = x.row
                  /\ Replacing(left).copy = x.copy
    BY <1>0 DEF OpRecord
  <2>3. /\ q.pc = "guide" /\ q.id = x.id /\ q.decision = x.decision /\ q.row = x.row
        /\ q.copy = x.copy
    BY <1>0 DEF OpRecord
  <2> HIDE DEF Replacing, q
  <2>4. \A left : Goes(x, Replacing(left))
    BY <1>5, <2>1, <2>2 DEF Goes, Busy, Choosing, Following
  <2>5. Goes(x, q)
    BY <1>5, <2>1, <2>3 DEF Goes, Busy, Choosing, Following
  <2> QED BY <1>3, <1>4, <2>1, <2>4, <2>5 DEF Busy, Following
<1>13. CASE ListWorkflows(o)
  <2> DEFINE r == [x EXCEPT !.pc = "sync", !.current = defs,
                            !.left = {w \in Workflows : defs[w].live}]
  <2>1. /\ x.pc = "list"
        /\ op' = [op EXCEPT ![o] = r] \/ op' = [op EXCEPT ![o] = Idle]
    BY <1>0, <1>13 DEF ListWorkflows, Finish
  <2>2. /\ r.pc = "sync" /\ r.id = x.id /\ r.decision = x.decision /\ r.row = x.row
        /\ r.current = defs
    BY <1>0 DEF OpRecord
  <2> HIDE DEF r
  <2>3. Goes(x, r)
    BY <1>5, <2>1, <2>2 DEF Goes, Busy, Choosing, Following
  <2> QED BY <1>3, <1>4, <2>1, <2>3 DEF Busy, Following
<1>14. CASE SyncWorkflow(o)
  <2>1. PICK w \in x.left :
          \/ op' = [op EXCEPT ![o] = [x EXCEPT !.left = @ \ {w}]]
          \/ op' = [op EXCEPT ![o] = Idle]
    BY <1>0, <1>14 DEF SyncWorkflow, Finish
  <2>2. x.pc = "sync"
    BY <1>14 DEF SyncWorkflow
  <2> DEFINE r == [x EXCEPT !.left = @ \ {w}]
  <2>3. /\ r.pc = "sync" /\ r.id = x.id /\ r.decision = x.decision /\ r.row = x.row
        /\ r.current = x.current
    BY <1>0, <2>2 DEF OpRecord
  <2>4. op' = [op EXCEPT ![o] = r] \/ op' = [op EXCEPT ![o] = Idle]
    BY <2>1
  <2> HIDE DEF r
  <2>5. Goes(x, r)
    BY <1>5, <2>2, <2>3 DEF Goes, Busy, Choosing, Following
  <2> QED BY <1>3, <1>4, <2>2, <2>4, <2>5 DEF Busy, Following
<1>15. CASE Launch(o)
  <2> DEFINE row == [x.row EXCEPT !.exec = Len(execs) + 1]
             r == [x EXCEPT !.pc = "link", !.row = row]
  <2>1. x.pc = "launch"
    BY <1>15 DEF Launch
  <2>2. [op EXCEPT ![o].pc = "link", ![o].row.exec = Len(execs) + 1] = [op EXCEPT ![o] = r]
    BY <1>0
  <2>3. op' = [op EXCEPT ![o] = r] \/ op' = [op EXCEPT ![o] = Idle]
    BY <1>15, <2>2 DEF Launch, Finish
  <2>4. x.row \in RowIn(n)
    BY <1>1, <2>1 DEF OpStage, Busy, Applying, n
  <2>5. SameRequest(row, x.row) /\ row.status = x.row.status
    BY <2>4 DEF RowIn, SameRequest
  <2> HIDE DEF row
  <2>6. r.pc = "link" /\ r.id = x.id /\ r.decision = x.decision /\ r.row = row
    BY <1>0 DEF OpRecord
  <2> HIDE DEF r
  <2>7. Goes(x, r)
    BY <2>1, <2>5, <2>6 DEF Goes, Busy, Choosing, Applying, Following
  <2> QED BY <1>3, <1>4, <2>1, <2>3, <2>7 DEF Busy, Applying
<1>16. CASE Link(o)
  <2> DEFINE row == [approvals[x.id] EXCEPT !.exec = x.row.exec]
             r == [x EXCEPT !.pc = "linked", !.row = row]
  <2>1. x.pc = "link" /\ op' = [op EXCEPT ![o] = r]
    BY <1>0, <1>16 DEF Link
  <2>2. x.id \in Rows
    BY <1>1, <2>1 DEF OpStage, Busy, Following, Shapes, RowsShape, Rows, n
  <2>3. approvals[x.id] \in RowIn(n)
    BY <2>2, RowTyped DEF n
  <2>4. row.status = approvals[x.id].status /\ SameRequest(row, approvals[x.id])
    BY <2>3 DEF SameRequest, RowIn
  <2>5. SameRequest(row, x.row)
    BY <2>1, <2>4 DEF Requests, ReadsItsRow, Busy, Following, SameRequest
  <2> HIDE DEF row
  <2>6. r.pc = "linked" /\ r.id = x.id /\ r.decision = x.decision /\ r.row = row
    BY <1>0 DEF OpRecord
  <2> HIDE DEF r
  <2>7. Goes(x, r)
    BY <2>1, <2>4, <2>5, <2>6 DEF Goes, Busy, Choosing, Following
  <2> QED BY <1>3, <2>1, <2>7
<1>17. CASE Steer(o) \/ Guide(o) \/ Mark(o)
  <2>1. \E pc \in {"read", "guide", "mark", "marked"}, copy \in {x.copy, execs[1]} :
          LET r == [x EXCEPT !.pc = pc, !.copy = copy]
          IN  /\ op' = [op EXCEPT ![o] = r]
              /\ \/ x.pc = "steer" /\ pc \in {"read", "guide"} /\ copy = execs[1]
                 \/ x.pc = "guide" /\ pc = "mark"
                 \/ x.pc = "mark" /\ pc = "marked" /\ copy = execs[1]
    <3>1. CASE Steer(o)
      BY <1>0, <3>1 DEF Steer
    <3>2. CASE Guide(o)
      <4>1. [x EXCEPT !.pc = "mark"] = [x EXCEPT !.pc = "mark", !.copy = x.copy]
        BY <1>0 DEF OpRecord
      <4>2. op' = [op EXCEPT ![o] = [x EXCEPT !.pc = "mark"]] /\ x.pc = "guide"
        BY <1>0, <3>2 DEF Guide, Goto
      <4> QED BY <4>1, <4>2
    <3>3. CASE Mark(o)
      BY <1>0, <3>3 DEF Mark
    <3> QED BY <1>17, <3>1, <3>2, <3>3
  <2>2. PICK pc \in {"read", "guide", "mark", "marked"}, copy \in {x.copy, execs[1]} :
          /\ op' = [op EXCEPT ![o] = [x EXCEPT !.pc = pc, !.copy = copy]]
          /\ \/ x.pc = "steer" /\ pc \in {"read", "guide"} /\ copy = execs[1]
             \/ x.pc = "guide" /\ pc = "mark"
             \/ x.pc = "mark" /\ pc = "marked" /\ copy = execs[1]
    BY <2>1
  <2> DEFINE r == [x EXCEPT !.pc = pc, !.copy = copy]
  <2>3. /\ r.pc = pc /\ r.id = x.id /\ r.decision = x.decision /\ r.row = x.row
        /\ r.copy = copy
    BY <1>0 DEF OpRecord
  <2>4. op' = [op EXCEPT ![o] = r]
    BY <2>2
  <2> HIDE DEF r
  <2>5. Goes(x, r)
    BY <1>5, <2>2, <2>3 DEF Goes, Busy, Choosing, Applying, Following, Closing
  <2> QED BY <1>3, <2>4, <2>5
<1>18. CASE \/ Blocked(o) \/ CreateSchedule(o) \/ SaveLink(o) \/ RunTool(o)
            \/ SaveMark(o) \/ SaveDraft(o)
  <2>1. op' = [op EXCEPT ![o] = Idle] /\ x.pc \in Busy
    BY <1>18 DEF Blocked, CreateSchedule, SaveLink, RunTool, SaveMark, SaveDraft,
       Finish, Busy, Applying, Following, Closing
  <2> QED BY <1>4, <2>1
<1> QED BY <1>6, <1>7, <1>8, <1>9, <1>10, <1>11, <1>12, <1>13, <1>14, <1>15, <1>16,
           <1>17, <1>18 DEF OperatorStep

\* Of the rows that exist a step writes at most the one its request saves,
\* as that request holds it.
LEMMA OperatorRows ==
  ASSUME Shapes, NEW o \in Operators, OperatorStep(o), NEW a \in Rows
  PROVE  /\ a \in Rows'
         /\ op[o].pc \in {"save", "linked"} /\ a = op[o].id => approvals'[a] = op[o].row
         /\ ~(op[o].pc \in {"save", "linked"} /\ a = op[o].id) => approvals'[a] = approvals[a]
<1> DEFINE n == Len(approvals)
           x == op[o]
<1>0. approvals \in Seq(RowIn(n)) /\ n \in Nat /\ a \in 1..n /\ Rows = 1..n
  BY DEF Shapes, RowsShape, Rows
<1>1. CASE Save(o) \/ SaveLink(o)
  <2>1. approvals' = [approvals EXCEPT ![x.id] = x.row] /\ x.pc \in {"save", "linked"}
    BY <1>1 DEF Save, SaveLink
  <2> QED BY <1>0, <2>1 DEF Rows
<1>2. CASE CreateChild(o)
  <2>1. PICK c : approvals' = Append(approvals, c)
    BY <1>2 DEF CreateChild, CreateApproval
  <2>2. x.pc = "children"
    BY <1>2 DEF CreateChild
  <2> QED BY <1>0, <2>1, <2>2 DEF Rows
<1>3. CASE ~(Save(o) \/ SaveLink(o) \/ CreateChild(o))
  <2>1. approvals' = approvals /\ x.pc \notin {"save", "linked"}
    BY <1>3 DEF OperatorStep, Decide, Fetch, Blocked, ReadTarget, Define,
       CreateSchedule, ListRuns, ReplaceRun, ListWorkflows, SyncWorkflow, Launch,
       Link, RunTool, Steer, Guide, Mark, SaveMark, SaveDraft
  <2> QED BY <1>0, <2>1 DEF Rows
<1> QED BY <1>1, <1>2, <1>3

\* The steps of the others only add rows, and end requests at most.
Others ==
  \/ \E p \in Proposals : ProposeInChat(p)
  \/ \E m \in Monitors : MonitorStep(m)
  \/ \E w \in Workflows, e \in Edits : EditWorkflow(w, e)
  \/ Crash \/ UNCHANGED vars

LEMMA OtherRows ==
  ASSUME Shapes, Others
  PROVE  /\ \A a \in Rows : a \in Rows' /\ approvals'[a] = approvals[a]
         /\ \/ approvals' = approvals
            \/ \E row : CreateApproval(row) /\ row.change = Len(approvals) + 1
         /\ \/ op' = op \/ \A o \in Operators : op'[o] = Idle
         /\ applied' = applied
<1>0. approvals \in Seq(RowIn(Len(approvals))) /\ Len(approvals) \in Nat
  BY DEF Shapes, RowsShape
<1>1. /\ approvals' = approvals \/ \E row : CreateApproval(row) /\ row.change = Len(approvals) + 1
      /\ op' = op \/ \A o \in Operators : op'[o] = Idle
      /\ applied' = applied
  <2>1. CASE \E p \in Proposals : ProposeInChat(p)
    <3>1. PICK p \in Proposals : ProposeInChat(p)
      BY <2>1
    <3>2. \A action, target, content, extra :
            Request(action, target, content, extra).change = Len(approvals) + 1
      BY DEF Request
    <3> QED BY <3>1, <3>2 DEF ProposeInChat
  <2>2. CASE \E m \in Monitors : MonitorStep(m)
    <3>1. PICK m \in Monitors : MonitorStep(m)
      BY <2>2
    <3>2. \A f, kind, content : MonitorRequest(f, kind, content).change = Len(approvals) + 1
      BY DEF MonitorRequest, Request
    <3>3. CASE AskForSteering(m) \/ ProposeImprovement(m)
      BY <3>2, <3>3 DEF AskForSteering, ProposeImprovement, MonUnmoved
    <3>4. CASE ~(AskForSteering(m) \/ ProposeImprovement(m))
      BY <3>1, <3>4 DEF MonitorStep, Scan, RecordFinding, ReadRun, SaveRun,
         CheckDuplicate, MonUnmoved
    <3> QED BY <3>3, <3>4
  <2>3. CASE \E w \in Workflows, e \in Edits : EditWorkflow(w, e)
    BY <2>3 DEF EditWorkflow
  <2>4. CASE Crash \/ UNCHANGED vars
    BY <2>4 DEF Crash, vars
  <2> QED BY <2>1, <2>2, <2>3, <2>4 DEF Others
<1>2. ASSUME NEW row, approvals' = Append(approvals, row)
      PROVE  \A a \in Rows : a \in Rows' /\ approvals'[a] = approvals[a]
  BY <1>0, <1>2 DEF Rows
<1>3. \A a \in Rows : a \in Rows' /\ approvals'[a] = approvals[a]
  <2>1. CASE approvals' = approvals
    BY <2>1 DEF Rows
  <2>2. CASE \E row : CreateApproval(row)
    <3>1. PICK row : approvals' = Append(approvals, row)
      BY <2>2 DEF CreateApproval
    <3> QED BY <1>2, <3>1
  <2> QED BY <1>1, <2>1, <2>2
<1> QED BY <1>1, <1>3

LEMMA NextSplits ==
  ASSUME [Next]_vars
  PROVE  Others \/ \E o \in Operators : OperatorStep(o)
  BY DEF Next, Others

\* What a request says never changes, and what is decided stays decided,
\* whatever interleaves.
RowsStay ==
  \A a \in Rows : /\ a \in Rows' /\ SameRequest(approvals'[a], approvals[a])
                  /\ approvals[a].status # "pending" => approvals'[a].status # "pending"

LEMMA RowsStayStep ==
  ASSUME Shapes, Requests, [Next]_vars
  PROVE  RowsStay
<1>1. CASE Others
  BY <1>1, OtherRows DEF RowsStay, SameRequest
<1>2. ASSUME NEW o \in Operators, OperatorStep(o) PROVE RowsStay
  <2> DEFINE x == op[o]
  <2>1. x.pc \in {"save", "linked"} =>
          SameRequest(x.row, approvals[x.id]) /\ x.row.status # "pending"
    BY DEF Requests, ReadsItsRow, Busy, Choosing, Following
  <2>2. \A a \in Rows : SameRequest(approvals[a], approvals[a])
    BY DEF SameRequest
  <2> QED BY <1>2, <2>1, <2>2, OperatorRows DEF RowsStay
<1> QED BY <1>1, <1>2, NextSplits

LEMMA RequestsStep ==
  ASSUME Shapes, Requests, [Next]_vars
  PROVE  Requests'
<1>0. \A o \in Operators : op[o].pc \in Busy => op[o].id \in Rows
  BY OpTyped DEF Shapes, RowsShape, Rows, OpStage
<1>1. RowsStay
  BY RowsStayStep
<1>2. ASSUME NEW p \in Operators, op'[p] = op[p]
      PROVE  ReadsItsRow(op[p])'
  BY <1>0, <1>1, <1>2 DEF Requests, ReadsItsRow, RowsStay, SameRequest
<1>3. ASSUME NEW p \in Operators, op'[p] = Idle
      PROVE  ReadsItsRow(op[p])'
  BY <1>3 DEF ReadsItsRow, Idle, Busy, Choosing, Applying, Following, Closing
<1>4. CASE Others
  BY <1>2, <1>3, <1>4, OtherRows DEF Requests
<1>5. ASSUME NEW o \in Operators, OperatorStep(o) PROVE Requests'
  <2> DEFINE x == op[o]
             y == op'[o]
  <2>1. CASE Begins(x, y)
    <3>1. SameRequest(approvals'[y.id], approvals[y.id])
      BY <1>1, <2>1 DEF Begins, RowsStay
    <3>2. ReadsItsRow(op[o])'
      BY <2>1, <3>1 DEF Begins, ReadsItsRow, SameRequest, Choosing
    <3> QED BY <1>2, <1>5, <3>2, OperatorMoves DEF Requests
  <2>2. CASE Goes(x, y)
    <3>1. /\ x.id \in Rows /\ y.id = x.id /\ SameRequest(y.row, x.row)
          /\ SameRequest(x.row, approvals[x.id])
          /\ SameRequest(approvals'[x.id], approvals[x.id])
      BY <1>0, <1>1, <2>2 DEF Goes, RowsStay, Requests, ReadsItsRow
    <3>2. SameRequest(y.row, approvals'[y.id])
      BY <3>1 DEF SameRequest
    <3>3. y.pc \notin Choosing => approvals'[y.id].status # "pending"
      <4>1. CASE x.pc = "save"
        <5>1. approvals'[x.id] = x.row /\ x.row.status # "pending"
          BY <1>5, <3>1, <4>1, OperatorRows DEF Requests, ReadsItsRow, Busy, Choosing
        <5> QED BY <3>1, <5>1
      <4>2. CASE x.pc = "fetch"
        BY <2>2, <4>2 DEF Goes, Choosing
      <4>3. CASE x.pc \notin Choosing
        BY <1>1, <2>2, <3>1, <4>3 DEF Goes, RowsStay, Requests, ReadsItsRow
      <4> QED BY <4>1, <4>2, <4>3 DEF Choosing
    <3>4. y.pc \in {"save", "linked"} => y.row.status # "pending"
      <4>1. StatusOf(x.decision) # "pending"
        BY DEF StatusOf
      <4>2. x.pc = "link" => approvals[x.id].status # "pending"
        BY DEF Requests, ReadsItsRow, Busy, Choosing, Following
      <4>3. y.pc = "save" => x.pc = "fetch"
        BY <2>2 DEF Goes, Effect
      <4>4. y.pc = "linked" => x.pc = "link"
        BY <2>2 DEF Goes, Effect
      <4> QED BY <2>2, <4>1, <4>2, <4>3, <4>4 DEF Goes
    <3>5. ReadsItsRow(op[o])'
      BY <3>2, <3>3, <3>4 DEF ReadsItsRow
    <3> QED BY <1>2, <1>5, <3>5, OperatorMoves DEF Requests
  <2>3. CASE y = Idle
    BY <1>2, <1>3, <1>5, <2>3, OperatorMoves DEF Requests
  <2> QED BY <1>5, <2>1, <2>2, <2>3, OperatorMoves
<1> QED BY <1>4, <1>5, NextSplits

LEMMA ShapesStep ==
  ASSUME Shapes, Requests, [Next]_vars
  PROVE  Shapes'
<1>1. CASE Others
  <2>1. ASSUME NEW m \in Monitors, MonitorStep(m) PROVE Shapes'
    BY <2>1, MonitorShapes
  <2> QED BY <1>1, <2>1, OtherShapes DEF Others
<1>2. ASSUME NEW o \in Operators, OperatorStep(o) PROVE Shapes'
  BY <1>2, ReadingShapes, RowWritingShapes, WritingShapes DEF OperatorStep
<1> QED BY <1>1, <1>2, NextSplits

LEMMA ShapesInit ==
  ASSUME Init
  PROVE  Shapes /\ Requests
<1>1. RowsShape
  BY ApprovalsAssumption DEF Init, RowsShape
<1>2. Len(approvals) = 0 /\ Rows = {}
  BY DEF Init, Rows
<1>3. NoDef \in DefIn(0) /\ Idle \in OpRecord(0) /\ Resting \in MonRecord(0)
      /\ MonStage(Resting, 0) /\ \A e \in Nat : OpStage(Idle, 0, e)
  BY EmptyShapes
<1>4. DefsShape
  <2>1. [NoDef EXCEPT !.live = TRUE, !.published = TRUE] \in DefIn(0)
    BY <1>3 DEF DefIn
  <2> QED BY <1>2, <1>3, <2>1 DEF Init, DefsShape
<1>5. ExecsShape /\ Len(execs) = 1
  <2>1. PICK w \in Workflows : execs = <<Run(w, 0, FALSE)>>
    BY DEF Init
  <2>2. Run(w, 0, FALSE) \in RunIn(0)
    <3>1. 0 \in Nat /\ 0 \in 0..0 /\ FALSE \in BOOLEAN /\ w \in Defs
      BY DEF Defs
    <3> QED BY <3>1, RunShape
  <2> DEFINE k == Run(w, 0, FALSE)
  <2>3. execs = <<k>> /\ k \in RunIn(0)
    BY <2>1, <2>2
  <2> HIDE DEF k
  <2>4. execs \in Seq(RunIn(0)) /\ Len(execs) = 1
    BY <2>3
  <2> QED BY <1>2, <2>4 DEF ExecsShape
<1>6. OpsShape /\ MonsShape
  BY <1>2, <1>3, <1>5 DEF Init, OpsShape, MonsShape
<1>7. RestShape
  BY DEF Init, RestShape
<1>8. Requests
  <2>1. "idle" \notin Busy
    BY DEF Busy, Choosing, Applying, Following, Closing
  <2> QED BY <2>1 DEF Init, Requests, ReadsItsRow, Idle
<1> QED BY <1>1, <1>4, <1>5, <1>6, <1>7, <1>8 DEF Shapes

LEMMA ShapesGiveTypeOK ==
  ASSUME Shapes
  PROVE  TypeOK
<1> DEFINE n == Len(approvals)
<1>0. /\ n \in Nat /\ n <= MaxApprovals /\ approvals \in Seq(RowIn(n)) /\ Rows = 1..n
      /\ 1..n \subseteq 1..MaxApprovals
  BY ApprovalsAssumption DEF Shapes, RowsShape, Rows
<1>1. RowIn(n) \subseteq ApprovalRow
  BY <1>0 DEF RowIn, ApprovalRow, Settlements, Actions, Creates, Updates, Changes, Keys
<1>2. approvals \in Seq(ApprovalRow)
  BY <1>0, <1>1
<1>3. \A d \in Defs : /\ defs[d].live \in BOOLEAN /\ defs[d].published \in BOOLEAN
                      /\ defs[d].content \subseteq Edits \cup Rows
  BY <1>0 DEF Shapes, DefsShape, DefIn, Changes
<1>4. \A i \in DOMAIN execs : execs[i].from \in {0} \cup Rows
  <2>1. \A i \in DOMAIN execs : execs[i] \in RunIn(n)
    BY DEF Shapes, ExecsShape
  <2>2. 0..n = {0} \cup 1..n
    BY <1>0
  <2> QED BY <1>0, <2>1, <2>2 DEF RunIn
<1>5. \A o \in Operators : op[o].id \in {0} \cup Rows
  <2>1. \A o \in Operators : op[o].id \in 0..n
    BY OpTyped DEF OpRecord
  <2>2. 0..n = {0} \cup 1..n
    BY <1>0
  <2> QED BY <1>0, <2>1, <2>2
<1> QED BY <1>0, <1>2, <1>3, <1>4, <1>5 DEF TypeOK, Shapes, RestShape

LEMMA ShapesHold == Spec => [](Shapes /\ Requests)
<1>1. Init => Shapes /\ Requests
  BY ShapesInit
<1>2. Shapes /\ Requests /\ [Next]_vars => (Shapes /\ Requests)'
  BY ShapesStep, RequestsStep
<1> QED BY <1>1, <1>2, PTL DEF Spec

\* The tables keep their shapes whatever interleaves: a definition holds only
\* edits and changes of approval rows, and every id a request, an execution
\* or a change carries is one of a row (app/db/repositories/domain_sql.py).
THEOREM Types == Spec => []TypeOK
<1>1. Shapes /\ Requests => TypeOK
  BY ShapesGiveTypeOK
<1> QED BY <1>1, ShapesHold, PTL

\* With any number of requests deciding at once, also the same approval, what
\* an approval asks for never changes and a decided one never opens again
\* (conversation_approval_repo.update).
THEOREM DecidedStaysDecided == Spec => [][RowsStay]_vars
<1>1. Shapes /\ Requests /\ [Next]_vars => [RowsStay]_vars
  BY RowsStayStep
<1> QED BY <1>1, ShapesHold, PTL DEF Spec

-----------------------------------------------------------------------------
(* Approvals that are decided one request at a time.                       *)

\* What is decided keeps its decision.
RowsKeep ==
  \A a \in Rows : /\ a \in Rows' /\ SameRequest(approvals'[a], approvals[a])
                  /\ approvals[a].status # "pending" =>
                       approvals'[a].status = approvals[a].status

LEMMA RowsKeepStep ==
  ASSUME Shapes, Requests, Decided, [Next]_vars
  PROVE  RowsKeep
<1>1. CASE Others
  BY <1>1, OtherRows DEF RowsKeep, SameRequest
<1>2. ASSUME NEW o \in Operators, OperatorStep(o) PROVE RowsKeep
  <2> DEFINE x == op[o]
  <2>1. ASSUME x.pc \in {"save", "linked"}, approvals[x.id].status # "pending"
        PROVE  x.row.status = approvals[x.id].status
    BY <2>1 DEF Decided, DecidesItsRow, Busy, Choosing, Following
  <2>2. RowsStay
    BY RowsStayStep
  <2> QED BY <1>2, <2>1, <2>2, OperatorRows DEF RowsKeep, RowsStay
<1> QED BY <1>1, <1>2, NextSplits

LEMMA DecidedStep ==
  ASSUME Shapes, Requests, Decided, DecidedAlone, [Next]_vars
  PROVE  Decided'
<1>0. \A o \in Operators : op[o].pc \in Busy => op[o].id \in Rows
  BY OpTyped DEF Shapes, RowsShape, Rows, OpStage
<1>1. RowsKeep /\ RowsStay
  BY RowsKeepStep, RowsStayStep
<1>2. ASSUME NEW p \in Operators, op'[p] = op[p],
             op[p].pc \in Busy => approvals'[op[p].id].status = approvals[op[p].id].status
      PROVE  DecidesItsRow(op[p])'
  BY <1>2 DEF Decided, DecidesItsRow, Busy
<1>3. ASSUME NEW p \in Operators, op'[p] = Idle
      PROVE  DecidesItsRow(op[p])'
  BY <1>3 DEF DecidesItsRow, Idle, Busy, Choosing, Applying, Following, Closing
<1>4. CASE Others
  <2>1. ASSUME NEW p \in Operators, op[p].pc \in Busy
        PROVE  approvals'[op[p].id].status = approvals[op[p].id].status
    BY <1>0, <1>4, <2>1, OtherRows
  <2> QED BY <1>2, <1>3, <1>4, <2>1, OtherRows DEF Decided
<1>5. ASSUME NEW o \in Operators, OperatorStep(o) PROVE Decided'
  <2> DEFINE x == op[o]
             y == op'[o]
  <2>1. ASSUME NEW p \in Operators, p # o, op[p].pc \in Busy
        PROVE  approvals'[op[p].id].status = approvals[op[p].id].status
    <3>1. ~(x.pc \in {"save", "linked"} /\ op[p].id = x.id)
      BY <2>1 DEF DecidedAlone, Busy, Choosing, Applying, Following, Closing
    <3> QED BY <1>0, <1>5, <2>1, <3>1, OperatorRows
  <2>2. \A p \in Operators : p # o => DecidesItsRow(op[p])'
    BY <1>2, <1>5, <2>1, OperatorMoves
  <2>3. CASE Begins(x, y)
    <3>1. approvals'[y.id] = approvals[y.id]
      BY <1>5, <2>3, OperatorRows DEF Begins
    <3>2. DecidesItsRow(op[o])'
      BY <2>3, <3>1 DEF Begins, DecidesItsRow, Busy, Choosing, Applying, Following, Closing
    <3> QED BY <2>2, <3>2 DEF Decided
  <2>4. CASE Goes(x, y)
    <3>1. /\ x.id \in Rows /\ y.id = x.id /\ y.decision = x.decision
          /\ y.row.action = x.row.action /\ x.decision \in Decisions
      BY <1>0, <2>4, OpTyped DEF Goes, SameRequest, OpStage
    <3>2. DecidesItsRow(x)
      BY DEF Decided
    <3>3. \A d : StatusOf(d) # "pending"
      BY DEF StatusOf
    <3>4. CASE x.pc = "fetch"
      <4>1. y.pc = "save" /\ y.row.status = StatusOf(x.decision)
        BY <2>4, <3>4 DEF Goes
      <4>2. approvals'[x.id] = approvals[x.id]
        BY <1>5, <3>1, <3>4, OperatorRows
      <4>3. approvals[x.id].status = "pending"
        BY <3>2, <3>4 DEF DecidesItsRow, Choosing
      <4>4. DecidesItsRow(op[o])'
        BY <3>1, <4>1, <4>2, <4>3 DEF DecidesItsRow, Choosing, Applying, Following, Busy, Closing
      <4> QED BY <2>2, <4>4 DEF Decided
    <3>5. CASE x.pc = "save"
      <4>1. y.pc = Effect(x.decision, x.row)
        BY <2>4, <3>5 DEF Goes
      <4>2. approvals'[x.id] = x.row /\ x.row.status = StatusOf(x.decision)
        BY <1>5, <3>1, <3>2, <3>5, OperatorRows DEF DecidesItsRow
      <4>3. y.pc \in {"define", "read", "steer", "launch", "run", "mark", "draft", "children"}
        BY <2>4, <4>1 DEF Goes, Effect, Busy, Choosing, Applying, Following, Closing
      <4>4. /\ y.pc \in Applying => x.decision = "approve" /\ x.row.action # "review"
            /\ y.pc = "mark" => x.decision = "reject"
            /\ y.pc = "draft" => x.row.action = "workflow_create"
            /\ y.pc = "define" => x.row.action \in Creates
        BY <4>1 DEF Effect, Applying, Creates
      <4>5. DecidesItsRow(op[o])'
        BY <3>1, <4>2, <4>3, <4>4 DEF DecidesItsRow, Choosing, Following
      <4> QED BY <2>2, <4>5 DEF Decided
    <3>6. CASE x.pc \notin Choosing
      <4>1. approvals[x.id].status = StatusOf(x.decision)
        BY <2>4, <3>2, <3>6 DEF Goes, DecidesItsRow
      <4>2. approvals'[x.id].status = StatusOf(x.decision)
        BY <1>1, <3>1, <3>3, <4>1 DEF RowsKeep
      <4>3. /\ y.pc \in Applying \cup Following =>
                  x.pc \in Applying \cup Following /\ (y.pc \in Applying => x.pc \in Applying)
            /\ y.pc \notin {"fetch", "save", "draft"}
            /\ y.pc \in {"mark", "marked"} => x.pc \in {"guide", "mark"}
            /\ y.pc \in {"list", "sync"} =>
                 (x.pc = "define" /\ x.row.action = "agent_update") \/ x.pc \in {"list", "sync"}
            /\ y.pc = "linked" => x.pc = "link"
            /\ y.pc = "define" => y.current.live
        BY <2>4, <3>6 DEF Goes, Choosing, Applying, Following
      <4>4. y.pc = "linked" => y.row.status = StatusOf(x.decision)
        BY <2>4, <4>1, <4>3 DEF Goes
      <4>5. /\ y.pc \in Applying \cup Following => y.decision = "approve"
            /\ y.pc \in {"mark", "marked"} => y.decision = "approve" \/ y.decision = "reject"
        BY <3>1, <3>2, <4>3 DEF DecidesItsRow, Following
      <4>6. /\ y.pc \in {"list", "sync"} => y.row.action = "agent_update"
            /\ y.pc \in Applying => y.row.action # "review"
        BY <3>1, <3>2, <4>3 DEF DecidesItsRow
      <4>7. DecidesItsRow(op[o])'
        BY <3>1, <4>2, <4>3, <4>4, <4>5, <4>6 DEF DecidesItsRow, Choosing
      <4> QED BY <2>2, <4>7 DEF Decided
    <3> QED BY <3>4, <3>5, <3>6 DEF Choosing
  <2>5. CASE y = Idle
    BY <1>3, <2>2, <2>5 DEF Decided
  <2> QED BY <1>5, <2>3, <2>4, <2>5, OperatorMoves
<1> QED BY <1>4, <1>5, NextSplits

LEMMA DecidedInit ==
  ASSUME Init
  PROVE  Decided
  BY DEF Init, Decided, DecidesItsRow, Idle, Busy, Choosing, Applying, Following, Closing

LEMMA DecidedHolds == Spec /\ []DecidedAlone => [](Shapes /\ Requests /\ Decided)
<1>1. Init => Decided
  BY DecidedInit
<1>2. /\ Shapes /\ Requests /\ Decided /\ DecidedAlone /\ [Next]_vars
      => (Shapes /\ Requests /\ Decided)'
  BY ShapesStep, RequestsStep, DecidedStep
<1>3. Init => Shapes /\ Requests
  BY ShapesInit
<1> QED BY <1>1, <1>2, <1>3, PTL DEF Spec

\* A decision is final as long as no two requests decide the same approval at
\* once: the later writes of a request, the link to the launched execution
\* among them, save the status it decided (domain_sql.py, update).
THEOREM DecisionsAreFinal == Spec /\ []DecidedAlone => DecisionIsFinal
<1>1. /\ Shapes /\ Requests /\ Decided /\ [Next]_vars
      => [\A a \in Rows : approvals[a].status # "pending" =>
            approvals'[a].status = approvals[a].status]_vars
  BY RowsKeepStep DEF RowsKeep
<1> QED BY <1>1, DecidedHolds, PTL DEF Spec, DecisionIsFinal

\* Only the steps that carry a change out count it, and they end the chance.
LEMMA OperatorApplies ==
  ASSUME Shapes, NEW o \in Operators, OperatorStep(o)
  PROVE  \/ applied' = applied
         \/ /\ Applied(op[o].row.change) /\ op[o].pc \in Applying
            /\ op'[o].pc \notin Applying \cup {"children"}
<1> DEFINE x == op[o]
<1>1. op \in [Operators -> OpRecord(Len(approvals))] /\ x \in OpRecord(Len(approvals))
  BY OpTyped DEF Shapes, OpsShape
<1>2. \A pc : [x EXCEPT !.pc = pc].pc = pc
  BY <1>1 DEF OpRecord
<1>3. ASSUME NEW r, op' = [op EXCEPT ![o] = r] PROVE op'[o] = r
  BY <1>1, <1>3
<1>4. Idle.pc = "idle"
  BY DEF Idle
<1>5. CASE Define(o)
  <2>1. /\ x.pc = "define" /\ Applied(x.row.change)
        /\ \/ op' = [op EXCEPT ![o] = Idle]
           \/ \E pc \in {"schedule", "restart", "list"} :
                op' = [op EXCEPT ![o] = [x EXCEPT !.pc = pc]]
    BY <1>1, <1>5 DEF Define, Goto, Finish
  <2> QED BY <1>2, <1>3, <1>4, <2>1 DEF Applying
<1>6. CASE Launch(o)
  <2>1. x.pc = "launch"
    BY <1>6 DEF Launch
  <2>2. CASE applied' # applied
    <3>1. /\ Applied(x.row.change)
          /\ op' = [op EXCEPT ![o].pc = "link", ![o].row.exec = Len(execs) + 1]
      BY <1>6, <2>2 DEF Launch
    <3>2. op'[o].pc = "link"
      BY <1>1, <3>1 DEF OpRecord
    <3> QED BY <2>1, <3>1, <3>2 DEF Applying
  <2> QED BY <2>2
<1>7. CASE RunTool(o)
  <2>1. x.pc = "run" /\ op' = [op EXCEPT ![o] = Idle]
        /\ (Applied(x.row.change) \/ applied' = applied)
    BY <1>7 DEF RunTool, Finish
  <2> QED BY <1>3, <1>4, <2>1 DEF Applying
<1>8. CASE ~(Define(o) \/ Launch(o) \/ RunTool(o))
  BY <1>8 DEF OperatorStep, Decide, Fetch, Save, CreateChild, Blocked, ReadTarget,
     CreateSchedule, ListRuns, ReplaceRun, ListWorkflows, SyncWorkflow, Link,
     SaveLink, Steer, Guide, Mark, SaveMark, SaveDraft
<1> QED BY <1>5, <1>6, <1>7, <1>8

\* A split adds one part at a time; the first one may carry the change on.
LEMMA OperatorAdds ==
  ASSUME Shapes, NEW o \in Operators, OperatorStep(o)
  PROVE  \/ Rows' = Rows /\ Len(approvals') = Len(approvals) /\ ~CreateChild(o)
         \/ /\ op[o].pc = "children"
            /\ \E part \in op[o].left :
                 /\ CreateApproval(Child(op[o].row, part))
                 /\ part # 1 => 1 \notin op[o].left
            /\ approvals'[Len(approvals) + 1].change = op[o].row.change
<1> DEFINE n == Len(approvals)
           x == op[o]
<1>0. approvals \in Seq(RowIn(n)) /\ n \in Nat
  BY DEF Shapes, RowsShape
<1>1. CASE CreateChild(o)
  <2>1. x.pc = "children"
    BY <1>1 DEF CreateChild
  <2>2. PICK k \in Nat \ {0}, l \in Nat : k <= l /\ x.left = k..l
    BY <2>1, OpTyped DEF OpStage
  <2> DEFINE part == CHOOSE p \in x.left : \A q \in x.left : p <= q
  <2>3. CreateApproval(Child(x.row, part))
    BY <1>1 DEF CreateChild
  <2>4. part = k
    BY <2>2
  <2> HIDE DEF part
  <2>5. part \in x.left /\ (part # 1 => 1 \notin x.left)
    BY <2>2, <2>4
  <2>6. approvals' = Append(approvals, Child(x.row, part))
    BY <2>3 DEF CreateApproval
  <2>7. Child(x.row, part).change = x.row.change
    <3>1. x.row \in RowIn(n)
      BY <2>1, OpTyped DEF OpStage, Busy, Closing
    <3> QED BY <3>1 DEF Child, RowIn
  <2>8. approvals'[n + 1] = Child(x.row, part)
    BY <1>0, <2>6
  <2> QED BY <2>1, <2>3, <2>5, <2>7, <2>8
<1>2. CASE Save(o) \/ SaveLink(o)
  <2>1. approvals' = [approvals EXCEPT ![x.id] = x.row] /\ ~CreateChild(o)
    BY <1>2 DEF Save, SaveLink, CreateChild
  <2>2. Len(approvals') = n /\ DOMAIN approvals' = DOMAIN approvals
    BY <1>0, <2>1
  <2> QED BY <2>1, <2>2 DEF Rows
<1>3. CASE ~(Save(o) \/ SaveLink(o) \/ CreateChild(o))
  <2>1. approvals' = approvals
    BY <1>3 DEF OperatorStep, Decide, Fetch, Blocked, ReadTarget, Define,
       CreateSchedule, ListRuns, ReplaceRun, ListWorkflows, SyncWorkflow, Launch,
       Link, RunTool, Steer, Guide, Mark, SaveMark, SaveDraft
  <2> QED BY <1>3, <2>1 DEF Rows
<1> QED BY <1>1, <1>2, <1>3

\* A chance to carry a change out comes from an earlier one or from a pending
\* row that is decided by the step.
LEMMA DueComesFrom ==
  ASSUME Shapes, Requests, Decided, NEW o \in Operators, OperatorStep(o), Due(op'[o])
  PROVE  /\ op'[o].row.change = op[o].row.change /\ op[o].pc \in Busy
         /\ \/ Due(op[o])
            \/ /\ op[o].pc = "save"
               /\ \E i \in Rows : /\ Alive(i) /\ ~Alive(i)'
                                 /\ approvals[i].change = op[o].row.change
<1> DEFINE x == op[o]
           y == op'[o]
<1>1. Goes(x, y)
  BY OperatorMoves DEF Begins, Due, Idle, Applying
<1>2. y.row.change = x.row.change /\ x.pc \in Busy /\ y.row.action = x.row.action
  BY <1>1 DEF Goes, SameRequest
<1>3. CASE x.pc = "save"
  <2>1. x.id \in Rows
    BY <1>2, OpTyped DEF Shapes, RowsShape, Rows, OpStage
  <2>2. SameRequest(x.row, approvals[x.id]) /\ approvals[x.id].status = "pending"
        /\ x.row.status # "pending"
    BY <1>2, <1>3 DEF Requests, ReadsItsRow, Decided, DecidesItsRow, Choosing
  <2>3. x.row.action # "review"
    <3>1. y.pc = Effect(x.decision, x.row)
      BY <1>1, <1>3 DEF Goes
    <3> QED BY <1>2, <3>1 DEF Due, Effect, Applying
  <2>4. approvals'[x.id] = x.row
    BY <1>3, <2>1, OperatorRows
  <2>5. PICK i \in Rows : i = x.id
    BY <2>1
  <2>6. Alive(i) /\ ~Alive(i)' /\ approvals[i].change = x.row.change
    BY <2>2, <2>3, <2>4, <2>5 DEF Alive, SameRequest
  <2> QED BY <1>2, <1>3, <2>6
<1>4. CASE x.pc # "save"
  BY <1>1, <1>2, <1>4 DEF Goes, Due, Applying
<1> QED BY <1>3, <1>4

LEMMA OneChanceStep ==
  ASSUME Shapes, Requests, Decided, OneChance, [Next]_vars
  PROVE  OneChance'
<1> DEFINE n == Len(approvals)
<1>0. n \in Nat /\ Rows = 1..n /\ \A a \in Rows : approvals[a].change \in 1..n
  BY RowTyped DEF Shapes, RowsShape, Rows, RowIn
<1>1. \A o \in Operators : op[o].pc \in Busy => op[o].row.change \in 1..n
  BY OpTyped DEF OpStage, RowIn
<1>2. \A o \in Operators : Due(op[o]) => op[o].pc \in Busy
  BY DEF Due, Busy, Closing
<1>3. RowsStay
  BY RowsStayStep
<1>4. \A a \in Rows : Alive(a)' => Alive(a) /\ approvals'[a].change = approvals[a].change
  BY <1>3 DEF RowsStay, SameRequest, Alive
<1>5. applied \in [1..MaxApprovals -> Nat]
  BY DEF Shapes, RestShape
<1> HIDE DEF n
\* New rows have new changes, and no chance is gained.
<1>6. ASSUME applied' = applied, Len(approvals') \in Nat, n <= Len(approvals'),
             \A a \in Rows' : a \in Rows \/ (approvals'[a].change = n + 1 /\ a = n + 1),
             \A o \in Operators : Due(op'[o]) =>
               Due(op[o]) /\ op'[o].row.change = op[o].row.change
      PROVE  OneChance'
  <2>1. \A a, b \in Rows' : Alive(a)' /\ Alive(b)'
          /\ approvals'[a].change = approvals'[b].change => a = b
    BY <1>0, <1>4, <1>6 DEF OneChance
  <2>2. \A a \in Rows', o \in Operators :
          Alive(a)' /\ Due(op'[o]) => approvals'[a].change # op'[o].row.change
    BY <1>0, <1>1, <1>2, <1>4, <1>6 DEF OneChance
  <2>3. \A o, p \in Operators : Due(op'[o]) /\ Due(op'[p])
          /\ op'[o].row.change = op'[p].row.change => o = p
    BY <1>6 DEF OneChance
  <2>4. \A c \in DOMAIN applied' : applied'[c] > 0 =>
          /\ applied'[c] = 1 /\ c <= Len(approvals')
          /\ \A a \in Rows' : Alive(a)' => approvals'[a].change # c
          /\ \A o \in Operators : Due(op'[o]) => op'[o].row.change # c
    BY <1>0, <1>4, <1>5, <1>6 DEF OneChance, n
  <2> QED BY <2>1, <2>2, <2>3, <2>4 DEF OneChance
<1>7. CASE Others
  <2>1. \A o \in Operators : Due(op'[o]) => Due(op[o]) /\ op'[o] = op[o]
    <3>1. ~Due(Idle)
      BY DEF Due, Idle, Applying
    <3> QED BY <1>7, <3>1, OtherRows
  <2>2. CASE approvals' = approvals
    <3>1. applied' = applied /\ Rows' = Rows
      BY <1>7, <2>2, OtherRows DEF Rows
    <3>2. Len(approvals') = n /\ n <= n
      BY <1>0, <2>2 DEF n
    <3>3. \A o \in Operators : Due(op'[o]) =>
            Due(op[o]) /\ op'[o].row.change = op[o].row.change
      BY <2>1
    <3>4. \A a \in Rows' : a \in Rows \/ (approvals'[a].change = n + 1 /\ a = n + 1)
      BY <3>1
    <3>5. Len(approvals') \in Nat /\ n <= Len(approvals')
      BY <1>0, <3>2
    <3> QED BY <1>6, <3>1, <3>3, <3>4, <3>5
  <2>3. CASE \E row : CreateApproval(row) /\ row.change = n + 1
    <3>1. PICK row : CreateApproval(row) /\ row.change = n + 1
      BY <2>3
    <3>2. approvals \in Seq(RowIn(n)) /\ approvals' = Append(approvals, row)
      BY <3>1 DEF Shapes, RowsShape, CreateApproval, n
    <3>3. Len(approvals') = n + 1 /\ approvals'[n + 1] = row /\ Rows' = 1..(n + 1)
      BY <1>0, <3>2 DEF Rows, n
    <3>4. n + 1 \in Nat /\ n <= n + 1 /\ 1..(n + 1) = 1..n \cup {n + 1}
      BY <1>0
    <3>5. \A o \in Operators : Due(op'[o]) =>
            Due(op[o]) /\ op'[o].row.change = op[o].row.change
      BY <2>1
    <3>6. applied' = applied
      BY <1>7, OtherRows
    <3>7. \A a \in Rows' : a \in Rows \/ (approvals'[a].change = n + 1 /\ a = n + 1)
      <4> SUFFICES ASSUME NEW a \in Rows', a \notin Rows
                   PROVE  approvals'[a].change = n + 1 /\ a = n + 1
        OBVIOUS
      <4>1. a = n + 1
        BY <1>0, <3>3, <3>4
      <4> QED BY <3>1, <3>3, <4>1
    <3> QED BY <1>6, <3>3, <3>4, <3>5, <3>6, <3>7
  <2> QED BY <1>7, <2>2, <2>3, OtherRows DEF n
<1>8. ASSUME NEW o \in Operators, OperatorStep(o) PROVE OneChance'
  <2> DEFINE x == op[o]
             y == op'[o]
  <2>1. \A p \in Operators : p # o => op'[p] = op[p]
    BY <1>8, OperatorMoves
  <2>2. Due(y) =>
          /\ y.row.change = x.row.change /\ x.pc \in Busy
          /\ \/ Due(x)
             \/ \E i \in Rows : /\ Alive(i) /\ ~Alive(i)'
                               /\ approvals[i].change = x.row.change
    BY <1>8, DueComesFrom
  <2>3. CASE applied' # applied
    <3>1. /\ Applied(x.row.change) /\ x.pc \in Applying
          /\ y.pc \notin Applying \cup {"children"}
      BY <1>8, <2>3, OperatorApplies
    <3>2. Due(x) /\ ~Due(y) /\ x.row.change \in 1..n
      BY <1>1, <1>2, <3>1 DEF Due
    <3>3. Rows' = Rows /\ Len(approvals') = n
      BY <1>8, <3>1, OperatorAdds DEF Applying, n
    <3> DEFINE c == x.row.change
    <3>4. n <= MaxApprovals /\ c \in DOMAIN applied
      BY <1>0, <1>5, <3>2, ApprovalsAssumption DEF Shapes, RowsShape, n
    <3>5. applied[c] = 0
      BY <1>5, <3>2, <3>4 DEF OneChance
    <3>6. applied' = [applied EXCEPT ![c] = 1]
      BY <1>5, <3>1, <3>4, <3>5 DEF Applied
    <3>7. \A p \in Operators : Due(op'[p]) => p # o /\ op'[p] = op[p]
      BY <2>1, <3>2
    <3> HIDE DEF c
    <3>8. \A a, b \in Rows' : Alive(a)' /\ Alive(b)'
            /\ approvals'[a].change = approvals'[b].change => a = b
      BY <1>4, <3>3 DEF OneChance
    <3>9. \A a \in Rows', p \in Operators :
            Alive(a)' /\ Due(op'[p]) => approvals'[a].change # op'[p].row.change
      BY <1>4, <3>3, <3>7 DEF OneChance
    <3>10. \A p, q \in Operators : Due(op'[p]) /\ Due(op'[q])
             /\ op'[p].row.change = op'[q].row.change => p = q
      BY <3>7 DEF OneChance
    <3>11. ASSUME NEW b \in DOMAIN applied', applied'[b] > 0
           PROVE  /\ applied'[b] = 1 /\ b <= Len(approvals')
                  /\ \A a \in Rows' : Alive(a)' => approvals'[a].change # b
                  /\ \A p \in Operators : Due(op'[p]) => op'[p].row.change # b
      <4>1. CASE b = c
        <5>1. applied'[b] = 1 /\ b <= n
          BY <1>0, <3>2, <3>4, <3>6, <4>1 DEF c
        <5>2. \A a \in Rows' : Alive(a)' => approvals'[a].change # b
          BY <1>4, <3>2, <3>3, <4>1 DEF OneChance, c
        <5>3. \A p \in Operators : Due(op'[p]) => op'[p].row.change # b
          BY <3>2, <3>7, <4>1 DEF OneChance, c
        <5> QED BY <3>3, <5>1, <5>2, <5>3
      <4>2. CASE b # c
        <5>1. b \in DOMAIN applied /\ applied[b] = applied'[b]
          BY <1>5, <3>6, <3>11, <4>2
        <5>2. /\ applied[b] = 1 /\ b <= n
              /\ \A a \in Rows : Alive(a) => approvals[a].change # b
              /\ \A p \in Operators : Due(op[p]) => op[p].row.change # b
          BY <3>11, <5>1 DEF OneChance, n
        <5> QED BY <1>4, <3>3, <3>7, <5>1, <5>2
      <4> QED BY <4>1, <4>2
    <3> QED BY <3>8, <3>9, <3>10, <3>11 DEF OneChance
  <2>4. CASE applied' = applied /\ Len(approvals') = n /\ Rows' = Rows
    <3>1. CASE Due(y) => Due(x)
      <4>1. n <= n
        BY <1>0
      <4>2. \A p \in Operators : Due(op'[p]) =>
              Due(op[p]) /\ op'[p].row.change = op[p].row.change
        BY <2>1, <2>2, <3>1
      <4>3. \A a \in Rows' : a \in Rows \/ (approvals'[a].change = n + 1 /\ a = n + 1)
        BY <2>4
      <4>4. Len(approvals') \in Nat /\ n <= Len(approvals') /\ applied' = applied
        BY <1>0, <2>4, <4>1
      <4> QED BY <1>6, <4>2, <4>3, <4>4
    <3>2. CASE Due(y) /\ ~Due(x)
      <4>1. PICK i \in Rows : /\ y.row.change = approvals[i].change
                              /\ Alive(i) /\ ~Alive(i)'
        BY <2>2, <3>2
      <4>2. \A a, b \in Rows' : Alive(a)' /\ Alive(b)'
              /\ approvals'[a].change = approvals'[b].change => a = b
        BY <1>4, <2>4 DEF OneChance
      <4>3. \A a \in Rows' : Alive(a)' => approvals'[a].change # y.row.change
        BY <1>4, <2>4, <4>1 DEF OneChance
      <4>4. \A p \in Operators : p # o /\ Due(op'[p]) => op'[p].row.change # y.row.change
        BY <2>1, <4>1 DEF OneChance
      <4>5. \A a \in Rows', p \in Operators :
              Alive(a)' /\ Due(op'[p]) => approvals'[a].change # op'[p].row.change
        BY <1>4, <2>1, <2>4, <4>3 DEF OneChance
      <4>6. \A p, q \in Operators : Due(op'[p]) /\ Due(op'[q])
              /\ op'[p].row.change = op'[q].row.change => p = q
        BY <2>1, <4>4 DEF OneChance
      <4>7. \A c \in DOMAIN applied' : applied'[c] > 0 =>
              /\ applied'[c] = 1 /\ c <= Len(approvals')
              /\ \A a \in Rows' : Alive(a)' => approvals'[a].change # c
              /\ \A p \in Operators : Due(op'[p]) => op'[p].row.change # c
        BY <1>4, <2>1, <2>4, <4>1 DEF OneChance, n
      <4> QED BY <4>2, <4>5, <4>6, <4>7 DEF OneChance
    <3> QED BY <3>1, <3>2
  <2>5. CASE x.pc = "children" /\ ~(Len(approvals') = n /\ Rows' = Rows)
    <3>1. PICK part \in x.left : /\ CreateApproval(Child(x.row, part))
                                 /\ part # 1 => 1 \notin x.left
                                 /\ approvals'[n + 1].change = x.row.change
      BY <1>8, <2>5, OperatorAdds DEF n
    <3> DEFINE c == Child(x.row, part)
    <3>2. approvals \in Seq(RowIn(n)) /\ approvals' = Append(approvals, c)
      BY <3>1 DEF Shapes, RowsShape, CreateApproval, n
    <3>3. Len(approvals') = n + 1 /\ approvals'[n + 1] = c /\ Rows' = 1..(n + 1)
          /\ Rows' = Rows \cup {n + 1}
      <4>1. Len(approvals') = n + 1 /\ approvals'[n + 1] = c
        BY <1>0, <3>2 DEF n
      <4>2. Rows' = 1..(n + 1)
        BY <1>0, <3>2, <4>1 DEF Rows
      <4>3. 1..(n + 1) = 1..n \cup {n + 1}
        BY <1>0
      <4> QED BY <1>0, <4>1, <4>2, <4>3
    <3>4. x.row \in RowIn(n) /\ x.row.change \in 1..n
      BY <1>1, <2>5, OpTyped DEF OpStage, Busy, Closing, n
    <3>14. PICK k : k = n + 1
      OBVIOUS
    <3>5. c.action # "review" => part = 1 /\ x.row.action # "review"
      BY <3>4 DEF Child, RowIn
    <3>6. Alive(k)' => Due(x)
      BY <2>5, <3>1, <3>3, <3>5, <3>14 DEF Alive, Due
    <3>15. /\ approvals'[k].change = x.row.change
           /\ \A a \in Rows' : a \in Rows \/ a = k
      BY <3>1, <3>3, <3>14
    <3>7. ~Due(y)
      <4>1. y.pc = "children" => 1 \notin y.left
        <5>1. Goes(x, y) \/ y = Idle
          BY <1>8, <2>5, OperatorMoves DEF Begins
        <5> QED BY <2>5, <5>1 DEF Goes, Idle
      <4>2. y.pc \notin Applying
        <5>1. Goes(x, y) \/ y = Idle
          BY <1>8, <2>5, OperatorMoves DEF Begins
        <5> QED BY <2>5, <5>1 DEF Goes, Idle, Applying
      <4> QED BY <4>1, <4>2 DEF Due
    <3>8. applied' = applied
      BY <1>8, <2>5, OperatorApplies DEF Applying
    <3>9. \A p \in Operators : Due(op'[p]) => p # o /\ op'[p] = op[p] /\ Due(op[p])
      BY <2>1, <3>7
    <3> HIDE DEF c
    <3>10. \A a, b \in Rows' : Alive(a)' /\ Alive(b)'
             /\ approvals'[a].change = approvals'[b].change => a = b
      BY <1>4, <3>6, <3>15 DEF OneChance
    <3>11. \A a \in Rows', p \in Operators :
             Alive(a)' /\ Due(op'[p]) => approvals'[a].change # op'[p].row.change
      BY <1>4, <3>6, <3>9, <3>15 DEF OneChance
    <3>12. \A p, q \in Operators : Due(op'[p]) /\ Due(op'[q])
             /\ op'[p].row.change = op'[q].row.change => p = q
      BY <3>9 DEF OneChance
    <3>13. \A b \in DOMAIN applied' : applied'[b] > 0 =>
             /\ applied'[b] = 1 /\ b <= Len(approvals')
             /\ \A a \in Rows' : Alive(a)' => approvals'[a].change # b
             /\ \A p \in Operators : Due(op'[p]) => op'[p].row.change # b
      <4>1. ASSUME NEW b \in DOMAIN applied, applied[b] > 0
            PROVE  /\ applied[b] = 1 /\ b <= n /\ b \in 1..MaxApprovals
                   /\ \A a \in Rows : Alive(a) => approvals[a].change # b
                   /\ \A p \in Operators : Due(op[p]) => op[p].row.change # b
        BY <1>5, <4>1 DEF OneChance, n
      <4>2. ASSUME NEW b \in DOMAIN applied, applied[b] > 0
            PROVE  /\ b <= Len(approvals')
                   /\ \A a \in Rows' : Alive(a)' => approvals'[a].change # b
                   /\ \A p \in Operators : Due(op'[p]) => op'[p].row.change # b
        <5>1. b <= Len(approvals')
          BY <1>0, <3>3, <4>1, <4>2
        <5>2. \A a \in Rows' : Alive(a)' => approvals'[a].change # b
          BY <1>4, <3>6, <3>15, <4>1, <4>2 DEF Due
        <5>3. \A p \in Operators : Due(op'[p]) => op'[p].row.change # b
          BY <3>9, <4>1, <4>2
        <5> QED BY <5>1, <5>2, <5>3
      <4> QED BY <3>8, <4>1, <4>2
    <3> QED BY <3>10, <3>11, <3>12, <3>13 DEF OneChance
  <2>6. x.pc = "children" => applied' = applied
    BY <1>8, OperatorApplies DEF Applying
  <2> QED BY <1>8, <2>3, <2>4, <2>5, <2>6, OperatorAdds DEF n
<1> QED BY <1>7, <1>8, NextSplits

LEMMA OneChanceInit ==
  ASSUME Init
  PROVE  OneChance
<1>1. Rows = {}
  BY DEF Init, Rows
<1>2. ~Due(Idle)
  BY DEF Due, Idle, Applying
<1> QED BY <1>1, <1>2 DEF Init, OneChance

\* An approval is carried out at most once, also when it is split and when the
\* backend crashes, as long as no two requests decide it at once: a row is
\* decided once, and no handler carries a change out twice.
THEOREM CarriedOutOnce == Spec /\ []DecidedAlone => []AppliedOnce
<1>1. Init => OneChance
  BY OneChanceInit
<1>2. Shapes /\ Requests /\ Decided /\ OneChance /\ [Next]_vars => OneChance'
  BY OneChanceStep
<1>3. Shapes /\ OneChance => AppliedOnce
  <2> SUFFICES ASSUME Shapes, OneChance, NEW c \in DOMAIN applied PROVE applied[c] <= 1
    BY DEF AppliedOnce
  <2>1. applied[c] \in Nat
    BY DEF Shapes, RestShape
  <2> QED BY <2>1 DEF OneChance
<1> QED BY <1>1, <1>2, <1>3, DecidedHolds, PTL DEF Spec

-----------------------------------------------------------------------------
(* What the monitor asks for.                                              *)

\* A scan keeps the definitions it listed, reads the execution before it
\* writes it, and asks only when it has found no request about the problem.
LEMMA MonitorMoves ==
  ASSUME Shapes, NEW m \in Monitors, MonitorStep(m)
  PROVE  /\ \A q \in Monitors : q # m => mon'[q] = mon[q]
         /\ \/ mon'[m] = Resting
            \/ /\ mon'[m].pc \in MonStages
               /\ mon[m].pc = "idle" =>
                    mon'[m].pc = "next" /\ mon'[m].snap = [w \in Workflows |-> defs[w]]
               /\ mon[m].pc # "idle" => mon'[m].snap = mon[m].snap
               /\ mon'[m].pc \in {"requested", "autoapplied", "attached"} =>
                    mon'[m].copy = execs[1]
               /\ mon'[m].pc = "asking" =>
                    /\ mon'[m].f = mon[m].f /\ approvals' = approvals
                    /\ ~PendingFor(mon[m].f, "steering")
               /\ mon'[m].pc = "proposing" =>
                    /\ mon'[m].f = mon[m].f /\ approvals' = approvals
                    /\ ~PendingFor(mon[m].f, "improvement")
<1> DEFINE n == Len(approvals)
           x == mon[m]
           y == mon'[m]
           Moved == /\ y.pc \in MonStages
                    /\ x.pc = "idle" =>
                         y.pc = "next" /\ y.snap = [w \in Workflows |-> defs[w]]
                    /\ x.pc # "idle" => y.snap = x.snap
                    /\ y.pc \in {"requested", "autoapplied", "attached"} =>
                         y.copy = execs[1]
                    /\ y.pc = "asking" =>
                         /\ y.f = x.f /\ approvals' = approvals
                         /\ ~PendingFor(x.f, "steering")
                    /\ y.pc = "proposing" =>
                         /\ y.f = x.f /\ approvals' = approvals
                         /\ ~PendingFor(x.f, "improvement")
<1>0. mon \in [Monitors -> MonRecord(n)] /\ x \in MonRecord(n) /\ n \in Nat
  BY DEF Shapes, MonsShape, RowsShape
<1>1. ASSUME NEW r, Advance(m, r)
      PROVE  (\A q \in Monitors : q # m => mon'[q] = mon[q]) /\ (y = Resting \/ y = r)
  BY <1>0, <1>1 DEF Advance
<1>2. Resting \in MonRecord(n)
  BY <1>0, EmptyShapes
<1>3. ASSUME NEW found \in SUBSET FindingIds, Scan(m, found)
      PROVE  (\A q \in Monitors : q # m => mon'[q] = mon[q]) /\ (y = Resting \/ Moved)
  <2> DEFINE r == [Resting EXCEPT !.pc = "next", !.todo = found,
                                  !.snap = [w \in Workflows |-> defs[w]]]
  <2>1. Advance(m, r) /\ x.pc = "idle"
    BY <1>3 DEF Scan
  <2>2. r.pc = "next" /\ r.snap = [w \in Workflows |-> defs[w]]
    BY <1>2 DEF MonRecord
  <2> HIDE DEF r
  <2> QED BY <1>1, <2>1, <2>2 DEF MonStages
<1>4. CASE RecordFinding(m)
  <2> DEFINE f == CHOOSE g \in x.todo : TRUE
             pc == IF f \in recorded THEN "next" ELSE Follow(m, f)
             r == [x EXCEPT !.f = f, !.todo = x.todo \ {f}, !.pc = pc]
  <2>1. Advance(m, r) /\ x.pc = "next"
    BY <1>4 DEF RecordFinding
  <2>2. pc \in {"next", "request", "propose"}
    BY DEF Follow
  <2> HIDE DEF f, pc
  <2>3. r.pc = pc /\ r.snap = x.snap
    BY <1>0 DEF MonRecord
  <2> HIDE DEF r
  <2> QED BY <1>1, <2>1, <2>2, <2>3 DEF MonStages
<1>5. CASE ReadRun(m)
  <2> DEFINE pc == CASE x.pc = "request" -> "requested"
                     [] x.pc = "auto"    -> "autoapplied"
                     [] x.pc = "attach"  -> "attached"
             r == [x EXCEPT !.copy = execs[1], !.pc = pc]
  <2>1. Advance(m, r) /\ x.pc \in {"request", "auto", "attach"}
    BY <1>5 DEF ReadRun
  <2>2. pc \in {"requested", "autoapplied", "attached"}
    BY <2>1
  <2> HIDE DEF pc
  <2>3. r.pc = pc /\ r.snap = x.snap /\ r.copy = execs[1]
    BY <1>0 DEF MonRecord
  <2> HIDE DEF r
  <2> QED BY <1>1, <2>1, <2>2, <2>3 DEF MonStages
<1>6. CASE SaveRun(m)
  <2> DEFINE pc == IF x.pc # "requested" THEN AfterSteering(m)
                   ELSE IF "auto" \in Findings[x.f].kinds THEN "auto" ELSE "ask"
             r == [x EXCEPT !.copy = NoCopy, !.pc = pc]
  <2>1. Advance(m, r) /\ x.pc \in {"requested", "autoapplied", "attached"}
    BY <1>6 DEF SaveRun
  <2>2. pc \in {"next", "propose", "auto", "ask"}
    BY DEF AfterSteering
  <2> HIDE DEF pc
  <2>3. r.pc = pc /\ r.snap = x.snap
    BY <1>0 DEF MonRecord
  <2> HIDE DEF r
  <2> QED BY <1>1, <2>1, <2>2, <2>3 DEF MonStages
<1>7. CASE CheckDuplicate(m)
  <2> DEFINE kind == IF x.pc = "ask" THEN "steering" ELSE "improvement"
             pc == IF PendingFor(x.f, kind)
                   THEN IF x.pc = "ask" THEN AfterSteering(m) ELSE "next"
                   ELSE IF x.pc = "ask" THEN "asking" ELSE "proposing"
             r == [x EXCEPT !.pc = pc]
  <2>1. Advance(m, r) /\ approvals' = approvals /\ x.pc \in {"ask", "propose"}
    BY <1>7 DEF CheckDuplicate
  <2>2. /\ pc \in {"next", "propose", "asking", "proposing"}
        /\ pc = "asking" => ~PendingFor(x.f, "steering")
        /\ pc = "proposing" => ~PendingFor(x.f, "improvement")
    BY DEF AfterSteering
  <2> HIDE DEF pc
  <2>3. r.pc = pc /\ r.snap = x.snap /\ r.f = x.f
    BY <1>0 DEF MonRecord
  <2> HIDE DEF r
  <2> QED BY <1>1, <2>1, <2>2, <2>3 DEF MonStages
<1>8. CASE AskForSteering(m) \/ ProposeImprovement(m)
  <2>1. PICK pc \in {"attach", "next"} : Advance(m, [x EXCEPT !.pc = pc])
    BY <1>8 DEF AskForSteering, ProposeImprovement
  <2>2. x.pc \in {"asking", "proposing"}
    BY <1>8 DEF AskForSteering, ProposeImprovement
  <2> DEFINE r == [x EXCEPT !.pc = pc]
  <2>3. r.pc = pc /\ r.snap = x.snap
    BY <1>0 DEF MonRecord
  <2>4. Advance(m, r)
    BY <2>1
  <2> HIDE DEF r
  <2> QED BY <1>1, <2>1, <2>2, <2>3, <2>4 DEF MonStages
<1> QED BY <1>3, <1>4, <1>5, <1>6, <1>7, <1>8 DEF MonitorStep

\* A row that a step adds: a request of a chat, one of the monitor, a part.
LEMMA NewRows ==
  ASSUME Shapes, Requests, [Next]_vars
  PROVE  \/ Rows' = Rows
         \/ /\ Rows' = Rows \cup {Len(approvals) + 1}
            /\ CreateApproval(approvals'[Len(approvals) + 1])
            /\ \/ \E p \in Proposals :
                    /\ ProposeInChat(p)
                    /\ approvals'[Len(approvals) + 1] =
                         Request(p.action, p.target,
                                 defs[p.target].content \cup {Len(approvals) + 1}, p.extra)
               \/ \E m \in Monitors :
                    \/ /\ AskForSteering(m)
                       /\ approvals'[Len(approvals) + 1] =
                            MonitorRequest(mon[m].f, "steering", {})
                    \/ /\ ProposeImprovement(m)
                       /\ approvals'[Len(approvals) + 1] =
                            MonitorRequest(mon[m].f, "improvement",
                              mon[m].snap[Findings[mon[m].f].workflow].content
                              \cup {Len(approvals) + 1})
               \/ \E o \in Operators, part \in Nat :
                    /\ CreateChild(o)
                    /\ approvals'[Len(approvals) + 1] = Child(op[o].row, part)
<1> DEFINE n == Len(approvals)
<1>0. approvals \in Seq(RowIn(n)) /\ n \in Nat /\ Rows = 1..n
  BY DEF Shapes, RowsShape, Rows
<1>1. ASSUME NEW row, CreateApproval(row)
      PROVE  /\ Rows' = Rows \cup {n + 1} /\ approvals'[n + 1] = row
             /\ CreateApproval(approvals'[n + 1])
  <2>1. approvals' = Append(approvals, row)
    BY <1>1 DEF CreateApproval
  <2>2. Len(approvals') = n + 1 /\ approvals'[n + 1] = row
    BY <1>0, <2>1
  <2>3. Rows' = 1..(n + 1)
    BY <1>0, <2>1, <2>2 DEF Rows
  <2>4. 1..(n + 1) = 1..n \cup {n + 1}
    BY <1>0
  <2> QED BY <1>0, <1>1, <2>2, <2>3, <2>4
<1>2. ASSUME NEW p \in Proposals, ProposeInChat(p)
      PROVE  CreateApproval(Request(p.action, p.target,
                              defs[p.target].content \cup {n + 1}, p.extra))
  BY <1>2 DEF ProposeInChat
<1>3. ASSUME NEW m \in Monitors, MonitorStep(m), Rows' # Rows
      PROVE  \/ /\ AskForSteering(m)
                /\ CreateApproval(MonitorRequest(mon[m].f, "steering", {}))
             \/ /\ ProposeImprovement(m)
                /\ CreateApproval(MonitorRequest(mon[m].f, "improvement",
                     mon[m].snap[Findings[mon[m].f].workflow].content \cup {n + 1}))
  BY <1>3 DEF MonitorStep, Scan, RecordFinding, ReadRun, SaveRun, CheckDuplicate,
     AskForSteering, ProposeImprovement, Rows
<1>4. ASSUME NEW o \in Operators, OperatorStep(o), Rows' # Rows
      PROVE  \E part \in Nat : CreateChild(o) /\ CreateApproval(Child(op[o].row, part))
  <2>1. PICK part \in op[o].left : CreateApproval(Child(op[o].row, part))
    BY <1>4, OperatorAdds
  <2>2. op[o].pc = "children"
    BY <1>4, OperatorAdds
  <2>3. part \in Nat
    BY <2>2, OpTyped DEF OpStage
  <2>4. CreateChild(o)
    <3>1. approvals' # approvals
      BY <1>4 DEF Rows
    <3> QED BY <1>4, <2>2, <3>1
        DEF OperatorStep, Decide, Fetch, Save, Blocked, ReadTarget, Define,
        CreateSchedule, ListRuns, ReplaceRun, ListWorkflows, SyncWorkflow, Launch,
        Link, SaveLink, RunTool, Steer, Guide, Mark, SaveMark, SaveDraft
  <2> QED BY <2>1, <2>3, <2>4
<1>5. CASE Rows' # Rows
  <2>1. CASE \E p \in Proposals : ProposeInChat(p)
    <3>1. PICK p \in Proposals : ProposeInChat(p)
      BY <2>1
    <3> DEFINE row == Request(p.action, p.target,
                              defs[p.target].content \cup {n + 1}, p.extra)
    <3>2. CreateApproval(row)
      BY <1>2, <3>1
    <3>3. /\ Rows' = Rows \cup {n + 1} /\ approvals'[n + 1] = row
          /\ CreateApproval(approvals'[n + 1])
      BY <1>1, <3>2
    <3> QED BY <3>1, <3>3
  <2>2. CASE \E m \in Monitors : MonitorStep(m)
    <3>1. PICK m \in Monitors : MonitorStep(m)
      BY <2>2
    <3> DEFINE s == MonitorRequest(mon[m].f, "steering", {})
               i == MonitorRequest(mon[m].f, "improvement",
                      mon[m].snap[Findings[mon[m].f].workflow].content \cup {n + 1})
    <3>2. CASE AskForSteering(m) /\ CreateApproval(s)
      <4>1. /\ Rows' = Rows \cup {n + 1} /\ approvals'[n + 1] = s
            /\ CreateApproval(approvals'[n + 1])
        BY <1>1, <3>2
      <4> QED BY <3>2, <4>1
    <3>3. CASE ProposeImprovement(m) /\ CreateApproval(i)
      <4>1. /\ Rows' = Rows \cup {n + 1} /\ approvals'[n + 1] = i
            /\ CreateApproval(approvals'[n + 1])
        BY <1>1, <3>3
      <4> QED BY <3>3, <4>1
    <3> QED BY <1>3, <1>5, <3>1, <3>2, <3>3
  <2>3. CASE \E o \in Operators : OperatorStep(o)
    <3>1. PICK o \in Operators : OperatorStep(o)
      BY <2>3
    <3> QED BY <1>1, <1>4, <1>5, <3>1
  <2>4. ~((\E w \in Workflows, e \in Edits : EditWorkflow(w, e)) \/ Crash \/ UNCHANGED vars)
    BY <1>5 DEF EditWorkflow, Crash, vars, Rows
  <2> QED BY <2>1, <2>2, <2>3, <2>4, NextSplits DEF Others
<1> QED BY <1>5

LEMMA NotAskedStep ==
  ASSUME Shapes, Requests, NotAsked, OnePendingPerProblem, AskedAlone, [Next]_vars
  PROVE  NotAsked' /\ OnePendingPerProblem'
<1> DEFINE n == Len(approvals)
<1>0. n \in Nat /\ Rows = 1..n /\ \A a \in Rows : approvals[a] \in RowIn(n)
  BY RowTyped DEF Shapes, RowsShape, Rows
<1>1. RowsStay
  BY RowsStayStep
<1>2. ASSUME NEW a \in Rows, approvals'[a].status = "pending"
      PROVE  approvals[a].status = "pending" /\ SameRequest(approvals'[a], approvals[a])
  BY <1>1, <1>2 DEF RowsStay
<1>3. ASSUME NEW a \in Rows, NEW f, NEW kind, Asks(a, f, kind)'
      PROVE  Asks(a, f, kind)
  BY <1>2, <1>3 DEF Asks, SameRequest
<1>4. PICK k : k = n + 1
  OBVIOUS
\* A new row that is about a problem is one of a scan.
<1>5. ASSUME Rows' # Rows
      PROVE  /\ Rows' = Rows \cup {k}
             /\ \/ approvals'[k].kind = None \/ approvals'[k].change # k
                \/ \E m \in Monitors :
                     /\ AskForSteering(m) \/ ProposeImprovement(m)
                     /\ approvals'[k].kind =
                          IF mon[m].pc = "asking" THEN "steering" ELSE "improvement"
                     /\ mon[m].pc \in {"asking", "proposing"}
                     /\ approvals'[k].key = Findings[mon[m].f].key
                     /\ approvals'[k].target = Findings[mon[m].f].workflow
  <2>1. Rows' = Rows \cup {k}
    BY <1>4, <1>5, NewRows
  <2>2. CASE \E p \in Proposals :
               approvals'[k] = Request(p.action, p.target,
                                 defs[p.target].content \cup {n + 1}, p.extra)
    BY <2>1, <2>2 DEF Request
  <2>3. ASSUME NEW f, NEW kind, NEW content
        PROVE  /\ MonitorRequest(f, kind, content).kind = kind
               /\ MonitorRequest(f, kind, content).key = Findings[f].key
               /\ MonitorRequest(f, kind, content).target = Findings[f].workflow
    BY DEF MonitorRequest, Request
  <2>4. CASE \E m \in Monitors :
               /\ AskForSteering(m)
               /\ approvals'[k] = MonitorRequest(mon[m].f, "steering", {})
    BY <2>1, <2>3, <2>4 DEF AskForSteering
  <2>5. CASE \E m \in Monitors :
               /\ ProposeImprovement(m)
               /\ approvals'[k] = MonitorRequest(mon[m].f, "improvement",
                    mon[m].snap[Findings[mon[m].f].workflow].content \cup {n + 1})
    <3>1. PICK m \in Monitors :
            /\ ProposeImprovement(m)
            /\ approvals'[k] = MonitorRequest(mon[m].f, "improvement",
                 mon[m].snap[Findings[mon[m].f].workflow].content \cup {n + 1})
      BY <2>5
    <3>2. mon[m].pc = "proposing"
      BY <3>1 DEF ProposeImprovement
    <3>3. /\ approvals'[k].kind = "improvement"
          /\ approvals'[k].key = Findings[mon[m].f].key
          /\ approvals'[k].target = Findings[mon[m].f].workflow
      BY <2>3, <3>1
    <3> QED BY <2>1, <3>1, <3>2, <3>3
  <2>6. CASE \E o \in Operators, part \in Nat :
               CreateChild(o) /\ approvals'[k] = Child(op[o].row, part)
    <3>1. PICK o \in Operators, part \in Nat :
                 CreateChild(o) /\ approvals'[k] = Child(op[o].row, part)
      BY <2>6
    <3>2. op[o].row \in RowIn(n)
      BY <3>1, OpTyped DEF CreateChild, OpStage, Busy, Closing
    <3>3. approvals'[k].change \in 1..n
      BY <3>1, <3>2 DEF Child, RowIn
    <3>4. k \notin 1..n
      BY <1>0, <1>4
    <3> QED BY <2>1, <3>3, <3>4
  <2> QED BY <1>4, <1>5, <2>2, <2>4, <2>5, <2>6, NewRows
\* A scan stays as it is, ends, or has just found nothing pending.
<1>6. ASSUME NEW q \in Monitors
      PROVE  \/ mon'[q] = mon[q]
             \/ mon'[q].pc \notin {"asking", "proposing"}
             \/ /\ Rows' = Rows /\ approvals' = approvals /\ mon'[q].f = mon[q].f
                /\ mon'[q].pc = "asking" => ~PendingFor(mon[q].f, "steering")
                /\ mon'[q].pc = "proposing" => ~PendingFor(mon[q].f, "improvement")
  <2>1. Resting.pc = "idle"
    BY DEF Resting
  <2>2. ASSUME NEW m \in Monitors, MonitorStep(m), mon'[q] # mon[q],
               mon'[q].pc \in {"asking", "proposing"}
        PROVE  /\ Rows' = Rows /\ approvals' = approvals /\ mon'[q].f = mon[q].f
               /\ mon'[q].pc = "asking" => ~PendingFor(mon[q].f, "steering")
               /\ mon'[q].pc = "proposing" => ~PendingFor(mon[q].f, "improvement")
    <3>1. q = m
      BY <2>2, MonitorMoves
    <3>2. mon'[q] # Resting
      BY <2>1, <2>2
    <3> QED BY <2>2, <3>1, <3>2, MonitorMoves DEF Rows
  <2>3. CASE \E o \in Operators : OperatorStep(o)
    BY <2>3 DEF OperatorStep, Unmoved, Decide, Fetch, Save, CreateChild, Blocked,
       ReadTarget, Define, CreateSchedule, ListRuns, ReplaceRun, ListWorkflows,
       SyncWorkflow, Launch, Link, SaveLink, RunTool, Steer, Guide, Mark, SaveMark,
       SaveDraft
  <2>4. CASE \E p \in Proposals : ProposeInChat(p)
    BY <2>4 DEF ProposeInChat
  <2>5. CASE (\E w \in Workflows, e \in Edits : EditWorkflow(w, e)) \/ UNCHANGED vars
    BY <2>5 DEF EditWorkflow, vars
  <2>6. CASE Crash
    BY <2>1, <2>6 DEF Crash
  <2> QED BY <2>2, <2>3, <2>4, <2>5, <2>6, NextSplits DEF Others
<1>7. ASSUME NEW q \in Monitors, NEW a \in Rows', NEW f, NEW kind, f = mon'[q].f,
             \/ mon'[q].pc = "asking" /\ kind = "steering"
             \/ mon'[q].pc = "proposing" /\ kind = "improvement",
             Asks(a, f, kind)'
      PROVE  FALSE
  <2>1. CASE mon'[q] = mon[q] /\ a \in Rows
    BY <1>3, <1>7, <2>1 DEF NotAsked
  <2>2. CASE mon'[q] = mon[q] /\ a \notin Rows
    <3>1. Rows' # Rows /\ a = k
      BY <1>5, <1>7, <2>2
    <3>2. approvals'[k].kind # None /\ approvals'[k].change = k
      BY <1>7, <3>1 DEF Asks, None
    <3>3. PICK m \in Monitors :
            /\ AskForSteering(m) \/ ProposeImprovement(m)
            /\ approvals'[k].kind =
                 IF mon[m].pc = "asking" THEN "steering" ELSE "improvement"
            /\ mon[m].pc \in {"asking", "proposing"}
            /\ approvals'[k].key = Findings[mon[m].f].key
            /\ approvals'[k].target = Findings[mon[m].f].workflow
      BY <1>5, <3>1, <3>2
    <3>4. m = q
      BY <1>7, <2>2, <3>1, <3>3 DEF Asks, AskedAlone
    <3>5. mon'[m] = Resting \/ mon'[m].pc \notin {"asking", "proposing"}
      BY <3>1, <3>3, MonitorMoves DEF MonitorStep, Rows
    <3> QED BY <1>7, <3>4, <3>5 DEF Resting
  <2>3. CASE mon'[q] # mon[q]
    <3>1. /\ Rows' = Rows /\ approvals' = approvals /\ f = mon[q].f
          /\ ~PendingFor(f, kind)
      BY <1>6, <1>7, <2>3
    <3> QED BY <1>7, <3>1 DEF Asks, PendingFor
  <2> QED BY <2>1, <2>2, <2>3
<1>8. NotAsked'
  <2>1. ASSUME NEW q \in Monitors, NEW a \in Rows', mon'[q].pc = "asking",
               Asks(a, mon[q].f, "steering")'
        PROVE  FALSE
    <3>1. PICK f : f = mon'[q].f
      OBVIOUS
    <3>2. Asks(a, f, "steering")'
      BY <2>1, <3>1 DEF Asks
    <3> QED BY <1>7, <2>1, <3>1, <3>2
  <2>2. ASSUME NEW q \in Monitors, NEW a \in Rows', mon'[q].pc = "proposing",
               Asks(a, mon[q].f, "improvement")'
        PROVE  FALSE
    <3>1. PICK f : f = mon'[q].f
      OBVIOUS
    <3>2. Asks(a, f, "improvement")'
      BY <2>2, <3>1 DEF Asks
    <3> QED BY <1>7, <2>2, <3>1, <3>2
  <2> QED BY <2>1, <2>2 DEF NotAsked
<1>9. OnePendingPerProblem'
  <2> DEFINE Same(a, b) ==
        /\ approvals'[a].status = "pending" /\ approvals'[b].status = "pending"
        /\ approvals'[a].kind # None /\ approvals'[a].kind = approvals'[b].kind
        /\ approvals'[a].key = approvals'[b].key
        /\ approvals'[a].target = approvals'[b].target
        /\ approvals'[a].change = a /\ approvals'[b].change = b
  <2>1. ASSUME NEW a \in Rows, NEW b \in Rows, Same(a, b) PROVE a = b
    <3>1. /\ approvals[a].status = "pending" /\ approvals[b].status = "pending"
          /\ SameRequest(approvals'[a], approvals[a])
          /\ SameRequest(approvals'[b], approvals[b])
      BY <1>2, <2>1
    <3> QED BY <2>1, <3>1 DEF SameRequest, OnePendingPerProblem
  <2>2. ASSUME Rows' # Rows, NEW b \in Rows, Same(k, b) PROVE FALSE
    <3>1. PICK m \in Monitors :
            /\ approvals'[k].kind =
                 IF mon[m].pc = "asking" THEN "steering" ELSE "improvement"
            /\ mon[m].pc \in {"asking", "proposing"}
            /\ approvals'[k].key = Findings[mon[m].f].key
            /\ approvals'[k].target = Findings[mon[m].f].workflow
      BY <1>5, <2>2
    <3>2. approvals[b].status = "pending" /\ SameRequest(approvals'[b], approvals[b])
      BY <1>2, <2>2
    <3>3. Asks(b, mon[m].f, IF mon[m].pc = "asking" THEN "steering" ELSE "improvement")
      BY <2>2, <3>1, <3>2 DEF Asks, SameRequest
    <3> QED BY <3>1, <3>3 DEF NotAsked
  <2>3. \A a, b : Same(a, b) => Same(b, a)
    OBVIOUS
  <2> HIDE DEF Same
  <2>4. \A a, b \in Rows' : Same(a, b) => a = b
    <3> SUFFICES ASSUME NEW a \in Rows', NEW b \in Rows', Same(a, b) PROVE a = b
      OBVIOUS
    <3>1. CASE Rows' = Rows
      BY <2>1, <3>1
    <3>2. CASE Rows' # Rows
      <4>1. (a \in Rows \/ a = k) /\ (b \in Rows \/ b = k)
        BY <1>5, <3>2
      <4> QED BY <2>1, <2>2, <2>3, <3>2, <4>1
    <3> QED BY <3>1, <3>2
  <2> QED BY <2>4 DEF OnePendingPerProblem, Same
<1> QED BY <1>8, <1>9

\* The monitor asks once for a problem: of the requests about a noise key that
\* no split made at most one is pending, as long as no two scans are between
\* looking for a duplicate and inserting the request for the same problem
\* (main_agent_workflow_monitor.py, _pending_monitor_approval_for_noise_key).
THEOREM AskedOnce == Spec /\ []AskedAlone => []OnePendingPerProblem
<1>1. Init => NotAsked /\ OnePendingPerProblem
  BY DEF Init, NotAsked, OnePendingPerProblem, Rows
<1>2. /\ Shapes /\ Requests /\ NotAsked /\ OnePendingPerProblem /\ AskedAlone /\ [Next]_vars
      => NotAsked' /\ OnePendingPerProblem'
  BY NotAskedStep
<1> QED BY <1>1, <1>2, ShapesHold, PTL DEF Spec

-----------------------------------------------------------------------------
(* What is carried out was approved.                                       *)

\* As rows keep their decisions, what was approved stays approved.
LEMMA Steady ==
  ASSUME RowsKeep
  PROVE  /\ \A c : Approved(c) => Approved(c)'
         /\ \A c, d : Creator(c, d) => Creator(c, d)'
         /\ \A d, x : FromApproved(d, x) => FromApproved(d, x)'
         /\ \A r : Steered(r) => Steered(r)'
<1>1. \A c : Approved(c) => Approved(c)'
  BY DEF RowsKeep, SameRequest, Approved
<1>2. \A c, d : Creator(c, d) => Creator(c, d)'
  BY DEF RowsKeep, SameRequest, Creator
<1>3. \A d, x : FromApproved(d, x) => FromApproved(d, x)'
  BY <1>1, <1>2 DEF FromApproved
<1>4. \A r : Steered(r) => Steered(r)'
  <2> SUFFICES ASSUME NEW r, Steered(r), NEW f \in FindingIds, r.requests[f] = "applied"
               PROVE  \/ "auto" \in Findings[f].kinds
                      \/ \E a \in Rows' : approvals'[a].finding = f
                                          /\ approvals'[a].status = "approved"
    BY DEF Steered
  <2>1. CASE "auto" \in Findings[f].kinds
    BY <2>1
  <2>2. CASE \E a \in Rows : approvals[a].finding = f /\ approvals[a].status = "approved"
    BY <2>2 DEF RowsKeep, SameRequest
  <2> QED BY <2>1, <2>2 DEF Steered
<1> QED BY <1>1, <1>2, <1>3, <1>4

\* The request behind a handler, and that it was approved.
LEMMA ItsRow ==
  ASSUME Shapes, Requests, NEW o \in Operators, op[o].pc \in Busy
  PROVE  /\ op[o].id \in Rows /\ op[o].row \in RowIn(Len(approvals))
         /\ SameRequest(op[o].row, approvals[op[o].id])
         /\ op[o].row.change \in 1..Len(approvals) /\ op[o].row.target \in Defs
<1>1. op[o].id \in 1..Len(approvals) /\ op[o].row \in RowIn(Len(approvals))
  BY OpTyped DEF OpStage
<1>2. op[o].id \in Rows
  BY <1>1 DEF Shapes, RowsShape, Rows
<1> QED BY <1>1, <1>2 DEF Requests, ReadsItsRow, RowIn

LEMMA ItsApproval ==
  ASSUME Shapes, Requests, Decided, NEW o \in Operators,
         op[o].pc \in Busy \ Choosing, op[o].decision = "approve"
  PROVE  /\ Approved(op[o].row.change)
         /\ \E a \in Rows : /\ approvals[a].finding = op[o].row.finding
                            /\ approvals[a].status = "approved"
<1>1. op[o].id \in Rows /\ SameRequest(op[o].row, approvals[op[o].id])
  BY ItsRow
<1>2. approvals[op[o].id].status = "approved"
  BY DEF Decided, DecidesItsRow, StatusOf
<1> QED BY <1>1, <1>2 DEF Approved, SameRequest

\* What a definition holds is approved or created it.
LEMMA ContentIsKnown ==
  ASSUME NEW n \in Nat, NEW d, NEW x \in DefIn(n), FromApproved(d, x),
         NEW c \in x.content \ Edits
  PROVE  Approved(c) \/ Creator(c, d)
<1>1. c \in 1..n
  BY DEF DefIn, Changes
<1>2. c # 0
  BY <1>1
<1> QED BY <1>2 DEF FromApproved

LEMMA ProposesStep ==
  ASSUME Shapes, Requests, Decided, Proposes, Sourced, [Next]_vars
  PROVE  Proposes'
<1> DEFINE n == Len(approvals)
<1>0. n \in Nat /\ Rows = 1..n
  BY DEF Shapes, RowsShape, Rows
<1>1. RowsKeep
  BY RowsKeepStep
<1>2. /\ \A c : Approved(c) => Approved(c)'
      /\ \A c, d : Creator(c, d) => Creator(c, d)'
  BY <1>1, Steady
<1>3. PICK k : k = n + 1
  OBVIOUS
<1> DEFINE Fine(a) ==
      /\ approvals'[a].action \in Creates =>
           approvals'[a].target \in Fresh /\ approvals'[a].parts = 0
      /\ approvals'[a].action = "agent_update" => approvals'[a].target \in Agents
      /\ \A c \in approvals'[a].payload \ Edits :
           \/ c = approvals'[a].change \/ Approved(c)'
           \/ \E d : d = approvals'[a].target /\ Creator(c, d)'
<1>4. ASSUME NEW a \in Rows PROVE Fine(a)
  <2>1. SameRequest(approvals'[a], approvals[a])
    BY <1>1 DEF RowsKeep
  <2> QED BY <1>2, <2>1 DEF Proposes, SameRequest
<1>5. ASSUME Rows' # Rows
      PROVE  /\ Rows' = Rows \cup {k} /\ Fine(k)
             /\ approvals'[k].action \in Creates =>
                  \A a \in Rows : approvals[a].target # approvals'[k].target
  <2>1. Rows' = Rows \cup {k}
    BY <1>3, <1>5, NewRows
  <2>2. ASSUME NEW p \in Proposals, ProposeInChat(p),
               approvals'[k] = Request(p.action, p.target,
                                 defs[p.target].content \cup {k}, p.extra)
        PROVE  /\ Fine(k)
               /\ approvals'[k].action \in Creates =>
                    \A a \in Rows : approvals[a].target # approvals'[k].target
    <3>1. p.action \in Creates =>
            p.target \in Fresh /\ \A a \in Rows : approvals[a].target # p.target
      BY <2>2 DEF ProposeInChat, Creates
    <3>2. p.target \in Defs /\ (p.action = "agent_update" => p.target \in Agents)
      BY ApprovalsAssumption DEF Defs
    <3>3. /\ approvals'[k].action = p.action /\ approvals'[k].target = p.target
          /\ approvals'[k].parts = 0 /\ approvals'[k].change = k
          /\ approvals'[k].payload = defs[p.target].content \cup {k}
      BY <1>3, <2>2 DEF Request
    <3>4. defs[p.target] \in DefIn(n) /\ FromApproved(p.target, defs[p.target])
      BY <3>2 DEF Shapes, DefsShape, Sourced
    <3>5. \A c \in defs[p.target].content \ Edits : Approved(c) \/ Creator(c, p.target)
      BY <1>0, <3>4, ContentIsKnown
    <3> QED BY <1>2, <3>1, <3>2, <3>3, <3>5
  <2>3. ASSUME NEW m \in Monitors, NEW kind \in {"steering", "improvement"},
               NEW content, approvals'[k] = MonitorRequest(mon[m].f, kind, content),
               \/ content = {}
               \/ /\ mon[m].pc = "proposing"
                  /\ content = mon[m].snap[Findings[mon[m].f].workflow].content \cup {k}
        PROVE  Fine(k) /\ approvals'[k].action \notin Creates
    <3>1. /\ approvals'[k].action \in {"supervisor_steering", "workflow_update"}
          /\ approvals'[k].target = Findings[mon[m].f].workflow
          /\ approvals'[k].change = k /\ approvals'[k].payload = content
      BY <1>3, <2>3 DEF MonitorRequest, Request
    <3>2. CASE content = {}
      BY <3>1, <3>2 DEF Creates
    <3>3. CASE mon[m].pc = "proposing"
               /\ content = mon[m].snap[Findings[mon[m].f].workflow].content \cup {k}
      <4> DEFINE w == Findings[mon[m].f].workflow
      <4>1. mon[m].f \in FindingIds /\ mon[m].snap \in [Workflows -> DefIn(n)]
        BY <3>3 DEF Shapes, MonsShape, MonStage, MonStages
      <4>2. w \in Workflows
        BY <4>1, ApprovalsAssumption DEF FindingIds
      <4>3. FromApproved(w, mon[m].snap[w])
        BY <3>3, <4>2 DEF Sourced, MonHolds, MonStages
      <4>4. \A c \in mon[m].snap[w].content \ Edits : Approved(c) \/ Creator(c, w)
        BY <1>0, <4>1, <4>2, <4>3, ContentIsKnown
      <4> HIDE DEF w
      <4>5. approvals'[k].target = w /\ content = mon[m].snap[w].content \cup {k}
        BY <3>1, <3>3 DEF w
      <4> QED BY <1>2, <3>1, <4>4, <4>5 DEF Creates
    <3> QED BY <2>3, <3>2, <3>3
  <2>4. ASSUME NEW o \in Operators, NEW part \in Nat, CreateChild(o),
               approvals'[k] = Child(op[o].row, part)
        PROVE  Fine(k) /\ approvals'[k].action \notin Creates
    <3> DEFINE x == op[o]
    <3>1. x.pc = "children" /\ x.pc \in Busy
      BY <2>4 DEF CreateChild, Busy, Closing
    <3>2. x.id \in Rows /\ x.row \in RowIn(n) /\ SameRequest(x.row, approvals[x.id])
      BY <3>1, ItsRow
    <3>3. /\ approvals'[k].action \in {x.row.action, "review"}
          /\ approvals'[k].target = x.row.target /\ approvals'[k].payload = x.row.payload
          /\ approvals'[k].change = x.row.change
      BY <2>4, <3>2 DEF Child, RowIn
    <3>4. x.row.action \notin Creates
      BY <3>1 DEF Sourced, OpHolds
    <3>5. /\ x.row.action = "agent_update" => x.row.target \in Agents
          /\ \A c \in x.row.payload \ Edits :
               c = x.row.change \/ Approved(c) \/ Creator(c, x.row.target)
      BY <3>2 DEF Proposes, SameRequest
    <3> QED BY <1>2, <3>3, <3>4, <3>5 DEF Creates
  <2>5. CASE \E p \in Proposals :
               /\ ProposeInChat(p)
               /\ approvals'[k] = Request(p.action, p.target,
                                    defs[p.target].content \cup {k}, p.extra)
    BY <2>1, <2>2, <2>5
  <2>6. CASE \E m \in Monitors :
               /\ AskForSteering(m)
               /\ approvals'[k] = MonitorRequest(mon[m].f, "steering", {})
    BY <2>1, <2>3, <2>6
  <2>7. CASE \E m \in Monitors :
               /\ ProposeImprovement(m)
               /\ approvals'[k] = MonitorRequest(mon[m].f, "improvement",
                    mon[m].snap[Findings[mon[m].f].workflow].content \cup {k})
    <3>1. PICK m \in Monitors :
               /\ ProposeImprovement(m)
               /\ approvals'[k] = MonitorRequest(mon[m].f, "improvement",
                    mon[m].snap[Findings[mon[m].f].workflow].content \cup {k})
      BY <2>7
    <3>2. mon[m].pc = "proposing"
      BY <3>1 DEF ProposeImprovement
    <3> QED BY <2>1, <2>3, <3>1, <3>2
  <2>8. CASE \E o \in Operators, part \in Nat :
               CreateChild(o) /\ approvals'[k] = Child(op[o].row, part)
    BY <2>1, <2>4, <2>8
  <2> HIDE DEF Fine
  <2> QED BY <1>3, <1>5, <2>5, <2>6, <2>7, <2>8, NewRows
<1>6. \A a \in Rows' : /\ Fine(a)
                       /\ \A c \in approvals'[a].payload \ Edits :
                            \/ c = approvals'[a].change \/ Approved(c)'
                            \/ Creator(c, approvals[a].target)'
  <2>1. \A a \in Rows' : Fine(a)
    BY <1>4, <1>5
  <2>2. \A a, c : (\E d : d = approvals'[a].target /\ Creator(c, d)')
                    => Creator(c, approvals[a].target)'
    BY DEF Creator
  <2> QED BY <2>1, <2>2
<1>7. ASSUME NEW a \in Rows', NEW b \in Rows',
             approvals'[a].action \in Creates, approvals'[b].action \in Creates,
             approvals'[a].target = approvals'[b].target
      PROVE  a = b
  <2>1. ASSUME NEW i \in Rows
        PROVE  /\ approvals'[i].action = approvals[i].action
               /\ approvals'[i].target = approvals[i].target
    BY <1>1 DEF RowsKeep, SameRequest
  <2>2. (a \in Rows \/ a = k) /\ (b \in Rows \/ b = k)
    BY <1>5
  <2>3. CASE a \in Rows /\ b \in Rows
    BY <1>7, <2>1, <2>3 DEF Proposes
  <2>4. CASE a \notin Rows \/ b \notin Rows
    BY <1>5, <1>7, <2>1, <2>2, <2>4
  <2> QED BY <2>3, <2>4
<1> QED BY <1>6, <1>7 DEF Proposes

\* What Define and SaveDraft write: the payload of the request, or the
\* change of a steering request made to what is stored.
LEMMA ProposedIsSourced ==
  ASSUME Shapes, Requests, Proposes, NEW o \in Operators, op[o].pc \in Busy,
         NEW current \in DefIn(Len(approvals)),
         op[o].row.action \notin Creates =>
           /\ FromApproved(op[o].row.target, current) /\ current.live
           /\ Approved(op[o].row.change)
  PROVE  FromApproved(op[o].row.target, Proposed(op[o].row, current))
<1> DEFINE n == Len(approvals)
           row == op[o].row
           i == op[o].id
           new == Proposed(row, current)
<1>1. i \in Rows /\ row \in RowIn(n) /\ SameRequest(row, approvals[i])
      /\ row.change \in 1..n
  BY ItsRow
<1>2. n \in Nat /\ row.change # 0
  BY <1>1 DEF Shapes, RowsShape
<1>3. /\ \A c \in row.payload \ Edits :
           c = row.change \/ Approved(c) \/ Creator(c, row.target)
      /\ \A a, b \in Rows : /\ approvals[a].action \in Creates
                            /\ approvals[b].action \in Creates
                            /\ approvals[a].target = approvals[b].target
                            => a = b
      /\ \A a \in Rows : approvals[a].action \in Creates => approvals[a].target \in Fresh
  <2>1. \A c \in approvals[i].payload \ Edits :
          c = approvals[i].change \/ Approved(c) \/ Creator(c, approvals[i].target)
    BY <1>1 DEF Proposes
  <2>2. \A c \in row.payload \ Edits :
          c = row.change \/ Approved(c) \/ Creator(c, row.target)
    BY <1>1, <2>1 DEF SameRequest
  <2>3. \A a, b \in Rows : /\ approvals[a].action \in Creates
                           /\ approvals[b].action \in Creates
                           /\ approvals[a].target = approvals[b].target
                           => a = b
    BY DEF Proposes
  <2>4. \A a \in Rows : approvals[a].action \in Creates => approvals[a].target \in Fresh
    BY DEF Proposes
  <2> HIDE DEF row
  <2> QED BY <2>2, <2>3, <2>4
<1>4. new.live = TRUE
  BY DEF Proposed
<1> HIDE DEF i, row
<1>5. CASE row.action \in Creates
  <2>1. new.content = row.payload /\ new.origin = row.change
    BY <1>5 DEF Proposed, Creates
  <2> HIDE DEF new
  <2>2. Creator(row.change, row.target)
    BY <1>1, <1>5 DEF Creator, SameRequest
  <2>3. ASSUME NEW c, Creator(c, row.target) PROVE c = row.change
    <3>1. PICK b \in Rows : /\ approvals[b].change = c /\ approvals[b].target = row.target
                            /\ approvals[b].action \in Creates
      BY <2>3 DEF Creator
    <3>2. approvals[i].action \in Creates /\ approvals[i].target = row.target
          /\ approvals[i].change = row.change
      BY <1>1, <1>5 DEF SameRequest
    <3>3. b = i
      BY <1>1, <1>3, <3>1, <3>2
    <3> QED BY <3>1, <3>2, <3>3
  <2>4. FromApproved(row.target, new)
    BY <1>2, <1>3, <2>1, <2>2, <2>3 DEF FromApproved
  <2> QED BY <2>4 DEF row, new
<1>6. CASE row.action \notin Creates
  <2>1. /\ FromApproved(row.target, current) /\ current.live /\ Approved(row.change)
    BY <1>6 DEF row
  <2>2. new.origin = current.origin
    BY <1>6 DEF Proposed, Creates
  <2>3. \A c \in new.content \ Edits : c = current.origin \/ Approved(c)
    <3>1. CASE row.action = "supervisor_steering"
      <4>1. new.content = current.content \cup {row.change}
        BY <3>1 DEF Proposed
      <4> HIDE DEF new
      <4> QED BY <2>1, <4>1 DEF FromApproved
    <3>2. CASE row.action # "supervisor_steering"
      <4>1. new.content = row.payload
        BY <3>2 DEF Proposed
      <4>2. ASSUME NEW c, Creator(c, row.target) PROVE c = current.origin
        <5>1. PICK b \in Rows : /\ approvals[b].change = c /\ approvals[b].target = row.target
                                /\ approvals[b].action \in Creates
          BY <4>2 DEF Creator
        <5>2. row.target \in Fresh
          BY <1>3, <5>1
        <5>3. Creator(current.origin, row.target)
          BY <2>1, <5>2 DEF FromApproved
        <5>4. PICK e \in Rows : /\ approvals[e].change = current.origin
                                /\ approvals[e].target = row.target
                                /\ approvals[e].action \in Creates
          BY <5>3 DEF Creator
        <5>5. b = e
          BY <1>3, <5>1, <5>4
        <5> QED BY <5>1, <5>4, <5>5
      <4> HIDE DEF new
      <4> QED BY <1>3, <2>1, <4>1, <4>2
    <3> QED BY <3>1, <3>2
  <2> HIDE DEF new
  <2>4. FromApproved(row.target, new)
    BY <1>4, <2>1, <2>2, <2>3 DEF FromApproved
  <2> QED BY <2>4 DEF row, new
<1> QED BY <1>5, <1>6

\* A steering request is marked as applied by its approval, or by a scan that
\* applies it automatically.
LEMMA MarkedIsSteered ==
  ASSUME NEW n, NEW copy \in RunIn(n), Steered(copy), NEW g, NEW status,
         status = "applied" =>
           \/ "auto" \in Findings[g].kinds
           \/ \E a \in Rows : approvals[a].finding = g /\ approvals[a].status = "approved"
  PROVE  /\ Steered(Marked(copy, g, status))
         /\ Steered([copy EXCEPT !.requests[g] = status])
<1> DEFINE r == [copy EXCEPT !.requests[g] = status]
<1>1. ASSUME NEW f \in FindingIds, r.requests[f] = "applied"
      PROVE  copy.requests[f] = "applied" \/ (f = g /\ status = "applied")
  <2>1. r.requests = [copy.requests EXCEPT ![g] = status]
    BY DEF RunIn
  <2>2. copy.requests \in [FindingIds -> {None, "requested", "applied", "rejected",
                                          "pending_approval"}]
    BY DEF RunIn
  <2> HIDE DEF r
  <2> QED BY <1>1, <2>1, <2>2
<1> HIDE DEF r
<1>2. Steered(r)
  BY <1>1 DEF Steered
<1> QED BY <1>2 DEF Marked, r

\* The definitions.
LEMMA DefsSourced ==
  ASSUME Shapes, Requests, Decided, Proposes, Sourced, [Next]_vars, NEW d \in Defs
  PROVE  FromApproved(d, defs'[d])
<1> DEFINE n == Len(approvals)
<1>0. defs \in [Defs -> DefIn(n)] /\ n \in Nat
  BY DEF Shapes, DefsShape, RowsShape
<1>1. FromApproved(d, defs[d])
  BY DEF Sourced
<1>2. ASSUME NEW o \in Operators, OperatorStep(o), defs' # defs
      PROVE  FromApproved(d, defs'[d])
  <2> DEFINE x == op[o]
             row == x.row
  <2>1. Define(o) \/ CreateSchedule(o) \/ SyncWorkflow(o) \/ SaveDraft(o)
    BY <1>2 DEF OperatorStep, Decide, Fetch, Save, CreateChild, Blocked, ReadTarget,
       ListRuns, ReplaceRun, ListWorkflows, Launch, Link, SaveLink, RunTool, Steer,
       Guide, Mark, SaveMark
  <2>2. x.pc \in Busy \ Choosing
    BY <2>1 DEF Define, CreateSchedule, SyncWorkflow, SaveDraft, Busy, Choosing,
       Applying, Following, Closing
  <2>3. CASE Define(o)
    <3>1. x.pc = "define" /\ defs' = [defs EXCEPT ![row.target] = Proposed(row, x.current)]
      BY <2>3 DEF Define
    <3>2. x.current \in DefIn(n)
      BY <3>1, OpTyped DEF OpStage
    <3>3. row.action \notin Creates =>
            /\ FromApproved(row.target, x.current) /\ x.current.live
            /\ Approved(row.change)
      BY <2>2, <3>1, ItsApproval
         DEF Sourced, OpHolds, Decided, DecidesItsRow, Applying
    <3>4. FromApproved(row.target, Proposed(row, x.current))
      BY <2>2, <3>2, <3>3, ProposedIsSourced
    <3> QED BY <1>0, <1>1, <3>1, <3>4
  <2>4. CASE CreateSchedule(o)
    <3>1. defs' = [defs EXCEPT ![row.target].scheduled = TRUE]
      BY <2>4 DEF CreateSchedule
    <3>2. /\ defs'[d].live = defs[d].live /\ defs'[d].content = defs[d].content
          /\ defs'[d].origin = defs[d].origin
      BY <1>0, <3>1 DEF DefIn
    <3> QED BY <1>1, <3>2 DEF FromApproved
  <2>5. CASE SyncWorkflow(o)
    <3>1. x.pc = "sync" /\ x.left \subseteq Workflows /\ x.current \in [Defs -> DefIn(n)]
      BY <2>5, OpTyped DEF SyncWorkflow, OpStage
    <3>2. PICK w \in x.left : defs' = [defs EXCEPT ![w] = [x.current[w] EXCEPT
                                !.content = (@ \ AgentChanges) \cup row.payload]]
      BY <2>5 DEF SyncWorkflow
    <3> DEFINE old == x.current[w]
               new == [old EXCEPT !.content = (@ \ AgentChanges) \cup row.payload]
    <3>3. FromApproved(w, old) /\ old \in DefIn(n)
      BY <3>1, <3>2 DEF Sourced, OpHolds, Defs
    <3>4. /\ new.live = old.live /\ new.origin = old.origin
          /\ new.content = (old.content \ AgentChanges) \cup row.payload
      BY <3>3 DEF DefIn
    <3>5. row.action = "agent_update" /\ Approved(row.change)
      BY <2>2, <3>1, ItsApproval DEF Decided, DecidesItsRow, Following
    <3>6. \A c \in row.payload \ Edits : Approved(c)
      <4>1. x.id \in Rows /\ SameRequest(row, approvals[x.id])
        BY <2>2, ItsRow
      <4>2. row.target \in Agents
        BY <3>5, <4>1 DEF Proposes, SameRequest
      <4>3. row.target \notin Fresh
        BY <4>2, ApprovalsAssumption
      <4>4. \A c : ~Creator(c, row.target)
        BY <4>3 DEF Creator, Proposes
      <4> QED BY <3>5, <4>1, <4>4 DEF Proposes, SameRequest
    <3> HIDE DEF new, old
    <3>7. FromApproved(w, new)
      BY <3>3, <3>4, <3>6 DEF FromApproved
    <3>8. defs' = [defs EXCEPT ![w] = new]
      BY <3>2 DEF new, old
    <3> QED BY <1>0, <1>1, <3>7, <3>8
  <2>6. CASE SaveDraft(o)
    <3> DEFINE p == Proposed(row, NoDef)
               new == [p EXCEPT !.published = FALSE]
    <3>1. x.pc = "draft" /\ defs' = [defs EXCEPT ![row.target] = new]
      BY <2>6 DEF SaveDraft
    <3>2. row.action \in Creates
      BY <3>1 DEF Decided, DecidesItsRow, Creates
    <3>3. NoDef \in DefIn(n)
      BY <1>0, EmptyShapes
    <3>4. FromApproved(row.target, p)
      BY <2>2, <3>2, <3>3, ProposedIsSourced
    <3>5. new.live = p.live /\ new.content = p.content /\ new.origin = p.origin
      BY DEF Proposed
    <3> HIDE DEF new, p
    <3>6. FromApproved(row.target, new)
      BY <3>4, <3>5 DEF FromApproved
    <3> QED BY <1>0, <1>1, <3>1, <3>6
  <2> QED BY <2>1, <2>3, <2>4, <2>5, <2>6
<1>3. ASSUME NEW w \in Workflows, NEW e \in Edits, EditWorkflow(w, e)
      PROVE  FromApproved(d, defs'[d])
  <2>1. \/ defs' = [defs EXCEPT ![w].content = @ \cup {e}]
        \/ defs' = [defs EXCEPT ![w].live = FALSE]
    BY <1>3 DEF EditWorkflow
  <2>2. /\ defs'[d].origin = defs[d].origin
        /\ defs'[d].content \ Edits = defs[d].content \ Edits
        /\ defs'[d].live => defs[d].live
    BY <1>0, <2>1 DEF DefIn
  <2> QED BY <1>1, <2>2 DEF FromApproved
<1>4. CASE defs' = defs
  BY <1>1, <1>4
<1>5. ASSUME Others, defs' # defs
      PROVE  \E w \in Workflows, e \in Edits : EditWorkflow(w, e)
  BY <1>5 DEF Others, ProposeInChat, MonitorStep, MonUnmoved, Scan, RecordFinding,
     ReadRun, SaveRun, CheckDuplicate, AskForSteering, ProposeImprovement, Crash, vars
<1> QED BY <1>2, <1>3, <1>4, <1>5, NextSplits

\* The first execution, which the steering requests are about.
LEMMA ExecsSourced ==
  ASSUME Shapes, Requests, Decided, Sourced, [Next]_vars
  PROVE  Steered(execs'[1])
<1> DEFINE n == Len(approvals)
<1>0. execs \in Seq(RunIn(n)) /\ Len(execs) >= 1 /\ Len(execs) \in Nat /\ execs[1] \in RunIn(n)
  BY DEF Shapes, ExecsShape
<1>1. Steered(execs[1])
  BY DEF Sourced
<1>2. ASSUME NEW r, execs' = [execs EXCEPT ![1] = r], Steered(r)
      PROVE  Steered(execs'[1])
  BY <1>0, <1>2
<1>3. ASSUME NEW o \in Operators, OperatorStep(o), execs' # execs
      PROVE  Steered(execs'[1])
  <2> DEFINE x == op[o]
  <2>1. Guide(o) \/ SaveMark(o) \/ ReplaceRun(o) \/ Launch(o)
    BY <1>3 DEF OperatorStep, Decide, Fetch, Save, CreateChild, Blocked, ReadTarget,
       Define, CreateSchedule, ListRuns, ListWorkflows, SyncWorkflow, Link, SaveLink,
       RunTool, Steer, Mark, SaveDraft
  <2>2. CASE Guide(o)
    <3>1. x.pc = "guide" /\ execs' = [execs EXCEPT ![1] = x.copy]
      BY <2>2 DEF Guide
    <3>2. x.row.action = "supervisor_steering"
      BY <3>1, OpTyped DEF OpStage
    <3>3. Steered(x.copy)
      BY <3>1, <3>2 DEF Sourced, OpHolds
    <3> QED BY <1>2, <3>1, <3>3
  <2>3. CASE SaveMark(o)
    <3> DEFINE status == IF x.decision = "approve" THEN "applied" ELSE "rejected"
               r == Marked(x.copy, x.row.finding, status)
    <3>1. x.pc = "marked" /\ execs' = [execs EXCEPT ![1] = r]
      BY <2>3 DEF SaveMark
    <3>2. x.copy \in RunIn(n) /\ Steered(x.copy)
      BY <3>1, OpTyped DEF OpStage, Sourced, OpHolds
    <3>3. status = "applied" => \E a \in Rows : /\ approvals[a].finding = x.row.finding
                                               /\ approvals[a].status = "approved"
      BY <3>1, ItsApproval DEF Busy, Choosing, Closing
    <3> HIDE DEF status
    <3>4. Steered(r)
      BY <3>2, <3>3, MarkedIsSteered
    <3> QED BY <1>2, <3>1, <3>4
  <2>4. CASE ReplaceRun(o)
    <3>1. PICK i \in x.left : \E k :
            execs' = Append([execs EXCEPT ![i].active = FALSE, ![i].superseded = TRUE], k)
      BY <2>4 DEF ReplaceRun
    <3>2. execs'[1].requests = execs[1].requests
      BY <1>0, <3>1 DEF RunIn
    <3> QED BY <1>1, <3>2 DEF Steered
  <2>5. CASE Launch(o)
    <3>1. PICK k : execs' = Append(execs, k)
      BY <1>3, <2>5 DEF Launch
    <3>2. execs'[1] = execs[1]
      BY <1>0, <3>1
    <3> QED BY <1>1, <3>2
  <2> QED BY <2>1, <2>2, <2>3, <2>4, <2>5
<1>4. ASSUME NEW m \in Monitors, SaveRun(m)
      PROVE  Steered(execs'[1])
  <2> DEFINE x == mon[m]
             r == CASE x.pc = "requested"   -> [x.copy EXCEPT !.requests[x.f] = "requested"]
                    [] x.pc = "autoapplied" -> Marked(x.copy, x.f, "applied")
                    [] x.pc = "attached"    -> Marked(x.copy, x.f, "pending_approval")
  <2>1. x.pc \in {"requested", "autoapplied", "attached"} /\ execs' = [execs EXCEPT ![1] = r]
    BY <1>4 DEF SaveRun
  <2>2. x.copy \in RunIn(n) /\ Steered(x.copy)
    BY <2>1 DEF Shapes, MonsShape, MonStage, Sourced, MonHolds
  <2>3. x.pc = "autoapplied" => "auto" \in Findings[x.f].kinds
    BY DEF Shapes, MonsShape, MonStage
  <2>4. CASE x.pc = "requested"
    <3>1. Steered([x.copy EXCEPT !.requests[x.f] = "requested"])
      BY <2>2, MarkedIsSteered
    <3> QED BY <1>2, <2>1, <2>4, <3>1
  <2>5. CASE x.pc = "autoapplied"
    <3>1. Steered(Marked(x.copy, x.f, "applied"))
      BY <2>2, <2>3, <2>5, MarkedIsSteered
    <3> QED BY <1>2, <2>1, <2>5, <3>1
  <2>6. CASE x.pc = "attached"
    <3>1. Steered(Marked(x.copy, x.f, "pending_approval"))
      BY <2>2, MarkedIsSteered
    <3> QED BY <1>2, <2>1, <2>6, <3>1
  <2> QED BY <2>1, <2>4, <2>5, <2>6
<1>5. CASE execs' = execs
  BY <1>1, <1>5
<1>6. ASSUME Others, execs' # execs
      PROVE  \E m \in Monitors : SaveRun(m)
  BY <1>6 DEF Others, ProposeInChat, MonitorStep, Scan, RecordFinding, EditWorkflow,
     ReadRun, CheckDuplicate, AskForSteering, ProposeImprovement, Crash, vars
<1> QED BY <1>3, <1>4, <1>5, <1>6, NextSplits

LEMMA SourcedStep ==
  ASSUME Shapes, Requests, Decided, Proposes, Sourced, [Next]_vars
  PROVE  Sourced'
<1> DEFINE n == Len(approvals)
<1>0. defs \in [Defs -> DefIn(n)] /\ applied \in [1..MaxApprovals -> Nat]
  BY DEF Shapes, DefsShape, RestShape
<1>1. RowsKeep
  BY RowsKeepStep
<1>2. /\ \A c : Approved(c) => Approved(c)'
      /\ \A d, x : FromApproved(d, x) => FromApproved(d, x)'
      /\ \A r : Steered(r) => Steered(r)'
  BY <1>1, Steady
<1>3. (\A d \in Defs : FromApproved(d, defs[d]))'
  <2>1. \A d \in Defs : FromApproved(d, defs'[d])
    BY DefsSourced
  <2>2. ASSUME NEW d \in Defs PROVE FromApproved(d, defs[d])'
    <3>1. PICK x : x = defs'[d]
      OBVIOUS
    <3>2. FromApproved(d, x)'
      BY <1>2, <2>1, <3>1
    <3> QED BY <3>1, <3>2 DEF FromApproved
  <2> QED BY <2>2
<1>4. Steered(execs[1])'
  <2>1. PICK r : r = execs'[1]
    OBVIOUS
  <2>2. Steered(r)'
    BY <1>2, <2>1, ExecsSourced
  <2> QED BY <2>1, <2>2 DEF Steered
\* What a request or a scan held stays good, as rows keep their decisions.
<1>5. ASSUME NEW x, OpHolds(x) PROVE OpHolds(x)'
  BY <1>2, <1>5 DEF OpHolds
<1>6. ASSUME NEW x, MonHolds(x) PROVE MonHolds(x)'
  BY <1>2, <1>6 DEF MonHolds
<1>7. OpHolds(Idle) /\ MonHolds(Resting)
  BY DEF OpHolds, MonHolds, Idle, Resting, Busy, Choosing, Applying, Following,
     Closing, MonStages
<1>8. ASSUME NEW o \in Operators, OperatorStep(o) PROVE OpHolds(op'[o])
  <2> DEFINE x == op[o]
             y == op'[o]
  <2>1. CASE Begins(x, y)
    <3>1. y.id \in Rows /\ y.row = approvals[y.id] /\ y.pc = "fetch"
      BY <2>1 DEF Begins
    <3>2. y.decision = "split" => y.row.action \notin Creates
      <4>1. ASSUME y.decision = "split", y.row.action \in Creates PROVE FALSE
        <5>1. y.row.action = "workflow_create" /\ PartCount(y.row) >= 2
          BY <2>1, <4>1 DEF Begins, Creates
        <5>2. y.row.parts = 0
          BY <3>1, <4>1 DEF Proposes
        <5> QED BY <5>1, <5>2 DEF PartCount
      <4> QED BY <4>1
    <3> QED BY <3>1, <3>2 DEF OpHolds
  <2>2. CASE y = Idle
    BY <1>7, <2>2
  <2>3. CASE Goes(x, y)
    <3>1. /\ x.pc \in Busy /\ y.decision = x.decision /\ y.row.action = x.row.action
          /\ y.row.target = x.row.target /\ OpHolds(x) /\ x.row.target \in Defs
      BY <2>3, ItsRow DEF Goes, SameRequest, Sourced
    <3>2. y.decision = "split" => y.row.action \notin Creates
      BY <3>1 DEF OpHolds
    <3>3. y.pc = "children" => y.row.action \notin Creates
      <4>1. y.pc = "children" => x.pc = "children" \/ Effect(x.decision, x.row) = "children"
        BY <2>3 DEF Goes
      <4>2. Effect(x.decision, x.row) = "children" => x.decision = "split"
        BY DEF Effect
      <4> QED BY <3>1, <3>2, <4>1, <4>2 DEF OpHolds
    <3>4. y.pc = "define" /\ y.row.action \notin Creates =>
            FromApproved(y.row.target, y.current)
      <4>1. y.pc = "define" =>
              \/ x.pc = "read" /\ y.current = defs[x.row.target]
              \/ Effect(x.decision, x.row) = "define"
        BY <2>3 DEF Goes
      <4>2. Effect(x.decision, x.row) = "define" => x.row.action \in Creates
        BY DEF Effect, Creates
      <4> QED BY <3>1, <4>1, <4>2 DEF Sourced
    <3>5. y.pc = "sync" => \A w \in Workflows : FromApproved(w, y.current[w])
      <4>1. y.pc = "sync" => \/ x.pc = "list" /\ y.current = defs
                             \/ x.pc = "sync" /\ y.current = x.current
        BY <2>3 DEF Goes, Effect
      <4> QED BY <3>1, <4>1 DEF Sourced, OpHolds, Defs
    <3>6. y.pc = "marked" => Steered(y.copy)
      <4>1. y.pc = "marked" => y.copy = execs[1]
        BY <2>3 DEF Goes, Effect
      <4> QED BY <4>1 DEF Sourced
    <3>7. y.pc \in {"read", "define", "restart", "replace", "guide"}
            /\ y.row.action = "supervisor_steering" => Steered(y.copy)
      <4>1. Effect(x.decision, x.row) \in {"read", "define", "restart", "replace", "guide"}
              => x.row.action # "supervisor_steering"
        BY DEF Effect
      <4>2. y.pc \in {"read", "define", "restart", "replace", "guide"} =>
              \/ x.pc \in {"read", "define", "restart", "replace"} /\ y.copy = x.copy
              \/ x.pc = "steer" /\ y.copy = execs[1]
              \/ Effect(x.decision, x.row) = y.pc
        BY <2>3 DEF Goes
      <4> QED BY <3>1, <4>1, <4>2 DEF OpHolds, Sourced
    <3> QED BY <3>2, <3>3, <3>4, <3>5, <3>6, <3>7 DEF OpHolds
  <2> QED BY <1>8, <2>1, <2>2, <2>3, OperatorMoves
<1>9. ASSUME NEW o \in Operators PROVE OpHolds(op[o])'
  <2>1. OpHolds(op'[o])
    <3>1. OpHolds(op[o])
      BY DEF Sourced
    <3>2. CASE Others
      BY <1>7, <3>1, <3>2, OtherRows
    <3>3. ASSUME NEW p \in Operators, OperatorStep(p) PROVE OpHolds(op'[o])
      BY <1>8, <3>1, <3>3, OperatorMoves
    <3> QED BY <3>2, <3>3, NextSplits
  <2>2. PICK x : x = op'[o]
    OBVIOUS
  <2>3. OpHolds(x)'
    BY <1>5, <2>1, <2>2
  <2> QED BY <2>2, <2>3 DEF OpHolds
<1>10. ASSUME NEW m \in Monitors PROVE MonHolds(mon[m])'
  <2>1. MonHolds(mon'[m])
    <3>1. MonHolds(mon[m]) /\ Steered(execs[1])
      BY DEF Sourced
    <3>2. ASSUME NEW q \in Monitors, MonitorStep(q) PROVE MonHolds(mon'[m])
      <4>1. CASE m # q
        BY <3>1, <3>2, <4>1, MonitorMoves
      <4>2. CASE m = q /\ mon'[m] = Resting
        BY <1>7, <4>2
      <4>3. CASE m = q /\ mon'[m] # Resting
        <5>1. /\ mon[m].pc = "idle" => mon'[m].snap = [w \in Workflows |-> defs[w]]
              /\ mon[m].pc # "idle" => mon'[m].snap = mon[m].snap
              /\ mon'[m].pc \in {"requested", "autoapplied", "attached"} =>
                   mon'[m].copy = execs[1]
          BY <3>2, <4>3, MonitorMoves
        <5>2. mon[m].pc \in {"idle"} \cup MonStages
          BY DEF Shapes, MonsShape, MonRecord
        <5>3. \A w \in Workflows : FromApproved(w, defs[w])
          BY DEF Sourced, Defs
        <5> QED BY <3>1, <5>1, <5>2, <5>3 DEF MonHolds
      <4> QED BY <4>1, <4>2, <4>3
    <3>3. CASE \E o \in Operators : OperatorStep(o)
      <4>1. mon' = mon
        BY <3>3, ZenonT(60) DEF OperatorStep, Unmoved, Decide, Fetch, Save, CreateChild, Blocked,
           ReadTarget, Define, CreateSchedule, ListRuns, ReplaceRun, ListWorkflows,
           SyncWorkflow, Launch, Link, SaveLink, RunTool, Steer, Guide, Mark, SaveMark,
           SaveDraft
      <4> QED BY <3>1, <4>1
    <3>4. CASE (\E p \in Proposals : ProposeInChat(p)) \/ UNCHANGED vars
               \/ \E w \in Workflows, e \in Edits : EditWorkflow(w, e)
      BY <3>1, <3>4 DEF ProposeInChat, EditWorkflow, vars
    <3>5. CASE Crash
      BY <1>7, <3>5 DEF Crash
    <3> QED BY <3>2, <3>3, <3>4, <3>5, NextSplits DEF Others
  <2>2. PICK x : x = mon'[m]
    OBVIOUS
  <2>3. MonHolds(x)'
    BY <1>6, <2>1, <2>2
  <2> QED BY <2>2, <2>3 DEF MonHolds
<1>11. (\A c \in DOMAIN applied : applied[c] > 0 => Approved(c))'
  <2>1. ASSUME NEW c \in DOMAIN applied', applied'[c] > 0 PROVE Approved(c)
    <3>1. c \in DOMAIN applied /\ applied[c] > 0 => Approved(c)
      BY DEF Sourced
    <3>2. CASE applied' = applied
      BY <2>1, <3>1, <3>2
    <3>3. ASSUME NEW o \in Operators, OperatorStep(o), applied' # applied
          PROVE  Approved(c)
      <4>1. Applied(op[o].row.change) /\ op[o].pc \in Applying
        BY <3>3, OperatorApplies
      <4>2. Approved(op[o].row.change)
        BY <4>1, ItsApproval DEF Decided, DecidesItsRow, Busy, Choosing, Applying
      <4>3. c \in DOMAIN applied /\ (c = op[o].row.change \/ applied'[c] = applied[c])
        BY <1>0, <2>1, <4>1 DEF Applied
      <4> QED BY <2>1, <3>1, <4>2, <4>3
    <3> QED BY <3>2, <3>3, OtherRows, NextSplits
  <2> QED BY <1>2, <2>1
<1> QED BY <1>3, <1>4, <1>9, <1>10, <1>11 DEF Sourced

LEMMA SourcedInit ==
  ASSUME Init
  PROVE  Proposes /\ Sourced
<1>1. Rows = {}
  BY DEF Init, Rows
<1>2. \A d \in Defs : FromApproved(d, defs[d])
  BY DEF Init, FromApproved, NoDef
<1>3. Steered(execs[1])
  <2>1. PICK w \in Workflows : execs = <<Run(w, 0, FALSE)>>
    BY DEF Init
  <2>2. execs[1] = Run(w, 0, FALSE)
    BY <2>1
  <2> QED BY <2>2 DEF Steered, Run, None
<1>4. (\A o \in Operators : OpHolds(op[o])) /\ \A m \in Monitors : MonHolds(mon[m])
  BY DEF Init, OpHolds, MonHolds, Idle, Resting, Busy, Choosing, Applying, Following,
     Closing, MonStages
<1>5. \A c \in DOMAIN applied : ~(applied[c] > 0)
  BY DEF Init
<1>6. Proposes
  BY <1>1 DEF Proposes
<1> QED BY <1>2, <1>3, <1>4, <1>5, <1>6 DEF Sourced

\* Nothing is carried out that nobody approved: every change in a definition,
\* every run launched and every steering request marked as applied belongs to
\* a request whose row says approved, whatever the users, the monitor and
\* crashes do in between, as long as no two requests decide the same approval
\* at once (docs/main-agent.md; core.py, approve_request).
THEOREM CarriedOutIsApproved == Spec /\ []DecidedAlone => []AppliedIsApproved
<1>1. Init => Proposes /\ Sourced
  BY SourcedInit
<1>2. Shapes /\ Requests /\ Decided /\ Proposes /\ Sourced /\ [Next]_vars
      => Proposes' /\ Sourced'
  BY ProposesStep, SourcedStep
<1>3. Sourced => AppliedIsApproved
  BY DEF Sourced, AppliedIsApproved, FromApproved, Steered
<1> QED BY <1>1, <1>2, <1>3, DecidedHolds, PTL DEF Spec

\* Decisions that come one at a time are always alone: with the requests of one
\* operator nothing is carried out twice or without an approval, and no decision
\* is taken back.
COROLLARY OneOperator ==
  ASSUME \A o, p \in Operators : o = p
  PROVE  Spec => DecisionIsFinal /\ []AppliedOnce /\ []AppliedIsApproved
<1>1. DecidedAlone
  BY DEF DecidedAlone
<1>2. []DecidedAlone
  BY <1>1, PTL
<1> QED
  BY <1>2, DecisionsAreFinal, CarriedOutOnce, CarriedOutIsApproved, PTL
=============================================================================
