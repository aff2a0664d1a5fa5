----------------------- MODULE IsolatedRuntimeProofs -----------------------
(***************************************************************************)
(* Proofs about IsolatedRuntime, for any number of backends, requests,     *)
(* containers and faults: types, at most one worker process at a time, and *)
(* no completion that no worker has reached.                               *)
(***************************************************************************)
EXTENDS IsolatedRuntime, TLAPS

\* A container that no worker will run in again.
Dead(c) == ctr[c].state \in {"exited", "gone"}

\* What a copy of the row says, or would have a repair say.
Claims(copy) == copy.status = "completed" \/ copy.ckpt

\* No copy of the row claims a completion that no worker has reached.
Honest(copy) == Claims(copy) => finished

RowInv ==
  /\ row \in Row /\ Honest(row)
  /\ pending \in BOOLEAN /\ finished \in BOOLEAN
  /\ requests \in 0..MaxRequests /\ faults \in 0..MaxFaults

\* One container holds the name of the execution.
CtrInv ==
  /\ ctr \in [Containers -> Ctr]
  /\ \A c, d \in Containers : Present(c) /\ Present(d) => c = d
  /\ \A c \in Containers : ctr[c].code = "success" => finished

\* A worker runs only in a running container.
WorkInv ==
  /\ work \in [Containers -> WorkJob \cup {None}]
  /\ \A c \in Containers : work[c] # None =>
       /\ ctr[c].state = "running"
       /\ Honest(work[c].copy)
       /\ work[c].beat # None => Honest(work[c].beat)
       /\ work[c].code = "success" => finished

\* A launch that has created its container knows it.
GoodLaunch(j) ==
  /\ Honest(j.copy)
  /\ j.at \in {"link", "start", "started"} => j.copy.cid \in Containers

LaunchInv ==
  /\ launch \in [Backends -> LaunchJob \cup {None}]
  /\ \A b \in Backends : launch[b] # None => GoodLaunch(launch[b])

\* What a task is about to remove without stopping it first is dead.
GoodRecon(j) ==
  /\ Honest(j.copy)
  /\ \A c \in j.expired : Dead(c)
  /\ j.at = "list" => j.c = j.copy.cid
  /\ j.at \in {"wait", "settle", "remove", "reap"} => j.c \in Containers
  /\ j.at \in {"settle", "remove"} => Dead(j.c)

ReconInv ==
  /\ recon \in [Tasks -> ReconJob \cup {None}]
  /\ \A t \in Tasks : recon[t] # None => GoodRecon(recon[t])

\* A repair that cleans up a container knows it.
GoodReq(j) ==
  /\ Honest(j.copy)
  /\ j.at \in {"stop", "remove"} => j.copy.cid \in Containers

ReqInv ==
  /\ req \in [Callers -> ReqJob \cup {None}]
  /\ \A r \in Callers : req[r] # None => GoodReq(req[r])

IInv ==
  RowInv /\ CtrInv /\ WorkInv /\ LaunchInv /\ ReconInv /\ ReqInv

-----------------------------------------------------------------------------
(* Types of the values the steps build.                                    *)

LEMMA NoRowType ==
  NoRow \in Row /\ NoRow.status = "created" /\ ~NoRow.ckpt /\ ~Claims(NoRow)
BY DEF NoRow, Row, Status, Claims

\* A status other than completed claims no more than the copy did.
LEMMA StatusType ==
  ASSUME NEW copy \in Row, NEW s \in Status
  PROVE  LET w == [copy EXCEPT !.status = s]
         IN  /\ w \in Row /\ w.status = s /\ w.cid = copy.cid
             /\ Claims(w) => s = "completed" \/ Claims(copy)
BY DEF Row, Claims

LEMMA NoReconType ==
  /\ NoRecon \in ReconJob /\ NoRecon.copy = NoRow
  /\ \A e \in SUBSET Containers :
       LET j == [NoRecon EXCEPT !.expired = e]
       IN  /\ j \in ReconJob /\ j.at = "expire" /\ j.copy = NoRow
           /\ j.expired = e
BY NoRowType DEF NoRecon, ReconJob

\* What a task in progress carries.
LEMMA JobFields ==
  ASSUME TypeOK
  PROVE  /\ \A b \in Backends : launch[b] # None => launch[b] \in LaunchJob
         /\ \A c \in Containers : work[c] # None => work[c] \in WorkJob
         /\ \A t \in Tasks : recon[t] # None => recon[t] \in ReconJob
         /\ \A r \in Callers : req[r] # None => req[r] \in ReqJob
BY DEF TypeOK

LEMMA LaunchGotoIs ==
  ASSUME TypeOK, NEW b \in Backends, launch[b] # None,
         NEW l \in {"locked", "read", "create", "link", "start", "started",
                    "fail", "release", "released"},
         NEW copy \in Row, LaunchGoto(b, l, copy)
  PROVE  \E j \in LaunchJob : /\ j.at = l /\ j.copy = copy
                               /\ launch' = [launch EXCEPT ![b] = j]
<1>1. launch[b] \in LaunchJob
  BY JobFields
<1> DEFINE j == [launch[b] EXCEPT !.at = l, !.copy = copy]
<1>2. j \in LaunchJob /\ j.at = l /\ j.copy = copy
  BY <1>1 DEF LaunchJob
<1>3. QED BY <1>2 DEF LaunchGoto

LEMMA WorkGotoIs ==
  ASSUME TypeOK, NEW c \in Containers, work[c] # None,
         NEW l \in {"begin", "run", "wait", "sleep", "mark"},
         NEW copy \in Row, WorkGoto(c, l, copy)
  PROVE  \E j \in WorkJob : /\ j.at = l /\ j.copy = copy
                             /\ j.code = work[c].code /\ j.beat = work[c].beat
                             /\ work' = [work EXCEPT ![c] = j]
<1>1. work[c] \in WorkJob
  BY JobFields
<1> DEFINE j == [work[c] EXCEPT !.at = l, !.copy = copy]
<1>2. /\ j \in WorkJob /\ j.at = l /\ j.copy = copy
      /\ j.code = work[c].code /\ j.beat = work[c].beat
  BY <1>1 DEF WorkJob
<1>3. QED BY <1>2 DEF WorkGoto

LEMMA SettledType ==
  ASSUME NEW copy \in Row, NEW code \in Code
  PROVE  /\ Settled(copy, code) \in Row
         /\ Settled(copy, code).cid = copy.cid
         /\ Claims(Settled(copy, code)) => code = "success" \/ Claims(copy)
BY DEF Settled, Row, Code, Status, Terminal, Claims

LEMMA RepairedType ==
  ASSUME NEW copy \in Row
  PROVE  /\ Repaired(copy) \in Row /\ Repaired(copy).cid = copy.cid
         /\ Claims(Repaired(copy)) => Claims(copy)
BY DEF Repaired, Row, Status, Terminal, Claims

LEMMA InvType == ASSUME IInv PROVE TypeOK
BY DEF IInv, RowInv, CtrInv, WorkInv, LaunchInv, ReconInv, ReqInv, TypeOK

\* What a step leaves alone stays good: completions are not taken back, and a
\* dead container stays dead.
LEMMA Frame ==
  ASSUME IInv, finished => finished', \A c \in Containers : Dead(c) => Dead(c)'
  PROVE  /\ UNCHANGED launch => LaunchInv'
         /\ UNCHANGED req => ReqInv'
         /\ UNCHANGED recon => ReconInv'
         /\ UNCHANGED ctr => CtrInv'
         /\ UNCHANGED <<ctr, work>> => WorkInv'
<1>1. UNCHANGED launch => LaunchInv'
  BY DEF IInv, LaunchInv, GoodLaunch, Honest
<1>2. UNCHANGED req => ReqInv'
  BY DEF IInv, ReqInv, GoodReq, Honest
<1>3. UNCHANGED recon => ReconInv'
  <2> SUFFICES ASSUME UNCHANGED recon PROVE ReconInv'
    OBVIOUS
  <2>1. ASSUME NEW t \in Tasks, recon[t] # None
        PROVE  GoodRecon(recon[t])'
    <3>1. recon[t] \in ReconJob /\ GoodRecon(recon[t])
      BY <2>1, InvType, JobFields DEF IInv, ReconInv
    <3>2. recon[t].expired \subseteq Containers
      BY <3>1 DEF ReconJob
    <3>3. QED BY <3>1, <3>2 DEF GoodRecon, Honest
  <2>2. QED BY <2>1 DEF IInv, ReconInv
<1>4. UNCHANGED ctr => CtrInv'
  BY DEF IInv, CtrInv, Present
<1>5. UNCHANGED <<ctr, work>> => WorkInv'
  BY DEF IInv, WorkInv, Honest
<1>6. QED BY <1>1, <1>2, <1>3, <1>4, <1>5

LEMMA RowFrame ==
  ASSUME IInv, UNCHANGED <<row, pending, finished, bounds>>
  PROVE  RowInv'
BY DEF IInv, RowInv, Honest, bounds

\* A task replaces its own job by a good one or ends.
LEMMA LaunchUpdate ==
  ASSUME IInv, finished => finished', NEW b \in Backends,
         NEW j \in LaunchJob \cup {None}, launch' = [launch EXCEPT ![b] = j],
         j # None =>
           /\ Claims(j.copy) => finished'
           /\ j.at \in {"link", "start", "started"} => j.copy.cid \in Containers
  PROVE  LaunchInv'
BY DEF IInv, LaunchInv, GoodLaunch, Honest

LEMMA ReqUpdate ==
  ASSUME IInv, finished => finished', NEW r \in Callers,
         NEW j \in ReqJob \cup {None}, req' = [req EXCEPT ![r] = j],
         j # None =>
           /\ Claims(j.copy) => finished'
           /\ j.at \in {"stop", "remove"} => j.copy.cid \in Containers
  PROVE  ReqInv'
BY DEF IInv, ReqInv, GoodReq, Honest

LEMMA ReconUpdate ==
  ASSUME IInv, finished => finished', \A c \in Containers : Dead(c) => Dead(c)',
         NEW t \in Tasks, NEW j \in ReconJob \cup {None},
         recon' = [recon EXCEPT ![t] = j], j # None => GoodRecon(j)'
  PROVE  ReconInv'
<1>1. recon' \in [Tasks -> ReconJob \cup {None}]
  BY DEF IInv, ReconInv
<1>2. ASSUME NEW u \in Tasks, recon'[u] # None
      PROVE  GoodRecon(recon[u])'
  <2>1. CASE u = t
    BY <1>2, <2>1 DEF IInv, ReconInv
  <2>2. CASE u # t
    <3>1. recon[u] \in ReconJob /\ GoodRecon(recon[u]) /\ recon'[u] = recon[u]
      BY <1>2, <2>2, InvType, JobFields DEF IInv, ReconInv
    <3>2. recon[u].expired \subseteq Containers
      BY <3>1 DEF ReconJob
    <3>3. QED BY <3>1, <3>2 DEF GoodRecon, Honest
  <2>3. QED BY <2>1, <2>2
<1>3. QED BY <1>1, <1>2 DEF ReconInv

\* A worker's step in its own container.
LEMMA WorkUpdate ==
  ASSUME IInv, finished => finished', UNCHANGED ctr, NEW c \in Containers,
         work[c] # None, NEW j \in WorkJob, work' = [work EXCEPT ![c] = j],
         Claims(j.copy) => finished',
         j.beat = work[c].beat
           \/ (j.beat # None => (Claims(j.beat) => finished')),
         j.code = "success" => finished'
  PROVE  WorkInv'
BY DEF IInv, WorkInv, Honest

\* A save of the row.
LEMMA RowUpdate ==
  ASSUME IInv, finished => finished', finished' \in BOOLEAN,
         row' \in Row, Claims(row') => finished', pending' \in BOOLEAN, UNCHANGED bounds
  PROVE  RowInv'
BY DEF IInv, RowInv, Honest, bounds

-----------------------------------------------------------------------------
(* Every step preserves the invariant.                                     *)

LEMMA InvInit == Init => IInv
<1> SUFFICES ASSUME Init PROVE IInv
  OBVIOUS
<1>1. row \in Row /\ ~Claims(row)
  BY NoRowType, IsolatedAssumption DEF Init, NoRow, Row, Claims
<1>2. RowInv
  <2>1. Honest(row)
    BY <1>1 DEF Honest
  <2>2. requests \in 0..MaxRequests /\ faults \in 0..MaxFaults
    BY IsolatedAssumption DEF Init
  <2>3. QED BY <1>1, <2>1, <2>2 DEF Init, RowInv
<1>3. CtrInv
  BY DEF Init, CtrInv, Ctr, CtrState, Code, Live, Present
<1>4. QED
  BY <1>2, <1>3
  DEF Init, IInv, WorkInv, LaunchInv, ReconInv, ReqInv

\* Accepting a request: a handler starts with the row as it is.
LEMMA AcceptStep ==
  ASSUME IInv, NEW r \in Callers, NEW cmd, NEW j \in ReqJob, GoodReq(j),
         Accept(r, cmd, j), pending' \in BOOLEAN,
         UNCHANGED <<row, ctr, work, launch, recon, finished>>
  PROVE  IInv'
<1>1. ReqInv'
  <2>1. /\ Claims(j.copy) => finished'
        /\ j.at \in {"stop", "remove"} => j.copy.cid \in Containers
    BY DEF GoodReq, Honest
  <2>2. QED BY <2>1, ReqUpdate DEF Accept
<1>2. RowInv'
  BY IsolatedAssumption DEF IInv, RowInv, Honest, Accept
<1>3. \A c \in Containers : Dead(c) => Dead(c)'
  BY DEF Dead
<1>4. QED BY <1>1, <1>2, <1>3, Frame DEF IInv

LEMMA RequestStep ==
  ASSUME IInv, NEW r \in Callers, NEW b \in Backends,
         \/ StartRequest(r, b) \/ Wake(r, b) \/ CancelRequest(r, b)
         \/ RepairRequest(r, b)
  PROVE  IInv'
<1>1. ASSUME NEW l \in {"queue", "close", "cancelling"}
      PROVE  LET j == [at |-> l, b |-> b, copy |-> row]
             IN  j \in ReqJob /\ GoodReq(j)
  BY DEF IInv, RowInv, ReqJob, GoodReq
<1>2. CASE StartRequest(r, b)
  BY <1>1, <1>2, AcceptStep DEF StartRequest, IInv, RowInv
<1>3. CASE Wake(r, b)
  BY <1>1, <1>3, AcceptStep DEF Wake
<1>4. CASE CancelRequest(r, b)
  BY <1>1, <1>4, AcceptStep DEF CancelRequest
<1>5. CASE RepairRequest(r, b)
  <2> DEFINE l == IF row.status # "cancelling" /\ row.cid # None
                  THEN "stop" ELSE "repaired"
             w == Repaired(row)
             j == [at |-> l, b |-> b, copy |-> w]
  <2>1. /\ row \in Row /\ pending \in BOOLEAN
        /\ row.cid \in Containers \cup {None} /\ (Claims(row) => finished)
    BY DEF IInv, RowInv, Row, Honest
  <2>2. w \in Row /\ w.cid = row.cid /\ (Claims(w) => finished)
    BY <2>1, RepairedType
  <2>3. Accept(r, "repair", j)
    BY <1>5 DEF RepairRequest
  <2>4. UNCHANGED <<row, pending, ctr, work, launch, recon, finished>>
    BY <1>5 DEF RepairRequest
  <2> HIDE DEF w
  <2>5. j \in ReqJob /\ GoodReq(j)
    BY <2>1, <2>2 DEF ReqJob, GoodReq, Honest
  <2> HIDE DEF j
  <2>6. QED BY <2>1, <2>3, <2>4, <2>5, AcceptStep
<1>6. QED BY <1>2, <1>3, <1>4, <1>5

\* The steps of a request that only move rows.
LEMMA ReqStepInv ==
  ASSUME IInv, NEW r \in Callers, ReqStep(r),
         ~RepairStop(r), ~RepairRemove(r)
  PROVE  IInv'
<1> USE DEF ReqAt, ReqDone
<1>1. /\ req[r] # None /\ req[r] \in ReqJob /\ req[r].copy \in Row
      /\ req[r].b \in Backends /\ (Claims(req[r].copy) => finished)
  BY InvType, JobFields
  DEF ReqStep, QueueStart, CancelClose, CancelRead, CancelWrite, CancelEngine,
      CancelFinish, CancelPreserve, RepairSave, IInv, ReqInv, GoodReq, ReqJob,
      Honest
<1>2. /\ UNCHANGED <<ctr, work, recon, finished, bounds, pending>>
      /\ finished => finished'
  BY DEF ReqStep, QueueStart, CancelClose, CancelRead, CancelWrite,
         CancelEngine, CancelFinish, CancelPreserve, RepairSave
<1>3. \A c \in Containers : Dead(c) => Dead(c)'
  BY <1>2 DEF Dead
<1>4. /\ CtrInv' /\ WorkInv' /\ ReconInv'
      /\ pending' \in BOOLEAN /\ finished' \in BOOLEAN
  BY <1>2, <1>3, Frame DEF IInv, RowInv
<1>5. /\ row \in Row /\ (Claims(row) => finished)
      /\ NoRow \in Row /\ ~Claims(NoRow)
  BY NoRowType DEF IInv, RowInv, Honest
<1>6. ASSUME NEW s \in Status \ {"completed"}
      PROVE  LET w == [req[r].copy EXCEPT !.status = s]
             IN  w \in Row /\ w.status = s /\ (Claims(w) => finished)
  BY <1>1, StatusType
\* The job moves on with another copy of the row, or ends.
<1>7. ASSUME NEW l \in {"read", "cancelling", "engine", "finish", "preserve"},
             NEW copy \in Row, Claims(copy) => finished,
             ReqGoto(r, l, copy)
      PROVE  ReqInv'
  <2> DEFINE j == [req[r] EXCEPT !.at = l, !.copy = copy]
  <2>1. j \in ReqJob /\ j.copy = copy /\ j.at = l
    BY <1>1 DEF ReqJob
  <2>2. req' = [req EXCEPT ![r] = j]
    BY <1>7 DEF ReqGoto
  <2> HIDE DEF j
  <2>3. QED BY <1>2, <1>7, <2>1, <2>2, ReqUpdate
<1>8. ReqDone(r) => ReqInv'
  BY <1>2, ReqUpdate
<1>9. ASSUME NEW copy \in Row, Claims(copy) => finished,
             CancelReturn(r, copy)
      PROVE  ReqInv'
  BY <1>7, <1>8, <1>9 DEF CancelReturn
\* The row is left alone or saved, and the job moves on.
<1>10. ASSUME row' \in Row, Claims(row') => finished, ReqInv',
              LaunchInv'
       PROVE  IInv'
  <2>1. RowInv'
    BY <1>2, <1>4, <1>10, RowUpdate
  <2>2. QED BY <1>4, <1>10, <2>1 DEF IInv
<1>11. UNCHANGED launch => LaunchInv'
  BY <1>2, <1>3, Frame
<1>12. CASE QueueStart(r)
  <2>1. row' \in Row /\ (Claims(row') => finished)
    BY <1>6, <1>12 DEF QueueStart, Status
  <2>2. ReqInv'
    BY <1>8, <1>12 DEF QueueStart
  <2>3. LET j == [at |-> "lock", copy |-> NoRow]
        IN  j \in LaunchJob /\ j.at = "lock" /\ ~Claims(j.copy)
    BY NoRowType DEF LaunchJob
  <2>4. LaunchInv'
    BY <1>1, <1>2, <1>11, <1>12, <2>3, LaunchUpdate DEF QueueStart
  <2>5. QED BY <1>10, <2>1, <2>2, <2>4
<1>13. CASE CancelClose(r) \/ CancelPreserve(r) \/ RepairSave(r)
  <2>1. row' = req[r].copy /\ UNCHANGED launch
    BY <1>13 DEF CancelClose, CancelPreserve, RepairSave
  <2>2. ReqInv'
    BY <1>5, <1>7, <1>8, <1>13 DEF CancelClose, CancelPreserve, RepairSave
  <2>3. QED BY <1>1, <1>10, <1>11, <2>1, <2>2
<1>14. CASE CancelRead(r) \/ CancelEngine(r)
  <2>1. UNCHANGED <<row, launch>>
    BY <1>14 DEF CancelRead, CancelEngine
  <2>2. ReqInv'
    BY <1>5, <1>7, <1>9, <1>14 DEF CancelRead, CancelEngine
  <2>3. QED BY <1>5, <1>10, <1>11, <2>1, <2>2
<1>15. CASE CancelWrite(r)
  <2>1. row' \in Row /\ (Claims(row') => finished) /\ UNCHANGED launch
    BY <1>6, <1>15 DEF CancelWrite, Status
  <2>2. ReqInv'
    BY <1>5, <1>7, <1>15 DEF CancelWrite
  <2>3. QED BY <1>10, <1>11, <2>1, <2>2
<1>16. CASE CancelFinish(r)
  <2>1. row' \in Row /\ (Claims(row') => finished) /\ UNCHANGED launch
    BY <1>6, <1>16 DEF CancelFinish, Status, Terminal
  <2>2. ReqInv'
    BY <1>9, <1>16, <2>1 DEF CancelFinish
  <2>3. QED BY <1>10, <1>11, <2>1, <2>2
<1>17. QED BY <1>12, <1>13, <1>14, <1>15, <1>16 DEF ReqStep

LEMMA LaunchStepInv ==
  ASSUME IInv, NEW b \in Backends, LaunchStep(b) \/ LaunchSave(b)
  PROVE  IInv'
<1> USE DEF LaunchAt, LaunchDone
<1>1. /\ TypeOK /\ launch[b] # None /\ launch[b] \in LaunchJob
      /\ launch[b].copy \in Row /\ GoodLaunch(launch[b])
  BY InvType, JobFields
  DEF LaunchStep, LaunchLock, LaunchLocked, LaunchRead, LaunchSave,
      LaunchCreate, LaunchLink, LaunchStart, LaunchStarted, LaunchFail,
      LaunchRelease, LaunchReleased, IInv, LaunchInv, LaunchJob
<1>2. /\ UNCHANGED <<pending, req, finished, bounds>>
      /\ finished => finished'
      /\ finished' \in BOOLEAN /\ pending' \in BOOLEAN
  BY DEF LaunchStep, LaunchLock, LaunchLocked, LaunchRead, LaunchSave,
         LaunchCreate, LaunchLink, LaunchStart, LaunchStarted, LaunchFail,
         LaunchRelease, LaunchReleased, IInv, RowInv
<1>3. Claims(launch[b].copy) => finished'
  BY <1>1, <1>2 DEF GoodLaunch, Honest
\* A step to label l with a copy that has this status.
<1>4. ASSUME NEW l \in {"locked", "read", "create", "link", "start", "started",
                        "fail", "release", "released"},
             NEW copy \in Row, LaunchGoto(b, l, copy),
             Claims(copy) => finished',
             l \in {"link", "start", "started"} => copy.cid \in Containers
      PROVE  LaunchInv'
  BY <1>1, <1>2, <1>4, LaunchGotoIs, LaunchUpdate
<1>5. LaunchDone(b) => LaunchInv'
  BY <1>2, LaunchUpdate
\* The copy is saved, and nothing else changes but the job.
<1>6. ASSUME row' = launch[b].copy, LaunchInv',
              UNCHANGED <<ctr, work, recon>>
       PROVE  IInv'
  <2>1. row' \in Row /\ (Claims(row') => finished')
    BY <1>1, <1>3, <1>6
  <2>2. RowInv'
    BY <1>2, <2>1, RowUpdate
  <2>3. \A c \in Containers : Dead(c) => Dead(c)'
    BY <1>6 DEF Dead
  <2>4. QED BY <1>2, <1>6, <2>2, <2>3, Frame DEF IInv
\* Nothing changes but the job.
<1>7. ASSUME UNCHANGED row, LaunchInv', UNCHANGED <<ctr, work, recon>>
       PROVE  IInv'
  <2>1. RowInv'
    BY <1>2, <1>7, RowFrame
  <2>2. \A c \in Containers : Dead(c) => Dead(c)'
    BY <1>7 DEF Dead
  <2>3. QED BY <1>2, <1>7, <2>1, <2>2, Frame DEF IInv
<1>8. row \in Row /\ (Claims(row) => finished')
  BY <1>2 DEF IInv, RowInv, Honest
<1>9. NoRow \in Row /\ ~Claims(NoRow)
  BY NoRowType
<1>10. CASE LaunchLock(b) \/ LaunchRead(b) \/ LaunchRelease(b)
  <2>1. LaunchInv'
    BY <1>4, <1>5, <1>10, <1>8 DEF LaunchLock, LaunchRead, LaunchRelease
  <2>2. QED BY <1>10, <1>7, <2>1 DEF LaunchLock, LaunchRead, LaunchRelease
<1>11. CASE LaunchLocked(b) \/ LaunchLink(b) \/ LaunchReleased(b)
  <2>1. LaunchInv'
    BY <1>1, <1>3, <1>4, <1>5, <1>11, <1>9
    DEF LaunchLocked, LaunchLink, LaunchReleased, GoodLaunch
  <2>2. QED BY <1>11, <1>6, <2>1 DEF LaunchLocked, LaunchLink, LaunchReleased
<1>12. CASE LaunchSave(b)
  <2>1. LaunchInv'
    BY <1>2, <1>12 DEF LaunchSave, IInv, LaunchInv, GoodLaunch, Honest
  <2>2. QED BY <1>12, <1>6, <2>1 DEF LaunchSave
<1>13. CASE LaunchCreate(b)
  <2>1. \A c \in Containers : Dead(c) => Dead(c)'
    BY <1>1, <1>13 DEF LaunchCreate, Dead, TypeOK, Ctr
  <2>. RowInv'
    BY <1>13, RowFrame DEF LaunchCreate
  <2>2. CASE LaunchGoto(b, "fail", launch[b].copy) /\ UNCHANGED ctr
    <3>1. LaunchInv'
      BY <1>1, <1>3, <1>4, <2>2
    <3>2. QED BY <1>2, <1>13, <2>1, <2>2, <3>1, Frame DEF LaunchCreate, IInv
  <2>3. ASSUME ~NameTaken, NEW c \in Containers, ctr[c].state = "none",
               ctr' = [ctr EXCEPT ![c].state = "created"],
               LaunchGoto(b, "link", [launch[b].copy EXCEPT !.cid = c])
        PROVE  IInv'
    <3> DEFINE w == [launch[b].copy EXCEPT !.cid = c]
    <3>1. w \in Row /\ w.cid = c /\ (Claims(w) => Claims(launch[b].copy))
      BY <1>1 DEF Row, Claims
    <3>2. LaunchInv'
      BY <1>3, <1>4, <2>3, <3>1
    <3>3. [ctr[c] EXCEPT !.state = "created"] \in Ctr
      BY <1>1 DEF TypeOK, Ctr, CtrState, Live
    <3>4. ctr' \in [Containers -> Ctr]
      BY <1>1, <2>3, <3>3 DEF TypeOK
    <3>5. \A d \in Containers :
            d # c => ctr'[d] = ctr[d] /\ ctr[d].state \notin {"exited"} \cup Live
      BY <1>1, <2>3 DEF TypeOK, NameTaken, Present
    <3>6. ctr'[c].code = ctr[c].code
      BY <1>1, <2>3 DEF TypeOK, Ctr
    <3>7. CtrInv'
      BY <1>2, <3>4, <3>5, <3>6 DEF IInv, CtrInv, Present
    <3>8. WorkInv'
      BY <1>2, <1>13, <2>3, <3>5 DEF IInv, WorkInv, LaunchCreate, Honest
    <3>9. QED BY <1>2, <1>13, <2>1, <3>2, <3>7, <3>8, Frame DEF LaunchCreate, IInv
  <2>4. QED BY <1>13, <2>2, <2>3 DEF LaunchCreate
<1>14. CASE LaunchStart(b)
  <2> DEFINE c == launch[b].copy.cid
  <2>1. c \in Containers
    BY <1>1, <1>14 DEF LaunchStart, GoodLaunch
  <2>2. LaunchInv'
    BY <1>1, <1>3, <1>4, <1>14, <2>1 DEF LaunchStart
  <2>. RowInv'
    BY <1>14, RowFrame DEF LaunchStart
  <2> HIDE DEF c
  <2>3. CASE ctr[c].state # "created"
    <3>1. UNCHANGED <<ctr, work>>
      BY <1>14, <2>3 DEF LaunchStart, c
    <3>2. \A d \in Containers : Dead(d) => Dead(d)'
      BY <3>1 DEF Dead
    <3>3. QED BY <1>2, <1>14, <2>2, <3>1, <3>2, Frame DEF LaunchStart, IInv
  <2>4. CASE ctr[c].state = "created"
    <3> DEFINE j == [at |-> "lock", copy |-> NoRow, code |-> "failure",
                     beat |-> None]
    <3>1. /\ ctr' = [ctr EXCEPT ![c].state = "running"]
          /\ work' = [work EXCEPT ![c] = j]
      BY <1>14, <2>4 DEF LaunchStart, c
    <3>2. /\ j \in WorkJob /\ ~Claims(j.copy) /\ j.code = "failure"
          /\ j.beat = None
      BY NoRowType DEF WorkJob, Code
    <3> HIDE DEF j
    <3>3. /\ [ctr[c] EXCEPT !.state = "running"] \in Ctr
          /\ [ctr[c] EXCEPT !.state = "running"].state = "running"
          /\ [ctr[c] EXCEPT !.state = "running"].code = ctr[c].code
      BY <1>1, <2>1 DEF TypeOK, Ctr, CtrState, Live
    <3>4. /\ ctr' \in [Containers -> Ctr]
          /\ ctr'[c].state = "running" /\ ctr'[c].code = ctr[c].code
          /\ \A d \in Containers : d # c => ctr'[d] = ctr[d]
      BY <1>1, <2>1, <3>1, <3>3 DEF TypeOK
    <3>5. \A d \in Containers : Dead(d) => Dead(d)'
      BY <2>4, <3>4 DEF Dead
    <3>6. CtrInv'
      BY <1>2, <2>1, <2>4, <3>4 DEF IInv, CtrInv, Present, Live
    <3>7. WorkInv'
      BY <1>2, <2>1, <3>1, <3>2, <3>4 DEF IInv, WorkInv, Honest
    <3>8. QED BY <1>2, <1>14, <2>2, <3>5, <3>6, <3>7, Frame DEF LaunchStart, IInv
  <2>5. QED BY <2>3, <2>4
<1>15. CASE LaunchStarted(b)
  <2> DEFINE c == launch[b].copy.cid
  <2>1. c \in Containers /\ <<b, "watch">> \in Tasks
    BY <1>1, <1>15 DEF LaunchStarted, GoodLaunch, Tasks
  <2>2. RowInv'
    <3>1. row' = launch[b].copy
      BY <1>15 DEF LaunchStarted
    <3>2. row' \in Row /\ (Claims(row') => finished')
      BY <1>1, <1>3, <3>1
    <3>3. QED BY <1>2, <3>2, RowUpdate
  <2>3. LaunchInv'
    BY <1>4, <1>15, NoRowType DEF LaunchStarted
  <2>4. \A d \in Containers : Dead(d) => Dead(d)'
    BY <1>15 DEF LaunchStarted, Dead
  <2>5. PICK j \in ReconJob :
          /\ j.at = "wait" /\ j.c = c /\ j.copy = NoRow /\ j.expired = {}
          /\ recon' = [recon EXCEPT ![<<b, "watch">>] = j]
    <3> DEFINE j == [NoRecon EXCEPT !.at = "wait", !.c = c]
    <3>1. /\ j \in ReconJob /\ j.at = "wait" /\ j.c = c /\ j.copy = NoRow
          /\ j.expired = {}
      BY <2>1, NoRowType DEF NoRecon, ReconJob
    <3>2. QED BY <1>15, <3>1 DEF LaunchStarted
  <2>6. ReconInv'
    <3>1. GoodRecon(j)'
      BY <2>1, <2>5, NoRowType DEF GoodRecon, Honest
    <3>2. QED BY <1>2, <2>1, <2>4, <2>5, <3>1, ReconUpdate
  <2>7. QED BY <1>2, <1>15, <2>2, <2>3, <2>4, <2>6, Frame DEF LaunchStarted, IInv
<1>16. CASE LaunchFail(b)
  <2>1. LET w == [launch[b].copy EXCEPT !.status = "failed"]
        IN  w \in Row /\ (Claims(w) => finished')
    BY <1>1, <1>3, StatusType DEF Status, Terminal
  <2>2. RowInv'
    <3>1. row' \in Row /\ (Claims(row') => finished')
      BY <1>16, <2>1 DEF LaunchFail
    <3>2. QED BY <1>2, <3>1, RowUpdate
  <2>3. LaunchInv'
    BY <1>4, <1>16, NoRowType DEF LaunchFail
  <2>4. \A c \in Containers : Dead(c) => Dead(c)'
    BY <1>16 DEF LaunchFail, Dead
  <2>5. QED BY <1>2, <1>16, <2>2, <2>3, <2>4, Frame DEF LaunchFail, IInv
<1>17. QED
  BY <1>10, <1>13, <1>11, <1>14, <1>15, <1>16, <1>12 DEF LaunchStep

LEMMA ExitCodeType ==
  ASSUME NEW s \in Status
  PROVE  ExitCode(s) \in Code /\ (ExitCode(s) = "success" => s = "completed")
BY DEF ExitCode, Code, Status, DurableWait, Terminal

\* The process in a container ends.
LEMMA ExitFrame ==
  ASSUME IInv, NEW c \in Containers, ctr[c].state = "running",
         NEW code \in Code, code = "success" => finished, Exit(c, code),
         UNCHANGED finished
  PROVE  /\ CtrInv' /\ WorkInv'
         /\ \A d \in Containers : Dead(d) => Dead(d)'
<1>1. ctr[c] \in Ctr /\ ctr \in [Containers -> Ctr]
  BY DEF IInv, CtrInv
<1> DEFINE e == [ctr[c] EXCEPT !.state = "exited", !.code = code]
<1>2. e \in Ctr /\ e.state = "exited" /\ e.code = code
  BY <1>1 DEF Ctr, CtrState
<1>3. ctr' = [ctr EXCEPT ![c] = e] /\ work' = [work EXCEPT ![c] = None]
  BY DEF Exit
<1> HIDE DEF e
<1>4. /\ ctr' \in [Containers -> Ctr]
      /\ ctr'[c].state = "exited" /\ ctr'[c].code = code
      /\ \A d \in Containers : d # c => ctr'[d] = ctr[d]
  BY <1>1, <1>2, <1>3
<1>5. \A d \in Containers : Dead(d) => Dead(d)'
  BY <1>4 DEF Dead
<1>6. CtrInv'
  BY <1>4 DEF IInv, CtrInv, Present, Live
<1>7. WorkInv'
  BY <1>3, <1>4 DEF IInv, WorkInv, Honest
<1>8. QED BY <1>5, <1>6, <1>7

LEMMA ExitStep ==
  ASSUME IInv, NEW c \in Containers, work[c] # None, NEW code \in Code,
         code = "success" => finished, Exit(c, code),
         UNCHANGED <<row, pending, launch, recon, req, finished>>,
         requests' \in 0..MaxRequests, faults' \in 0..MaxFaults
  PROVE  IInv'
<1>1. CtrInv' /\ WorkInv' /\ \A d \in Containers : Dead(d) => Dead(d)'
  BY ExitFrame DEF IInv, WorkInv
<1>2. RowInv'
  BY DEF IInv, RowInv, Honest
<1>3. finished => finished'
  OBVIOUS
<1>4. LaunchInv' /\ ReqInv' /\ ReconInv'
  BY <1>1, <1>3, Frame
<1>5. QED BY <1>1, <1>2, <1>4 DEF IInv

LEMMA WorkerStepInv ==
  ASSUME IInv, NEW c \in Containers,
         WorkerStep(c) \/ WorkerCheckpoint(c) \/ Beat(c) \/ BeatSave(c)
  PROVE  IInv'
<1> USE DEF WorkAt
<1>1. /\ TypeOK /\ work[c] # None /\ work[c] \in WorkJob
      /\ work[c].copy \in Row /\ work[c].code \in Code
      /\ Honest(work[c].copy) /\ (work[c].code = "success" => finished)
      /\ work[c].beat # None => work[c].beat \in Row /\ Honest(work[c].beat)
  BY InvType, JobFields
  DEF WorkerStep, WorkerLock, WorkerBegin, WorkerEnd, WorkerPause, WorkerWait,
      WorkerSleep, WorkerRaise, WorkerMark, WorkerExit, WorkerCheckpoint, Beat,
      BeatSave, IInv, WorkInv, WorkJob
<1>2. CASE WorkerExit(c)
  <2>1. requests' \in 0..MaxRequests /\ faults' \in 0..MaxFaults
    BY <1>2 DEF WorkerExit, bounds, IInv, RowInv
  <2>2. QED BY <1>1, <1>2, <2>1, ExitStep DEF WorkerExit
<1>3. ASSUME UNCHANGED <<ctr, launch, recon, req, bounds>>, finished => finished',
             finished' \in BOOLEAN, pending' \in BOOLEAN,
             row' \in Row, Claims(row') => finished',
             WorkInv'
      PROVE  IInv'
  <2>1. RowInv'
    BY <1>3, RowUpdate
  <2>2. \A d \in Containers : Dead(d) => Dead(d)'
    BY <1>3 DEF Dead
  <2>3. QED BY <1>3, <2>1, <2>2, Frame DEF IInv
<1>4. ASSUME NEW l \in {"begin", "run", "wait", "sleep", "mark"},
             NEW copy \in Row,
             WorkGoto(c, l, copy), UNCHANGED <<ctr, finished>>,
             Claims(copy) => finished
      PROVE  WorkInv'
  <2>1. PICK j \in WorkJob : /\ j.at = l /\ j.copy = copy
                             /\ j.code = work[c].code /\ j.beat = work[c].beat
                             /\ work' = [work EXCEPT ![c] = j]
    BY <1>1, <1>4, WorkGotoIs
  <2>2. /\ finished => finished'
        /\ Claims(j.copy) => finished'
        /\ j.code = "success" => finished'
    BY <1>1, <1>4, <2>1
  <2>3. QED BY <1>1, <1>4, <2>1, <2>2, WorkUpdate
<1>5. ASSUME NEW copy \in Row, NEW s \in Status, Return(c, copy, s),
             UNCHANGED <<ctr, launch, recon, req, pending, bounds>>,
             finished => finished', finished' \in BOOLEAN,
             s = "completed" => finished'
      PROVE  IInv'
  <2> DEFINE j == [work[c] EXCEPT !.at = "exit", !.copy = NoRow,
                                  !.code = ExitCode(s)]
  <2>1. /\ j \in WorkJob /\ ~Claims(j.copy)
        /\ j.beat = work[c].beat
        /\ j.code = "success" => finished'
    BY <1>1, <1>5, ExitCodeType, NoRowType DEF WorkJob
  <2>2. work' = [work EXCEPT ![c] = j]
    BY <1>5 DEF Return
  <2> HIDE DEF j
  <2>3. Claims(j.copy) => finished'
    BY <2>1
  <2>4. WorkInv'
    BY <1>1, <1>5, <2>1, <2>2, <2>3, WorkUpdate
  <2>5. row' \in Row /\ row'.status = s /\ ~row'.ckpt
    BY <1>5 DEF Return, Row
  <2>6. Claims(row') => finished'
    BY <1>5, <2>5 DEF Claims
  <2>7. pending' \in BOOLEAN
    BY <1>5 DEF IInv, RowInv
  <2>8. QED BY <1>3, <1>5, <2>4, <2>5, <2>6, <2>7
<1>6. /\ row \in Row /\ pending \in BOOLEAN /\ finished \in BOOLEAN
      /\ Claims(row) => finished
  BY DEF IInv, RowInv, Honest
<1>7. CASE WorkerLock(c)
  <2> DEFINE w == [row EXCEPT !.status = "running"]
  <2>1. w \in Row /\ (Claims(w) => finished)
    BY <1>6, StatusType DEF Status
  <2>2. /\ UNCHANGED <<row, ctr, launch, recon, req, bounds, finished, pending>>
        /\ WorkGoto(c, "mark", row) \/ WorkGoto(c, "begin", w)
    BY <1>7 DEF WorkerLock
  <2> HIDE DEF w
  <2>3. WorkInv'
    BY <1>4, <1>6, <2>1, <2>2
  <2>4. QED BY <1>3, <1>6, <2>2, <2>3
<1>8. CASE WorkerBegin(c)
  <2>1. UNCHANGED <<ctr, launch, recon, req, bounds, finished, pending>>
    BY <1>8 DEF WorkerBegin
  <2>2. WorkInv'
    BY <1>1, <1>4, <1>8 DEF WorkerBegin, Honest
  <2>3. row' \in Row /\ (Claims(row') => finished')
    BY <1>1, <1>8, <2>1 DEF WorkerBegin, Honest
  <2>4. QED BY <1>3, <1>6, <2>1, <2>2, <2>3
<1>9. CASE Beat(c) \/ BeatSave(c)
  <2> DEFINE v == IF work[c].beat = None THEN row ELSE None
             j == [work[c] EXCEPT !.beat = v]
  <2>1. v \in Row \cup {None} /\ (v # None => (Claims(v) => finished))
    BY <1>6
  <2>2. /\ UNCHANGED <<ctr, launch, recon, req, bounds, finished, pending>>
        /\ work' = [work EXCEPT ![c] = j]
        /\ UNCHANGED row \/ (work[c].beat # None /\ row' = work[c].beat)
    BY <1>9 DEF Beat, BeatSave
  <2> HIDE DEF v
  <2>3. /\ j \in WorkJob /\ j.copy = work[c].copy /\ j.code = work[c].code
        /\ j.beat = v
    BY <1>1, <2>1 DEF WorkJob
  <2> HIDE DEF j
  <2>4. WorkInv'
    BY <1>1, <2>1, <2>2, <2>3, WorkUpdate DEF Honest
  <2>5. row' \in Row /\ (Claims(row') => finished')
    BY <1>1, <1>6, <2>2 DEF Honest
  <2>6. QED BY <1>3, <1>6, <2>2, <2>4, <2>5
<1>10. CASE WorkerEnd(c)
  <2>1. CASE Return(c, work[c].copy, "completed") /\ finished' = TRUE
    BY <1>1, <1>5, <1>10, <2>1 DEF WorkerEnd, Status, Terminal
  <2>2. CASE Return(c, work[c].copy, "failed") /\ UNCHANGED finished
    BY <1>1, <1>5, <1>6, <1>10, <2>2 DEF WorkerEnd, Status, Terminal
  <2>3. QED BY <1>10, <2>1, <2>2 DEF WorkerEnd
<1>11. CASE WorkerPause(c)
  <2> DEFINE w == [work[c].copy EXCEPT !.ckpt = FALSE]
             v == [work[c].copy EXCEPT !.status = "paused", !.ckpt = FALSE]
  <2>1. /\ w \in Row /\ v \in Row /\ ~Claims(v)
        /\ Claims(w) => Claims(work[c].copy)
    BY <1>1 DEF Row, Status, Claims
  <2>2. row' = v /\ WorkGoto(c, "wait", w)
    BY <1>11 DEF WorkerPause
  <2>3. UNCHANGED <<ctr, launch, recon, req, bounds, finished, pending>>
    BY <1>11 DEF WorkerPause
  <2> HIDE DEF w, v
  <2>4. WorkInv'
    BY <1>1, <1>4, <2>1, <2>2, <2>3 DEF Honest
  <2>5. QED BY <1>3, <1>6, <2>1, <2>2, <2>3, <2>4
<1>12. CASE WorkerWait(c)
  <2>1. WorkInv'
    BY <1>1, <1>4, <1>12 DEF WorkerWait, Honest
  <2>2. UNCHANGED <<row, ctr, launch, recon, req, bounds, finished>>
    BY <1>12 DEF WorkerWait
  <2>3. pending' \in BOOLEAN
    BY <1>12 DEF WorkerWait
  <2>4. QED BY <1>3, <1>6, <2>1, <2>2, <2>3
<1>13. CASE WorkerSleep(c)
  BY <1>1, <1>5, <1>6, <1>13 DEF WorkerSleep, Status, DurableWait
<1>14. CASE WorkerRaise(c)
  <2>1. WorkInv'
    BY <1>4, <1>6, <1>14 DEF WorkerRaise
  <2>2. UNCHANGED <<row, ctr, launch, recon, req, bounds, finished, pending>>
    BY <1>14 DEF WorkerRaise
  <2>3. QED BY <1>3, <1>6, <2>1, <2>2
<1>15. CASE WorkerMark(c)
  BY <1>1, <1>5, <1>6, <1>15 DEF WorkerMark, Status, Terminal
<1>16. CASE WorkerCheckpoint(c)
  <2>1. UNCHANGED <<ctr, launch, recon, req, bounds, pending>>
    BY <1>16 DEF WorkerCheckpoint
  <2>2. CASE UNCHANGED <<work, finished>>
    <3>1. WorkInv'
      BY <2>1, <2>2 DEF IInv, WorkInv, Honest
    <3>2. row' = work[c].copy
      BY <1>16, <2>2 DEF WorkerCheckpoint
    <3>3. QED BY <1>1, <1>3, <1>6, <2>1, <2>2, <3>1, <3>2 DEF Honest
  <2>3. CASE work' = [work EXCEPT ![c].copy.ckpt = TRUE] /\ finished' = TRUE
    <3> DEFINE w == [work[c].copy EXCEPT !.ckpt = TRUE]
               j == [work[c] EXCEPT !.copy = w]
    <3>1. w \in Row
      BY <1>1 DEF Row
    <3>2. /\ work \in [Containers -> WorkJob \cup {None}]
          /\ work' = [work EXCEPT ![c] = j]
      BY <1>1, <2>3 DEF TypeOK
    <3> HIDE DEF w
    <3>3. j \in WorkJob /\ j.copy = w /\ j.code = work[c].code
          /\ j.beat = work[c].beat
      BY <1>1, <3>1 DEF WorkJob
    <3> HIDE DEF j
    <3>4. WorkInv'
      BY <1>1, <2>1, <2>3, <3>2, <3>3, WorkUpdate
    <3>5. row' = w
      BY <1>16, <3>2, <3>3 DEF WorkerCheckpoint
    <3>6. QED BY <1>3, <1>6, <2>1, <2>3, <3>1, <3>4, <3>5
  <2>4. QED BY <1>16, <2>2, <2>3 DEF WorkerCheckpoint
<1>17. QED
  BY <1>2, <1>7, <1>10, <1>11, <1>12, <1>13, <1>14, <1>15, <1>16, <1>8, <1>9
  DEF WorkerStep

\* The end of a task, with the expired containers still to remove.
LEMMA ReconEndInv ==
  ASSUME IInv, finished => finished', \A c \in Containers : Dead(c) => Dead(c)',
         NEW t \in Tasks, NEW e \in SUBSET Containers, \A c \in e : Dead(c),
         ReconEnd(t, e)
  PROVE  ReconInv'
<1>1. CASE e = {}
  BY <1>1, ReconUpdate DEF ReconEnd
<1>2. CASE e # {}
  <2>1. PICK j \in ReconJob : /\ j.at = "expire" /\ j.copy = NoRow
                              /\ j.expired = e
                              /\ recon' = [recon EXCEPT ![t] = j]
    BY <1>2, NoReconType DEF ReconEnd
  <2>2. GoodRecon(j)'
    BY <2>1, NoRowType DEF GoodRecon, Honest
  <2>3. QED BY <2>1, <2>2, ReconUpdate
<1>3. QED BY <1>1, <1>2

\* A container that is removed: it was dead, or its worker is stopped first.
LEMMA RemoveStep ==
  ASSUME IInv, NEW e \in SUBSET Containers,
         ctr' = [c \in Containers |->
                   IF c \in e THEN [ctr[c] EXCEPT !.state = "gone"] ELSE ctr[c]],
         work' \in [Containers -> WorkJob \cup {None}],
         \A c \in e : work'[c] = None,
         \A c \in Containers \ e : work'[c] = work[c],
         UNCHANGED finished
  PROVE  /\ CtrInv' /\ WorkInv'
         /\ \A c \in Containers : Dead(c) => Dead(c)'
<1>1. ctr \in [Containers -> Ctr]
  BY DEF IInv, CtrInv
<1>2. \A c \in Containers : LET g == [ctr[c] EXCEPT !.state = "gone"]
                             IN  g \in Ctr /\ g.state = "gone" /\ g.code = ctr[c].code
  BY <1>1 DEF Ctr, CtrState
<1>3. /\ ctr' \in [Containers -> Ctr]
      /\ \A c \in e : ctr'[c].state = "gone"
      /\ \A c \in Containers : ctr'[c].code = ctr[c].code
      /\ \A c \in Containers \ e : ctr'[c] = ctr[c]
  BY <1>1, <1>2
<1>4. CtrInv'
  BY <1>3 DEF IInv, CtrInv, Present, Live
<1>5. WorkInv'
  BY <1>3 DEF IInv, WorkInv, Honest
<1>6. \A c \in Containers : Dead(c) => Dead(c)'
  BY <1>3 DEF Dead
<1>7. QED BY <1>4, <1>5, <1>6

LEMMA ReconStepInv ==
  ASSUME IInv, NEW t \in Tasks, ReconStep(t)
  PROVE  IInv'
<1> USE DEF ReconAt
<1>1. /\ TypeOK /\ recon[t] # None /\ recon[t] \in ReconJob
      /\ GoodRecon(recon[t])
  BY InvType, JobFields
  DEF ReconStep, WatchExit, LoopContainers, MarkMissing, MarkExited,
      RemoveFinished, Unlink, Reap, Reaped, Sync, CleanupExpired, IInv, ReconInv
<1>2. /\ recon[t].copy \in Row /\ recon[t].expired \in SUBSET Containers
      /\ recon[t].c \in Containers \cup {None}
      /\ \A c \in recon[t].expired : Dead(c)
      /\ Claims(recon[t].copy) => finished
  BY <1>1 DEF ReconJob, GoodRecon, Honest
<1>3. /\ UNCHANGED <<pending, launch, req, finished, bounds>>
      /\ finished => finished'
      /\ finished' \in BOOLEAN /\ pending' \in BOOLEAN
  BY DEF ReconStep, WatchExit, LoopContainers, MarkMissing, MarkExited,
         RemoveFinished, Unlink, Reap, Reaped, Sync, CleanupExpired, IInv, RowInv
<1>4. ASSUME CtrInv', WorkInv', ReconInv', row' \in Row,
             Claims(row') => finished',
             \A c \in Containers : Dead(c) => Dead(c)'
      PROVE  IInv'
  <2>1. RowInv'
    BY <1>3, <1>4, RowUpdate
  <2>2. QED BY <1>3, <1>4, <2>1, Frame DEF IInv
<1>5. UNCHANGED <<ctr, work>> => /\ CtrInv' /\ WorkInv'
                                 /\ \A c \in Containers : Dead(c) => Dead(c)'
  <2> SUFFICES ASSUME UNCHANGED <<ctr, work>>
               PROVE  /\ CtrInv' /\ WorkInv'
                      /\ \A c \in Containers : Dead(c) => Dead(c)'
    OBVIOUS
  <2>1. \A c \in Containers : Dead(c) => Dead(c)'
    BY DEF Dead
  <2>2. QED BY <1>3, <2>1, Frame
<1>6. UNCHANGED row => row' \in Row /\ (Claims(row') => finished')
  BY <1>3 DEF IInv, RowInv, Honest
\* The job moves to another label, perhaps with another copy of the row.
<1>7. ASSUME NEW j \in ReconJob, recon' = [recon EXCEPT ![t] = j],
             j.c = recon[t].c, j.at \notin {"list", "wait"},
             Claims(j.copy) => finished,
             \A c \in j.expired : Dead(c),
             j.at \in {"settle", "remove", "reap"} => j.c \in Containers,
             j.at \in {"settle", "remove"} => Dead(j.c),
             \A c \in Containers : Dead(c) => Dead(c)'
      PROVE  ReconInv'
  <2>1. Claims(j.copy) => finished'
    BY <1>3, <1>7
  <2>2. j.expired \subseteq Containers
    BY DEF ReconJob
  <2>3. GoodRecon(j)'
    BY <1>7, <2>1, <2>2 DEF GoodRecon, Honest
  <2>4. QED BY <1>3, <1>7, <2>3, ReconUpdate
<1>8. ASSUME ReconEnd(t, recon[t].expired),
             \A c \in Containers : Dead(c) => Dead(c)'
      PROVE  ReconInv'
  BY <1>2, <1>3, <1>8, ReconEndInv
<1>9. CASE WatchExit(t)
  <2> DEFINE c == recon[t].c
  <2>1. c \in Containers /\ ctr[c].code \in Code
    BY <1>1, <1>9 DEF WatchExit, GoodRecon, TypeOK, Ctr
  <2>2. UNCHANGED <<row, ctr, work>>
    BY <1>9 DEF WatchExit
  <2>3. ASSUME recon' = [recon EXCEPT ![t] = None]
        PROVE  ReconInv'
    BY <1>3, <1>5, <2>2, <2>3, ReconUpdate
  <2>4. ASSUME Dead(c),
               recon' = [recon EXCEPT ![t].at = "settle",
                                      ![t].copy = Settled(row, ctr[c].code)]
        PROVE  ReconInv'
    <3> DEFINE w == Settled(row, ctr[c].code)
               j == [recon[t] EXCEPT !.at = "settle", !.copy = w]
    <3>1. w \in Row /\ (Claims(w) => finished)
      BY <2>1, SettledType DEF IInv, RowInv, CtrInv, Honest
    <3> HIDE DEF w
    <3>2. /\ j \in ReconJob /\ j.at = "settle" /\ j.copy = w
          /\ j.c = c /\ j.expired = recon[t].expired
      BY <1>1, <3>1 DEF ReconJob
    <3>3. recon' = [recon EXCEPT ![t] = j]
      BY <2>4 DEF w
    <3> HIDE DEF j
    <3>4. QED BY <1>2, <1>5, <1>7, <2>1, <2>2, <2>4, <3>1, <3>2, <3>3
  <2>5. ASSUME recon' = [recon EXCEPT ![t].at = "sync", ![t].copy = row]
        PROVE  ReconInv'
    <3> DEFINE j == [recon[t] EXCEPT !.at = "sync", !.copy = row]
    <3>1. /\ j \in ReconJob /\ j.at = "sync" /\ j.copy = row
          /\ j.c = c /\ j.expired = recon[t].expired
      BY <1>1 DEF ReconJob, TypeOK
    <3>2. recon' = [recon EXCEPT ![t] = j]
      BY <2>5
    <3>3. Claims(row) => finished
      BY DEF IInv, RowInv, Honest
    <3> HIDE DEF j
    <3>4. QED BY <1>2, <1>5, <1>7, <2>1, <2>2, <3>1, <3>2, <3>3
  <2>6. ReconInv'
    BY <1>9, <2>3, <2>4, <2>5 DEF WatchExit, Dead
  <2>7. QED BY <1>4, <1>5, <1>6, <2>2, <2>6
<1>10. CASE LoopContainers(t)
  <2> DEFINE c == recon[t].c
             verdict == Verdict(recon[t].copy,
                                IF c = None THEN "none" ELSE ctr[c].state)
             expired == {d \in Containers : ctr[d].state = "exited" /\ ctr[d].old}
             w == IF verdict = "settle" THEN Settled(recon[t].copy, ctr[c].code)
                                        ELSE recon[t].copy
             j == [recon[t] EXCEPT !.at = verdict, !.expired = expired, !.copy = w]
  <2>1. UNCHANGED <<row, ctr, work>>
    BY <1>10 DEF LoopContainers
  <2>2. c = recon[t].copy.cid
    BY <1>1, <1>10 DEF LoopContainers, GoodRecon
  <2>3. /\ verdict \in {"expire", "missing", "settle", "reap", "sync"}
        /\ verdict \in {"settle", "reap"} => c \in Containers
        /\ verdict = "settle" => Dead(c)
    BY <1>2, <2>2 DEF Verdict, Dead
  <2> HIDE DEF verdict
  <2>4. expired \in SUBSET Containers /\ \A d \in expired : Dead(d)
    BY DEF Dead
  <2>5. w \in Row /\ (Claims(w) => finished)
    <3>1. CASE verdict = "settle"
      <4>1. c \in Containers /\ ctr[c].code \in Code
        BY <1>1, <2>3, <3>1 DEF TypeOK, Ctr
      <4>2. ctr[c].code = "success" => finished
        BY <4>1 DEF IInv, CtrInv
      <4>3. QED BY <1>2, <3>1, <4>1, <4>2, SettledType
    <3>2. CASE verdict # "settle"
      BY <1>2, <3>2
    <3>3. QED BY <3>1, <3>2
  <2>6. \/ verdict = "expire" /\ ReconEnd(t, expired)
        \/ verdict # "expire" /\ recon' = [recon EXCEPT ![t] = j]
    BY <1>10 DEF LoopContainers, verdict
  <2> HIDE DEF w, expired
  <2>7. CASE verdict = "expire" /\ ReconEnd(t, expired)
    BY <1>3, <1>4, <1>5, <1>6, <2>1, <2>4, <2>7, ReconEndInv
  <2>8. CASE verdict # "expire" /\ recon' = [recon EXCEPT ![t] = j]
    <3>1. /\ j \in ReconJob /\ j.at = verdict /\ j.copy = w
          /\ j.c = c /\ j.expired = expired
      BY <1>1, <2>3, <2>4, <2>5 DEF ReconJob
    <3> HIDE DEF j
    <3>2. ReconInv'
      BY <1>5, <1>7, <2>1, <2>3, <2>4, <2>5, <2>8, <3>1
    <3>3. QED BY <1>4, <1>5, <1>6, <2>1, <3>2
  <2>9. QED BY <2>6, <2>7, <2>8
<1>11. CASE MarkMissing(t)
  <2>1. UNCHANGED <<ctr, work>> /\ ReconEnd(t, recon[t].expired)
    BY <1>11 DEF MarkMissing
  <2>2. row' \in Row /\ (Claims(row') => finished')
    BY <1>2, <1>3, <1>11, StatusType DEF MarkMissing, Status, Terminal
  <2>3. QED BY <1>4, <1>5, <1>8, <2>1, <2>2
<1>12. CASE MarkExited(t)
  <2> DEFINE j == [recon[t] EXCEPT !.at = "remove"]
  <2>1. UNCHANGED <<ctr, work>> /\ row' = recon[t].copy
    BY <1>12 DEF MarkExited
  <2>2. recon' = [recon EXCEPT ![t] = j]
    BY <1>12 DEF MarkExited, ReconGoto
  <2>3. /\ j \in ReconJob /\ j.at = "remove" /\ j.copy = recon[t].copy
        /\ j.c = recon[t].c /\ j.expired = recon[t].expired
    BY <1>1 DEF ReconJob
  <2> HIDE DEF j
  <2>4. recon[t].c \in Containers /\ Dead(recon[t].c)
    BY <1>1, <1>12 DEF MarkExited, GoodRecon
  <2>5. ReconInv'
    BY <1>2, <1>5, <1>7, <2>1, <2>2, <2>3, <2>4
  <2>6. row' \in Row /\ (Claims(row') => finished')
    BY <1>2, <1>3, <2>1
  <2>7. QED BY <1>4, <1>5, <2>1, <2>5, <2>6
<1>13. CASE RemoveFinished(t)
  <2> DEFINE c == recon[t].c
             w == IF recon[t].copy.status \in Active THEN None
                                                     ELSE recon[t].copy.cid
             k == [recon[t].copy EXCEPT !.cid = w]
             j == [recon[t] EXCEPT !.at = "unlink", !.copy = k]
  <2>1. UNCHANGED <<row, work>>
    BY <1>13 DEF RemoveFinished
  <2>2. c \in Containers /\ Dead(c)
    BY <1>1, <1>13 DEF RemoveFinished, GoodRecon
  <2>3. CASE UNCHANGED ctr /\ ReconEnd(t, recon[t].expired)
    BY <1>4, <1>5, <1>6, <1>8, <2>1, <2>3
  <2>4. CASE /\ ctr' = [ctr EXCEPT ![c].state = "gone"]
             /\ recon' = [recon EXCEPT ![t].at = "unlink", ![t].copy.cid = w]
    <3>1. work[c] = None
      BY <2>2 DEF IInv, WorkInv, Dead
    <3>2. ctr' = [d \in Containers |->
             IF d \in {c} THEN [ctr[d] EXCEPT !.state = "gone"] ELSE ctr[d]]
      BY <1>1, <2>2, <2>4 DEF TypeOK
    <3>3. CtrInv' /\ WorkInv' /\ \A d \in Containers : Dead(d) => Dead(d)'
      <4>1. /\ {c} \in SUBSET Containers
            /\ work' \in [Containers -> WorkJob \cup {None}]
            /\ \A d \in {c} : work'[d] = None
            /\ \A d \in Containers \ {c} : work'[d] = work[d]
        BY <1>1, <2>1, <2>2, <3>1 DEF TypeOK
      <4>2. QED BY <1>3, <3>2, <4>1, RemoveStep
    <3>4. k \in Row /\ (Claims(k) => Claims(recon[t].copy))
      BY <1>2 DEF Row, Claims
    <3>5. recon' = [recon EXCEPT ![t] = j]
      BY <2>4
    <3> HIDE DEF k
    <3>6. /\ j \in ReconJob /\ j.at = "unlink" /\ j.copy = k
          /\ j.c = c /\ j.expired = recon[t].expired
      BY <1>1, <3>4 DEF ReconJob
    <3> HIDE DEF j
    <3>7. ReconInv'
      BY <1>2, <1>7, <3>3, <3>4, <3>5, <3>6
    <3>8. QED BY <1>4, <1>6, <2>1, <3>3, <3>7
  <2>5. QED BY <1>13, <2>3, <2>4 DEF RemoveFinished
<1>14. CASE Unlink(t) \/ Reaped(t)
  <2>1. /\ UNCHANGED <<ctr, work>> /\ row' = recon[t].copy
        /\ ReconEnd(t, recon[t].expired)
    BY <1>14 DEF Unlink, Reaped
  <2>2. row' \in Row /\ (Claims(row') => finished')
    BY <1>2, <1>3, <2>1
  <2>3. QED BY <1>4, <1>5, <1>8, <2>1, <2>2
<1>15. CASE Reap(t)
  <2> DEFINE c == recon[t].c
             j == [recon[t] EXCEPT !.at = "reaped"]
  <2>1. UNCHANGED row
    BY <1>15 DEF Reap
  <2>2. c \in Containers
    BY <1>1, <1>15 DEF Reap, GoodRecon
  <2>3. CASE UNCHANGED <<ctr, work>> /\ recon' = [recon EXCEPT ![t] = None]
    BY <1>3, <1>4, <1>5, <1>6, <2>1, <2>3, ReconUpdate
  <2>4. CASE /\ ctr' = [ctr EXCEPT ![c].state = "gone"]
             /\ work' = [work EXCEPT ![c] = None]
             /\ ReconGoto(t, "reaped")
    <3>1. ctr' = [d \in Containers |->
             IF d \in {c} THEN [ctr[d] EXCEPT !.state = "gone"] ELSE ctr[d]]
      BY <1>1, <2>2, <2>4 DEF TypeOK
    <3>2. CtrInv' /\ WorkInv' /\ \A d \in Containers : Dead(d) => Dead(d)'
      <4>1. /\ {c} \in SUBSET Containers
            /\ work' \in [Containers -> WorkJob \cup {None}]
            /\ \A d \in {c} : work'[d] = None
            /\ \A d \in Containers \ {c} : work'[d] = work[d]
        BY <1>1, <2>2, <2>4 DEF TypeOK
      <4>2. QED BY <1>3, <3>1, <4>1, RemoveStep
    <3>3. recon' = [recon EXCEPT ![t] = j]
      BY <2>4 DEF ReconGoto
    <3>4. /\ j \in ReconJob /\ j.at = "reaped" /\ j.copy = recon[t].copy
          /\ j.c = c /\ j.expired = recon[t].expired
      BY <1>1 DEF ReconJob
    <3> HIDE DEF j
    <3>5. ReconInv'
      BY <1>2, <1>7, <3>2, <3>3, <3>4
    <3>6. QED BY <1>4, <1>6, <2>1, <3>2, <3>5
  <2>5. QED BY <1>15, <2>3, <2>4 DEF Reap
<1>16. CASE Sync(t)
  <2>1. /\ UNCHANGED <<ctr, work>> /\ row' \in {row, recon[t].copy}
        /\ ReconEnd(t, recon[t].expired)
    BY <1>16 DEF Sync
  <2>2. row' \in Row /\ (Claims(row') => finished')
    BY <1>2, <1>3, <1>6, <2>1
  <2>3. QED BY <1>4, <1>5, <1>8, <2>1, <2>2
<1>17. CASE CleanupExpired(t)
  <2>1. UNCHANGED <<row, work>> /\ recon' = [recon EXCEPT ![t] = None]
    BY <1>17 DEF CleanupExpired
  <2>2. \A c \in recon[t].expired : work[c] = None
    BY <1>2 DEF IInv, WorkInv, Dead
  <2>3. CtrInv' /\ WorkInv' /\ \A d \in Containers : Dead(d) => Dead(d)'
    BY <1>1, <1>2, <1>3, <1>17, <2>1, <2>2, RemoveStep DEF TypeOK, CleanupExpired
  <2>4. ReconInv'
    BY <1>3, <2>1, <2>3, ReconUpdate
  <2>5. QED BY <1>4, <1>6, <2>1, <2>3, <2>4
<1>18. QED
  BY <1>9, <1>10, <1>11, <1>12, <1>13, <1>14, <1>15, <1>16, <1>17 DEF ReconStep

\* A repair cleans up the container of the row it has read.
LEMMA RepairStopInv ==
  ASSUME IInv, NEW r \in Callers, RepairStop(r)
  PROVE  IInv'
<1> DEFINE c == req[r].copy.cid
<1>1. /\ TypeOK /\ req[r] # None /\ req[r] \in ReqJob /\ req[r].copy \in Row
      /\ GoodReq(req[r]) /\ c \in Containers
  BY InvType, JobFields DEF RepairStop, ReqAt, IInv, ReqInv, GoodReq, ReqJob
<1>2. /\ UNCHANGED <<row, pending, launch, recon, finished, bounds>>
      /\ finished => finished'
  BY DEF RepairStop
<1>3. CtrInv' /\ WorkInv' /\ \A d \in Containers : Dead(d) => Dead(d)'
  <2>1. CASE ctr[c].state = "running"
    <3>1. "failure" \in Code /\ "failure" # "success"
      BY DEF Code
    <3>2. Exit(c, "failure")
      BY <2>1 DEF RepairStop
    <3>3. QED BY <1>1, <1>2, <2>1, <3>1, <3>2, ExitFrame
  <2>2. CASE ctr[c].state # "running"
    <3>1. UNCHANGED <<ctr, work>>
      BY <2>2 DEF RepairStop
    <3>2. \A d \in Containers : Dead(d) => Dead(d)'
      BY <3>1 DEF Dead
    <3>3. QED BY <1>2, <3>1, <3>2, Frame
  <2>3. QED BY <2>1, <2>2
<1>4. ReqInv'
  <2> DEFINE l == IF Present(c) THEN "remove" ELSE "repaired"
             j == [req[r] EXCEPT !.at = l, !.copy = req[r].copy]
  <2>1. j \in ReqJob /\ j.copy = req[r].copy
    BY <1>1 DEF ReqJob
  <2>2. req' = [req EXCEPT ![r] = j]
    BY DEF RepairStop, ReqGoto
  <2> HIDE DEF j
  <2>3. Claims(j.copy) => finished'
    BY <1>1, <1>2, <2>1 DEF GoodReq, Honest
  <2>4. QED BY <1>1, <1>2, <2>1, <2>2, <2>3, ReqUpdate
<1>5. RowInv'
  BY <1>2, RowFrame
<1>6. QED BY <1>2, <1>3, <1>4, <1>5, Frame DEF IInv

LEMMA RepairRemoveInv ==
  ASSUME IInv, NEW r \in Callers, RepairRemove(r)
  PROVE  IInv'
<1> DEFINE c == req[r].copy.cid
<1>1. /\ TypeOK /\ req[r] # None /\ req[r] \in ReqJob /\ req[r].copy \in Row
      /\ GoodReq(req[r]) /\ c \in Containers
  BY InvType, JobFields DEF RepairRemove, ReqAt, IInv, ReqInv, GoodReq, ReqJob
<1>2. /\ UNCHANGED <<row, pending, work, launch, recon, finished, bounds>>
      /\ finished => finished'
  BY DEF RepairRemove
<1>3. CtrInv' /\ WorkInv' /\ \A d \in Containers : Dead(d) => Dead(d)'
  <2> DEFINE e == IF ctr[c].state \in {"created", "exited"} THEN {c} ELSE {}
  <2>1. ctr' = [d \in Containers |->
                  IF d \in e THEN [ctr[d] EXCEPT !.state = "gone"] ELSE ctr[d]]
    BY <1>1 DEF RepairRemove, TypeOK
  <2>2. /\ e \in SUBSET Containers
        /\ \A d \in e : work[d] = None
    BY <1>1 DEF IInv, WorkInv
  <2>3. work \in [Containers -> WorkJob \cup {None}]
    BY <1>1 DEF TypeOK
  <2> HIDE DEF e
  <2>4. /\ work' \in [Containers -> WorkJob \cup {None}]
        /\ \A d \in e : work'[d] = None
        /\ \A d \in Containers \ e : work'[d] = work[d]
    BY <1>2, <2>2, <2>3
  <2>5. QED BY <1>2, <2>1, <2>2, <2>4, RemoveStep
<1>4. ReqInv'
  <2> DEFINE j == [req[r] EXCEPT !.at = "repaired", !.copy = req[r].copy]
  <2>1. j \in ReqJob /\ j.copy = req[r].copy
    BY <1>1 DEF ReqJob
  <2>2. req' = [req EXCEPT ![r] = j]
    BY DEF RepairRemove, ReqGoto
  <2> HIDE DEF j
  <2>3. Claims(j.copy) => finished'
    BY <1>1, <1>2, <2>1 DEF GoodReq, Honest
  <2>4. QED BY <1>1, <1>2, <2>1, <2>2, <2>3, ReqUpdate
<1>5. RowInv'
  BY <1>2, RowFrame
<1>6. QED BY <1>2, <1>3, <1>4, <1>5, Frame DEF IInv

LEMMA LoopListInv ==
  ASSUME IInv, NEW b \in Backends, LoopList(b)
  PROVE  IInv'
<1>1. /\ UNCHANGED <<row, pending, ctr, work, launch, req, finished, bounds>>
      /\ finished => finished'
  BY DEF LoopList
<1>2. \A c \in Containers : Dead(c) => Dead(c)'
  BY <1>1 DEF Dead
<1>3. <<b, "loop">> \in Tasks
  BY DEF Tasks
<1>4. PICK j \in ReconJob :
        /\ j.at = "list" /\ j.copy = row /\ j.c = row.cid /\ j.expired = {}
        /\ recon' = [recon EXCEPT ![<<b, "loop">>] = j]
  <2> DEFINE j == [NoRecon EXCEPT !.at = "list", !.copy = row, !.c = row.cid]
  <2>1. /\ j \in ReconJob /\ j.at = "list" /\ j.copy = row /\ j.c = row.cid
        /\ j.expired = {}
    BY DEF NoRecon, ReconJob, IInv, RowInv, Row
  <2>2. QED BY <2>1 DEF LoopList
<1>5. Claims(row) => finished'
  BY <1>1 DEF IInv, RowInv, Honest
<1>6. GoodRecon(j)'
  BY <1>4, <1>5 DEF GoodRecon, Honest
<1>7. ReconInv'
  BY <1>1, <1>2, <1>3, <1>4, <1>6, ReconUpdate
<1>8. RowInv'
  BY <1>1, RowFrame
<1>9. QED BY <1>1, <1>2, <1>7, <1>8, Frame DEF IInv

LEMMA CrashInv ==
  ASSUME IInv, NEW b \in Backends, Crash(b)
  PROVE  IInv'
<1>1. UNCHANGED <<row, pending, ctr, work, finished>> /\ (finished => finished')
  BY DEF Crash
<1>2. \A c \in Containers : Dead(c) => Dead(c)'
  BY <1>1 DEF Dead
<1>3. LaunchInv'
  BY <1>1, LaunchUpdate DEF Crash
<1>4. ReconInv'
  BY <1>1 DEF Crash, IInv, ReconInv, GoodRecon, Honest, Dead
<1>5. ReqInv'
  BY <1>1 DEF Crash, IInv, ReqInv, GoodReq, Honest
<1>6. RowInv'
  <2>1. requests' \in 0..MaxRequests /\ faults' \in 0..MaxFaults
    BY IsolatedAssumption DEF Crash, IInv, RowInv
  <2>2. QED BY <1>1, <2>1 DEF IInv, RowInv, Honest
<1>7. QED BY <1>1, <1>2, <1>3, <1>4, <1>5, <1>6, Frame DEF IInv

LEMMA WorkerDiesInv ==
  ASSUME IInv, NEW c \in Containers, WorkerDies(c)
  PROVE  IInv'
<1>1. requests' \in 0..MaxRequests /\ faults' \in 0..MaxFaults
  BY IsolatedAssumption DEF WorkerDies, IInv, RowInv
<1>2. "failure" \in Code /\ "failure" # "success"
  BY DEF Code
<1>3. QED BY <1>1, <1>2, ExitStep DEF WorkerDies

LEMMA AgeInv ==
  ASSUME IInv, NEW c \in Containers, Age(c)
  PROVE  IInv'
<1>1. /\ UNCHANGED <<row, pending, work, launch, recon, req, finished, bounds>>
      /\ finished => finished'
      /\ ctr' = [ctr EXCEPT ![c].old = TRUE]
  BY DEF Age
<1>2. /\ ctr' \in [Containers -> Ctr]
      /\ \A d \in Containers : /\ ctr'[d].state = ctr[d].state
                               /\ ctr'[d].code = ctr[d].code
  BY <1>1 DEF IInv, CtrInv, Ctr
<1>3. \A d \in Containers : Dead(d) => Dead(d)'
  BY <1>2 DEF Dead
<1>4. CtrInv'
  BY <1>1, <1>2 DEF IInv, CtrInv, Present
<1>5. WorkInv'
  BY <1>1, <1>2 DEF IInv, WorkInv, Honest
<1>6. RowInv'
  BY <1>1, RowFrame
<1>7. QED BY <1>1, <1>3, <1>4, <1>5, <1>6, Frame DEF IInv

LEMMA InvNext == IInv /\ [Next]_vars => IInv'
<1> SUFFICES ASSUME IInv, [Next]_vars PROVE IInv'
  OBVIOUS
<1>1. CASE UNCHANGED vars
  <2>1. /\ UNCHANGED <<row, pending, ctr, work, launch, recon, req, finished, bounds>>
        /\ finished => finished'
    BY <1>1 DEF vars, bounds
  <2>2. \A c \in Containers : Dead(c) => Dead(c)'
    BY <2>1 DEF Dead
  <2>3. RowInv'
    BY <2>1, RowFrame
  <2>4. QED BY <2>1, <2>2, <2>3, Frame DEF IInv
<1>2. CASE \E r \in Callers, b \in Backends :
             \/ StartRequest(r, b) \/ Wake(r, b) \/ CancelRequest(r, b)
             \/ RepairRequest(r, b)
  BY <1>2, RequestStep
<1>3. CASE \E r \in Callers : ReqStep(r)
  BY <1>3, ReqStepInv, RepairStopInv, RepairRemoveInv
<1>4. CASE \E b \in Backends :
             LaunchStep(b) \/ LaunchSave(b) \/ LoopList(b) \/ Crash(b)
  BY <1>4, LaunchStepInv, LoopListInv, CrashInv
<1>5. CASE \E t \in Tasks : ReconStep(t)
  BY <1>5, ReconStepInv
<1>6. CASE \E c \in Containers :
             \/ WorkerStep(c) \/ WorkerCheckpoint(c) \/ Beat(c) \/ BeatSave(c)
             \/ WorkerDies(c) \/ Age(c)
  BY <1>6, WorkerStepInv, WorkerDiesInv, AgeInv
<1>7. QED BY <1>1, <1>2, <1>3, <1>4, <1>5, <1>6 DEF Next

-----------------------------------------------------------------------------
(* The theorems.                                                           *)

LEMMA Invariant == Spec => []IInv
BY InvInit, InvNext, PTL DEF Spec

\* Every reachable state is well typed: no task of a backend, worker or
\* reconciler puts a value outside its columns.
THEOREM TypeCorrect == Spec => []TypeOK
<1>1. IInv => TypeOK
  BY InvType
<1>2. QED BY <1>1, Invariant, PTL

\* Two worker processes of one execution never run at the same time, however
\* many backends launch and whatever the execution lock says: create_container
\* refuses the second container of the name, and what a task removes without
\* stopping it is dead.
THEOREM SingleWorker == Spec => []OneWorker
<1>1. IInv => OneWorker
  BY DEF IInv, CtrInv, WorkInv, OneWorker, Present, Live
<1>2. QED BY <1>1, Invariant, PTL

\* The row says completed only after a worker has run the last tasks, or the
\* workflow to its end: no stale copy, no exit code and no repair of a stale
\* execution makes it up, whatever else races with the repair.  For a monitor
\* these are the last tasks of one cycle.
THEOREM CompletionIsReal == Spec => []NoFalseCompletion
<1>1. IInv => NoFalseCompletion
  BY DEF IInv, RowInv, Honest, Claims, NoFalseCompletion
<1>2. QED BY <1>1, Invariant, PTL
=============================================================================
