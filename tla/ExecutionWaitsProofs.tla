------------------------ MODULE ExecutionWaitsProofs ------------------------
(***************************************************************************)
(* Proofs about ExecutionWaits, for any number of executions, waits and    *)
(* concurrent requests: type correctness, one pending wait per execution,  *)
(* one wakeup per wait, and the refinement of WaitLedger.                  *)
(***************************************************************************)
EXTENDS ExecutionWaits, TLAPS

\* Labels at which the handler has a wait in hand, and at which it has a key.
WaitLabel == {"create_write", "resolve_check", "resolve_claim",
              "resolve_write", "resolve_emit", "close_claim", "close_write"}
KeyLabel == {"resolve_check", "resolve_claim", "resolve_write",
             "resolve_emit", "close_list", "close_claim", "close_write"}

\* The records a handler can really be in: it has the wait and the key that
\* its next store call needs.
GoodJob == {j \in Job : /\ j.at \in WaitLabel => j.w \in Waits
                        /\ j.at \in KeyLabel => j.rkey \in RKey}

\* A row that exists names its execution.
WellFormed ==
  /\ \A w \in Waits : waits[w].status # "absent" => waits[w].exec \in Executions
  /\ job \in [Actors -> GoodJob \cup {None}]

TypeInv == TypeOK /\ WellFormed

-----------------------------------------------------------------------------
(* Types of the records the steps build.                                   *)

\* A handler begins with a well-typed record (NewJob of every request).
LEMMA NewJobType ==
  ASSUME NEW l \in Label, NEW e \in Executions, NEW r \in Row
  PROVE  /\ l \notin WaitLabel \cup KeyLabel => NewJob(l, e, r) \in GoodJob
         /\ \A k \in WaitKind, key \in Keys, d \in BOOLEAN :
              l \notin WaitLabel \cup KeyLabel =>
                [NewJob(l, e, r) EXCEPT !.kind = k, !.ikey = key,
                                        !.deadline = d] \in GoodJob
         /\ \A w \in Waits, o \in WaitTerminal, rk \in RKey, b \in BOOLEAN :
              [NewJob(l, e, r) EXCEPT !.w = w, !.outcome = o, !.rkey = rk,
                                      !.resume = b] \in GoodJob
         /\ \A o \in WaitTerminal, rk \in RKey :
              l \notin WaitLabel =>
                [NewJob(l, e, r) EXCEPT !.outcome = o, !.rkey = rk] \in GoodJob
BY DEF NewJob, Job, GoodJob, WaitKind, WaitTerminal

\* The record updates the handlers make (label, wait in hand, row read).
LEMMA JobUpdate ==
  ASSUME NEW j \in GoodJob, NEW l \in Label,
         l \in WaitLabel => j.w \in Waits, l \in KeyLabel => j.rkey \in RKey
  PROVE  /\ [j EXCEPT !.at = l] \in GoodJob
         /\ \A r \in Row : [j EXCEPT !.at = l, !.snap = r] \in GoodJob
BY DEF Job, GoodJob

LEMMA JobTakesWait ==
  ASSUME NEW j \in GoodJob, NEW l \in Label, NEW w \in Waits,
         l \in KeyLabel => j.rkey \in RKey
  PROVE  [j EXCEPT !.at = l, !.w = w] \in GoodJob
BY DEF Job, GoodJob

\* What the fields of a handler in progress are.
LEMMA JobFields ==
  ASSUME NEW j \in GoodJob
  PROVE  /\ j \in Job /\ j # None
         /\ j.at \in Label /\ j.e \in Executions /\ j.w \in Waits \cup {None}
         /\ j.kind \in WaitKind /\ j.ikey \in Keys \cup {None}
         /\ j.deadline \in BOOLEAN /\ j.snap \in Row
         /\ j.outcome \in WaitTerminal /\ j.resume \in BOOLEAN
         /\ j.at \in WaitLabel => j.w \in Waits
         /\ j.at \in KeyLabel => j.rkey \in RKey
BY NoneAssumption DEF Job, GoodJob

\* The job table after one actor's step.
LEMMA JobsUpdate ==
  ASSUME job \in [Actors -> GoodJob \cup {None}], NEW a \in Actors,
         NEW j \in GoodJob \cup {None}, job' = [job EXCEPT ![a] = j]
  PROVE  /\ job' \in [Actors -> GoodJob \cup {None}]
         /\ job' \in [Actors -> Job \cup {None}]
BY DEF GoodJob

\* The rows that the steps write back (update_execution).
LEMMA RowUpdate ==
  ASSUME NEW r \in Row, NEW s \in Status, NEW w \in Waits \cup {None}
  PROVE  /\ [r EXCEPT !.status = s] \in Row
         /\ [r EXCEPT !.status = s, !.active = w] \in Row
         /\ ClearActive(r, w) \in Row
         /\ r.status \in Status /\ r.active \in Waits \cup {None}
BY DEF Row, ClearActive

\* The wait table after a won compare-and-set (resolve_execution_wait).
LEMMA ClaimType ==
  ASSUME TypeInv, NEW w \in Waits, NEW o \in WaitTerminal, NEW k \in RKey,
         waits[w].status = "pending", ClaimRow(w, o, k)
  PROVE  /\ waits' \in [Waits -> WaitRow]
         /\ \A v \in Waits :
              waits'[v].status # "absent" => waits'[v].exec \in Executions
         /\ waits'[w].status = o /\ waits'[w].rkey = k
         /\ waits'[w].exec = waits[w].exec
<1> DEFINE new == [waits[w] EXCEPT !.status = o, !.rkey = k]
<1>1. waits[w] \in WaitRow /\ waits[w].exec \in Executions
  BY DEF TypeInv, TypeOK, WellFormed
<1>2. new \in WaitRow /\ new.exec = waits[w].exec /\ new.status = o /\ new.rkey = k
  BY <1>1 DEF WaitRow, WaitStatus
<1>3. waits' = [waits EXCEPT ![w] = new]
  BY DEF ClaimRow, TypeInv, TypeOK
<1> HIDE DEF new
<1>4. QED BY <1>1, <1>2, <1>3 DEF TypeInv, TypeOK, WellFormed

-----------------------------------------------------------------------------
(* Type correctness.                                                       *)

\* The initial state is well typed.
LEMMA TypeInvInit == Init => TypeInv
BY WaitsAssumption DEF Init, TypeInv, TypeOK, WellFormed, NoRow, NoSnap,
   NoWaitRow, Row, WaitRow, Status, WaitStatus, WaitKind, TaskLabel

\* Each step of a handler in progress keeps the types.
LEMMA HandlerTypes ==
  ASSUME TypeInv, NEW a \in Actors, HandlerStep(a)
  PROVE  TypeInv'
<1>0. ASSUME job[a] # None
      PROVE  job[a] \in GoodJob /\ execs[job[a].e] \in Row
  BY <1>0, JobFields DEF TypeInv, TypeOK, WellFormed
<1>1. CASE CreateList(a)
  <2>1. job[a] \in GoodJob /\ execs[job[a].e] \in Row
    BY <1>0, <1>1 DEF CreateList, At
  <2>2. PICK j \in GoodJob \cup {None} : job' = [job EXCEPT ![a] = j]
    <3>1. [job[a] EXCEPT !.at = "create_insert"] \in GoodJob
      BY <1>1, <2>1, JobUpdate, JobFields DEF CreateList, At, Label, WaitLabel, KeyLabel
    <3>2. QED BY <1>1, <2>1, <3>1 DEF CreateList, Done, Goto
  <2>4. QED
    BY <1>1, <2>2, JobsUpdate DEF CreateList, TypeInv, TypeOK, WellFormed, engine, bounds
<1>2. CASE CreateInsert(a)
  <2>1. job[a] \in GoodJob /\ execs[job[a].e] \in Row
    BY <1>0, <1>2 DEF CreateInsert, At
  <2>2. PICK j \in GoodJob \cup {None} : job' = [job EXCEPT ![a] = j]
    <3>1. \A w \in Waits : [job[a] EXCEPT !.at = "create_write", !.w = w] \in GoodJob
      BY <1>2, <2>1, JobTakesWait, JobFields DEF CreateInsert, At, Label, KeyLabel
    <3>2. QED BY <1>2, <2>1, <3>1 DEF CreateInsert, Done, Goto, SameKey
  <2>3. /\ waits' \in [Waits -> WaitRow]
        /\ \A w \in Waits : waits'[w].status # "absent" => waits'[w].exec \in Executions
    <3> DEFINE new == [status |-> "pending", exec |-> job[a].e,
                       kind |-> job[a].kind, ikey |-> job[a].ikey,
                       deadline |-> job[a].deadline, rkey |-> None]
    <3>1. new \in WaitRow /\ new.exec \in Executions
      BY <2>1, JobFields DEF WaitRow, WaitStatus
    <3>2. UNCHANGED waits \/ \E w \in Waits : waits' = [waits EXCEPT ![w] = new]
      BY <1>2 DEF CreateInsert
    <3> HIDE DEF new
    <3>3. QED BY <3>1, <3>2 DEF TypeInv, TypeOK, WellFormed
  <2>4. QED
    BY <1>2, <2>2, <2>3, JobsUpdate DEF CreateInsert, TypeInv, TypeOK, WellFormed, engine, bounds
<1>3. CASE CreateSuspend(a)
  <2>1. job[a] \in GoodJob /\ execs[job[a].e] \in Row
    BY <1>0, <1>3 DEF CreateSuspend, At
  <2>2. PICK j \in GoodJob \cup {None} : job' = [job EXCEPT ![a] = j]
    BY <1>3 DEF CreateSuspend, Done
  <2>3. execs' \in [Executions -> Row]
    <3>1. [job[a].snap EXCEPT !.status = WaitExecutionStatus[job[a].kind],
                             !.active = job[a].w] \in Row
      BY <1>3, <2>1, JobFields, RowUpdate DEF CreateSuspend, At, Status, DurableWait, Terminal, WaitExecutionStatus, WaitKind, WaitLabel
    <3>2. QED BY <1>3, <2>1, <3>1, JobFields DEF CreateSuspend, WriteRow, TypeInv, TypeOK
  <2>4. QED
    BY <1>3, <2>2, <2>3, JobsUpdate DEF CreateSuspend, TypeInv, TypeOK, WellFormed, engine, bounds
<1>4. CASE ResolveCheck(a)
  <2>1. job[a] \in GoodJob /\ execs[job[a].e] \in Row
    BY <1>0, <1>4 DEF ResolveCheck, At
  <2>2. PICK j \in GoodJob \cup {None} : job' = [job EXCEPT ![a] = j]
    <3>1. [job[a] EXCEPT !.at = "resolve_claim", !.snap = execs[job[a].e]] \in GoodJob
      BY <1>4, <2>1, JobUpdate, JobFields, ZenonT(60) DEF ResolveCheck, At, Label, WaitLabel, KeyLabel
    <3>2. QED BY <1>4, <2>1, <3>1 DEF ResolveCheck, Done, Goto
  <2>4. QED
    BY <1>4, <2>2, JobsUpdate DEF ResolveCheck, TypeInv, TypeOK, WellFormed, engine, bounds
<1>5. CASE ResolveClaim(a)
  <2>1. job[a] \in GoodJob /\ execs[job[a].e] \in Row
    BY <1>0, <1>5 DEF ResolveClaim, At
  <2>2. PICK j \in GoodJob \cup {None} : job' = [job EXCEPT ![a] = j]
    <3>1. [job[a] EXCEPT !.at = "resolve_write"] \in GoodJob
      BY <1>5, <2>1, JobUpdate, JobFields DEF ResolveClaim, At, Label, WaitLabel, KeyLabel
    <3>2. QED BY <1>5, <2>1, <3>1 DEF ResolveClaim, Done, Goto
  <2>3. /\ waits' \in [Waits -> WaitRow]
        /\ \A w \in Waits : waits'[w].status # "absent" => waits'[w].exec \in Executions
    <3>1. job[a].w \in Waits /\ job[a].outcome \in WaitTerminal /\ job[a].rkey \in RKey
      BY <1>5, <2>1, JobFields DEF ResolveClaim, At, WaitLabel, KeyLabel
    <3>2. QED
      BY <1>5, <3>1, ClaimType DEF ResolveClaim, Claimable, TypeInv, TypeOK, WellFormed
  <2>4. QED
    BY <1>5, <2>2, <2>3, JobsUpdate DEF ResolveClaim, TypeInv, TypeOK, WellFormed, engine, bounds
<1>6. CASE ResolveWrite(a)
  <2>1. job[a] \in GoodJob /\ execs[job[a].e] \in Row
    BY <1>0, <1>6 DEF ResolveWrite, At
  <2>2. PICK j \in GoodJob \cup {None} : job' = [job EXCEPT ![a] = j]
    <3>1. [job[a] EXCEPT !.at = "resolve_emit"] \in GoodJob
      BY <1>6, <2>1, JobUpdate, JobFields DEF ResolveWrite, At, Label, WaitLabel, KeyLabel
    <3>2. QED BY <1>6, <2>1, <3>1 DEF ResolveWrite, Done, Goto
  <2>3. execs' \in [Executions -> Row]
    <3>1. [ClearActive(job[a].snap, job[a].w) EXCEPT !.status = "paused"] \in Row
      BY <1>6, <2>1, JobFields, RowUpdate DEF ResolveWrite, At, Status, DurableWait, Terminal, WaitExecutionStatus, WaitKind, WaitLabel
    <3>2. QED BY <1>6, <2>1, <3>1, JobFields DEF ResolveWrite, WriteRow, TypeInv, TypeOK
  <2>4. QED
    BY <1>6, <2>2, <2>3, JobsUpdate DEF ResolveWrite, TypeInv, TypeOK, WellFormed, engine, bounds
<1>7. CASE ResolveEmit(a)
  <2>1. job[a] \in GoodJob /\ execs[job[a].e] \in Row
    BY <1>0, <1>7 DEF ResolveEmit, At
  <2>2. PICK j \in GoodJob \cup {None} : job' = [job EXCEPT ![a] = j]
    <3>1. [job[a] EXCEPT !.at = "resume_read"] \in GoodJob
      BY <1>7, <2>1, JobUpdate, JobFields DEF ResolveEmit, At, Label, WaitLabel, KeyLabel
    <3>2. QED BY <1>7, <2>1, <3>1 DEF ResolveEmit, Done, Goto
  <2>4. QED
    BY <1>7, <2>2, <2>1, JobFields, JobsUpdate DEF ResolveEmit, At, TypeInv, TypeOK, WellFormed, engine, bounds, WaitLabel
<1>8. CASE ResumeRead(a)
  <2>1. job[a] \in GoodJob /\ execs[job[a].e] \in Row
    BY <1>0, <1>8 DEF ResumeRead, At
  <2>2. PICK j \in GoodJob \cup {None} : job' = [job EXCEPT ![a] = j]
    <3>1. [job[a] EXCEPT !.at = "resume_list"] \in GoodJob
      BY <1>8, <2>1, JobUpdate, JobFields DEF ResumeRead, At, Label, WaitLabel, KeyLabel
    <3>2. QED BY <1>8, <2>1, <3>1 DEF ResumeRead, Done, Goto
  <2>4. QED
    BY <1>8, <2>2, JobsUpdate DEF ResumeRead, TypeInv, TypeOK, WellFormed, engine, bounds
<1>9. CASE ResumeList(a)
  <2>1. job[a] \in GoodJob /\ execs[job[a].e] \in Row
    BY <1>0, <1>9 DEF ResumeList, At
  <2>2. PICK j \in GoodJob \cup {None} : job' = [job EXCEPT ![a] = j]
    <3>1. [job[a] EXCEPT !.at = "engine_resume_read"] \in GoodJob
      BY <1>9, <2>1, JobUpdate, JobFields DEF ResumeList, At, Label, WaitLabel, KeyLabel
    <3>2. QED BY <1>9, <2>1, <3>1 DEF ResumeList, Done, Goto
  <2>4. QED
    BY <1>9, <2>2, JobsUpdate DEF ResumeList, TypeInv, TypeOK, WellFormed, engine, bounds
<1>10. CASE EngineResumeRead(a)
  <2>1. job[a] \in GoodJob /\ execs[job[a].e] \in Row
    BY <1>0, <1>10 DEF EngineResumeRead, At
  <2>2. PICK j \in GoodJob \cup {None} : job' = [job EXCEPT ![a] = j]
    <3>1. [job[a] EXCEPT !.at = "engine_resume_write", !.snap = execs[job[a].e]] \in GoodJob
      BY <1>10, <2>1, JobUpdate, JobFields DEF EngineResumeRead, At, Label, WaitLabel, KeyLabel
    <3>2. CASE execs[job[a].e].status \in Terminal
      BY <1>10, <3>2 DEF EngineResumeRead, Done
    <3>3. CASE execs[job[a].e].status \notin Terminal
      <4>1. job' = [job EXCEPT ![a] = [job[a] EXCEPT !.at = "engine_resume_write",
                                                  !.snap = execs[job[a].e]]]
        BY <1>10, <3>3 DEF EngineResumeRead, TypeInv, TypeOK
      <4>2. QED BY <3>1, <4>1
    <3>4. QED BY <3>2, <3>3
  <2>4. QED
    BY <1>10, <2>2, <2>1, JobFields, JobsUpdate DEF EngineResumeRead, TypeInv, TypeOK, WellFormed, engine, bounds
<1>11. CASE EngineResumeWrite(a)
  <2>1. job[a] \in GoodJob /\ execs[job[a].e] \in Row
    BY <1>0, <1>11 DEF EngineResumeWrite, At
  <2>2. PICK j \in GoodJob \cup {None} : job' = [job EXCEPT ![a] = j]
    <3>1. [job[a] EXCEPT !.at = "queue_read"] \in GoodJob
      BY <1>11, <2>1, JobUpdate, JobFields DEF EngineResumeWrite, At, Label, WaitLabel, KeyLabel
    <3>2. QED BY <1>11, <2>1, <3>1 DEF EngineResumeWrite, Done, Goto
  <2>3. execs' \in [Executions -> Row]
    <3>1. [job[a].snap EXCEPT !.status = "queued"] \in Row
      BY <1>11, <2>1, JobFields, RowUpdate DEF EngineResumeWrite, At, Status, DurableWait, Terminal, WaitExecutionStatus, WaitKind, WaitLabel
    <3>2. QED BY <1>11, <2>1, <3>1, JobFields DEF EngineResumeWrite, WriteRow, TypeInv, TypeOK
  <2>4. QED
    BY <1>11, <2>2, <2>3, JobsUpdate DEF EngineResumeWrite, TypeInv, TypeOK, WellFormed, engine, bounds
<1>12. CASE QueueRead(a)
  <2>1. job[a] \in GoodJob /\ execs[job[a].e] \in Row
    BY <1>0, <1>12 DEF QueueRead, At
  <2>2. PICK j \in GoodJob \cup {None} : job' = [job EXCEPT ![a] = j]
    <3>1. [job[a] EXCEPT !.at = "queue_list", !.snap = execs[job[a].e]] \in GoodJob
      BY <1>12, <2>1, JobUpdate, JobFields DEF QueueRead, At, Label, WaitLabel, KeyLabel
    <3>2. QED BY <1>12, <2>1, <3>1 DEF QueueRead, Done, Goto
  <2>4. QED
    BY <1>12, <2>2, JobsUpdate DEF QueueRead, TypeInv, TypeOK, WellFormed, engine, bounds
<1>13. CASE QueueList(a)
  <2>1. job[a] \in GoodJob /\ execs[job[a].e] \in Row
    BY <1>0, <1>13 DEF QueueList, At
  <2>2. PICK j \in GoodJob \cup {None} : job' = [job EXCEPT ![a] = j]
    <3>1. [job[a] EXCEPT !.at = "queue_write"] \in GoodJob
      BY <1>13, <2>1, JobUpdate, JobFields DEF QueueList, At, Label, WaitLabel, KeyLabel
    <3>2. QED BY <1>13, <2>1, <3>1 DEF QueueList, Done, Goto
  <2>4. QED
    BY <1>13, <2>2, JobsUpdate DEF QueueList, TypeInv, TypeOK, WellFormed, engine, bounds
<1>14. CASE QueueWrite(a)
  <2>1. job[a] \in GoodJob /\ execs[job[a].e] \in Row
    BY <1>0, <1>14 DEF QueueWrite, At
  <2>2. PICK j \in GoodJob \cup {None} : job' = [job EXCEPT ![a] = j]
    BY <1>14 DEF QueueWrite, Done
  <2>3. execs' \in [Executions -> Row]
    <3>1. [job[a].snap EXCEPT !.status = "queued"] \in Row
      BY <1>14, <2>1, JobFields, RowUpdate DEF QueueWrite, At, Status, DurableWait, Terminal, WaitExecutionStatus, WaitKind, WaitLabel
    <3>2. QED BY <1>14, <2>1, <3>1, JobFields DEF QueueWrite, WriteRow, TypeInv, TypeOK
  <2>4. QED
    BY <1>14, <2>2, <2>3, <2>1, JobFields, JobsUpdate DEF QueueWrite, TypeInv, TypeOK, WellFormed, engine, bounds, TaskLabel
<1>15. CASE CloseList(a)
  <2>1. job[a] \in GoodJob /\ execs[job[a].e] \in Row
    BY <1>0, <1>15 DEF CloseList, At
  <2>2. PICK j \in GoodJob \cup {None} : job' = [job EXCEPT ![a] = j]
    <3>1. [job[a] EXCEPT !.at = "engine_pause_read"] \in GoodJob
      BY <1>15, <2>1, JobUpdate, JobFields DEF CloseList, At, Label, WaitLabel, KeyLabel
    <3>2. [job[a] EXCEPT !.at = "cancel_read"] \in GoodJob
      BY <1>15, <2>1, JobUpdate, JobFields DEF CloseList, At, Label, WaitLabel, KeyLabel
    <3>3. \A w \in Waits : [job[a] EXCEPT !.at = "close_claim", !.w = w] \in GoodJob
      BY <1>15, <2>1, JobTakesWait, JobFields DEF CloseList, At, Label, KeyLabel
    <3>4. [job[a] EXCEPT !.at = AfterClose(a)] \in GoodJob
      BY <3>1, <3>2 DEF AfterClose
    <3>5. CASE Goto(a, AfterClose(a))
      BY <3>4, <3>5 DEF Goto
    <3>6. CASE \E w \in Waits : job' = [job EXCEPT ![a].at = "close_claim", ![a].w = w]
      <4>1. PICK w \in Waits : job' = [job EXCEPT ![a].at = "close_claim", ![a].w = w]
        BY <3>6
      <4>2. job' = [job EXCEPT ![a] = [job[a] EXCEPT !.at = "close_claim", !.w = w]]
        BY <2>1, <4>1
      <4>3. QED BY <3>3, <4>2
    <3>7. QED BY <1>15, <3>5, <3>6 DEF CloseList, Pending
  <2>4. QED
    BY <1>15, <2>2, JobsUpdate DEF CloseList, TypeInv, TypeOK, WellFormed, engine, bounds
<1>16. CASE CloseClaim(a)
  <2>1. job[a] \in GoodJob /\ execs[job[a].e] \in Row
    BY <1>0, <1>16 DEF CloseClaim, At
  <2>2. PICK j \in GoodJob \cup {None} : job' = [job EXCEPT ![a] = j]
    <3>1. [job[a] EXCEPT !.at = "close_write"] \in GoodJob
      BY <1>16, <2>1, JobUpdate, JobFields DEF CloseClaim, At, Label, WaitLabel, KeyLabel
    <3>2. [job[a] EXCEPT !.at = "engine_pause_read"] \in GoodJob
      BY <1>16, <2>1, JobUpdate, JobFields DEF CloseClaim, At, Label, WaitLabel, KeyLabel
    <3>3. [job[a] EXCEPT !.at = "cancel_read"] \in GoodJob
      BY <1>16, <2>1, JobUpdate, JobFields DEF CloseClaim, At, Label, WaitLabel, KeyLabel
    <3>4. QED BY <1>16, <2>1, <3>1, <3>2, <3>3 DEF CloseClaim, Done, Goto, AfterClose
  <2>3. /\ waits' \in [Waits -> WaitRow]
        /\ \A w \in Waits : waits'[w].status # "absent" => waits'[w].exec \in Executions
    <3>1. job[a].w \in Waits /\ job[a].outcome \in WaitTerminal /\ job[a].rkey \in RKey
      BY <1>16, <2>1, JobFields DEF CloseClaim, At, WaitLabel, KeyLabel
    <3>2. QED
      BY <1>16, <3>1, ClaimType DEF CloseClaim, Claimable, TypeInv, TypeOK, WellFormed
  <2>4. QED
    BY <1>16, <2>2, <2>3, JobsUpdate DEF CloseClaim, TypeInv, TypeOK, WellFormed, engine, bounds
<1>17. CASE CloseWrite(a)
  <2>1. job[a] \in GoodJob /\ execs[job[a].e] \in Row
    BY <1>0, <1>17 DEF CloseWrite, At
  <2>2. PICK j \in GoodJob \cup {None} : job' = [job EXCEPT ![a] = j]
    <3>1. [job[a] EXCEPT !.at = "engine_pause_read"] \in GoodJob
      BY <1>17, <2>1, JobUpdate, JobFields DEF CloseWrite, At, Label, WaitLabel, KeyLabel
    <3>2. [job[a] EXCEPT !.at = "cancel_read"] \in GoodJob
      BY <1>17, <2>1, JobUpdate, JobFields DEF CloseWrite, At, Label, WaitLabel, KeyLabel
    <3>3. QED BY <1>17, <2>1, <3>1, <3>2 DEF CloseWrite, Done, Goto, AfterClose
  <2>3. execs' \in [Executions -> Row]
    <3>1. (IF IsPause(a) THEN [ClearActive(job[a].snap, job[a].w) EXCEPT
                                !.status = "paused"]
                          ELSE ClearActive(job[a].snap, job[a].w)) \in Row
      BY <1>17, <2>1, JobFields, RowUpdate DEF CloseWrite, At, Status, DurableWait, Terminal, WaitExecutionStatus, WaitKind, WaitLabel
    <3>2. QED BY <1>17, <2>1, <3>1, JobFields DEF CloseWrite, WriteRow, TypeInv, TypeOK
  <2>4. QED
    BY <1>17, <2>2, <2>3, JobsUpdate DEF CloseWrite, TypeInv, TypeOK, WellFormed, engine, bounds
<1>18. CASE EnginePauseRead(a)
  <2>1. job[a] \in GoodJob /\ execs[job[a].e] \in Row
    BY <1>0, <1>18 DEF EnginePauseRead, At
  <2>2. PICK j \in GoodJob \cup {None} : job' = [job EXCEPT ![a] = j]
    <3>1. [job[a] EXCEPT !.at = "engine_pause_write", !.snap = execs[job[a].e]] \in GoodJob
      BY <1>18, <2>1, JobUpdate, JobFields DEF EnginePauseRead, At, Label, WaitLabel, KeyLabel
    <3>2. QED BY <1>18, <2>1, <3>1 DEF EnginePauseRead, Done, Goto
  <2>4. QED
    BY <1>18, <2>2, <2>1, JobFields, JobsUpdate DEF EnginePauseRead, TypeInv, TypeOK, WellFormed, engine, bounds
<1>19. CASE EnginePauseWrite(a)
  <2>1. job[a] \in GoodJob /\ execs[job[a].e] \in Row
    BY <1>0, <1>19 DEF EnginePauseWrite, At
  <2>2. PICK j \in GoodJob \cup {None} : job' = [job EXCEPT ![a] = j]
    BY <1>19 DEF EnginePauseWrite, Done
  <2>3. execs' \in [Executions -> Row]
    <3>1. [job[a].snap EXCEPT !.status = IF @ \in DurableWait THEN @
                                                      ELSE "paused"] \in Row
      BY <1>19, <2>1, JobFields, RowUpdate DEF EnginePauseWrite, At, Status, DurableWait, Terminal, WaitExecutionStatus, WaitKind, WaitLabel
    <3>2. QED BY <1>19, <2>1, <3>1, JobFields DEF EnginePauseWrite, WriteRow, TypeInv, TypeOK
  <2>4. QED
    BY <1>19, <2>2, <2>3, JobsUpdate DEF EnginePauseWrite, TypeInv, TypeOK, WellFormed, engine, bounds
<1>20. CASE CancelRead(a)
  <2>1. job[a] \in GoodJob /\ execs[job[a].e] \in Row
    BY <1>0, <1>20 DEF CancelRead, At
  <2>2. PICK j \in GoodJob \cup {None} : job' = [job EXCEPT ![a] = j]
    <3>1. [job[a] EXCEPT !.at = "cancel_write", !.snap = execs[job[a].e]] \in GoodJob
      BY <1>20, <2>1, JobUpdate, JobFields DEF CancelRead, At, Label, WaitLabel, KeyLabel
    <3>2. QED BY <1>20, <2>1, <3>1 DEF CancelRead, Done, Goto
  <2>4. QED
    BY <1>20, <2>2, JobsUpdate DEF CancelRead, TypeInv, TypeOK, WellFormed, engine, bounds
<1>21. CASE CancelWrite(a)
  <2>1. job[a] \in GoodJob /\ execs[job[a].e] \in Row
    BY <1>0, <1>21 DEF CancelWrite, At
  <2>2. PICK j \in GoodJob \cup {None} : job' = [job EXCEPT ![a] = j]
    <3>1. [job[a] EXCEPT !.at = "engine_cancel_read"] \in GoodJob
      BY <1>21, <2>1, JobUpdate, JobFields DEF CancelWrite, At, Label, WaitLabel, KeyLabel
    <3>2. QED BY <1>21, <2>1, <3>1 DEF CancelWrite, Done, Goto
  <2>3. execs' \in [Executions -> Row]
    <3>1. [job[a].snap EXCEPT !.status = "cancelling"] \in Row
      BY <1>21, <2>1, JobFields, RowUpdate DEF CancelWrite, At, Status, DurableWait, Terminal, WaitExecutionStatus, WaitKind, WaitLabel
    <3>2. QED BY <1>21, <2>1, <3>1, JobFields DEF CancelWrite, WriteRow, TypeInv, TypeOK
  <2>4. QED
    BY <1>21, <2>2, <2>3, JobsUpdate DEF CancelWrite, TypeInv, TypeOK, WellFormed, engine, bounds
<1>22. CASE EngineCancelRead(a)
  <2>1. job[a] \in GoodJob /\ execs[job[a].e] \in Row
    BY <1>0, <1>22 DEF EngineCancelRead, At
  <2>2. PICK j \in GoodJob \cup {None} : job' = [job EXCEPT ![a] = j]
    <3>1. [job[a] EXCEPT !.at = "engine_cancel_write", !.snap = execs[job[a].e]] \in GoodJob
      BY <1>22, <2>1, JobUpdate, JobFields, ZenonT(60) DEF EngineCancelRead, At, Label, WaitLabel, KeyLabel
    <3>2. QED BY <1>22, <2>1, <3>1 DEF EngineCancelRead, Done, Goto
  <2>4. QED
    BY <1>22, <2>2, <2>1, JobFields, JobsUpdate DEF EngineCancelRead, TypeInv, TypeOK, WellFormed, engine, bounds
<1>23. CASE EngineCancelWrite(a)
  <2>1. job[a] \in GoodJob /\ execs[job[a].e] \in Row
    BY <1>0, <1>23 DEF EngineCancelWrite, At
  <2>2. PICK j \in GoodJob \cup {None} : job' = [job EXCEPT ![a] = j]
    <3>1. \A r \in Row : [job[a] EXCEPT !.at = "preserve_write", !.snap = r] \in GoodJob
      BY <2>1, JobUpdate DEF Label, WaitLabel, KeyLabel
    <3>2. [job[a].snap EXCEPT !.status = IF @ = "running" THEN "cancelling"
                                                      ELSE "cancelled"] \in Row
      BY <2>1, JobFields, RowUpdate DEF Status, Terminal
    <3>3. QED BY <1>23, <2>1, <3>1, <3>2 DEF EngineCancelWrite, Done, Goto
  <2>3. execs' \in [Executions -> Row]
    <3>1. [job[a].snap EXCEPT !.status = IF @ = "running" THEN "cancelling"
                                                      ELSE "cancelled"] \in Row
      BY <1>23, <2>1, JobFields, RowUpdate DEF EngineCancelWrite, At, Status, DurableWait, Terminal, WaitExecutionStatus, WaitKind, WaitLabel
    <3>2. QED BY <1>23, <2>1, <3>1, JobFields DEF EngineCancelWrite, WriteRow, TypeInv, TypeOK
  <2>4. QED
    BY <1>23, <2>2, <2>3, JobsUpdate DEF EngineCancelWrite, TypeInv, TypeOK, WellFormed, engine, bounds
<1>24. CASE PreserveWrite(a)
  <2>1. job[a] \in GoodJob /\ execs[job[a].e] \in Row
    BY <1>0, <1>24 DEF PreserveWrite, At
  <2>2. PICK j \in GoodJob \cup {None} : job' = [job EXCEPT ![a] = j]
    BY <1>24 DEF PreserveWrite, Done
  <2>3. execs' \in [Executions -> Row]
    <3>1. job[a].snap \in Row
      BY <1>24, <2>1, JobFields, RowUpdate DEF PreserveWrite, At, Status, DurableWait, Terminal, WaitExecutionStatus, WaitKind, WaitLabel
    <3>2. QED BY <1>24, <2>1, <3>1, JobFields DEF PreserveWrite, WriteRow, TypeInv, TypeOK
  <2>4. QED
    BY <1>24, <2>2, <2>3, JobsUpdate DEF PreserveWrite, TypeInv, TypeOK, WellFormed, engine, bounds
<1>25. QED
  BY <1>1, <1>2, <1>3, <1>4, <1>5, <1>6, <1>7, <1>8, <1>9, <1>10, <1>11, <1>12, <1>13, <1>14, <1>15, <1>16, <1>17, <1>18, <1>19, <1>20, <1>21, <1>22, <1>23, <1>24
  DEF HandlerStep, CreateSteps, ResolveSteps, ResumeSteps, StopSteps

\* Accepting a request, or a poll of the wait loop, keeps the types.
LEMMA RequestTypes ==
  ASSUME TypeInv, NEW a \in Actors,
         NEW j \in GoodJob, job' = [job EXCEPT ![a] = j],
         UNCHANGED <<execs, waits, engine, woken, beats, crashes>>,
         UNCHANGED requests \/ \E c \in Commands : Accept(c)
  PROVE  TypeInv'
<1>1. requests' \in 0..MaxRequests
  BY WaitsAssumption DEF Accept, TypeInv, TypeOK
<1>2. QED BY <1>1, JobsUpdate DEF TypeInv, TypeOK, WellFormed, engine

LEMMA ResolveTypes ==
  ASSUME TypeInv, NEW a \in Actors, NEW w \in Waits, NEW o \in WaitTerminal,
         NEW k \in RKey, NEW b \in BOOLEAN, ResolveWait(a, w, o, k, b),
         UNCHANGED requests \/ \E c \in Commands : Accept(c)
  PROVE  TypeInv'
<1>1. PICK l \in {"resolve_check", "resolve_claim"} : job' = [job EXCEPT ![a] =
        [NewJob(l, waits[w].exec, NoRow)
           EXCEPT !.w = w, !.outcome = o, !.rkey = k, !.resume = b]]
  BY DEF ResolveWait
<1>2. waits[w].exec \in Executions
  BY DEF ResolveWait, TypeInv, WellFormed
<1>3. NoRow \in Row /\ l \in Label
  BY DEF NoRow, Row, Status, Label
<1>4. [NewJob(l, waits[w].exec, NoRow)
         EXCEPT !.w = w, !.outcome = o, !.rkey = k, !.resume = b] \in GoodJob
  BY <1>2, <1>3, NewJobType
<1>5. QED BY <1>1, <1>4, RequestTypes DEF ResolveWait

LEMMA CallerTypes ==
  ASSUME TypeInv, NEW a \in Callers, WaitRequest(a) \/ LifecycleRequest(a)
  PROVE  TypeInv'
<1>0. /\ a \in Actors /\ NoRow \in Row /\ Kinds \subseteq WaitKind
      /\ execs \in [Executions -> Row]
  BY WaitsAssumption DEF Actors, NoRow, Row, Status, TypeInv, TypeOK
<1>1. ASSUME NEW e \in Executions, NEW k \in Kinds, NEW key \in Keys,
             NEW d \in BOOLEAN, CreateWait(a, e, k, key, d)
      PROVE  TypeInv'
  <2>0. /\ execs[e] \in Row /\ k \in WaitKind /\ "create_list" \in Label
        /\ "create_list" \notin WaitLabel \cup KeyLabel
    BY <1>0 DEF Label, WaitLabel, KeyLabel
  <2>1. [NewJob("create_list", e, execs[e]) EXCEPT !.kind = k, !.ikey = key,
           !.deadline = d] \in GoodJob
    BY <2>0, NewJobType
  <2>2. QED BY <1>0, <1>1, <2>1, RequestTypes DEF CreateWait, Accept
<1>2. ASSUME NEW w \in Waits, NEW o \in WaitTerminal, NEW key \in Keys,
             NEW r \in BOOLEAN, ResolveRequest(a, w, o, key, r)
      PROVE  TypeInv'
  <2>1. <<"api", key>> \in RKey BY DEF RKey
  <2>2. QED BY <1>0, <1>2, <2>1, ResolveTypes DEF ResolveRequest, Accept
<1>3. ASSUME NEW w \in Waits, NEW key \in Keys, WakeEvent(a, w, key)
      PROVE  TypeInv'
  <2>1. <<"event", key>> \in RKey /\ "resolved" \in WaitTerminal
    BY DEF RKey, WaitTerminal
  <2>2. QED BY <1>0, <1>3, <2>1, ResolveTypes DEF WakeEvent, Accept
<1>4. ASSUME NEW e \in Executions, ResumeExecution(a, e)
      PROVE  TypeInv'
  <2>1. NewJob("resume_list", e, NoRow) \in GoodJob
    BY <1>0, NewJobType DEF Label, WaitLabel, KeyLabel
  <2>2. QED BY <1>0, <1>4, <2>1, RequestTypes DEF ResumeExecution, Accept
<1>5. ASSUME NEW e \in Executions, StartExecution(a, e)
      PROVE  TypeInv'
  <2>1. NewJob("queue_list", e, execs[e]) \in GoodJob
    BY <1>0, NewJobType DEF Label, WaitLabel, KeyLabel
  <2>2. QED BY <1>0, <1>5, <2>1, RequestTypes DEF StartExecution, Accept
<1>6. ASSUME NEW e \in Executions, PauseExecution(a, e)
      PROVE  TypeInv'
  <2>1. <<"operator_pause", None>> \in RKey /\ "cancelled" \in WaitTerminal
    BY DEF RKey, WaitTerminal
  <2>2. \A l \in {"close_list", "engine_pause_read"} :
          [NewJob(l, e, execs[e]) EXCEPT !.outcome = "cancelled",
             !.rkey = <<"operator_pause", None>>] \in GoodJob
    BY <1>0, <2>1, NewJobType, ZenonT(60) DEF Label, WaitLabel
  <2>3. QED BY <1>0, <1>6, <2>2, RequestTypes DEF PauseExecution, Accept
<1>7. ASSUME NEW e \in Executions, CancelExecution(a, e)
      PROVE  TypeInv'
  <2>1. <<"operator_cancel", None>> \in RKey /\ "cancelled" \in WaitTerminal
    BY DEF RKey, WaitTerminal
  <2>0. /\ execs[e] \in Row /\ "close_list" \in Label
        /\ "close_list" \notin WaitLabel
    BY <1>0 DEF Label, WaitLabel
  <2>2. [NewJob("close_list", e, execs[e]) EXCEPT !.outcome = "cancelled",
           !.rkey = <<"operator_cancel", None>>] \in GoodJob
    BY <2>0, <2>1, NewJobType
  <2>3. QED BY <1>0, <1>7, <2>2, RequestTypes DEF CancelExecution, Accept
<1>8. QED
  BY <1>1, <1>2, <1>3, <1>4, <1>5, <1>6, <1>7 DEF WaitRequest, LifecycleRequest

LEMMA PollTypes ==
  ASSUME TypeInv, PollWaits
  PROVE  TypeInv'
<1>1. PICK w \in Waits : ExpireWait(WaitLoop, w) \/ WakeDueWait(WaitLoop, w)
  BY DEF PollWaits
<1>2. /\ <<"deadline", None>> \in RKey /\ <<"timer", None>> \in RKey
      /\ {"expired", "resolved"} \subseteq WaitTerminal
      /\ WaitLoop \in Actors
  BY DEF RKey, WaitTerminal, Actors
<1>3. QED BY <1>1, <1>2, ResolveTypes DEF ExpireWait, WakeDueWait

\* A step of an engine task writes a row and keeps the types.
LEMMA TaskTypes ==
  ASSUME TypeInv, NEW e \in Executions, TaskStep(e)
  PROVE  TypeInv'
<1> USE DEF TypeInv
<1>0. /\ execs[e] \in Row /\ tsnap[e].own \in Row /\ tsnap[e].current \in Row
      /\ NoSnap \in [own : Row, current : Row]
      /\ Own(e) \in Row
      /\ beat[e] # None => beat[e] \in Row
  BY DEF TypeOK, NoSnap, NoRow, Row, Status, Own
<1>1. \A s \in Status : [Own(e) EXCEPT !.status = s] \in Row
  BY <1>0, RowUpdate
<1>2. /\ \A r \in Row :
           /\ [execs EXCEPT ![e] = r] \in [Executions -> Row]
           /\ [tsnap EXCEPT ![e].own = r]
                \in [Executions -> [own : Row, current : Row]]
           /\ [tsnap EXCEPT ![e].current = r]
                \in [Executions -> [own : Row, current : Row]]
           /\ [beat EXCEPT ![e] = r] \in [Executions -> Row \cup {None}]
      /\ \A l \in TaskLabel : [task EXCEPT ![e] = l] \in [Executions -> TaskLabel]
      /\ [tsnap EXCEPT ![e] = NoSnap] \in [Executions -> [own : Row, current : Row]]
      /\ [beat EXCEPT ![e] = None] \in [Executions -> Row \cup {None}]
  BY <1>0 DEF TypeOK
<1>3. {"running"} \cup Terminal \subseteq Status
  BY DEF Status, Terminal
<1>4. CASE TaskAcquireRead(e)
  BY <1>0, <1>2, <1>4
  DEF TaskAcquireRead, SetTask, TypeOK, WellFormed, flags, bounds, TaskLabel
<1>5. CASE TaskLockBusy(e)
  BY <1>0, <1>2, <1>5
  DEF TaskLockBusy, SetTask, TypeOK, WellFormed, flags, bounds, TaskLabel
<1>6. CASE TaskAcquireWrite(e)
  BY <1>0, <1>2, <1>6
  DEF TaskAcquireWrite, SetTask, WriteRow, TypeOK, WellFormed, flags, bounds, TaskLabel
<1>7. CASE TaskLoad(e)
  BY <1>0, <1>2, <1>7
  DEF TaskLoad, SetTask, TypeOK, WellFormed, flags, bounds, TaskLabel
<1>8. CASE TaskMarkRunning(e)
  BY <1>1, <1>2, <1>3, <1>8
  DEF TaskMarkRunning, SetTask, WriteRow, TypeOK, WellFormed, flags, bounds, TaskLabel
<1>9. CASE EngineLoad(e)
  <2>0. /\ \E l \in TaskLabel : task' = [task EXCEPT ![e] = l]
        /\ \/ tsnap' = [tsnap EXCEPT ![e] = NoSnap]
           \/ tsnap' = [tsnap EXCEPT ![e].own = execs[e]]
        /\ UNCHANGED beat
    BY <1>9 DEF EngineLoad, SetTask, EndRun, TaskLabel
  <2>a. [tsnap EXCEPT ![e].own = execs[e]]
          \in [Executions -> [own : Row, current : Row]]
    BY <1>0, <1>2
  <2>b. /\ tsnap \in [Executions -> [own : Row, current : Row]]
        /\ beat \in [Executions -> Row \cup {None}]
    BY DEF TypeOK
  <2>c. tsnap' \in [Executions -> [own : Row, current : Row]]
    BY <1>2, <2>0, <2>a, <2>b
  <2>d. task' \in [Executions -> TaskLabel]
    BY <1>2, <2>0
  <2>1. beat' \in [Executions -> Row \cup {None}]
    BY <1>2, <2>0, <2>b
  <2>2. UNCHANGED <<execs, waits, job, beat, flags, woken, bounds>>
    BY <1>9 DEF EngineLoad
  <2>3. QED BY <2>1, <2>2, <2>c, <2>d DEF TypeOK, WellFormed, flags, bounds
<1>10. CASE EngineReset(e)
  BY <1>0, <1>2, <1>10
  DEF EngineReset, SetTask, TypeOK, WellFormed, flags, bounds, TaskLabel
<1>11. CASE EngineRun(e)
  <2> DEFINE r == [Own(e) EXCEPT !.status = "running"]
  <2>1. r \in Row BY <1>1, <1>3
  <2>2. tsnap' = [tsnap EXCEPT ![e].own = r]
    BY <1>11 DEF EngineRun, Own, TypeOK
  <2>3. tsnap'[e].own = r
    BY <2>2 DEF TypeOK
  <2>4. /\ execs' = [execs EXCEPT ![e] = r] /\ SetTask(e, "between")
        /\ UNCHANGED <<waits, job, beat, flags, woken, bounds>>
    BY <1>11, <2>3 DEF EngineRun, WriteRow
  <2> HIDE DEF r
  <2>5. QED BY <1>2, <2>1, <2>2, <2>4
    DEF SetTask, TypeOK, WellFormed, flags, bounds, TaskLabel
<1>12. CASE EngineNextNode(e)
  BY <1>0, <1>2, <1>12
  DEF EngineNextNode, SetTask, TypeOK, WellFormed, flags, bounds, TaskLabel
<1>13. CASE EngineCheckpoint(e)
  BY <1>0, <1>2, <1>13
  DEF EngineCheckpoint, SetTask, WriteRow, TypeOK, WellFormed, flags, bounds, TaskLabel
<1>14. CASE EnginePauseSeen(e)
  BY <1>0, <1>2, <1>14
  DEF EnginePauseSeen, SetTask, TypeOK, WellFormed, flags, bounds, TaskLabel
<1>15. CASE EngineUnwind(e)
  <2>1. UnwoundRow(Own(e), tsnap[e].current) \in Row
    BY <1>0, RowUpdate DEF UnwoundRow, DurableWait, Status
  <2>2. QED BY <2>1, <1>2, <1>15
    DEF EngineUnwind, EndRun, SetTask, WriteRow, TypeOK, WellFormed, flags,
        bounds, TaskLabel
<1>16. ASSUME NEW s \in Terminal, EngineFinish(e, s)
       PROVE  TypeInv'
  BY <1>1, <1>2, <1>3, <1>16
  DEF EngineFinish, EndRun, SetTask, WriteRow, TypeOK, WellFormed, flags,
      bounds, TaskLabel
<1>17. CASE TaskReleaseRead(e)
  <2>0. /\ \E l \in TaskLabel : task' = [task EXCEPT ![e] = l]
        /\ \/ UNCHANGED tsnap
           \/ tsnap' = [tsnap EXCEPT ![e].own = execs[e]]
        /\ beat' = [beat EXCEPT ![e] = None]
    BY <1>17 DEF TaskReleaseRead, SetTask, TaskLabel
  <2>a. [tsnap EXCEPT ![e].own = execs[e]]
          \in [Executions -> [own : Row, current : Row]]
    BY <1>0, <1>2
  <2>b. /\ tsnap \in [Executions -> [own : Row, current : Row]]
        /\ beat \in [Executions -> Row \cup {None}]
    BY DEF TypeOK
  <2>c. tsnap' \in [Executions -> [own : Row, current : Row]]
    BY <1>2, <2>0, <2>a, <2>b
  <2>d. task' \in [Executions -> TaskLabel]
    BY <1>2, <2>0
  <2>1. beat' \in [Executions -> Row \cup {None}]
    BY <1>2, <2>0, <2>b
  <2>2. UNCHANGED <<execs, waits, job, flags, woken, bounds>>
    BY <1>17 DEF TaskReleaseRead
  <2>3. QED BY <2>1, <2>2, <2>c, <2>d DEF TypeOK, WellFormed, flags, bounds
<1>18. CASE TaskReleaseWrite(e)
  BY <1>0, <1>2, <1>18
  DEF TaskReleaseWrite, SetTask, WriteRow, TypeOK, WellFormed, flags, bounds, TaskLabel
<1>19. CASE HeartbeatRead(e)
  <2>1. beats' \in 0..MaxBeats
    BY <1>19, WaitsAssumption DEF HeartbeatRead, TypeOK
  <2>2. QED BY <1>0, <1>2, <1>19, <2>1
    DEF HeartbeatRead, TypeOK, WellFormed, flags
<1>20. CASE HeartbeatWrite(e)
  BY <1>0, <1>2, <1>20
  DEF HeartbeatWrite, WriteRow, TypeOK, WellFormed, flags, bounds, TaskLabel
<1>21. QED
  BY <1>4, <1>5, <1>6, <1>7, <1>8, <1>9, <1>10, <1>11, <1>12, <1>13, <1>14,
     <1>15, <1>16, <1>17, <1>18, <1>19, <1>20
  DEF TaskStep, LockStep, RunStep

LEMMA CrashTypes == ASSUME TypeInv, Crash PROVE TypeInv'
<1>1. crashes' \in 0..MaxCrashes
  BY WaitsAssumption DEF Crash, TypeInv, TypeOK
<1>2. QED
  BY <1>1 DEF Crash, TypeInv, TypeOK, WellFormed, NoSnap, NoRow, Row, Status,
              TaskLabel

LEMMA TypeStep == TypeInv /\ [Next]_vars => TypeInv'
<1>1. CASE UNCHANGED vars
  BY <1>1 DEF TypeInv, TypeOK, WellFormed, vars
<1>2. QED
  BY <1>1, HandlerTypes, CallerTypes, PollTypes, TaskTypes, CrashTypes DEF Next

\* Every reachable state is well typed, whatever the number of executions,
\* waits, requests and crashes; a handler never reaches a store call without
\* the wait and the key that the call needs.
THEOREM TypeCorrect == Spec => []TypeOK
<1>1. Spec => []TypeInv
  BY TypeInvInit, TypeStep, PTL DEF Spec
<1>2. TypeInv => TypeOK BY DEF TypeInv
<1>3. QED BY <1>1, <1>2, PTL

-----------------------------------------------------------------------------
(* What a step does to the wait table.                                     *)

\* The new row of a wait.
Inserted(w, e, kind, key, d) ==
  waits' = [waits EXCEPT ![w] = [status |-> "pending", exec |-> e,
              kind |-> kind, ikey |-> key, deadline |-> d, rkey |-> None]]

\* A row of the wait table appears, with the active slot and the key free.
Inserts ==
  \E w \in Waits, e \in Executions, kind \in WaitKind,
     key \in Keys \cup {None}, d \in BOOLEAN :
    /\ waits[w].status = "absent"
    /\ Pending(e) = {} /\ SameKey(e, key) = {}
    /\ Inserted(w, e, kind, key, d)

\* A pending row is closed.
Claims ==
  \E w \in Waits, o \in WaitTerminal, k \in RKey :
    waits[w].status = "pending" /\ ClaimRow(w, o, k)

\* A step inserts a row, closes one, announces one or leaves the table and the
\* wakeups alone: no two of these happen in one step.
LEMMA HandlerTable ==
  ASSUME TypeInv, NEW a \in Actors, HandlerStep(a)
  PROVE  \/ UNCHANGED <<waits, woken>>
         \/ UNCHANGED waits /\ ResolveEmit(a)
         \/ UNCHANGED woken /\ (Inserts \/ Claims)
<1>0. ASSUME job[a] # None
      PROVE  job[a] \in GoodJob
  BY <1>0 DEF TypeInv, WellFormed
<1>1. CASE CreateInsert(a)
  <2>1. job[a] \in GoodJob BY <1>0, <1>1 DEF CreateInsert, At
  <2>2. /\ job[a].e \in Executions /\ job[a].kind \in WaitKind
        /\ job[a].ikey \in Keys \cup {None} /\ job[a].deadline \in BOOLEAN
    BY <2>1, JobFields
  <2>3. \/ UNCHANGED waits
        \/ \E w \in Waits :
             /\ waits[w].status = "absent"
             /\ ~UniqueViolation(job[a].e, job[a].ikey)
             /\ Inserted(w, job[a].e, job[a].kind, job[a].ikey, job[a].deadline)
    BY <1>1 DEF CreateInsert, Inserted
  <2>4. UNCHANGED woken BY <1>1 DEF CreateInsert
  <2>5. QED BY <2>2, <2>3, <2>4 DEF Inserts, UniqueViolation
<1>2. CASE ResolveClaim(a) \/ CloseClaim(a)
  <2>1. job[a] \in GoodJob
    BY <1>0, <1>2 DEF ResolveClaim, CloseClaim, At
  <2>2. job[a].w \in Waits /\ job[a].outcome \in WaitTerminal /\ job[a].rkey \in RKey
    BY <1>2, <2>1, JobFields DEF ResolveClaim, CloseClaim, At, WaitLabel, KeyLabel
  <2>3. \/ UNCHANGED waits
        \/ /\ waits[job[a].w].status = "pending"
           /\ ClaimRow(job[a].w, job[a].outcome, job[a].rkey)
    BY <1>2 DEF ResolveClaim, CloseClaim, Claimable
  <2>4. UNCHANGED woken BY <1>2 DEF ResolveClaim, CloseClaim
  <2>5. QED BY <2>2, <2>3, <2>4 DEF Claims
<1>3. CASE ResolveEmit(a)
  BY <1>3 DEF ResolveEmit
<1>4. CASE \/ CreateList(a) \/ CreateSuspend(a) \/ ResolveCheck(a)
           \/ ResolveWrite(a) \/ ResumeSteps(a)
  BY <1>4
  DEF CreateList, CreateSuspend, ResolveCheck, ResolveWrite, ResumeSteps,
      ResumeRead, ResumeList, EngineResumeRead, EngineResumeWrite, QueueRead,
      QueueList, QueueWrite
<1>5. CASE StopSteps(a) /\ ~CloseClaim(a)
  BY <1>5
  DEF StopSteps, CloseList, CloseWrite, EnginePauseRead, EnginePauseWrite,
      CancelRead, CancelWrite, EngineCancelRead, EngineCancelWrite,
      PreserveWrite
<1>6. QED
  BY <1>1, <1>2, <1>3, <1>4, <1>5 DEF HandlerStep, CreateSteps, ResolveSteps,
     StopSteps

LEMMA OtherTable ==
  ASSUME \/ \E a \in Callers : WaitRequest(a) \/ LifecycleRequest(a)
         \/ PollWaits
         \/ \E e \in Executions : TaskStep(e)
         \/ Crash
         \/ UNCHANGED vars
  PROVE  UNCHANGED <<waits, woken>>
<1>1. ASSUME NEW a \in Callers, WaitRequest(a) PROVE UNCHANGED <<waits, woken>>
  BY <1>1 DEF WaitRequest, CreateWait, ResolveRequest, WakeEvent, ResolveWait
<1>2. ASSUME NEW a \in Callers, LifecycleRequest(a)
      PROVE UNCHANGED <<waits, woken>>
  BY <1>2 DEF LifecycleRequest, ResumeExecution, StartExecution,
     PauseExecution, CancelExecution
<1>3. ASSUME PollWaits PROVE UNCHANGED <<waits, woken>>
  BY <1>3 DEF PollWaits, ExpireWait, WakeDueWait, ResolveWait
<1>4. ASSUME NEW e \in Executions, TaskStep(e) PROVE UNCHANGED <<waits, woken>>
  BY <1>4 DEF TaskStep, LockStep, RunStep, TaskAcquireRead, TaskLockBusy,
     TaskAcquireWrite, TaskReleaseRead, TaskReleaseWrite, HeartbeatRead,
     HeartbeatWrite, TaskLoad, TaskMarkRunning, EngineLoad, EngineReset,
     EngineRun, EngineCheckpoint, EngineNextNode, EnginePauseSeen,
     EngineUnwind, EngineFinish
<1>5. QED BY <1>1, <1>2, <1>3, <1>4 DEF Crash, vars

LEMMA TableStep ==
  ASSUME TypeInv, [Next]_vars
  PROVE  \/ UNCHANGED <<waits, woken>>
         \/ UNCHANGED waits /\ \E a \in Actors : ResolveEmit(a)
         \/ UNCHANGED woken /\ (Inserts \/ Claims)
BY HandlerTable, OtherTable DEF Next

-----------------------------------------------------------------------------
(* The unique constraints at work.                                         *)

\* A claim changes nothing of a row but its status and its winning key, and
\* the status only from pending to a terminal one.
LEMMA ClaimEffect ==
  ASSUME TypeInv, Claims
  PROVE  \E w \in Waits, o \in WaitTerminal, k \in RKey :
           /\ waits[w].status = "pending"
           /\ waits'[w].status = o /\ waits'[w].rkey = k
           /\ waits'[w].exec = waits[w].exec
           /\ waits'[w].ikey = waits[w].ikey
           /\ waits'[w].kind = waits[w].kind
           /\ \A v \in Waits \ {w} : waits'[v] = waits[v]
<1>1. PICK w \in Waits, o \in WaitTerminal, k \in RKey :
        waits[w].status = "pending" /\ ClaimRow(w, o, k)
  BY DEF Claims
<1>2. waits[w] \in WaitRow /\ waits \in [Waits -> WaitRow]
  BY DEF TypeInv, TypeOK
<1>3. waits' = [waits EXCEPT ![w] = [waits[w] EXCEPT !.status = o, !.rkey = k]]
  BY <1>1, <1>2 DEF ClaimRow
<1>4. waits'[w] = [waits[w] EXCEPT !.status = o, !.rkey = k]
      /\ \A v \in Waits \ {w} : waits'[v] = waits[v]
  BY <1>2, <1>3
<1>5. QED BY <1>1, <1>2, <1>4 DEF WaitRow

LEMMA InsertEffect ==
  ASSUME TypeInv, Inserts
  PROVE  \E w \in Waits, e \in Executions, key \in Keys \cup {None} :
           /\ waits[w].status = "absent"
           /\ Pending(e) = {} /\ SameKey(e, key) = {}
           /\ waits'[w].status = "pending" /\ waits'[w].exec = e
           /\ waits'[w].ikey = key /\ waits'[w].rkey = None
           /\ \A v \in Waits \ {w} : waits'[v] = waits[v]
BY SMTT(30) DEF Inserts, Inserted, TypeInv, TypeOK

\* The two uniqueness invariants are inductive on top of the types.
LEMMA UniqueStep ==
  ASSUME TypeInv, [Next]_vars, OnePendingWait, OneWaitPerKey
  PROVE  OnePendingWait' /\ OneWaitPerKey'
<1>1. CASE UNCHANGED waits
  BY <1>1 DEF OnePendingWait, OneWaitPerKey
<1>2. CASE Claims
  BY <1>2, ClaimEffect DEF OnePendingWait, OneWaitPerKey, WaitTerminal
<1>3. CASE Inserts
  <2>1. PICK w \in Waits, e \in Executions, key \in Keys \cup {None} :
           /\ waits[w].status = "absent"
           /\ Pending(e) = {} /\ SameKey(e, key) = {}
           /\ waits'[w].status = "pending" /\ waits'[w].exec = e
           /\ waits'[w].ikey = key /\ waits'[w].rkey = None
           /\ \A v \in Waits \ {w} : waits'[v] = waits[v]
    BY <1>3, InsertEffect
  <2>2. \A v \in Waits : waits[v].exec = e =>
          /\ waits[v].status # "pending"
          /\ waits[v].status # "absent" => waits[v].ikey # key
    BY <2>1 DEF Pending, SameKey
  <2>3. QED BY <2>1, <2>2 DEF OnePendingWait, OneWaitPerKey
<1>4. QED BY <1>1, <1>2, <1>3, TableStep

\* However many creators race, the table never holds two pending waits of one
\* execution (the unique active slot, db/models/executions.py).
THEOREM AtMostOnePending == Spec => []OnePendingWait
<1>1. Init => OnePendingWait /\ OneWaitPerKey
  BY DEF Init, NoWaitRow, OnePendingWait, OneWaitPerKey
<1>2. QED
  BY <1>1, TypeInvInit, TypeStep, UniqueStep, PTL DEF Spec

\* An idempotency key never names two suspensions of one execution.
THEOREM KeysAreUnique == Spec => []OneWaitPerKey
<1>1. Init => OnePendingWait /\ OneWaitPerKey
  BY DEF Init, NoWaitRow, OnePendingWait, OneWaitPerKey
<1>2. QED
  BY <1>1, TypeInvInit, TypeStep, UniqueStep, PTL DEF Spec

-----------------------------------------------------------------------------
(* One wakeup per wait.                                                    *)

ClaimLabel == {"resolve_write", "resolve_emit"}

\* The step of a coroutine that takes hold of no claim: it ends, begins, or
\* goes to a label outside ClaimLabel.
NoClaimTaken(a) ==
  \E j : /\ job' = [job EXCEPT ![a] = j]
         /\ j = None \/ j.at \notin ClaimLabel

\* After such a step the holders of a claim are the ones before it, without a.
LEMMA HoldersShrink ==
  ASSUME TypeInv, NEW a \in Actors, NoClaimTaken(a)
  PROVE  \A b \in Actors, w \in Waits :
           HoldsClaim(b, w)' => HoldsClaim(b, w) /\ b # a
BY DEF NoClaimTaken, HoldsClaim, ClaimLabel, TypeInv, TypeOK

\* The two ways of updating a handler's label.
LEMMA LabelEffect ==
  ASSUME TypeInv, NEW a \in Actors, job[a] # None, NEW l \in Label \ ClaimLabel
  PROVE  /\ Done(a) => NoClaimTaken(a)
         /\ Goto(a, l) => NoClaimTaken(a)
         /\ \A r : job' = [job EXCEPT ![a].at = l, ![a].snap = r]
              => NoClaimTaken(a)
         /\ \A w : job' = [job EXCEPT ![a].at = l, ![a].w = w]
              => NoClaimTaken(a)
<1>1. job[a] \in Job /\ job \in [Actors -> Job \cup {None}]
  BY DEF TypeInv, TypeOK
<1>2. /\ [job[a] EXCEPT !.at = l].at = l
      /\ \A r : [job[a] EXCEPT !.at = l, !.snap = r].at = l
      /\ \A w : [job[a] EXCEPT !.at = l, !.w = w].at = l
  BY <1>1 DEF Job
<1>3. Done(a) => NoClaimTaken(a)
  BY DEF Done, NoClaimTaken
<1>4. Goto(a, l) => NoClaimTaken(a)
  <2>1. HAVE Goto(a, l)
  <2>2. job' = [job EXCEPT ![a] = [job[a] EXCEPT !.at = l]]
    BY <1>1, <2>1 DEF Goto
  <2>3. QED BY <1>2, <2>2 DEF NoClaimTaken
<1>5. ASSUME NEW r, job' = [job EXCEPT ![a].at = l, ![a].snap = r]
      PROVE  NoClaimTaken(a)
  <2>2. job' = [job EXCEPT ![a] = [job[a] EXCEPT !.at = l, !.snap = r]]
    BY <1>1, <1>5
  <2>3. QED BY <1>2, <2>2 DEF NoClaimTaken
<1>6. ASSUME NEW w, job' = [job EXCEPT ![a].at = l, ![a].w = w]
      PROVE  NoClaimTaken(a)
  <2>2. job' = [job EXCEPT ![a] = [job[a] EXCEPT !.at = l, !.w = w]]
    BY <1>1, <1>6
  <2>3. QED BY <1>2, <2>2 DEF NoClaimTaken
<1>7. QED BY <1>3, <1>4, <1>5, <1>6

\* Only the won compare-and-set of ResolveClaim leads into the claim labels,
\* and only ResolveWrite moves inside them.
LEMMA HandlerHolds ==
  ASSUME TypeInv, NEW a \in Actors, HandlerStep(a),
         ~ResolveClaim(a), ~ResolveWrite(a)
  PROVE  NoClaimTaken(a)
<1>1. job[a] # None
  BY DEF HandlerStep, CreateSteps, ResolveSteps, ResumeSteps, StopSteps,
     CreateList, CreateInsert, CreateSuspend, ResolveCheck, ResolveEmit,
     ResumeRead, ResumeList, EngineResumeRead, EngineResumeWrite, QueueRead,
     QueueList, QueueWrite, CloseList, CloseClaim, CloseWrite,
     EnginePauseRead, EnginePauseWrite, CancelRead, CancelWrite,
     EngineCancelRead, EngineCancelWrite, PreserveWrite, At
<1>2. Label \ ClaimLabel = {"create_list", "create_insert", "create_write",
          "resolve_check", "resolve_claim",
          "resume_read", "resume_list", "engine_resume_read",
          "engine_resume_write", "queue_read", "queue_list", "queue_write",
          "close_list", "close_claim", "close_write", "engine_pause_read",
          "engine_pause_write", "cancel_read", "cancel_write",
          "engine_cancel_read", "engine_cancel_write", "preserve_write"}
  BY DEF Label, ClaimLabel
<1>3. CASE CreateSteps(a)
  BY <1>1, <1>2, <1>3, LabelEffect
  DEF CreateSteps, CreateList, CreateInsert, CreateSuspend
<1>4. CASE ResolveSteps(a)
  BY <1>1, <1>2, <1>4, LabelEffect DEF ResolveSteps, ResolveCheck, ResolveEmit
<1>5. CASE ResumeSteps(a)
  BY <1>1, <1>2, <1>5, LabelEffect
  DEF ResumeSteps, ResumeRead, ResumeList, EngineResumeRead,
      EngineResumeWrite, QueueRead, QueueList, QueueWrite
<1>6. CASE CloseList(a) \/ CloseClaim(a) \/ CloseWrite(a)
  BY <1>1, <1>2, <1>6, LabelEffect
  DEF CloseList, CloseClaim, CloseWrite, AfterClose
<1>7. CASE StopSteps(a) /\ ~(CloseList(a) \/ CloseClaim(a) \/ CloseWrite(a))
  BY <1>1, <1>2, <1>7, LabelEffect
  DEF StopSteps, EnginePauseRead, EnginePauseWrite, CancelRead, CancelWrite,
      EngineCancelRead, EngineCancelWrite, PreserveWrite
<1>8. QED BY <1>3, <1>4, <1>5, <1>6, <1>7 DEF HandlerStep

\* A handler that begins is at the label it is created with.
LEMMA BeginEffect ==
  ASSUME NEW a \in Actors, NEW l \in Label \ ClaimLabel, NEW e, NEW r
  PROVE  /\ job' = [job EXCEPT ![a] = NewJob(l, e, r)] => NoClaimTaken(a)
         /\ \A k, key, d :
              job' = [job EXCEPT ![a] = [NewJob(l, e, r) EXCEPT
                        !.kind = k, !.ikey = key, !.deadline = d]]
                => NoClaimTaken(a)
         /\ \A w, o, k, b :
              job' = [job EXCEPT ![a] = [NewJob(l, e, r) EXCEPT
                        !.w = w, !.outcome = o, !.rkey = k, !.resume = b]]
                => NoClaimTaken(a)
         /\ \A o, k :
              job' = [job EXCEPT ![a] = [NewJob(l, e, r) EXCEPT
                        !.outcome = o, !.rkey = k]]
                => NoClaimTaken(a)
<1>1. ASSUME NEW j, j.at = l, job' = [job EXCEPT ![a] = j]
      PROVE  NoClaimTaken(a)
  BY <1>1 DEF NoClaimTaken
<1>2. ASSUME job' = [job EXCEPT ![a] = NewJob(l, e, r)]
      PROVE  NoClaimTaken(a)
  <2>1. NewJob(l, e, r).at = l
    BY DEF NewJob
  <2>2. QED BY <1>1, <1>2, <2>1
<1>3. ASSUME NEW k, NEW key, NEW d,
             job' = [job EXCEPT ![a] = [NewJob(l, e, r) EXCEPT
               !.kind = k, !.ikey = key, !.deadline = d]]
      PROVE  NoClaimTaken(a)
  <2>1. [NewJob(l, e, r) EXCEPT
               !.kind = k, !.ikey = key, !.deadline = d].at = l
    BY DEF NewJob
  <2>2. QED BY <1>1, <1>3, <2>1
<1>4. ASSUME NEW w, NEW o, NEW k, NEW b,
             job' = [job EXCEPT ![a] = [NewJob(l, e, r) EXCEPT
               !.w = w, !.outcome = o, !.rkey = k, !.resume = b]]
      PROVE  NoClaimTaken(a)
  <2>1. [NewJob(l, e, r) EXCEPT
               !.w = w, !.outcome = o, !.rkey = k, !.resume = b].at = l
    BY DEF NewJob
  <2>2. QED BY <1>1, <1>4, <2>1
<1>5. ASSUME NEW o, NEW k,
             job' = [job EXCEPT ![a] = [NewJob(l, e, r) EXCEPT
               !.outcome = o, !.rkey = k]]
      PROVE  NoClaimTaken(a)
  <2>1. [NewJob(l, e, r) EXCEPT
               !.outcome = o, !.rkey = k].at = l
    BY DEF NewJob
  <2>2. QED BY <1>1, <1>5, <2>1
<1>6. QED BY <1>2, <1>3, <1>4, <1>5

\* A new request, a poll, a task step and a crash take no claim either.
LEMMA OtherHolds ==
  ASSUME TypeInv,
         \/ \E a \in Callers : WaitRequest(a) \/ LifecycleRequest(a)
         \/ PollWaits
         \/ \E e \in Executions : TaskStep(e)
         \/ Crash
         \/ UNCHANGED vars
  PROVE  \A b \in Actors, w \in Waits : HoldsClaim(b, w)' => HoldsClaim(b, w)
<1>1. ASSUME NEW a \in Actors, NEW w \in Waits, NEW o, NEW k, NEW r,
             ResolveWait(a, w, o, k, r)
      PROVE  NoClaimTaken(a)
  <2>1. PICK l \in {"resolve_check", "resolve_claim"} :
          job' = [job EXCEPT ![a] = [NewJob(l, waits[w].exec, NoRow)
                    EXCEPT !.w = w, !.outcome = o, !.rkey = k, !.resume = r]]
    BY <1>1 DEF ResolveWait
  <2>2. l \in Label \ ClaimLabel BY DEF Label, ClaimLabel
  <2>3. QED BY <2>1, <2>2, BeginEffect
<1>2. ASSUME NEW a \in Callers, WaitRequest(a) PROVE NoClaimTaken(a)
  <2>1. ASSUME NEW e \in Executions, NEW k \in Kinds, NEW key \in Keys,
               NEW d \in BOOLEAN, CreateWait(a, e, k, key, d)
        PROVE  NoClaimTaken(a)
    <3>1. "create_list" \in Label \ ClaimLabel /\ a \in Actors
      BY DEF Label, ClaimLabel, Actors
    <3>2. QED BY <2>1, <3>1, BeginEffect DEF CreateWait
  <2>2. a \in Actors BY DEF Actors
  <2>3. QED
    BY <1>1, <1>2, <2>1, <2>2 DEF WaitRequest, ResolveRequest, WakeEvent
<1>3. ASSUME NEW a \in Callers, LifecycleRequest(a) PROVE NoClaimTaken(a)
  <2>1. /\ {"resume_list", "queue_list", "close_list", "engine_pause_read"}
             \subseteq Label \ ClaimLabel
        /\ a \in Actors
    BY DEF Label, ClaimLabel, Actors
  <2>2. PICK e \in Executions : \/ ResumeExecution(a, e) \/ StartExecution(a, e)
                                \/ PauseExecution(a, e) \/ CancelExecution(a, e)
    BY <1>3 DEF LifecycleRequest
  <2>3. CASE ResumeExecution(a, e) \/ StartExecution(a, e) \/ CancelExecution(a, e)
    BY <2>1, <2>3, BeginEffect
    DEF ResumeExecution, StartExecution, CancelExecution
  <2>4. CASE PauseExecution(a, e)
    <3>1. PICK l \in {"close_list", "engine_pause_read"} :
            job' = [job EXCEPT ![a] = [NewJob(l, e, execs[e]) EXCEPT
              !.outcome = "cancelled", !.rkey = <<"operator_pause", None>>]]
      BY <2>4 DEF PauseExecution
    <3>2. QED BY <2>1, <3>1, BeginEffect
  <2>5. QED BY <2>2, <2>3, <2>4
<1>4. ASSUME PollWaits PROVE NoClaimTaken(WaitLoop)
  BY <1>1, <1>4 DEF PollWaits, ExpireWait, WakeDueWait, Actors
<1>5. ASSUME NEW e \in Executions, TaskStep(e) PROVE UNCHANGED job
  BY <1>5 DEF TaskStep, LockStep, RunStep, TaskAcquireRead, TaskLockBusy,
     TaskAcquireWrite, TaskReleaseRead, TaskReleaseWrite, HeartbeatRead,
     HeartbeatWrite, TaskLoad, TaskMarkRunning, EngineLoad, EngineReset,
     EngineRun, EngineCheckpoint, EngineNextNode, EnginePauseSeen,
     EngineUnwind, EngineFinish
<1>6. ASSUME UNCHANGED job
      PROVE  \A b \in Actors, w \in Waits : HoldsClaim(b, w)' => HoldsClaim(b, w)
  BY <1>6 DEF HoldsClaim
<1>7. ASSUME Crash
      PROVE  \A b \in Actors, w \in Waits : HoldsClaim(b, w)' => HoldsClaim(b, w)
  BY <1>7 DEF Crash, HoldsClaim
<1>8. Callers \subseteq Actors /\ WaitLoop \in Actors BY DEF Actors
<1>9. QED
  BY <1>2, <1>3, <1>4, <1>5, <1>6, <1>7, <1>8, HoldersShrink DEF vars

\* SingleWake is inductive on top of the types.
LEMMA WakeStep ==
  ASSUME TypeInv, [Next]_vars, SingleWake
  PROVE  SingleWake'
<1>0. woken \in [Waits -> Nat] BY DEF TypeInv, TypeOK
<1>1. \A w \in Waits : waits[w].status \in WaitTerminal =>
        waits'[w].status \in WaitTerminal
  BY TableStep, ClaimEffect, InsertEffect DEF WaitTerminal
<1>2. ASSUME \A b \in Actors, w \in Waits : HoldsClaim(b, w)' => HoldsClaim(b, w),
             UNCHANGED woken
      PROVE  SingleWake'
  BY <1>1, <1>2 DEF SingleWake
<1>3. ASSUME NEW a \in Actors, ResolveClaim(a) PROVE SingleWake'
  <2>1. job[a] \in GoodJob /\ job[a].at = "resolve_claim" /\ job[a].w \in Waits
        /\ job \in [Actors -> Job \cup {None}]
    BY <1>3, JobFields DEF ResolveClaim, At, TypeInv, TypeOK, WellFormed, WaitLabel
  <2>2. CASE ~Claimable(job[a].w)
    <3>1. NoClaimTaken(a)
      BY <1>3, <2>2 DEF ResolveClaim, Done, NoClaimTaken
    <3>2. UNCHANGED woken BY <1>3 DEF ResolveClaim
    <3>3. QED BY <1>2, <3>1, <3>2, HoldersShrink
  <2>3. CASE Claimable(job[a].w)
    <3> DEFINE v == job[a].w
    <3>1. waits[v].status = "pending" /\ waits'[v].status \in WaitTerminal
      <4>1. job[a].rkey \in RKey /\ job[a].outcome \in WaitTerminal
        BY <2>1, JobFields DEF KeyLabel
      <4>2. QED BY <1>3, <2>1, <2>3, <4>1, ClaimType DEF ResolveClaim, Claimable
    <3>2. woken[v] = 0
      BY <1>0, <2>1, <3>1 DEF SingleWake, WaitTerminal
    <3>3. \A b \in Actors : ~HoldsClaim(b, v)
      BY <2>1, <3>1 DEF SingleWake, WaitTerminal
    <3>4. /\ job'[a].w = v
          /\ \A b \in Actors \ {a} : job'[b] = job[b]
      <4>1. job' = [job EXCEPT ![a] = [job[a] EXCEPT !.at = "resolve_write"]]
        BY <1>3, <2>1, <2>3 DEF ResolveClaim, Goto
      <4>2. [job[a] EXCEPT !.at = "resolve_write"].w = v
        BY <2>1, JobFields DEF Job
      <4>3. QED BY <2>1, <4>1, <4>2
    <3>5. \A b \in Actors, w \in Waits : HoldsClaim(b, w)' =>
            HoldsClaim(b, w) \/ (b = a /\ w = v)
      BY <3>4 DEF HoldsClaim
    <3>6. UNCHANGED woken BY <1>3 DEF ResolveClaim
    <3>7. QED BY <1>0, <1>1, <2>1, <3>1, <3>2, <3>3, <3>5, <3>6 DEF SingleWake
  <2>4. QED BY <2>2, <2>3
<1>4. ASSUME NEW a \in Actors, ResolveWrite(a) PROVE SingleWake'
  <2>1. /\ job[a] \in Job /\ job[a].at = "resolve_write" /\ job[a] # None
        /\ job \in [Actors -> Job \cup {None}]
    BY <1>4 DEF ResolveWrite, At, TypeInv, TypeOK
  <2>2. job'[a].w = job[a].w /\ \A b \in Actors \ {a} : job'[b] = job[b]
    BY <1>4, <2>1 DEF ResolveWrite, Goto, Job
  <2>3. \A b \in Actors, w \in Waits : HoldsClaim(b, w)' => HoldsClaim(b, w)
    BY <2>1, <2>2 DEF HoldsClaim
  <2>4. UNCHANGED woken BY <1>4 DEF ResolveWrite
  <2>5. QED BY <1>2, <2>3, <2>4
<1>5. ASSUME NEW a \in Actors, ResolveEmit(a) PROVE SingleWake'
  <2>1. /\ job[a] \in GoodJob /\ job[a].at = "resolve_emit" /\ job[a] # None
        /\ job[a].w \in Waits
    BY <1>5, JobFields DEF ResolveEmit, At, TypeInv, WellFormed, WaitLabel
  <2>2. HoldsClaim(a, job[a].w)
    BY <2>1 DEF HoldsClaim
  <2>3. /\ waits[job[a].w].status \in WaitTerminal /\ woken[job[a].w] = 0
        /\ \A b \in Actors : HoldsClaim(b, job[a].w) => b = a
    BY <2>1, <2>2 DEF SingleWake
  <2>4. \A b \in Actors, w \in Waits :
          HoldsClaim(b, w)' => HoldsClaim(b, w) /\ b # a
    <3>1. ~ResolveClaim(a) /\ ~ResolveWrite(a)
      BY <2>1 DEF ResolveClaim, ResolveWrite, At
    <3>2. QED BY <1>5, <3>1, HandlerHolds, HoldersShrink DEF HandlerStep, ResolveSteps
  <2>5. /\ woken'[job[a].w] = 1
        /\ \A w \in Waits \ {job[a].w} : woken'[w] = woken[w]
    BY <1>0, <1>5, <2>1, <2>3 DEF ResolveEmit
  <2>6. QED BY <1>0, <1>1, <2>1, <2>3, <2>4, <2>5 DEF SingleWake
<1>6. ASSUME NEW a \in Actors, HandlerStep(a), ~ResolveClaim(a),
             ~ResolveWrite(a), ~ResolveEmit(a)
      PROVE  SingleWake'
  <2>1. UNCHANGED woken
    BY <1>6, HandlerTable
  <2>2. QED BY <1>2, <1>6, <2>1, HandlerHolds, HoldersShrink
<1>7. ASSUME \/ \E a \in Callers : WaitRequest(a) \/ LifecycleRequest(a)
             \/ PollWaits
             \/ \E e \in Executions : TaskStep(e)
             \/ Crash
             \/ UNCHANGED vars
      PROVE  SingleWake'
  BY <1>2, <1>7, OtherHolds, OtherTable
<1>8. QED BY <1>3, <1>4, <1>5, <1>6, <1>7 DEF Next

\* However many resolvers, timers and event deliveries race for a wait, its
\* wakeup is announced at most once, by the coroutine that won the claim.
THEOREM WokenOnce == Spec => []SingleWake
<1>1. Init => SingleWake
  BY DEF Init, SingleWake, HoldsClaim
<1>2. QED
  BY <1>1, TypeInvInit, TypeStep, WakeStep, PTL DEF Spec

-----------------------------------------------------------------------------
(* The wait table implements the ledger.                                   *)

LEMMA LedgerInit == Init => Ledger!Init
BY DEF Init, NoWaitRow, Ledger!Init, Ledger!Entry

\* Every step maps to a step of the ledger or to a stutter.
LEMMA LedgerStep ==
  ASSUME TypeInv, SingleWake, [Next]_vars
  PROVE  [Ledger!Next]_(Ledger!lvars)
<1> DEFINE L == [w \in Waits |-> [status |-> waits[w].status,
                                  exec |-> waits[w].exec,
                                  key |-> waits[w].rkey]]
<1>0. woken \in [Waits -> Nat] BY DEF TypeInv, TypeOK
<1>1. CASE UNCHANGED <<waits, woken>>
  BY <1>1 DEF Ledger!lvars
<1>2. CASE Inserts /\ UNCHANGED woken
  <2>1. PICK w \in Waits, e \in Executions, key \in Keys \cup {None} :
           /\ waits[w].status = "absent"
           /\ Pending(e) = {} /\ SameKey(e, key) = {}
           /\ waits'[w].status = "pending" /\ waits'[w].exec = e
           /\ waits'[w].ikey = key /\ waits'[w].rkey = None
           /\ \A v \in Waits \ {w} : waits'[v] = waits[v]
    BY <1>2, InsertEffect
  <2>2. \A v \in Waits : waits[v].exec = e => waits[v].status # "pending"
    BY <2>1 DEF Pending
  <2>3. L' = [L EXCEPT ![w] = [status |-> "pending", exec |-> e, key |-> None]]
    BY <2>1
  <2>4. Ledger!Open(w, e)
    BY <1>2, <2>1, <2>2, <2>3 DEF Ledger!Open, Ledger!Entry
  <2>5. QED BY <2>4 DEF Ledger!Next
<1>3. CASE Claims /\ UNCHANGED woken
  <2>1. PICK w \in Waits, o \in WaitTerminal, k \in RKey :
           /\ waits[w].status = "pending"
           /\ waits'[w].status = o /\ waits'[w].rkey = k
           /\ waits'[w].exec = waits[w].exec
           /\ \A v \in Waits \ {w} : waits'[v] = waits[v]
    BY <1>3, ClaimEffect
  <2>2. L' = [L EXCEPT ![w] = [status |-> o, exec |-> waits[w].exec, key |-> k]]
    BY <2>1
  <2>3. Ledger!Claim(w)
    BY <1>3, <2>1, <2>2 DEF Ledger!Claim, Ledger!Entry, Ledger!WaitTerminal, WaitTerminal
  <2>4. QED BY <2>3 DEF Ledger!Next
<1>4. CASE UNCHANGED waits /\ \E a \in Actors : ResolveEmit(a)
  <2>1. PICK a \in Actors : ResolveEmit(a) BY <1>4
  <2>2. /\ job[a] # None /\ job[a].at = "resolve_emit" /\ job[a].w \in Waits
    BY <2>1, JobFields DEF ResolveEmit, At, TypeInv, WellFormed, WaitLabel
  <2>3. waits[job[a].w].status \in WaitTerminal /\ woken[job[a].w] = 0
    BY <2>2 DEF SingleWake, HoldsClaim
  <2>4. woken' = [woken EXCEPT ![job[a].w] = 1]
    BY <1>0, <2>1, <2>2, <2>3 DEF ResolveEmit
  <2>5. Ledger!Announce(job[a].w)
    BY <1>4, <2>2, <2>3, <2>4 DEF Ledger!Announce, Ledger!WaitTerminal, WaitTerminal
  <2>6. QED BY <2>2, <2>5 DEF Ledger!Next
<1>5. QED BY <1>1, <1>2, <1>3, <1>4, TableStep

\* The handlers, with all their interleavings, crashes and stale rows,
\* implement the atomic single-claim ledger of docs/runtime.md.
THEOREM LedgerRefined == Spec => ImplementsLedger
<1>1. Init => SingleWake
  BY DEF Init, SingleWake, HoldsClaim
<1>2. QED
  BY <1>1, TypeInvInit, TypeStep, WakeStep, LedgerInit, LedgerStep, PTL
  DEF Spec, ImplementsLedger, Ledger!Spec
=============================================================================
