--------------------------- MODULE ExecutionWaits ---------------------------
(***************************************************************************)
(* Durable waits and the lifecycle commands that race with them:           *)
(* ExecutionWaitService (app/services/execution_waits.py), the commands of *)
(* ExecutionControlPlane (app/runtime/control_plane.py) and the native     *)
(* engine task that owns a local run (app/runtime/native/engine.py).       *)
(*                                                                         *)
(* Every store call of a handler is one transaction and every await is a   *)
(* point where another coroutine may run, so a handler is a chain of steps *)
(* that each read or write one row.  update_execution writes the WHOLE     *)
(* row from the copy the handler read earlier: that copy is job.snap (of a *)
(* request) or tsnap (of an engine task).                                  *)
(*                                                                         *)
(* An early return that changes nothing ends the handler (Done); when it   *)
(* comes before the first write it is the guard of the first step.  The    *)
(* clock is abstracted: a sleep wait may be found due, and a wait with a   *)
(* deadline expired, at any moment.  Which worker a row names as its owner *)
(* is abstracted (acquire_lock may be refused, release_lock may find the   *)
(* lock gone), but not that these calls and the heartbeat read the row and *)
(* write all of it back: a status written in between is lost.              *)
(***************************************************************************)
EXTENDS ExecutionStore, Naturals, FiniteSets

CONSTANTS
  Executions,        \* execution ids
  NativeExecutions,  \* those whose runtime adapter is the native one
  Waits,             \* ids that execution_waits rows may get
  Commands,          \* the requests the callers make
  Kinds,             \* the kinds of wait the callers ask for
  Callers,           \* concurrent API requests (coroutines)
  WaitLoop,          \* the reconciler coroutine that polls due waits
  Keys,              \* caller-chosen idempotency, resolution and event keys
  MaxRequests,       \* bound on API requests in a behaviour
  MaxBeats,          \* bound on heartbeats in a behaviour
  MaxCrashes,        \* bound on process crashes in a behaviour
  None

ASSUME WaitsAssumption ==
  /\ NativeExecutions \subseteq Executions
  /\ None \notin Waits \cup Executions
  /\ Commands \subseteq {"create", "resolve", "event", "start", "resume",
                     "pause", "cancel"}
  /\ Kinds \subseteq WaitKind
  /\ WaitLoop \notin Callers
  /\ MaxRequests \in Nat /\ MaxBeats \in Nat /\ MaxCrashes \in Nat

VARIABLES
  execs,      \* the executions table: status and metadata.active_wait
  waits,      \* the execution_waits table
  job,        \* the handler each coroutine is in, None when it is free
  task,       \* where the local engine task of an execution stands
  tsnap,      \* the task's copy of its row
  beat,       \* the row a heartbeat in flight has read, None without one
  paused,     \* NativeExecutionState.paused (in memory)
  cancelled,  \* NativeExecutionState.cancelled (in memory)
  woken,      \* number of EXECUTION_WOKEN events in the log, per wait
  requests,   \* API requests so far
  beats,      \* heartbeats so far
  crashes     \* crashes so far

vars == <<execs, waits, job, task, tsnap, beat, paused, cancelled, woken,
          requests, beats, crashes>>
bounds == <<requests, beats, crashes>>
engine == <<task, tsnap, beat, paused, cancelled>>

Actors == Callers \cup {WaitLoop}

\* Resolution keys: who resolves, and the caller's key where there is one.
RKey == {"api", "event", "timer", "deadline", "operator_pause",
         "operator_cancel"} \X (Keys \cup {None})

Row == [status : Status, active : Waits \cup {None}]

WaitRow == [status : WaitStatus, exec : Executions \cup {None},
            kind : WaitKind, ikey : Keys \cup {None}, deadline : BOOLEAN,
            rkey : RKey \cup {None}]

\* Labels: the store call a handler makes next.
Label == {"create_list", "create_insert", "create_write",
          "resolve_check", "resolve_claim", "resolve_write", "resolve_emit",
          "resume_read", "resume_list", "engine_resume_read",
          "engine_resume_write", "queue_read", "queue_list", "queue_write",
          "close_list", "close_claim", "close_write", "engine_pause_read",
          "engine_pause_write", "cancel_read", "cancel_write",
          "engine_cancel_read", "engine_cancel_write", "preserve_write"}

Job == [at : Label, e : Executions, w : Waits \cup {None}, kind : WaitKind,
        ikey : Keys \cup {None}, deadline : BOOLEAN, snap : Row,
        outcome : WaitTerminal, rkey : RKey \cup {None}, resume : BOOLEAN]

\* A handler in progress is told from a free coroutine.
ASSUME NoneAssumption == None \notin Job

TaskLabel == {"none", "spawned", "acquiring", "acquired", "loaded", "marked",
              "admitted", "engine", "node", "between", "unwinding", "ending",
              "releasing"}

TypeOK ==
  /\ execs \in [Executions -> Row]
  /\ waits \in [Waits -> WaitRow]
  /\ job \in [Actors -> Job \cup {None}]
  /\ task \in [Executions -> TaskLabel]
  /\ tsnap \in [Executions -> [own : Row, current : Row]]
  /\ beat \in [Executions -> Row \cup {None}]
  /\ paused \in [Executions -> BOOLEAN]
  /\ cancelled \in [Executions -> BOOLEAN]
  /\ woken \in [Waits -> Nat]
  /\ requests \in 0..MaxRequests
  /\ beats \in 0..MaxBeats
  /\ crashes \in 0..MaxCrashes

NoRow == [status |-> "created", active |-> None]

NoSnap == [own |-> NoRow, current |-> NoRow]

NoWaitRow == [status |-> "absent", exec |-> None, kind |-> "input",
              ikey |-> None, deadline |-> FALSE, rkey |-> None]

Init ==
  /\ execs \in [Executions -> {NoRow, [NoRow EXCEPT !.status = "paused"]}]
  /\ waits = [w \in Waits |-> NoWaitRow]
  /\ job = [a \in Actors |-> None]
  /\ task = [e \in Executions |-> "none"]
  /\ tsnap = [e \in Executions |-> NoSnap]
  /\ beat = [e \in Executions |-> None]
  /\ paused = [e \in Executions |-> FALSE]
  /\ cancelled = [e \in Executions |-> FALSE]
  /\ woken = [w \in Waits |-> 0]
  /\ requests = 0
  /\ beats = 0
  /\ crashes = 0

-----------------------------------------------------------------------------
(* Helpers: handler control and store queries.                             *)

NewJob(at, e, snap) ==
  [at |-> at, e |-> e, w |-> None, kind |-> "input", ikey |-> None,
   deadline |-> FALSE, snap |-> snap, outcome |-> "resolved",
   rkey |-> None, resume |-> FALSE]

\* A new API request of a kind the callers make, counted against its bound.
Accept(c) ==
  /\ c \in Commands
  /\ requests < MaxRequests
  /\ requests' = requests + 1

Free(a) == job[a] = None
At(a, l) == job[a] # None /\ job[a].at = l
Goto(a, l) == job' = [job EXCEPT ![a].at = l]
Done(a) == job' = [job EXCEPT ![a] = None]

\* list_execution_waits(execution_id, status=PENDING)
Pending(e) == {w \in Waits : waits[w].exec = e /\ waits[w].status = "pending"}

\* update_execution: the whole row, last writer wins.
WriteRow(e, row) == execs' = [execs EXCEPT ![e] = row]

-----------------------------------------------------------------------------
(* create_wait                                                             *)

\* The row is read, and its status checked, before anything else.
CreateWait(a, e, k, key, d) ==
  /\ Free(a)
  /\ execs[e].status \in WaitCreationSource
  /\ job' = [job EXCEPT ![a] = [NewJob("create_list", e, execs[e])
                EXCEPT !.kind = k, !.ikey = key, !.deadline = d]]
  /\ Accept("create")
  /\ UNCHANGED <<execs, waits, engine, woken, beats, crashes>>

\* A pending wait ends the call: returned for the same key, else a conflict.
CreateList(a) ==
  /\ At(a, "create_list")
  /\ IF Pending(job[a].e) # {} THEN Done(a) ELSE Goto(a, "create_insert")
  /\ UNCHANGED <<execs, waits, engine, woken, bounds>>

\* Rows with the same (execution_id, idempotency_key), resolved ones too.
SameKey(e, key) ==
  {w \in Waits : waits[w].status # "absent" /\ waits[w].exec = e
                   /\ waits[w].ikey = key}

\* Mutant: the table without its unique (execution_id, active_slot).
NoActiveSlotConstraint(e, key) == SameKey(e, key) # {}

\* Mutant: the table without its unique (execution_id, idempotency_key).
NoKeyConstraint(e, key) == Pending(e) # {}

\* IntegrityError: unique (execution_id, active_slot), where a pending row
\* holds the slot, or unique (execution_id, idempotency_key).
UniqueViolation(e, key) == Pending(e) # {} \/ SameKey(e, key) # {}

\* The insert.  On IntegrityError the store returns the row of the same key,
\* whatever its status; without one create_wait ends (existing or conflict).
CreateInsert(a) ==
  /\ At(a, "create_insert")
  /\ LET j == job[a]
         Suspend(w) == job' = [job EXCEPT ![a].at = "create_write",
                                          ![a].w = w]
     IN  \/ /\ ~UniqueViolation(j.e, j.ikey)
            /\ \E w \in Waits :
                 /\ waits[w].status = "absent"
                 /\ waits' = [waits EXCEPT ![w] =
                       [status |-> "pending", exec |-> j.e, kind |-> j.kind,
                        ikey |-> j.ikey, deadline |-> j.deadline,
                        rkey |-> None]]
                 /\ Suspend(w)
         \/ /\ UniqueViolation(j.e, j.ikey)
            /\ UNCHANGED waits
            /\ IF SameKey(j.e, j.ikey) = {}
               THEN Done(a)
               ELSE \E w \in SameKey(j.e, j.ikey) : Suspend(w)
  /\ UNCHANGED <<execs, engine, woken, bounds>>

\* The suspended status is written over the row as read before the insert.
CreateSuspend(a) ==
  /\ At(a, "create_write")
  /\ LET j == job[a]
     IN  WriteRow(j.e, [j.snap EXCEPT !.status = WaitExecutionStatus[j.kind],
                                      !.active = j.w])
  /\ Done(a)
  /\ UNCHANGED <<waits, engine, woken, bounds>>

-----------------------------------------------------------------------------
(* resolve_wait, and the three ways into it                                *)

\* get_wait; only a pending wait has its execution checked before the claim.
ResolveWait(a, w, outcome, rkey, resume) ==
  /\ Free(a)
  /\ waits[w].status # "absent"
  /\ job' = [job EXCEPT ![a] =
       [NewJob(IF waits[w].status = "pending" THEN "resolve_check"
                                              ELSE "resolve_claim",
               waits[w].exec, NoRow)
          EXCEPT !.w = w, !.outcome = outcome, !.rkey = rkey,
                 !.resume = resume]]
  /\ UNCHANGED <<execs, waits, engine, woken, beats, crashes>>

\* POST /executions/{id}/waits/{wait_id}/resolve
ResolveRequest(a, w, outcome, key, resume) ==
  /\ Accept("resolve")
  /\ ResolveWait(a, w, outcome, <<"api", key>>, resume)

\* wake_event: resolves the pending event waits of a correlation key.
WakeEvent(a, w, key) ==
  /\ Accept("event")
  /\ waits[w].kind = "event"
  /\ ResolveWait(a, w, "resolved", <<"event", key>>, TRUE)

\* wake_due_waits, first part: deadlines that have passed.
ExpireWait(a, w) ==
  /\ waits[w].deadline
  /\ waits[w].status = "pending"
  /\ ResolveWait(a, w, "expired", <<"deadline", None>>, FALSE)
  /\ UNCHANGED requests

\* Mutant: only the deadlines are reconciled, a plain timer is never due.
DeadlinesOnly(a, w) ==
  /\ waits[w].deadline
  /\ waits[w].status = "pending"
  /\ ResolveWait(a, w, "resolved", <<"timer", None>>, TRUE)
  /\ UNCHANGED requests

\* wake_due_waits, second part: timers that are due (only sleep has wake_at).
WakeDueWait(a, w) ==
  /\ waits[w].kind = "sleep"
  /\ waits[w].status = "pending"
  /\ ResolveWait(a, w, "resolved", <<"timer", None>>, TRUE)
  /\ UNCHANGED requests

\* The execution is still suspended on exactly this wait.
SuspendedOn(row, w) ==
  /\ row.status = WaitExecutionStatus[waits[w].kind]
  /\ row.active = w

ResolveCheck(a) ==
  /\ At(a, "resolve_check")
  /\ LET j == job[a] IN
     IF /\ SuspendedOn(execs[j.e], j.w)
        /\ (j.resume /\ j.outcome = "resolved") => j.e \in NativeExecutions
     THEN job' = [job EXCEPT ![a].at = "resolve_claim",
                             ![a].snap = execs[j.e]]
     ELSE Done(a)
  /\ UNCHANGED <<execs, waits, engine, woken, bounds>>

\* Mutant: UPDATE ... without "AND status = 'pending'".
UnconditionalClaim(w) == waits[w].status # "absent"

\* The WHERE clause of the store's UPDATE.
Claimable(w) == waits[w].status = "pending"

\* resolve_execution_wait: a compare-and-set that also frees active_slot.
ClaimRow(w, outcome, rkey) ==
  waits' = [waits EXCEPT ![w].status = outcome, ![w].rkey = rkey]

\* A lost claim ends the call: no-op for the same key, else a conflict.
ResolveClaim(a) ==
  /\ At(a, "resolve_claim")
  /\ LET j == job[a] IN
     IF Claimable(j.w)
     THEN ClaimRow(j.w, j.outcome, j.rkey) /\ Goto(a, "resolve_write")
     ELSE UNCHANGED waits /\ Done(a)
  /\ UNCHANGED <<execs, engine, woken, bounds>>

ClearActive(row, w) ==
  IF row.active = w THEN [row EXCEPT !.active = None] ELSE row

\* The row as read before the claim is written back, paused.
ResolveWrite(a) ==
  /\ At(a, "resolve_write")
  /\ LET j == job[a]
     IN  WriteRow(j.e, [ClearActive(j.snap, j.w) EXCEPT !.status = "paused"])
  /\ Goto(a, "resolve_emit")
  /\ UNCHANGED <<waits, engine, woken, bounds>>

\* Mutant: the event is only emitted when the execution is not resumed.
ResumeUnannounced(a) ==
  /\ At(a, "resolve_emit")
  /\ IF job[a].resume /\ job[a].outcome = "resolved"
     THEN Goto(a, "resume_read") /\ UNCHANGED woken
     ELSE Done(a) /\ woken' = [woken EXCEPT ![job[a].w] = @ + 1]
  /\ UNCHANGED <<execs, waits, engine, bounds>>

\* EXECUTION_WOKEN, then control_plane.resume for a resolved wait.
ResolveEmit(a) ==
  /\ At(a, "resolve_emit")
  /\ woken' = [woken EXCEPT ![job[a].w] = @ + 1]
  /\ IF job[a].resume /\ job[a].outcome = "resolved"
     THEN Goto(a, "resume_read")
     ELSE Done(a)
  /\ UNCHANGED <<execs, waits, engine, bounds>>

-----------------------------------------------------------------------------
(* control_plane.resume, ending in queue_start                             *)

ResumeExecution(a, e) ==
  /\ Free(a)
  /\ execs[e].status \notin Terminal
  /\ job' = [job EXCEPT ![a] = NewJob("resume_list", e, NoRow)]
  /\ Accept("resume")
  /\ UNCHANGED <<execs, waits, engine, woken, beats, crashes>>

ResumeRead(a) ==
  /\ At(a, "resume_read")
  /\ IF execs[job[a].e].status \in Terminal THEN Done(a)
                                            ELSE Goto(a, "resume_list")
  /\ UNCHANGED <<execs, waits, engine, woken, bounds>>

\* _reject_unresolved_wait
RejectUnresolvedWait(e) == Pending(e) # {}

ResumeList(a) ==
  /\ At(a, "resume_list")
  /\ IF RejectUnresolvedWait(job[a].e) THEN Done(a)
                                       ELSE Goto(a, "engine_resume_read")
  /\ UNCHANGED <<execs, waits, engine, woken, bounds>>

\* engine.resume_execution reads the row again and clears state.paused.
EngineResumeRead(a) ==
  /\ At(a, "engine_resume_read")
  /\ LET e == job[a].e IN
     IF execs[e].status \in Terminal
     THEN Done(a) /\ UNCHANGED paused
     ELSE /\ job' = [job EXCEPT ![a].at = "engine_resume_write",
                                ![a].snap = execs[e]]
          /\ paused' = [paused EXCEPT ![e] = FALSE]
  /\ UNCHANGED <<execs, waits, task, tsnap, beat, cancelled, woken, bounds>>

EngineResumeWrite(a) ==
  /\ At(a, "engine_resume_write")
  /\ WriteRow(job[a].e, [job[a].snap EXCEPT !.status = "queued"])
  /\ Goto(a, "queue_read")
  /\ UNCHANGED <<waits, engine, woken, bounds>>

StartExecution(a, e) ==
  /\ Free(a)
  /\ execs[e].status \notin Terminal
  /\ job' = [job EXCEPT ![a] = NewJob("queue_list", e, execs[e])]
  /\ Accept("start")
  /\ UNCHANGED <<execs, waits, engine, woken, beats, crashes>>

QueueRead(a) ==
  /\ At(a, "queue_read")
  /\ LET e == job[a].e IN
     IF execs[e].status \in Terminal
     THEN Done(a)
     ELSE job' = [job EXCEPT ![a].at = "queue_list", ![a].snap = execs[e]]
  /\ UNCHANGED <<execs, waits, engine, woken, bounds>>

QueueList(a) ==
  /\ At(a, "queue_list")
  /\ IF RejectUnresolvedWait(job[a].e) THEN Done(a) ELSE Goto(a, "queue_write")
  /\ UNCHANGED <<execs, waits, engine, woken, bounds>>

\* A task that is still alive is kept; otherwise a new one is created.
QueueWrite(a) ==
  /\ At(a, "queue_write")
  /\ LET e == job[a].e IN
     /\ WriteRow(e, [job[a].snap EXCEPT !.status = "queued"])
     /\ task' = [task EXCEPT ![e] = IF @ = "none" THEN "spawned" ELSE @]
  /\ Done(a)
  /\ UNCHANGED <<waits, tsnap, beat, paused, cancelled, woken, bounds>>

-----------------------------------------------------------------------------
(* control_plane.pause and control_plane.cancel                            *)

PauseExecution(a, e) ==
  /\ Free(a)
  /\ job' = [job EXCEPT ![a] =
       [NewJob(IF execs[e].status = "sleeping" THEN "close_list"
                                               ELSE "engine_pause_read",
               e, execs[e])
          EXCEPT !.outcome = "cancelled", !.rkey = <<"operator_pause", None>>]]
  /\ Accept("pause")
  /\ UNCHANGED <<execs, waits, engine, woken, beats, crashes>>

CancelExecution(a, e) ==
  /\ Free(a)
  /\ execs[e].status \notin Terminal \cup {"cancelling"}
  /\ job' = [job EXCEPT ![a] =
       [NewJob("close_list", e, execs[e])
          EXCEPT !.outcome = "cancelled", !.rkey = <<"operator_cancel", None>>]]
  /\ Accept("cancel")
  /\ UNCHANGED <<execs, waits, engine, woken, beats, crashes>>

IsPause(a) == job[a].rkey = <<"operator_pause", None>>
AfterClose(a) == IF IsPause(a) THEN "engine_pause_read" ELSE "cancel_read"

\* _close_pending_waits: pause closes sleep waits only, cancel any kind.
CloseList(a) ==
  /\ At(a, "close_list")
  /\ LET open == {w \in Pending(job[a].e) :
                    IsPause(a) => waits[w].kind = "sleep"} IN
     IF open = {}
     THEN Goto(a, AfterClose(a))
     ELSE \E w \in open : job' = [job EXCEPT ![a].at = "close_claim",
                                             ![a].w = w]
  /\ UNCHANGED <<execs, waits, engine, woken, bounds>>

CloseClaim(a) ==
  /\ At(a, "close_claim")
  /\ LET j == job[a] IN
     IF Claimable(j.w)
     THEN ClaimRow(j.w, j.outcome, j.rkey) /\ Goto(a, "close_write")
     ELSE UNCHANGED waits /\ Goto(a, AfterClose(a))
  /\ UNCHANGED <<execs, engine, woken, bounds>>

CloseWrite(a) ==
  /\ At(a, "close_write")
  /\ LET j == job[a]
         row == ClearActive(j.snap, j.w)
     IN  WriteRow(j.e, IF IsPause(a) THEN [row EXCEPT !.status = "paused"]
                                     ELSE row)
  /\ Goto(a, AfterClose(a))
  /\ UNCHANGED <<waits, engine, woken, bounds>>

\* engine.pause_execution raises the in-memory flag, then writes the row.
EnginePauseRead(a) ==
  /\ At(a, "engine_pause_read")
  /\ LET e == job[a].e IN
     /\ paused' = [paused EXCEPT ![e] = TRUE]
     /\ job' = [job EXCEPT ![a].at = "engine_pause_write",
                           ![a].snap = execs[e]]
  /\ UNCHANGED <<execs, waits, task, tsnap, beat, cancelled, woken, bounds>>

\* A durable wait status is kept; any other one, a terminal one too, is not.
EnginePauseWrite(a) ==
  /\ At(a, "engine_pause_write")
  /\ WriteRow(job[a].e, [job[a].snap EXCEPT !.status =
                           IF @ \in DurableWait THEN @ ELSE "paused"])
  /\ Done(a)
  /\ UNCHANGED <<waits, engine, woken, bounds>>

CancelRead(a) ==
  /\ At(a, "cancel_read")
  /\ job' = [job EXCEPT ![a].at = "cancel_write",
                           ![a].snap = execs[job[a].e]]
  /\ UNCHANGED <<execs, waits, engine, woken, bounds>>

CancelWrite(a) ==
  /\ At(a, "cancel_write")
  /\ WriteRow(job[a].e, [job[a].snap EXCEPT !.status = "cancelling"])
  /\ Goto(a, "engine_cancel_read")
  /\ UNCHANGED <<waits, engine, woken, bounds>>

\* engine.cancel_execution raises state.cancelled unless the run has ended.
EngineCancelRead(a) ==
  /\ At(a, "engine_cancel_read")
  /\ LET e == job[a].e IN
     /\ cancelled' = [cancelled EXCEPT
          ![e] = @ \/ execs[e].status \notin {"completed", "failed"}]
     /\ IF execs[e].status \in Terminal
        THEN Done(a)
        ELSE job' = [job EXCEPT ![a].at = "engine_cancel_write",
                                ![a].snap = execs[e]]
  /\ UNCHANGED <<execs, waits, task, tsnap, beat, paused, woken, bounds>>

\* Cooperative while the row says running, immediate otherwise.  With a
\* partial result to preserve the row is written once more.
EngineCancelWrite(a) ==
  /\ At(a, "engine_cancel_write")
  /\ LET row == [job[a].snap EXCEPT !.status =
                   IF @ = "running" THEN "cancelling" ELSE "cancelled"] IN
     /\ WriteRow(job[a].e, row)
     /\ \/ Done(a)
        \/ job' = [job EXCEPT ![a].at = "preserve_write", ![a].snap = row]
  /\ UNCHANGED <<waits, engine, woken, bounds>>

PreserveWrite(a) ==
  /\ At(a, "preserve_write")
  /\ WriteRow(job[a].e, job[a].snap)
  /\ Done(a)
  /\ UNCHANGED <<waits, engine, woken, bounds>>

-----------------------------------------------------------------------------
(* The local task: _run_execution and engine.start_execution               *)

SetTask(e, l) == task' = [task EXCEPT ![e] = l]
Own(e) == tsnap[e].own
flags == <<paused, cancelled>>

\* The run is over; its lock is still to be released.
EndRun(e) ==
  /\ SetTask(e, "ending")
  /\ tsnap' = [tsnap EXCEPT ![e] = NoSnap]

\* acquire_lock reads the row ...
TaskAcquireRead(e) ==
  /\ task[e] = "spawned"
  /\ SetTask(e, "acquiring")
  /\ tsnap' = [tsnap EXCEPT ![e].own = execs[e]]
  /\ UNCHANGED <<execs, waits, job, beat, flags, woken, bounds>>

\* ... and gives up when another worker holds it ...
TaskLockBusy(e) ==
  /\ task[e] = "spawned"
  /\ SetTask(e, "none")
  /\ UNCHANGED <<execs, waits, job, tsnap, beat, flags, woken, bounds>>

\* ... or writes it back with this worker's id.
TaskAcquireWrite(e) ==
  /\ task[e] = "acquiring"
  /\ SetTask(e, "acquired")
  /\ WriteRow(e, Own(e))
  /\ UNCHANGED <<waits, job, tsnap, beat, flags, woken, bounds>>

TaskLoad(e) ==
  /\ task[e] = "acquired"
  /\ SetTask(e, "loaded")
  /\ tsnap' = [tsnap EXCEPT ![e].own = execs[e]]
  /\ UNCHANGED <<execs, waits, job, beat, flags, woken, bounds>>

\* _run_execution marks the row running without looking at its status.
TaskMarkRunning(e) ==
  /\ task[e] = "loaded"
  /\ SetTask(e, "marked")
  /\ WriteRow(e, [Own(e) EXCEPT !.status = "running"])
  /\ UNCHANGED <<waits, job, tsnap, beat, flags, woken, bounds>>

\* start_execution refuses a terminal row and a workflow that is gone.
EngineLoad(e) ==
  /\ task[e] = "marked"
  /\ \/ EndRun(e)
     \/ /\ execs[e].status \notin Terminal
        /\ SetTask(e, "admitted")
        /\ tsnap' = [tsnap EXCEPT ![e].own = execs[e]]
  /\ UNCHANGED <<execs, waits, job, beat, flags, woken, bounds>>

\* The flags are cleared once the workflow has been loaded.
EngineReset(e) ==
  /\ task[e] = "admitted"
  /\ SetTask(e, "engine")
  /\ paused' = [paused EXCEPT ![e] = FALSE]
  /\ cancelled' = [cancelled EXCEPT ![e] = FALSE]
  /\ UNCHANGED <<execs, waits, job, tsnap, beat, woken, bounds>>

EngineRun(e) ==
  /\ task[e] = "engine"
  /\ SetTask(e, "between")
  /\ tsnap' = [tsnap EXCEPT ![e].own.status = "running"]
  /\ WriteRow(e, tsnap'[e].own)
  /\ UNCHANGED <<waits, job, beat, flags, woken, bounds>>

EngineNextNode(e) ==
  /\ task[e] = "between"
  /\ ~cancelled[e]
  /\ SetTask(e, "node")
  /\ UNCHANGED <<execs, waits, job, tsnap, beat, flags, woken, bounds>>

\* The checkpoint after a node writes the task's own copy of the row.
EngineCheckpoint(e) ==
  /\ task[e] = "node"
  /\ ~cancelled[e]
  /\ SetTask(e, "between")
  /\ WriteRow(e, Own(e))
  /\ UNCHANGED <<waits, job, tsnap, beat, flags, woken, bounds>>

\* No node is left: completed, or failed when a node's outcome was a failure.
EngineFinish(e, s) ==
  /\ \/ task[e] = "between" /\ s \in {"completed", "failed"}
     \/ task[e] = "node" /\ s = "failed"              \* an exception
     \/ /\ task[e] \in {"node", "between"}            \* _raise_if_cancelled
        /\ cancelled[e]
        /\ s = "cancelled"
  /\ EndRun(e)
  /\ WriteRow(e, [Own(e) EXCEPT !.status = s])
  /\ UNCHANGED <<waits, job, beat, flags, woken, bounds>>

\* ExecutionPausedError: the flag is seen between model calls, or the token
\* budget raises it.  The handler reads the current row first.
EnginePauseSeen(e) ==
  /\ task[e] = "node"
  /\ ~cancelled[e]
  /\ SetTask(e, "unwinding")
  /\ paused' = [paused EXCEPT ![e] = TRUE]
  /\ tsnap' = [tsnap EXCEPT ![e].current = execs[e]]
  /\ UNCHANGED <<execs, waits, job, beat, cancelled, woken, bounds>>

\* The durable status another request has written is preserved.
UnwoundRow(own, current) ==
  IF current.status \in DurableWait
  THEN [own EXCEPT !.status = current.status, !.active = current.active]
  ELSE [own EXCEPT !.status = "paused"]

EngineUnwind(e) ==
  /\ task[e] = "unwinding"
  /\ EndRun(e)
  /\ WriteRow(e, UnwoundRow(Own(e), tsnap[e].current))
  /\ UNCHANGED <<waits, job, beat, flags, woken, bounds>>

\* The heartbeat coroutine is cancelled, then release_lock reads the row;
\* without the lock (a stale writer erased it) nothing is written.
TaskReleaseRead(e) ==
  /\ task[e] = "ending"
  /\ beat' = [beat EXCEPT ![e] = None]
  /\ \/ /\ SetTask(e, "releasing")
        /\ tsnap' = [tsnap EXCEPT ![e].own = execs[e]]
     \/ SetTask(e, "none") /\ UNCHANGED tsnap
  /\ UNCHANGED <<execs, waits, job, flags, woken, bounds>>

TaskReleaseWrite(e) ==
  /\ task[e] = "releasing"
  /\ SetTask(e, "none")
  /\ tsnap' = [tsnap EXCEPT ![e] = NoSnap]
  /\ WriteRow(e, Own(e))
  /\ UNCHANGED <<waits, job, beat, flags, woken, bounds>>

\* The heartbeat of a local run, also beaten by the engine before each node.
HeartbeatRead(e) ==
  /\ task[e] \in {"marked", "admitted", "engine", "node", "between",
                  "unwinding", "ending"}
  /\ beat[e] = None
  /\ beats < MaxBeats
  /\ beats' = beats + 1
  /\ beat' = [beat EXCEPT ![e] = execs[e]]
  /\ UNCHANGED <<execs, waits, job, task, tsnap, flags, woken, requests,
                 crashes>>

HeartbeatWrite(e) ==
  /\ beat[e] # None
  /\ WriteRow(e, beat[e])
  /\ beat' = [beat EXCEPT ![e] = None]
  /\ UNCHANGED <<waits, job, task, tsnap, flags, woken, bounds>>

-----------------------------------------------------------------------------
\* The API process dies: coroutines, tasks and in-memory flags are gone.
Crash ==
  /\ crashes < MaxCrashes
  /\ crashes' = crashes + 1
  /\ job' = [a \in Actors |-> None]
  /\ task' = [e \in Executions |-> "none"]
  /\ tsnap' = [e \in Executions |-> NoSnap]
  /\ beat' = [e \in Executions |-> None]
  /\ paused' = [e \in Executions |-> FALSE]
  /\ cancelled' = [e \in Executions |-> FALSE]
  /\ UNCHANGED <<execs, waits, woken, requests, beats>>

CreateSteps(a) == CreateList(a) \/ CreateInsert(a) \/ CreateSuspend(a)

ResolveSteps(a) ==
  ResolveCheck(a) \/ ResolveClaim(a) \/ ResolveWrite(a) \/ ResolveEmit(a)

ResumeSteps(a) ==
  \/ ResumeRead(a) \/ ResumeList(a) \/ EngineResumeRead(a)
  \/ EngineResumeWrite(a) \/ QueueRead(a) \/ QueueList(a) \/ QueueWrite(a)

StopSteps(a) ==
  \/ CloseList(a) \/ CloseClaim(a) \/ CloseWrite(a) \/ EnginePauseRead(a)
  \/ EnginePauseWrite(a) \/ CancelRead(a) \/ CancelWrite(a)
  \/ EngineCancelRead(a) \/ EngineCancelWrite(a) \/ PreserveWrite(a)

\* A handler that has begun, whatever it is.
HandlerStep(a) ==
  CreateSteps(a) \/ ResolveSteps(a) \/ ResumeSteps(a) \/ StopSteps(a)

\* The requests of an API caller.
WaitRequest(a) ==
  \/ \E e \in Executions, k \in Kinds, key \in Keys, d \in BOOLEAN :
       CreateWait(a, e, k, key, d)
  \/ \E w \in Waits, o \in WaitTerminal, key \in Keys, r \in BOOLEAN :
       ResolveRequest(a, w, o, key, r)
  \/ \E w \in Waits, key \in Keys : WakeEvent(a, w, key)

LifecycleRequest(a) ==
  \E e \in Executions : \/ ResumeExecution(a, e) \/ StartExecution(a, e)
                        \/ PauseExecution(a, e) \/ CancelExecution(a, e)

PollWaits == \E w \in Waits : ExpireWait(WaitLoop, w) \/ WakeDueWait(WaitLoop, w)

LockStep(e) ==
  \/ TaskAcquireRead(e) \/ TaskLockBusy(e) \/ TaskAcquireWrite(e)
  \/ TaskReleaseRead(e) \/ TaskReleaseWrite(e)
  \/ HeartbeatRead(e) \/ HeartbeatWrite(e)

RunStep(e) ==
  \/ TaskLoad(e) \/ TaskMarkRunning(e) \/ EngineLoad(e) \/ EngineReset(e)
  \/ EngineRun(e) \/ EngineNextNode(e) \/ EngineCheckpoint(e)
  \/ EnginePauseSeen(e) \/ EngineUnwind(e)
  \/ \E s \in Terminal : EngineFinish(e, s)

TaskStep(e) == LockStep(e) \/ RunStep(e)

Next ==
  \/ \E a \in Callers : WaitRequest(a) \/ LifecycleRequest(a)
  \/ PollWaits
  \/ \E a \in Actors : HandlerStep(a)
  \/ \E e \in Executions : TaskStep(e)
  \/ Crash

Spec == Init /\ [][Next]_vars

\* asyncio runs every ready coroutine, so a handler that has begun goes on;
\* the wait loop polls every EXECUTION_WAIT_POLL_INTERVAL_SECONDS and visits
\* every due wait of a pass, so a wait that stays due is visited again and
\* again even though the loop is busy with other waits in between.
Fairness ==
  /\ \A a \in Actors : WF_vars(HandlerStep(a))
  /\ \A w \in Waits : SF_vars(WakeDueWait(WaitLoop, w))

FairSpec == Spec /\ Fairness

-----------------------------------------------------------------------------
(* Properties                                                              *)

\* At most one wait of an execution is pending, whatever creators race
\* (execution_waits.py:85-121 checks before the insert; the table decides).
OnePendingWait ==
  \A v, w \in Waits :
    /\ waits[v].status = "pending" /\ waits[w].status = "pending"
    /\ waits[v].exec = waits[w].exec
    => v = w

\* An idempotency key names one suspension of an execution for ever, even
\* after it was resolved (state.py:1557-1577).
OneWaitPerKey ==
  \A v, w \in Waits :
    /\ waits[v].status # "absent" /\ waits[w].status # "absent"
    /\ waits[v].exec = waits[w].exec /\ waits[v].ikey = waits[w].ikey
    => v = w

\* A handler that holds the claim of a wait: it won the compare-and-set and
\* has not yet announced the wakeup.
HoldsClaim(a, w) ==
  /\ job[a] # None
  /\ job[a].at \in {"resolve_write", "resolve_emit"}
  /\ job[a].w = w

\* One wait wakes its execution at most once.  At most one coroutine is ever
\* between the claim and the EXECUTION_WOKEN event, and after that event none
\* is (execution_waits.py:213-268).
SingleWake ==
  \A w \in Waits :
    /\ woken[w] <= 1
    /\ woken[w] = 1 => waits[w].status \in WaitTerminal
    /\ \A a \in Actors : HoldsClaim(a, w) =>
         /\ waits[w].status \in WaitTerminal
         /\ woken[w] = 0
         /\ \A b \in Actors : HoldsClaim(b, w) => b = a

\* The wait table, as the readers of the ledger see it, is an atomic
\* single-claim ledger: the specification WaitLedger.
Ledger == INSTANCE WaitLedger WITH
  ledger <- [w \in Waits |-> [status |-> waits[w].status,
                              exec |-> waits[w].exec,
                              key |-> waits[w].rkey]],
  announced <- woken,
  ResolutionKeys <- RKey

ImplementsLedger == Ledger!Spec

\* A timer on which a native execution is suspended is claimed, or an operator
\* or another request moves the execution elsewhere: no collision of creators,
\* resolvers and the poll leaves it asleep for ever (execution_waits.py:276-340).
SleepingOn(w) ==
  /\ waits[w].status = "pending" /\ waits[w].kind = "sleep"
  /\ waits[w].exec \in NativeExecutions
  /\ SuspendedOn(execs[waits[w].exec], w)

SuspendedTimerFires == \A w \in Waits : SleepingOn(w) ~> ~SleepingOn(w)

\* A wait that was claimed as resolved is announced (execution_waits.py:240-260):
\* no interleaving of coroutines swallows the wakeup of a claimed wait.
ClaimIsAnnounced ==
  \A w \in Waits : waits[w].status = "resolved" ~> woken[w] = 1

=============================================================================
