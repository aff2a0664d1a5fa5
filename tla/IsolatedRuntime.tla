-------------------------- MODULE IsolatedRuntime --------------------------
(***************************************************************************)
(* One execution hosted in Docker: the launch by the control plane         *)
(* (app/runtime/control_plane.py), the worker process in the container     *)
(* (app/runtime/worker.py), the watch task of each container and the       *)
(* reconciler that heals drift between Docker and the row                  *)
(* (app/runtime/reconcile.py), and the requests that race with them, the   *)
(* repair of stale executions among them.                                  *)
(*                                                                         *)
(* A step is one transaction of the execution store or one Docker call.    *)
(* update_execution writes all columns from the copy its caller read       *)
(* earlier.  Of the row the model keeps status, container_id and whether   *)
(* its checkpoint holds the last tasks.  Whether acquire_lock is granted   *)
(* and whether a heartbeat is old enough for a repair is left open: stale  *)
(* saves of worker_id and of last_heartbeat_at clear and restore both      *)
(* (ExecutionWaits).  Of the                                               *)
(* durable wait it keeps whether one is pending: claim and resume are the  *)
(* subject of ExecutionWaits, and a wake here is its claim and its last    *)
(* write.  Reads that follow each other with no save of the same task in   *)
(* between are one step.  Docker refuses a second container of the same    *)
(* name and a call on a removed one, no other call.                        *)
(***************************************************************************)
EXTENDS ExecutionStore, Naturals

CONSTANTS
  Backends,     \* backend processes
  Reconcilers,  \* those that run the reconciler (runtime_reconciler_enabled)
  Callers,      \* concurrent requests
  Commands,     \* the requests they make
  Containers,   \* ids Docker may hand out
  Terminate,    \* values of terminate_container_on_completion
  MaxRequests,  \* bound on starts, wakes, cancels and repairs
  MaxFaults,    \* bound on backend crashes and killed workers
  None

ASSUME IsolatedAssumption ==
  /\ None \notin Containers
  /\ Reconcilers \subseteq Backends
  /\ Commands \subseteq {"start", "wake", "cancel", "repair"}
  /\ Terminate \subseteq BOOLEAN
  /\ MaxRequests \in Nat /\ MaxFaults \in Nat

VARIABLES
  row,      \* the executions row
  pending,  \* a sleep wait of the execution is pending
  ctr,      \* the containers Docker knows
  work,     \* the worker process in a container, None without one
  launch,   \* the _run_execution task of a backend, None without one
  recon,    \* the watch task and the reconciler pass of a backend
  req,      \* the handler each caller is in
  finished, \* a worker has run the last tasks or the workflow to its end
  requests, faults

vars == <<row, pending, ctr, work, launch, recon, req, finished, requests,
          faults>>
bounds == <<requests, faults>>

\* ACTIVE_EXECUTION_STATUSES
Active == Status \ (Terminal \cup {"created"})

\* LIVE_CONTAINER_STATUSES and EXITED_CONTAINER_STATUSES; a container is
\* created, runs and exits once.
Live == {"created", "running"}
CtrState == {"none", "gone", "exited"} \cup Live

\* Worker exit codes; every code of a failed worker has the same effect.
Code == {"success", "suspended", "cancelled", "failure"}

\* terminate: the execution's metadata say should_terminate_container_on_completion.
\* ckpt: the checkpoint in output_payload holds every terminal node.
Row == [status : Status, cid : Containers \cup {None}, terminate : BOOLEAN,
        ckpt : BOOLEAN]
Ctr == [state : CtrState, code : Code, old : BOOLEAN]

LaunchJob == [at : {"lock", "locked", "read", "create", "link", "start",
                    "started", "fail", "release", "released"}, copy : Row]
\* beat: the row that a heartbeat or a lock call of the worker has read.
WorkJob == [at : {"lock", "begin", "run", "wait", "sleep", "mark", "exit"},
            copy : Row, code : Code, beat : Row \cup {None}]
ReconJob == [at : {"wait", "list", "missing", "settle", "remove", "unlink",
                   "reap", "reaped", "sync", "expire"},
             copy : Row, c : Containers \cup {None},
             expired : SUBSET Containers]
ReqJob == [at : {"queue", "close", "read", "cancelling", "engine", "finish",
                 "preserve", "stop", "remove", "repaired"},
           b : Backends, copy : Row]

\* The two reconciling tasks of a backend.
Tasks == Backends \X {"watch", "loop"}

ASSUME JobsAssumption ==
  None \notin Row \cup LaunchJob \cup WorkJob \cup ReconJob \cup ReqJob

TypeOK ==
  /\ row \in Row /\ pending \in BOOLEAN /\ finished \in BOOLEAN
  /\ ctr \in [Containers -> Ctr]
  /\ work \in [Containers -> WorkJob \cup {None}]
  /\ launch \in [Backends -> LaunchJob \cup {None}]
  /\ recon \in [Tasks -> ReconJob \cup {None}]
  /\ req \in [Callers -> ReqJob \cup {None}]
  /\ requests \in 0..MaxRequests
  /\ faults \in 0..MaxFaults

\* A new execution; also the copy of a task that needs none at its step.
NoRow == [status |-> "created", cid |-> None, terminate |-> TRUE,
          ckpt |-> FALSE]

NoRecon == [at |-> "expire", copy |-> NoRow, c |-> None,
            expired |-> {}]

Init ==
  /\ \E x \in Terminate : row = [NoRow EXCEPT !.terminate = x]
  /\ pending = FALSE /\ finished = FALSE
  /\ ctr = [c \in Containers |->
              [state |-> "none", code |-> "failure", old |-> FALSE]]
  /\ work = [c \in Containers |-> None]
  /\ launch = [b \in Backends |-> None]
  /\ recon = [t \in Tasks |-> None]
  /\ req = [r \in Callers |-> None]
  /\ requests = 0 /\ faults = 0

-----------------------------------------------------------------------------
(* Docker, as runtime_container_manager uses it (app/runtime/containers.py) *)

Present(c) == ctr[c].state \in {"exited"} \cup Live

\* Mutant: container names that are unique to a launch.
NoName == FALSE

\* default_container_name: one name per execution.
NameTaken == \E c \in Containers : Present(c)

Exit(c, code) ==
  /\ ctr' = [ctr EXCEPT ![c].state = "exited", ![c].code = code]
  /\ work' = [work EXCEPT ![c] = None]

-----------------------------------------------------------------------------
(* Requests                                                                *)

Accept(r, cmd, j) ==
  /\ req[r] = None /\ cmd \in Commands
  /\ requests < MaxRequests /\ requests' = requests + 1
  /\ req' = [req EXCEPT ![r] = j]
  /\ UNCHANGED faults

ReqAt(r, l) == req[r] # None /\ req[r].at = l
ReqGoto(r, l, copy) ==
  req' = [req EXCEPT ![r].at = l, ![r].copy = copy]
ReqDone(r) == req' = [req EXCEPT ![r] = None]

\* queue_start: the row is read, terminal ones and pending waits refused.
StartRequest(r, b) ==
  /\ row.status \notin Terminal /\ ~pending
  /\ Accept(r, "start", [at |-> "queue", b |-> b, copy |-> row])
  /\ UNCHANGED <<row, pending, ctr, work, launch, recon, finished>>

\* wake_due_waits: the wait is claimed while the row says sleeping.
Wake(r, b) ==
  /\ pending /\ row.status = "sleeping"
  /\ pending' = FALSE
  /\ Accept(r, "wake", [at |-> "queue", b |-> b, copy |-> row])
  /\ UNCHANGED <<row, ctr, work, launch, recon, finished>>

\* queue_start: write the row, spawn the task unless one is running.
QueueStart(r) ==
  /\ ReqAt(r, "queue")
  /\ row' = [req[r].copy EXCEPT !.status = "queued"]
  /\ launch' = IF launch[req[r].b] = None
               THEN [launch EXCEPT ![req[r].b] =
                       [at |-> "lock", copy |-> NoRow]]
               ELSE launch
  /\ ReqDone(r)
  /\ UNCHANGED <<pending, ctr, work, recon, finished, bounds>>

\* cancel: the row is read and a pending wait closed.
CancelRequest(r, b) ==
  /\ row.status \notin Terminal \cup {"cancelling"}
  /\ pending' = FALSE
  /\ Accept(r, "cancel", [at |-> IF pending THEN "close" ELSE "cancelling",
                          b |-> b, copy |-> row])
  /\ UNCHANGED <<row, ctr, work, launch, recon, finished>>

\* _close_pending_waits saves the row, which is then read again.
CancelClose(r) ==
  /\ ReqAt(r, "close")
  /\ row' = req[r].copy
  /\ ReqGoto(r, "read", NoRow)
  /\ UNCHANGED <<pending, ctr, work, launch, recon, finished, bounds>>

CancelRead(r) ==
  /\ ReqAt(r, "read")
  /\ ReqGoto(r, "cancelling", row)
  /\ UNCHANGED <<row, pending, ctr, work, launch, recon, finished, bounds>>

CancelWrite(r) ==
  /\ ReqAt(r, "cancelling")
  /\ row' = [req[r].copy EXCEPT !.status = "cancelling"]
  /\ ReqGoto(r, "engine", NoRow)
  /\ UNCHANGED <<pending, ctr, work, launch, recon, finished, bounds>>

\* The end of cancel, which saves what the engine returned once more if it
\* preserved partial results.
CancelReturn(r, copy) == ReqDone(r) \/ ReqGoto(r, "preserve", copy)

\* engine.cancel_execution reads the row; the flag it sets is in the memory
\* of this process, which the worker does not share.
CancelEngine(r) ==
  /\ ReqAt(r, "engine")
  /\ \/ row.status \in Terminal /\ CancelReturn(r, row)
     \/ row.status \notin Terminal /\ ReqGoto(r, "finish", row)
  /\ UNCHANGED <<row, pending, ctr, work, launch, recon, finished, bounds>>

CancelFinish(r) ==
  /\ ReqAt(r, "finish")
  /\ row' = [req[r].copy EXCEPT !.status =
               IF @ = "running" THEN "cancelling" ELSE "cancelled"]
  /\ CancelReturn(r, row')
  /\ UNCHANGED <<pending, ctr, work, launch, recon, finished, bounds>>

CancelPreserve(r) ==
  /\ ReqAt(r, "preserve")
  /\ row' = req[r].copy
  /\ ReqDone(r)
  /\ UNCHANGED <<pending, ctr, work, launch, recon, finished, bounds>>

\* repair_stale_executions: the copy it will save; no row waits for an
\* approval here.
Repaired(copy) ==
  [copy EXCEPT !.status = IF @ = "cancelling" THEN "cancelled"
                          ELSE IF copy.ckpt THEN "completed" ELSE "queued"]

\* The row is read and found stale, wherever the execution is hosted.
RepairRequest(r, b) ==
  /\ row.status \in {"queued", "running", "cancelling"}
  /\ Accept(r, "repair",
       [at |-> IF row.status # "cancelling" /\ row.cid # None
               THEN "stop" ELSE "repaired",
        b |-> b, copy |-> Repaired(row)])
  /\ UNCHANGED <<row, pending, ctr, work, launch, recon, finished>>

\* _cleanup_stale_execution_container: inspect the container and stop a live
\* one; the error of a container that is gone is swallowed ...
RepairStop(r) ==
  LET c == req[r].copy.cid IN
  /\ ReqAt(r, "stop")
  /\ IF ctr[c].state = "running" THEN Exit(c, "failure")
                                 ELSE UNCHANGED <<ctr, work>>
  /\ ReqGoto(r, IF Present(c) THEN "remove" ELSE "repaired", req[r].copy)
  /\ UNCHANGED <<row, pending, launch, recon, finished, bounds>>

\* ... then remove it, which Docker refuses if a launch has started it since.
RepairRemove(r) ==
  LET c == req[r].copy.cid IN
  /\ ReqAt(r, "remove")
  /\ ctr' = IF ctr[c].state \in {"created", "exited"}
            THEN [ctr EXCEPT ![c].state = "gone"] ELSE ctr
  /\ ReqGoto(r, "repaired", req[r].copy)
  /\ UNCHANGED <<row, pending, work, launch, recon, finished, bounds>>

\* The copy is saved, still naming its container; nothing starts a task for
\* an execution queued again.
RepairSave(r) ==
  /\ ReqAt(r, "repaired")
  /\ row' = req[r].copy
  /\ ReqDone(r)
  /\ UNCHANGED <<pending, ctr, work, launch, recon, finished, bounds>>

-----------------------------------------------------------------------------
(* _run_execution on the docker host, with _prepare_isolated_runtime       *)

LaunchAt(b, l) == launch[b] # None /\ launch[b].at = l
LaunchGoto(b, l, copy) ==
  launch' = [launch EXCEPT ![b].at = l, ![b].copy = copy]
LaunchDone(b) == launch' = [launch EXCEPT ![b] = None]

\* acquire_lock reads the row and refuses, or saves it with the lock ...
LaunchLock(b) ==
  /\ LaunchAt(b, "lock")
  /\ LaunchGoto(b, "locked", row) \/ LaunchDone(b)
  /\ UNCHANGED <<row, pending, ctr, work, recon, req, finished, bounds>>

LaunchLocked(b) ==
  /\ LaunchAt(b, "locked")
  /\ row' = launch[b].copy
  /\ LaunchGoto(b, "read", NoRow)
  /\ UNCHANGED <<pending, ctr, work, recon, req, finished, bounds>>

\* ... and the row is read again.
LaunchRead(b) ==
  /\ LaunchAt(b, "read")
  /\ LaunchGoto(b, "create", row)
  /\ UNCHANGED <<row, pending, ctr, work, recon, req, finished, bounds>>

\* The copy is saved with its revision, policy and worker context.
LaunchSave(b) ==
  /\ LaunchAt(b, "create")
  /\ row' = launch[b].copy
  /\ UNCHANGED <<pending, ctr, work, launch, recon, req, finished, bounds>>

LaunchCreate(b) ==
  /\ LaunchAt(b, "create")
  /\ \/ /\ NameTaken
        /\ LaunchGoto(b, "fail", launch[b].copy)
        /\ UNCHANGED ctr
     \/ /\ ~NameTaken
        /\ \E c \in Containers :
             /\ ctr[c].state = "none"
             /\ ctr' = [ctr EXCEPT ![c].state = "created"]
             /\ LaunchGoto(b, "link", [launch[b].copy EXCEPT !.cid = c])
  /\ UNCHANGED <<row, pending, work, recon, req, finished, bounds>>

LaunchLink(b) ==
  /\ LaunchAt(b, "link")
  /\ row' = launch[b].copy
  /\ LaunchGoto(b, "start", launch[b].copy)
  /\ UNCHANGED <<pending, ctr, work, recon, req, finished, bounds>>

\* start_container: the worker process starts, or the container is gone.
LaunchStart(b) ==
  LET c == launch[b].copy.cid IN
  /\ LaunchAt(b, "start")
  /\ \/ /\ ctr[c].state = "created"
        /\ ctr' = [ctr EXCEPT ![c].state = "running"]
        /\ work' = [work EXCEPT ![c] =
             [at |-> "lock", copy |-> NoRow, code |-> "failure",
              beat |-> None]]
        /\ LaunchGoto(b, "started", launch[b].copy)
     \/ /\ ctr[c].state # "created"
        /\ LaunchGoto(b, "fail", launch[b].copy)
        /\ UNCHANGED <<ctr, work>>
  /\ UNCHANGED <<row, pending, recon, req, finished, bounds>>

\* Save the container's status and watch it instead of the previous one.
LaunchStarted(b) ==
  /\ LaunchAt(b, "started")
  /\ row' = launch[b].copy
  /\ recon' = [recon EXCEPT ![<<b, "watch">>] =
       [NoRecon EXCEPT !.at = "wait", !.c = launch[b].copy.cid]]
  /\ LaunchGoto(b, "release", NoRow)
  /\ UNCHANGED <<pending, ctr, work, req, finished, bounds>>

\* ContainerRuntimeError
LaunchFail(b) ==
  /\ LaunchAt(b, "fail")
  /\ row' = [launch[b].copy EXCEPT !.status = "failed"]
  /\ LaunchGoto(b, "release", NoRow)
  /\ UNCHANGED <<pending, ctr, work, recon, req, finished, bounds>>

\* release_lock reads the row, saves it if the lock is still this backend's,
\* and the task is no longer in _tasks.
LaunchRelease(b) ==
  /\ LaunchAt(b, "release")
  /\ LaunchGoto(b, "released", row) \/ LaunchDone(b)
  /\ UNCHANGED <<row, pending, ctr, work, recon, req, finished, bounds>>

LaunchReleased(b) ==
  /\ LaunchAt(b, "released")
  /\ row' = launch[b].copy
  /\ LaunchDone(b)
  /\ UNCHANGED <<pending, ctr, work, recon, req, finished, bounds>>

LaunchStep(b) ==
  \/ LaunchLock(b) \/ LaunchLocked(b) \/ LaunchRead(b) \/ LaunchCreate(b)
  \/ LaunchLink(b) \/ LaunchStart(b) \/ LaunchStarted(b) \/ LaunchFail(b)
  \/ LaunchRelease(b) \/ LaunchReleased(b)

-----------------------------------------------------------------------------
(* run_execution_worker                                                    *)

WorkAt(c, l) == work[c] # None /\ work[c].at = l
WorkGoto(c, l, copy) == work' = [work EXCEPT ![c].at = l, ![c].copy = copy]

\* heartbeat, acquire_lock and release_lock read the row and save it again
\* with the columns of the lock, next to the run of the workflow.
Beat(c) ==
  /\ work[c] # None /\ work[c].beat = None
  /\ work' = [work EXCEPT ![c].beat = row]
  /\ UNCHANGED <<row, pending, ctr, launch, recon, req, finished, bounds>>

BeatSave(c) ==
  /\ work[c] # None /\ work[c].beat # None
  /\ row' = work[c].beat
  /\ work' = [work EXCEPT ![c].beat = None]
  /\ UNCHANGED <<pending, ctr, launch, recon, req, finished, bounds>>

\* acquire_lock with retries, or _mark_worker_failure when they time out;
\* start_execution reads the row and refuses to replay a terminal one ...
WorkerLock(c) ==
  /\ WorkAt(c, "lock")
  /\ \/ WorkGoto(c, "mark", row)
     \/ /\ row.status \notin Terminal
        /\ WorkGoto(c, "begin", [row EXCEPT !.status = "running"])
  /\ UNCHANGED <<row, pending, ctr, launch, recon, req, finished, bounds>>

\* ... and saves it as running.
WorkerBegin(c) ==
  /\ WorkAt(c, "begin")
  /\ row' = work[c].copy
  /\ WorkGoto(c, "run", work[c].copy)
  /\ UNCHANGED <<pending, ctr, launch, recon, req, finished, bounds>>

\* The engine saves its own copy after every node, the last ones included;
\* only a repair asks whether it holds these.
WorkerCheckpoint(c) ==
  /\ WorkAt(c, "run")
  /\ \/ UNCHANGED <<work, finished>>
     \/ /\ "repair" \in Commands
        /\ work' = [work EXCEPT ![c].copy.ckpt = TRUE]
        /\ finished' = TRUE
  /\ row' = work'[c].copy
  /\ UNCHANGED <<pending, ctr, launch, recon, req, bounds>>

\* Mutant: every status the worker returns with is a success.
AlwaysSuccess(s) == "success"

\* _exit_code_for_execution
ExitCode(s) ==
  CASE s = "completed" -> "success"
    [] s = "cancelled" -> "cancelled"
    [] s \in DurableWait \cup {"paused"} -> "suspended"
    [] OTHER -> "failure"

\* The engine, or _mark_worker_failure, saves the final status; no repair
\* reads the checkpoint of a run that has ended.
Return(c, copy, s) ==
  /\ row' = [copy EXCEPT !.status = s, !.ckpt = FALSE]
  /\ work' = [work EXCEPT ![c].at = "exit", ![c].copy = NoRow,
                          ![c].code = ExitCode(s)]

WorkerEnd(c) ==
  /\ WorkAt(c, "run")
  /\ \/ Return(c, work[c].copy, "completed") /\ finished' = TRUE
     \/ Return(c, work[c].copy, "failed") /\ UNCHANGED finished
  /\ UNCHANGED <<pending, ctr, launch, recon, req, bounds>>

\* _schedule_persistent_cycle: the checkpoint of the cycle is dropped and the
\* status becomes paused, then the wait is written, then sleeping.
WorkerPause(c) ==
  /\ WorkAt(c, "run")
  /\ row' = [work[c].copy EXCEPT !.status = "paused", !.ckpt = FALSE]
  /\ WorkGoto(c, "wait", [work[c].copy EXCEPT !.ckpt = FALSE])
  /\ UNCHANGED <<pending, ctr, launch, recon, req, finished, bounds>>

WorkerWait(c) ==
  /\ WorkAt(c, "wait")
  /\ pending' = TRUE
  /\ WorkGoto(c, "sleep", work[c].copy)
  /\ UNCHANGED <<row, ctr, launch, recon, req, finished, bounds>>

WorkerSleep(c) ==
  /\ WorkAt(c, "sleep")
  /\ Return(c, work[c].copy, "sleeping")
  /\ UNCHANGED <<pending, ctr, launch, recon, req, finished, bounds>>

\* The hard timeout, or an exception out of the engine: the row is read again.
WorkerRaise(c) ==
  /\ WorkAt(c, "run")
  /\ WorkGoto(c, "mark", row)
  /\ UNCHANGED <<row, pending, ctr, launch, recon, req, finished, bounds>>

\* _mark_worker_failure
WorkerMark(c) ==
  /\ WorkAt(c, "mark")
  /\ Return(c, work[c].copy, "failed")
  /\ UNCHANGED <<pending, ctr, launch, recon, req, finished, bounds>>

\* The heartbeat task is cancelled and the process exits.
WorkerExit(c) ==
  /\ WorkAt(c, "exit")
  /\ Exit(c, work[c].code)
  /\ UNCHANGED <<row, pending, launch, recon, req, finished, bounds>>

WorkerStep(c) ==
  \/ WorkerLock(c) \/ WorkerBegin(c) \/ WorkerEnd(c) \/ WorkerPause(c)
  \/ WorkerWait(c) \/ WorkerSleep(c) \/ WorkerRaise(c) \/ WorkerMark(c)
  \/ WorkerExit(c)

\* The process is killed, by the kernel or with its host.
WorkerDies(c) ==
  /\ work[c] # None
  /\ faults < MaxFaults /\ faults' = faults + 1
  /\ Exit(c, "failure")
  /\ UNCHANGED <<row, pending, launch, recon, req, finished, requests>>

-----------------------------------------------------------------------------
(* The watch task (_watch_container_until_exit, reconcile_execution) and   *)
(* the reconciler pass (reconcile_once).                                   *)

ReconAt(t, l) == recon[t] # None /\ recon[t].at = l
ReconGoto(t, l) == recon' = [recon EXCEPT ![t].at = l]

\* The pass goes on to the expired containers it has listed; the watch task,
\* which lists none, ends.
ReconEnd(t, expired) ==
  recon' = [recon EXCEPT ![t] =
    IF expired = {} THEN None ELSE [NoRecon EXCEPT !.expired = expired]]

\* Mutant: the exit reason is recorded as the status.
ReasonAsStatus(copy, code) == [copy EXCEPT !.status = code]

\* The row of an execution whose worker has exited with this code, as
\* _mark_execution_failed_for_exited_container will save it.
Settled(copy, code) ==
  [copy EXCEPT !.status = CASE code = "suspended" -> @
                            [] code = "success"   -> "completed"
                            [] code = "cancelled" -> "cancelled"
                            [] code = "failure"   -> "failed"]

\* wait_for_container_exit, which gives up after a timeout or when the
\* container is gone, and reconcile_execution with the one it saw exit.
WatchExit(t) ==
  LET c == recon[t].c IN
  /\ ReconAt(t, "wait")
  /\ \/ /\ ctr[c].state = "exited" /\ row.cid # None
        /\ \/ /\ row.status \in Active
              /\ recon' = [recon EXCEPT ![t].at = "settle",
                             ![t].copy = Settled(row, ctr[c].code)]
           \/ /\ row.status \notin Active
              /\ recon' = [recon EXCEPT ![t].at = "sync", ![t].copy = row]
     \/ /\ ctr[c].state # "exited" \/ row.cid = None
        /\ recon' = [recon EXCEPT ![t] = None]
  /\ UNCHANGED <<row, pending, ctr, work, launch, req, finished, bounds>>

\* reconcile_once: the rows are listed, then the containers.
LoopList(b) ==
  /\ b \in Reconcilers
  /\ recon[<<b, "loop">>] = None
  /\ recon' = [recon EXCEPT ![<<b, "loop">>] =
       [NoRecon EXCEPT !.at = "list", !.copy = row, !.c = row.cid]]
  /\ UNCHANGED <<row, pending, ctr, work, launch, req, finished, bounds>>


\* What the pass does with a row and the state of its container.
Verdict(copy, state) ==
  CASE copy.cid = None -> "expire"
    [] copy.cid # None /\ state \in {"none", "gone"} ->
         IF copy.status \in Active THEN "missing" ELSE "expire"
    [] copy.cid # None /\ state = "exited" /\ copy.status \in Active ->
         "settle"
    [] copy.cid # None /\ copy.status \in Terminal
         /\ state \in {"exited"} \cup Live ->
         IF copy.terminate THEN "reap" ELSE "sync"
    [] OTHER -> "sync"

LoopContainers(t) ==
  LET c == recon[t].c
      verdict == Verdict(recon[t].copy, IF c = None THEN "none" ELSE ctr[c].state)
      expired == {d \in Containers : ctr[d].state = "exited" /\ ctr[d].old}
  IN
  /\ ReconAt(t, "list")
  /\ \/ /\ verdict = "expire"
        /\ ReconEnd(t, expired)
     \/ /\ verdict # "expire"
        /\ recon' = [recon EXCEPT
             ![t].at = verdict, ![t].expired = expired,
             ![t].copy = IF verdict = "settle" THEN Settled(@, ctr[c].code)
                                               ELSE @]
  /\ UNCHANGED <<row, pending, ctr, work, launch, req, finished, bounds>>

\* _mark_execution_failed_for_missing_container
MarkMissing(t) ==
  /\ ReconAt(t, "missing")
  /\ row' = [recon[t].copy EXCEPT !.status = "failed"]
  /\ ReconEnd(t, recon[t].expired)
  /\ UNCHANGED <<pending, ctr, work, launch, req, finished, bounds>>

\* _mark_execution_failed_for_exited_container
MarkExited(t) ==
  /\ ReconAt(t, "settle")
  /\ row' = recon[t].copy
  /\ ReconGoto(t, "remove")
  /\ UNCHANGED <<pending, ctr, work, launch, req, finished, bounds>>

\* _maybe_remove_finished_execution_container: the container is removed ...
RemoveFinished(t) ==
  LET c == recon[t].c
      unlinked == recon[t].copy.status \in Active
  IN
  /\ ReconAt(t, "remove")
  /\ \/ /\ recon[t].copy.terminate /\ Present(c)
        /\ ctr' = [ctr EXCEPT ![c].state = "gone"]
        /\ recon' = [recon EXCEPT ![t].at = "unlink",
                       ![t].copy.cid = IF unlinked THEN None ELSE @]
     \/ /\ ~(recon[t].copy.terminate /\ Present(c))
        /\ ReconEnd(t, recon[t].expired)
        /\ UNCHANGED ctr
  /\ UNCHANGED <<row, pending, work, launch, req, finished, bounds>>

\* ... and unlinked from an execution that sleeps on.
Unlink(t) ==
  /\ ReconAt(t, "unlink")
  /\ row' = recon[t].copy
  /\ ReconEnd(t, recon[t].expired)
  /\ UNCHANGED <<pending, ctr, work, launch, req, finished, bounds>>

\* _reap_terminal_execution_container: stop and remove; a container that is
\* gone by now ends the whole pass with an exception.
Reap(t) ==
  LET c == recon[t].c IN
  /\ ReconAt(t, "reap")
  /\ \/ /\ Present(c)
        /\ ctr' = [ctr EXCEPT ![c].state = "gone"]
        /\ work' = [work EXCEPT ![c] = None]
        /\ ReconGoto(t, "reaped")
     \/ /\ ~Present(c)
        /\ recon' = [recon EXCEPT ![t] = None]
        /\ UNCHANGED <<ctr, work>>
  /\ UNCHANGED <<row, pending, launch, req, finished, bounds>>

Reaped(t) ==
  /\ ReconAt(t, "reaped")
  /\ row' = recon[t].copy
  /\ ReconEnd(t, recon[t].expired)
  /\ UNCHANGED <<pending, ctr, work, launch, req, finished, bounds>>

\* _sync_execution_container_state: the copy is saved if Docker's state of
\* the container differs from the columns that record it.
Sync(t) ==
  /\ ReconAt(t, "sync")
  /\ row' \in {row, recon[t].copy}
  /\ ReconEnd(t, recon[t].expired)
  /\ UNCHANGED <<pending, ctr, work, launch, req, finished, bounds>>

\* Mutant: no cleanup by age.
KeepExpired(t) ==
  /\ ReconAt(t, "expire")
  /\ recon' = [recon EXCEPT ![t] = None]
  /\ UNCHANGED <<row, pending, ctr, work, launch, req, finished, bounds>>

\* _cleanup_expired_containers, on the containers listed by the pass.
CleanupExpired(t) ==
  /\ ReconAt(t, "expire")
  /\ ctr' = [c \in Containers |->
       IF c \in recon[t].expired THEN [ctr[c] EXCEPT !.state = "gone"]
                                 ELSE ctr[c]]
  /\ recon' = [recon EXCEPT ![t] = None]
  /\ UNCHANGED <<row, pending, work, launch, req, finished, bounds>>

ReconStep(t) ==
  \/ WatchExit(t) \/ LoopContainers(t) \/ MarkMissing(t)
  \/ MarkExited(t) \/ RemoveFinished(t) \/ Unlink(t) \/ Reap(t) \/ Reaped(t)
  \/ Sync(t) \/ CleanupExpired(t)

-----------------------------------------------------------------------------
(* The world                                                               *)

\* runtime_container_ttl_seconds have passed since the container exited, which
\* only a reconciler asks.
Age(c) ==
  /\ Reconcilers # {}
  /\ ctr[c].state = "exited" /\ ~ctr[c].old
  /\ ctr' = [ctr EXCEPT ![c].old = TRUE]
  /\ UNCHANGED <<row, pending, work, launch, recon, req, finished, bounds>>

\* A backend dies with its tasks and requests; containers run on.
Crash(b) ==
  /\ faults < MaxFaults /\ faults' = faults + 1
  /\ launch' = [launch EXCEPT ![b] = None]
  /\ recon' = [t \in Tasks |-> IF t[1] = b THEN None ELSE recon[t]]
  /\ req' = [r \in Callers |->
               IF req[r] # None /\ req[r].b = b THEN None ELSE req[r]]
  /\ UNCHANGED <<row, pending, ctr, work, finished, requests>>

ReqStep(r) ==
  \/ QueueStart(r) \/ CancelClose(r) \/ CancelRead(r) \/ CancelWrite(r)
  \/ CancelEngine(r) \/ CancelFinish(r) \/ CancelPreserve(r)
  \/ RepairStop(r) \/ RepairRemove(r) \/ RepairSave(r)

Next ==
  \/ \E r \in Callers, b \in Backends :
       \/ StartRequest(r, b) \/ Wake(r, b) \/ CancelRequest(r, b)
       \/ RepairRequest(r, b)
  \/ \E r \in Callers : ReqStep(r)
  \/ \E b \in Backends :
       LaunchStep(b) \/ LaunchSave(b) \/ LoopList(b) \/ Crash(b)
  \/ \E t \in Tasks : ReconStep(t)
  \/ \E c \in Containers :
       \/ WorkerStep(c) \/ WorkerCheckpoint(c) \/ Beat(c) \/ BeatSave(c)
       \/ WorkerDies(c) \/ Age(c)

Spec == Init /\ [][Next]_vars

\* Every task of a backend and of a worker is scheduled, the reconciler runs
\* on its cadence and containers age; nobody has to make requests.
Fairness ==
  /\ \A r \in Callers : WF_vars(ReqStep(r))
  /\ \A b \in Backends : WF_vars(LaunchStep(b)) /\ WF_vars(LoopList(b))
  /\ \A t \in Tasks : WF_vars(ReconStep(t))
  /\ \A c \in Containers : WF_vars(WorkerStep(c)) /\ WF_vars(Age(c))

FairSpec == Spec /\ Fairness

-----------------------------------------------------------------------------
(* Properties                                                              *)

\* However many backends launch, wakes repeat and containers are removed,
\* two worker processes of one execution never run at the same time: side
\* effects are not doubled.  The lock does not ensure it, all workers of an
\* execution share one worker id (control_plane.py:898); the container name
\* does (containers.py:128).
OneWorker ==
  \A c, d \in Containers : work[c] # None /\ work[d] # None => c = d

\* The row says completed only after a worker has run the last tasks, or the
\* workflow to its end: no exit code (reconcile.py:299), no stale copy of the
\* row and no repair of a stale execution (control_plane.py:602) makes it up.
\* For a monitor these are the last tasks of one cycle, which a repair takes
\* for the run's (MonitorGoesOn of NativeEngine), and an approval node after
\* the last tasks may be left (CompletedWalkIsExact).
NoFalseCompletion == row.status = "completed" => finished

\* An execution whose worker is dead does not say running for ever, whether or
\* not its row still names the container: a watch or a pass settles it, across
\* backend crashes, killed workers and stale saves that put the status back
\* (reconcile.py:83-97).  Except a worker that suspended: when a heartbeat has
\* put running back over sleeping (state.py:1785), its exit code keeps running
\* (reconcile.py:284) and only a requested repair helps.
DeadWorker ==
  /\ row.status = "running"
  /\ \A c \in Containers :
       ctr[c].state \notin Live /\ ctr[c].code # "suspended"


\* A container that has exited is removed in the end, one that a stale save
\* has unlinked from its row included, so its name is free again for the
\* next worker (reconcile.py:433).
ExitedIsRemoved ==
  \A c \in Containers : ctr[c].state = "exited" ~> ctr[c].state = "gone"

=============================================================================
