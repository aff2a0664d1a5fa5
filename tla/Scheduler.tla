----------------------------- MODULE Scheduler -----------------------------
(***************************************************************************)
(* One schedule of WorkflowScheduler (app/scheduler/scheduler.py), its row *)
(* in SQLScheduleRepository and the fire claims that keep the pollers of   *)
(* several backend processes from firing the same due time twice.          *)
(*                                                                         *)
(* Every repository call is one transaction and every await is a point     *)
(* where other coroutines run.  update() reads the row in one transaction  *)
(* and saves all of it in another; save() inserts a row that is gone.      *)
(* Schedules only share the table of executions, filtered by schedule id,  *)
(* so one schedule is modelled.  Its goal metadata and the supervisor that *)
(* is woken afterwards are left out: neither writes the schedule.  So are  *)
(* manual and event_match schedules, which are never due by themselves.    *)
(* Of the clock the model keeps the minute, which orders fire times; that  *)
(* a lease of claim_lease_seconds has run out may happen at any moment.    *)
(***************************************************************************)
EXTENDS Naturals

CONSTANTS
  Pollers,       \* the scheduler loop of each backend process
  Callers,       \* concurrent API requests
  Commands,      \* the requests the callers make
  TriggerTypes,  \* the trigger types a schedule is created with
  CronTimes,     \* the minutes that match the cron expression
  Interval,      \* interval_seconds, in minutes
  MaxConcurrent, \* max_concurrent_executions
  MaxNow,        \* bound on the clock
  Horizon,       \* bound on fire times
  MaxRequests,   \* bound on API requests
  MaxFailures,   \* bound on executions that are created and fail to start
  MaxExpiries,   \* bound on leases that run out while the holder is at work
  MaxCrashes,    \* bound on coroutines that die
  None

Times == 0..Horizon

ASSUME SchedulerAssumption ==
  /\ Pollers \cap Callers = {}
  /\ None \notin Times \cup Pollers \cup Callers
  /\ Commands \subseteq {"trigger", "enable", "disable", "patch", "delete"}
  /\ TriggerTypes \subseteq {"cron", "interval"}
  /\ MaxNow \in Nat /\ Horizon \in Nat /\ Interval \in Nat \ {0}
  /\ MaxNow + Interval <= Horizon
  /\ CronTimes \subseteq Times
  /\ \A t \in 0..MaxNow : \E u \in CronTimes :       \* there is a next fire
       u > t /\ \A v \in CronTimes : v > t => u <= v
  /\ MaxConcurrent \in Nat
  /\ MaxRequests \in Nat /\ MaxFailures \in Nat /\ MaxExpiries \in Nat
  /\ MaxCrashes \in Nat

VARIABLES
  now,       \* the clock
  row,       \* the schedules row, None when it is deleted
  claims,    \* schedule_fire_claims, one row per scheduled_fire_at
  job,       \* the handler each coroutine is in, None when it is free
  made,      \* number of executions created for a fire time
  active,    \* executions of the schedule that list_active_executions shows
  workflow,  \* the workflow of the schedule exists
  trigger,   \* its trigger_type, which no modelled request changes
  lapsed,    \* fire times whose lease ran out, whose start failed or whose
             \* claims were deleted
  requests, failures, expiries, crashes

vars == <<now, row, claims, job, made, active, workflow, trigger, lapsed,
          requests, failures, expiries, crashes>>
bounds == <<requests, failures, expiries, crashes>>
world == <<now, workflow, trigger>>

Actors == Pollers \cup Callers
Time == Times \cup {None}

Row == [enabled : BOOLEAN, next : Time, last : (0..MaxNow) \cup {None}]

\* status "none": no row for this fire time.  live: lease_expires_at > now.
Claim == [status : {"none", "claimed", "fired", "failed"},
          by : Pollers \cup {None}, live : BOOLEAN]

\* A patch names the columns it sets and their values.
Patch == [set : SUBSET {"enabled", "next", "last"}, to : Row]

Label == {"claim", "get", "check", "create", "start", "fired", "failed",
          "patch_get", "update_read", "update_write"}

\* fire: scheduled_fire_at.  at_time: now of trigger_now.  copy: the row as
\* read.  orphan: the workflow was not found, the schedule is disabled next.
Job == [at : Label, fire : Time, at_time : 0..MaxNow, copy : Row, patch : Patch,
        orphan : BOOLEAN]

ASSUME JobAssumption == None \notin Job /\ None \notin Row

TypeOK ==
  /\ now \in 0..MaxNow
  /\ row \in Row \cup {None}
  /\ claims \in [Times -> Claim]
  /\ job \in [Actors -> Job \cup {None}]
  /\ made \in [Times -> Nat]
  /\ active \in Nat
  /\ workflow \in BOOLEAN
  /\ trigger \in TriggerTypes
  /\ lapsed \in SUBSET Times
  /\ requests \in 0..MaxRequests /\ failures \in 0..MaxFailures
  /\ expiries \in 0..MaxExpiries /\ crashes \in 0..MaxCrashes

-----------------------------------------------------------------------------
(* Trigger computation                                                     *)

\* next_cron_fire: the first matching minute after t.
NextCronFire(t) ==
  CHOOSE u \in CronTimes : u > t /\ \A v \in CronTimes : v > t => u <= v

\* compute_next_fire(schedule, now).next_fire_at
NextFire(r, t) ==
  CASE ~r.enabled -> None
    [] r.enabled /\ trigger = "cron" -> NextCronFire(t)
    [] r.enabled /\ trigger = "interval" ->
         IF r.last # None THEN r.last + Interval
         ELSE IF r.next # None THEN r.next ELSE t

\* compute_next_fire(schedule, now).ready
Ready(r, t) ==
  /\ r.enabled
  /\ \/ trigger = "cron" /\ r.next # None /\ r.next <= t
     \/ trigger = "interval" /\ NextFire(r, t) <= t

NoRow == [enabled |-> FALSE, next |-> None, last |-> None]
NoPatch == [set |-> {}, to |-> NoRow]

\* Mutant: the patch replaces the row.
PatchAlone(r, p) == [c \in p.set |-> p.to[c]]

\* {**current, **patch}
Merge(r, p) ==
  [enabled |-> IF "enabled" \in p.set THEN p.to.enabled ELSE r.enabled,
   next |-> IF "next" \in p.set THEN p.to.next ELSE r.next,
   last |-> IF "last" \in p.set THEN p.to.last ELSE r.last]

\* create_schedule has run: next_fire_at is computed from the clock.
Init ==
  /\ now = 0
  /\ trigger \in TriggerTypes
  /\ \E on \in BOOLEAN :
       row = [enabled |-> on, last |-> None,
              next |-> NextFire([NoRow EXCEPT !.enabled = on], 0)]
  /\ claims = [t \in Times |-> [status |-> "none", by |-> None, live |-> FALSE]]
  /\ job = [a \in Actors |-> None]
  /\ made = [t \in Times |-> 0]
  /\ active = 0
  /\ workflow = TRUE
  /\ lapsed = {}
  /\ requests = 0 /\ failures = 0 /\ expiries = 0 /\ crashes = 0

-----------------------------------------------------------------------------
(* Handler control                                                         *)

Free(a) == job[a] = None
At(a, l) == job[a] # None /\ job[a].at = l
Goto(a, l) == job' = [job EXCEPT ![a].at = l]
Done(a) == job' = [job EXCEPT ![a] = None]
NewJob(l) == [at |-> l, fire |-> None, at_time |-> now, copy |-> NoRow,
              patch |-> NoPatch, orphan |-> FALSE]
Start(a, j) == Free(a) /\ job' = [job EXCEPT ![a] = j]

Accept(c) ==
  /\ c \in Commands
  /\ requests < MaxRequests
  /\ requests' = requests + 1
  /\ UNCHANGED <<failures, expiries, crashes>>

-----------------------------------------------------------------------------
(* run_due_schedules                                                       *)

\* The schedule is listed and found due.
Poll(p) ==
  /\ row # None
  /\ Ready(row, now)
  /\ Start(p, [NewJob("claim") EXCEPT
                 !.fire = IF row.next # None THEN row.next ELSE now])
  /\ UNCHANGED <<world, row, claims, made, active, lapsed, bounds>>

\* Mutant: a failed claim is not taken over.
NoRetry(c) == c.status = "none" \/ (c.status = "claimed" /\ ~c.live)

\* Mutant: a fired claim can be taken again once its lease is over.
RetakesFired(c) == c.status = "none" \/ ~c.live

\* The insert succeeds, or the row may be taken over.
Claimable(c) ==
  \/ c.status = "none"
  \/ c.status \in {"claimed", "failed"} /\ ~c.live

\* acquire_schedule_fire_claim.  Deleting the schedule cascades to its
\* claims, and without the schedule the insert has no parent row.
AcquireClaim(p) ==
  /\ At(p, "claim")
  /\ LET t == job[p].fire IN
     IF row # None /\ Claimable(claims[t])
     THEN /\ claims' = [claims EXCEPT ![t] = [status |-> "claimed", by |-> p,
                                              live |-> TRUE]]
          /\ Goto(p, "get")
     ELSE UNCHANGED claims /\ Done(p)
  /\ UNCHANGED <<world, row, made, active, lapsed, bounds>>

-----------------------------------------------------------------------------
(* trigger_now                                                             *)

\* trigger_now over the API: no due time, no claim.
TriggerRequest(a) ==
  /\ Accept("trigger")
  /\ Start(a, NewJob("get"))
  /\ UNCHANGED <<world, row, claims, made, active, lapsed>>

\* The schedule is read again; whether it is enabled is not asked.
TriggerGet(a) ==
  /\ At(a, "get")
  /\ IF row = None
     THEN Done(a)
     ELSE job' = [job EXCEPT ![a].at = "check", ![a].copy = row,
                             ![a].at_time = now]
  /\ UNCHANGED <<world, row, claims, made, active, lapsed, bounds>>

\* A failed attempt marks its claim, when it has one, and ends.
Fail(a) == IF job[a].fire = None THEN Done(a) ELSE Goto(a, "failed")

\* _assert_concurrency; created executions are not among the active ones.
AssertConcurrency(a) ==
  /\ At(a, "check")
  /\ IF active >= MaxConcurrent THEN Fail(a) ELSE Goto(a, "create")
  /\ UNCHANGED <<world, row, claims, made, active, lapsed, bounds>>

\* registry.create_execution.  A missing workflow disables the schedule.
CreateExecution(a) ==
  /\ At(a, "create")
  /\ LET t == job[a].fire IN
     IF workflow
     THEN /\ Goto(a, "start")
          /\ made' = IF t = None THEN made ELSE [made EXCEPT ![t] = @ + 1]
     ELSE /\ UNCHANGED made
          /\ job' = [job EXCEPT ![a].at = IF t = None THEN "update_read"
                                                      ELSE "failed",
                                ![a].orphan = TRUE,
                                ![a].patch = [set |-> {"enabled", "next"},
                                              to |-> NoRow]]
  /\ UNCHANGED <<world, row, claims, active, lapsed, bounds>>

\* execution_starter queues the execution ...
StartExecution(a) ==
  /\ At(a, "start")
  /\ active' = active + 1
  /\ Goto(a, IF job[a].fire = None THEN "update_read" ELSE "fired")
  /\ UNCHANGED <<world, row, claims, made, lapsed, bounds>>

\* ... or raises, and the created execution stays behind.
StartFails(a) ==
  /\ At(a, "start")
  /\ failures < MaxFailures
  /\ failures' = failures + 1
  /\ lapsed' = lapsed \cup ({job[a].fire} \cap Times)
  /\ Fail(a)
  /\ UNCHANGED <<world, row, claims, made, active, requests, expiries, crashes>>

\* UPDATE ... WHERE claimed_by = p AND status = 'claimed'
Mark(p, status) ==
  LET t == job[p].fire IN
  claims' = IF claims[t].by = p /\ claims[t].status = "claimed"
            THEN [claims EXCEPT ![t].status = status, ![t].live = FALSE]
            ELSE claims

\* mark_schedule_fire_claim_fired, then the patch of the schedule.
MarkFired(p) ==
  /\ At(p, "fired")
  /\ Mark(p, "fired")
  /\ Goto(p, "update_read")
  /\ UNCHANGED <<world, row, made, active, lapsed, bounds>>

\* mark_schedule_fire_claim_failed; an orphan is then disabled.
MarkFailed(p) ==
  /\ At(p, "failed")
  /\ Mark(p, "failed")
  /\ IF job[p].orphan THEN Goto(p, "update_read") ELSE Done(p)
  /\ UNCHANGED <<world, row, made, active, lapsed, bounds>>

\* last_fire_at and next_fire_at after a fire, from the copy read before it.
FiredPatch(j) ==
  LET fired == [j.copy EXCEPT !.last = j.at_time] IN
  [set |-> {"last", "next"},
   to |-> [fired EXCEPT !.next = NextFire(fired, j.at_time)]]

\* The patch of a request is ready made; that of a fire is computed here.
PatchOf(j) == IF j.patch.set = {} THEN FiredPatch(j) ELSE j.patch

\* schedule_repo.update: the row is read and merged ...
UpdateRead(a) ==
  /\ At(a, "update_read")
  /\ IF row = None
     THEN Done(a)
     ELSE job' = [job EXCEPT ![a].at = "update_write",
                             ![a].copy = Merge(row, PatchOf(job[a]))]
  /\ UNCHANGED <<world, row, claims, made, active, lapsed, bounds>>

\* ... and saved whole, inserted again if it was deleted in between.
UpdateWrite(a) ==
  /\ At(a, "update_write")
  /\ row' = job[a].copy
  /\ Done(a)
  /\ UNCHANGED <<world, claims, made, active, lapsed, bounds>>

-----------------------------------------------------------------------------
(* Requests that change the schedule                                       *)

\* enable_schedule reads the row, then updates it with the next fire.
EnableRequest(a) ==
  /\ row # None
  /\ Accept("enable")
  /\ LET on == [row EXCEPT !.enabled = TRUE] IN
     Start(a, [NewJob("update_read") EXCEPT
                 !.patch = [set |-> {"enabled", "next"},
                            to |-> [on EXCEPT !.next = NextFire(on, now)]]])
  /\ UNCHANGED <<world, row, claims, made, active, lapsed>>

DisableRequest(a) ==
  /\ Accept("disable")
  /\ Start(a, [NewJob("update_read") EXCEPT
                 !.patch = [set |-> {"enabled", "next"}, to |-> NoRow]])
  /\ UNCHANGED <<world, row, claims, made, active, lapsed>>

\* PATCH /schedules/{id}: the service merges the request into ALL columns of
\* the row it has read, so patch_schedule finds next_fire_at in the patch and
\* recomputes nothing.  on: the request's "enabled"; it may leave it alone.
PatchRequest(a, on) ==
  /\ row # None
  /\ Accept("patch")
  /\ Start(a, [NewJob("patch_get") EXCEPT
                 !.patch = [set |-> {"enabled", "next", "last"},
                            to |-> [row EXCEPT !.enabled = on]]])
  /\ UNCHANGED <<world, row, claims, made, active, lapsed>>

\* patch_schedule reads the row once more, to see that it exists.
PatchGet(a) ==
  /\ At(a, "patch_get")
  /\ IF row = None THEN Done(a) ELSE Goto(a, "update_read")
  /\ UNCHANGED <<world, row, claims, made, active, lapsed, bounds>>

\* DELETE /schedules/{id}; ON DELETE CASCADE takes the claims along.
DeleteRequest(a) ==
  /\ Free(a)
  /\ row # None
  /\ Accept("delete")
  /\ row' = None
  /\ claims' = [t \in Times |-> [status |-> "none", by |-> None,
                                 live |-> FALSE]]
  /\ lapsed' = Times
  /\ UNCHANGED <<world, job, made, active>>

-----------------------------------------------------------------------------
(* The surroundings                                                        *)

Tick ==
  /\ now < MaxNow
  /\ now' = now + 1
  /\ UNCHANGED <<row, claims, job, made, active, workflow, trigger, lapsed,
                 bounds>>

\* The poller that holds the claim of t is still at work on it.
HolderAtWork(t) ==
  \E p \in Pollers : /\ claims[t].by = p
                     /\ job[p] # None /\ job[p].fire = t
                     /\ job[p].at # "claim"

\* claim_lease_seconds have passed since the claim was taken.
LeaseExpires(t) ==
  /\ claims[t].live
  /\ IF HolderAtWork(t)
     THEN expiries < MaxExpiries /\ expiries' = expiries + 1
     ELSE UNCHANGED expiries
  /\ claims' = [claims EXCEPT ![t].live = FALSE]
  /\ lapsed' = lapsed \cup {t}
  /\ UNCHANGED <<world, row, job, made, active, requests, failures, crashes>>

ExecutionEnds ==
  /\ active > 0
  /\ active' = active - 1
  /\ UNCHANGED <<world, row, claims, job, made, lapsed, bounds>>

WorkflowDeleted ==
  /\ workflow
  /\ workflow' = FALSE
  /\ UNCHANGED <<now, trigger, row, claims, job, made, active, lapsed, bounds>>

\* The process of a coroutine dies, or its request is cancelled.
Crash(a) ==
  /\ crashes < MaxCrashes
  /\ job[a] # None
  /\ crashes' = crashes + 1
  /\ Done(a)
  /\ UNCHANGED <<world, row, claims, made, active, lapsed, requests, failures,
                 expiries>>

TriggerStep(a) ==
  \/ TriggerGet(a) \/ AssertConcurrency(a) \/ CreateExecution(a)
  \/ StartExecution(a) \/ StartFails(a)

HandlerStep(a) ==
  \/ AcquireClaim(a) \/ TriggerStep(a) \/ MarkFired(a) \/ MarkFailed(a)
  \/ PatchGet(a) \/ UpdateRead(a) \/ UpdateWrite(a)

Request(a) ==
  \/ TriggerRequest(a) \/ EnableRequest(a) \/ DisableRequest(a)
  \/ \E on \in BOOLEAN : PatchRequest(a, on)
  \/ DeleteRequest(a)

Next ==
  \/ \E p \in Pollers : Poll(p)
  \/ \E a \in Callers : Request(a)
  \/ \E a \in Actors : HandlerStep(a) \/ Crash(a)
  \/ \E t \in Times : LeaseExpires(t)
  \/ Tick \/ ExecutionEnds \/ WorkflowDeleted

Spec == Init /\ [][Next]_vars

\* asyncio runs every ready coroutine, each process polls on a fixed cadence,
\* leases run out when their holder is gone, and executions end.
Fairness ==
  /\ \A a \in Actors : WF_vars(HandlerStep(a))
  /\ \A p \in Pollers : WF_vars(Poll(p))
  /\ \A t \in Times : WF_vars(LeaseExpires(t))
  /\ WF_vars(ExecutionEnds)

FairSpec == Spec /\ Fairness

-----------------------------------------------------------------------------
(* Properties                                                              *)

\* Pollers of several processes that find the same time due create one
\* execution for it, retries after a refused or unmarked attempt included:
\* a second one needs a lease that ran out under its holder, an execution
\* that was created and failed to start, or a schedule that was deleted and
\* written again by a stale update (domain_sql.py:1343-1386).
OneExecutionPerFire == \A t \in Times : made[t] <= 1 \/ t \in lapsed

\* A time that is due does not stay due: the schedule fires and moves on, or
\* it is disabled, whatever pollers race, attempts fail and executions fill
\* the limit; the schedule of a deleted workflow is among those disabled
\* (scheduler.py:372-420).
DueAt(t) == row # None /\ row.enabled /\ row.next = t /\ t <= now

DueTimeIsLeft == \A t \in Times : DueAt(t) ~> ~DueAt(t)
=============================================================================
