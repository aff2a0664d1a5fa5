-------------------------- MODULE SchedulerProofs --------------------------
(***************************************************************************)
(* Proofs about Scheduler, for any number of pollers, callers, due times,  *)
(* failures, lease expiries and crashes: type correctness, and one         *)
(* execution per due time unless a lease ran out, a start failed or the    *)
(* schedule was deleted.                                                   *)
(***************************************************************************)
EXTENDS Scheduler, TLAPS

\* A handler at these labels works on a claim of a due time.
FireLabel == {"claim", "fired", "failed"}

\* Only pollers carry a due time, and they do where the claim is touched.
WellFormed ==
  \A a \in Actors : job[a] # None =>
    /\ job[a].at \in FireLabel => job[a].fire \in Times
    /\ job[a].fire \in Times => a \in Pollers

TypeInv == TypeOK /\ WellFormed

-----------------------------------------------------------------------------
(* Types of the values the steps build.                                    *)

LEMMA NextFireType ==
  ASSUME NEW r \in Row, NEW t \in 0..MaxNow, trigger \in TriggerTypes
  PROVE  NextFire(r, t) \in Time
<1>1. NextCronFire(t) \in CronTimes
  BY SchedulerAssumption DEF NextCronFire
<1>2. CASE trigger = "cron"
  BY <1>1, <1>2, SchedulerAssumption DEF NextFire, Time, Row
<1>3. CASE trigger = "interval"
  <2>1. r.last # None => r.last + Interval \in Times
    BY SchedulerAssumption DEF Row, Times
  <2>2. QED BY <1>3, <2>1, SchedulerAssumption DEF NextFire, Time, Row, Times
<1>4. QED BY <1>2, <1>3, SchedulerAssumption

LEMMA MergeType ==
  ASSUME NEW r \in Row, NEW p \in Patch
  PROVE  Merge(r, p) \in Row
BY DEF Merge, Patch, Row

LEMMA NoRowType == NoRow \in Row /\ NoPatch \in Patch
BY DEF NoRow, NoPatch, Row, Patch, Time

LEMMA NewJobType ==
  ASSUME now \in 0..MaxNow, NEW l \in Label
  PROVE  /\ NewJob(l) \in Job /\ NewJob(l).at = l /\ NewJob(l).fire = None
         /\ \A t \in Times : /\ [NewJob(l) EXCEPT !.fire = t] \in Job
                             /\ [NewJob(l) EXCEPT !.fire = t].fire = t
                             /\ [NewJob(l) EXCEPT !.fire = t].at = l
         /\ \A p \in Patch : /\ [NewJob(l) EXCEPT !.patch = p] \in Job
                             /\ [NewJob(l) EXCEPT !.patch = p].fire = None
                             /\ [NewJob(l) EXCEPT !.patch = p].at = l
BY NoRowType DEF NewJob, Job, Time

\* What a handler in progress carries.
LEMMA JobFields ==
  ASSUME NEW j \in Job
  PROVE  /\ j # None /\ j.at \in Label /\ j.fire \in Time
         /\ j.at_time \in 0..MaxNow /\ j.copy \in Row /\ j.patch \in Patch
         /\ j.orphan \in BOOLEAN
BY JobAssumption DEF Job

\* The record updates the steps make.
LEMMA JobUpdates ==
  ASSUME NEW j \in Job, NEW l \in Label
  PROVE  /\ [j EXCEPT !.at = l] \in Job
         /\ \A r \in Row : [j EXCEPT !.at = l, !.copy = r] \in Job
         /\ \A r \in Row, t \in 0..MaxNow :
              [j EXCEPT !.at = l, !.copy = r, !.at_time = t] \in Job
         /\ \A p \in Patch :
              [j EXCEPT !.at = l, !.orphan = TRUE, !.patch = p] \in Job
BY DEF Job

\* The patch that an update applies.
LEMMA PatchType ==
  ASSUME NEW j \in Job, trigger \in TriggerTypes
  PROVE  PatchOf(j) \in Patch
<1> DEFINE fired == [j.copy EXCEPT !.last = j.at_time]
<1>1. fired \in Row
  BY JobFields DEF Row
<1>2. NextFire(fired, j.at_time) \in Time
  BY <1>1, NextFireType, JobFields
<1>3. [fired EXCEPT !.next = NextFire(fired, j.at_time)] \in Row
  BY <1>1, <1>2 DEF Row
<1> HIDE DEF fired
<1>4. [set |-> {"last", "next"},
       to |-> [fired EXCEPT !.next = NextFire(fired, j.at_time)]] \in Patch
  BY <1>3 DEF Patch
<1>5. FiredPatch(j) \in Patch
  BY <1>4 DEF FiredPatch, fired
<1>6. QED BY <1>5, JobFields DEF PatchOf

-----------------------------------------------------------------------------
(* Type correctness.                                                       *)

LEMMA TypeInvInit == Init => TypeInv
<1> SUFFICES ASSUME Init PROVE TypeInv
  OBVIOUS
<1>1. ASSUME NEW on \in BOOLEAN
      PROVE  [enabled |-> on, last |-> None,
              next |-> NextFire([NoRow EXCEPT !.enabled = on], 0)] \in Row
  <2>1. [NoRow EXCEPT !.enabled = on] \in Row
    BY NoRowType DEF Row
  <2>2. 0 \in 0..MaxNow
    BY SchedulerAssumption
  <2>3. QED BY <2>1, <2>2, NextFireType DEF Row, Init
<1>2. row \in Row
  BY <1>1 DEF Init
<1>3. QED BY <1>2, SchedulerAssumption DEF Init, TypeInv, TypeOK, WellFormed, Claim

\* A handler's step replaces its own job by a well-formed one or ends it.
LEMMA JobsUpdate ==
  ASSUME TypeInv, NEW a \in Actors, NEW j \in Job \cup {None},
         job' = [job EXCEPT ![a] = j],
         j # None => /\ j.at \in FireLabel => j.fire \in Times
                     /\ j.fire \in Times => a \in Pollers
  PROVE  job' \in [Actors -> Job \cup {None}] /\ WellFormed'
BY DEF TypeInv, TypeOK, WellFormed

\* Goto and Done, where the next label needs no more than the present one.
LEMMA GotoOrDone ==
  ASSUME TypeInv, NEW a \in Actors, job[a] # None,
         NEW l \in Label, l \in FireLabel => job[a].fire \in Times,
         Goto(a, l) \/ Done(a)
  PROVE  job' \in [Actors -> Job \cup {None}] /\ WellFormed'
<1>1. job[a] \in Job
  BY DEF TypeInv, TypeOK
<1>2. [job[a] EXCEPT !.at = l] \in Job
  BY <1>1, JobUpdates
<1>3. /\ [job[a] EXCEPT !.at = l].at = l
      /\ [job[a] EXCEPT !.at = l].fire = job[a].fire
  BY <1>1 DEF Job
<1>4. PICK j \in Job \cup {None} :
        /\ job' = [job EXCEPT ![a] = j]
        /\ j # None => j.at = l /\ j.fire = job[a].fire
  BY <1>2, <1>3 DEF Goto, Done
<1>5. QED BY <1>4, JobsUpdate DEF TypeInv, WellFormed

LEMMA HandlerTypes ==
  ASSUME TypeInv, NEW a \in Actors, HandlerStep(a)
  PROVE  TypeInv'
<1>0. ASSUME NEW l, At(a, l)
      PROVE  job[a] \in Job /\ job[a] # None /\ job[a].at = l
             /\ job[a].fire \in Time
             /\ (job[a].fire \in Times => a \in Pollers)
             /\ (l \in FireLabel => job[a].fire \in Times)
  BY <1>0, JobFields DEF At, TypeInv, TypeOK, WellFormed
<1>1. CASE AcquireClaim(a)
  <2>1. job[a] # None /\ job[a].fire \in Times /\ a \in Pollers
    BY <1>0, <1>1 DEF AcquireClaim, FireLabel
  <2>2. Goto(a, "get") \/ Done(a)
    BY <1>1 DEF AcquireClaim
  <2>3. job' \in [Actors -> Job \cup {None}] /\ WellFormed'
    BY <2>1, <2>2, GotoOrDone DEF Label
  <2>4. claims' \in [Times -> Claim]
    <3>1. [status |-> "claimed", by |-> a, live |-> TRUE] \in Claim
      BY <2>1 DEF Claim
    <3>2. claims \in [Times -> Claim]
      BY DEF TypeInv, TypeOK
    <3>3. \/ UNCHANGED claims
          \/ claims' = [claims EXCEPT ![job[a].fire] =
                          [status |-> "claimed", by |-> a, live |-> TRUE]]
      BY <1>1 DEF AcquireClaim
    <3>4. QED BY <2>1, <3>1, <3>2, <3>3
  <2>5. QED BY <1>1, <2>3, <2>4 DEF AcquireClaim, TypeInv, TypeOK, world, bounds
<1>2. CASE TriggerGet(a)
  <2>1. job[a] \in Job /\ (job[a].fire \in Times => a \in Pollers)
    BY <1>0, <1>2 DEF TriggerGet
  <2>2. row # None => [job[a] EXCEPT !.at = "check", !.copy = row,
                                     !.at_time = now] \in Job
    BY <2>1, JobUpdates DEF TypeInv, TypeOK, Label
  <2>3. PICK j \in Job \cup {None} :
          /\ job' = [job EXCEPT ![a] = j]
          /\ j # None => j.at = "check" /\ j.fire = job[a].fire
    <3> DEFINE k == [job[a] EXCEPT !.at = "check", !.copy = row, !.at_time = now]
    <3>1. k.at = "check" /\ k.fire = job[a].fire
      BY <2>1 DEF Job
    <3>2. \/ job' = [job EXCEPT ![a] = None]
          \/ row # None /\ job' = [job EXCEPT ![a] = k]
      BY <1>2 DEF TriggerGet, Done, TypeInv, TypeOK
    <3> HIDE DEF k
    <3>3. row # None => k \in Job
      BY <2>2 DEF k
    <3>4. QED BY <3>1, <3>2, <3>3
  <2>4. job' \in [Actors -> Job \cup {None}] /\ WellFormed'
    BY <2>1, <2>3, JobsUpdate DEF FireLabel
  <2>5. QED BY <1>2, <2>4 DEF TriggerGet, TypeInv, TypeOK, world, bounds
<1>3. CASE AssertConcurrency(a)
  <2>1. job[a] # None /\ job[a].fire \in Time
    BY <1>0, <1>3 DEF AssertConcurrency
  <2>2. \/ Goto(a, "create") \/ Done(a)
        \/ Goto(a, "failed") /\ job[a].fire \in Times
    BY <1>3, <2>1 DEF AssertConcurrency, Fail, Time
  <2>3. job' \in [Actors -> Job \cup {None}] /\ WellFormed'
    BY <2>1, <2>2, GotoOrDone DEF Label, FireLabel
  <2>4. QED BY <1>3, <2>3 DEF AssertConcurrency, TypeInv, TypeOK, world, bounds
<1>4. CASE CreateExecution(a)
  <2>1. /\ job[a] \in Job /\ job[a] # None /\ job[a].fire \in Time
        /\ job[a].fire \in Times => a \in Pollers
    BY <1>0, <1>4 DEF CreateExecution
  <2>2. CASE workflow
    <3>1. job' \in [Actors -> Job \cup {None}] /\ WellFormed'
      BY <1>4, <2>1, <2>2, GotoOrDone DEF CreateExecution, Label, FireLabel
    <3>2. made' \in [Times -> Nat]
      BY <1>4, <2>1, <2>2 DEF CreateExecution, TypeInv, TypeOK, Time
    <3>3. QED BY <1>4, <3>1, <3>2 DEF CreateExecution, TypeInv, TypeOK, world, bounds
  <2>3. CASE ~workflow
    <3> DEFINE l == IF job[a].fire = None THEN "update_read" ELSE "failed"
               p == [set |-> {"enabled", "next"}, to |-> NoRow]
               j == [job[a] EXCEPT !.at = l, !.orphan = TRUE, !.patch = p]
    <3>1. p \in Patch /\ l \in Label
      BY NoRowType DEF Patch, Label
    <3> HIDE DEF p
    <3>2. j \in Job
      BY <2>1, <3>1, JobUpdates
    <3>3. j.at = l /\ j.fire = job[a].fire
      BY <2>1 DEF Job
    <3>4. job' = [job EXCEPT ![a] = j]
      BY <1>4, <2>3 DEF CreateExecution, p, TypeInv, TypeOK
    <3>5. l \in FireLabel => job[a].fire \in Times
      BY <2>1 DEF FireLabel, Time
    <3> HIDE DEF j, l
    <3>6. job' \in [Actors -> Job \cup {None}] /\ WellFormed'
      BY <2>1, <3>2, <3>3, <3>4, <3>5, JobsUpdate
    <3>7. QED
      BY <1>4, <2>3, <3>6 DEF CreateExecution, TypeInv, TypeOK, world, bounds
  <2>4. QED BY <2>2, <2>3
<1>5. CASE StartExecution(a)
  <2>1. job[a] # None /\ job[a].fire \in Time
    BY <1>0, <1>5 DEF StartExecution
  <2>2. \/ Goto(a, "update_read")
        \/ Goto(a, "fired") /\ job[a].fire \in Times
    BY <1>5, <2>1 DEF StartExecution, Time
  <2>3. job' \in [Actors -> Job \cup {None}] /\ WellFormed'
    BY <2>1, <2>2, GotoOrDone DEF Label, FireLabel
  <2>4. QED BY <1>5, <2>3 DEF StartExecution, TypeInv, TypeOK, world, bounds
<1>6. CASE StartFails(a)
  <2>1. job[a] # None /\ job[a].fire \in Time
    BY <1>0, <1>6 DEF StartFails
  <2>2. Done(a) \/ (Goto(a, "failed") /\ job[a].fire \in Times)
    <3>1. Fail(a)
      BY <1>6 DEF StartFails
    <3>2. job[a].fire = None \/ job[a].fire \in Times
      BY <2>1 DEF Time
    <3>3. QED BY <3>1, <3>2, SchedulerAssumption DEF Fail
  <2>3. job' \in [Actors -> Job \cup {None}] /\ WellFormed'
    BY <2>1, <2>2, GotoOrDone DEF Label, FireLabel
  <2>4. failures' \in 0..MaxFailures /\ lapsed' \in SUBSET Times
    BY <1>6, SchedulerAssumption DEF StartFails, TypeInv, TypeOK
  <2>5. QED BY <1>6, <2>3, <2>4 DEF StartFails, TypeInv, TypeOK, world
<1>7. CASE MarkFired(a) \/ MarkFailed(a)
  <2>1. job[a] # None /\ job[a].fire \in Times
    BY <1>0, <1>7 DEF MarkFired, MarkFailed, FireLabel
  <2>2. Goto(a, "update_read") \/ Done(a)
    BY <1>7 DEF MarkFired, MarkFailed
  <2>3. job' \in [Actors -> Job \cup {None}] /\ WellFormed'
    BY <2>1, <2>2, GotoOrDone DEF Label, FireLabel
  <2>4. claims' \in [Times -> Claim]
    BY <1>7, <2>1 DEF MarkFired, MarkFailed, Mark, TypeInv, TypeOK, Claim
  <2>5. QED
    BY <1>7, <2>3, <2>4 DEF MarkFired, MarkFailed, TypeInv, TypeOK, world, bounds
<1>8. CASE PatchGet(a)
  <2>1. job[a] # None /\ (Goto(a, "update_read") \/ Done(a))
    BY <1>0, <1>8 DEF PatchGet
  <2>2. job' \in [Actors -> Job \cup {None}] /\ WellFormed'
    BY <2>1, GotoOrDone DEF Label, FireLabel
  <2>3. QED BY <1>8, <2>2 DEF PatchGet, TypeInv, TypeOK, world, bounds
<1>9. CASE UpdateRead(a)
  <2>1. job[a] \in Job /\ (job[a].fire \in Times => a \in Pollers)
    BY <1>0, <1>9 DEF UpdateRead
  <2>2. row # None => Merge(row, PatchOf(job[a])) \in Row
    BY <2>1, PatchType, MergeType DEF TypeInv, TypeOK
  <2>3. row # None => [job[a] EXCEPT !.at = "update_write",
                         !.copy = Merge(row, PatchOf(job[a]))] \in Job
    BY <2>1, <2>2, JobUpdates DEF Label
  <2>4. PICK j \in Job \cup {None} :
          /\ job' = [job EXCEPT ![a] = j]
          /\ j # None => j.at = "update_write" /\ j.fire = job[a].fire
    <3> DEFINE k == [job[a] EXCEPT !.at = "update_write",
                                   !.copy = Merge(row, PatchOf(job[a]))]
    <3>1. k.at = "update_write" /\ k.fire = job[a].fire
      BY <2>1 DEF Job
    <3>2. \/ job' = [job EXCEPT ![a] = None]
          \/ row # None /\ job' = [job EXCEPT ![a] = k]
      BY <1>9 DEF UpdateRead, Done, TypeInv, TypeOK
    <3> HIDE DEF k
    <3>3. row # None => k \in Job
      BY <2>3 DEF k
    <3>4. QED BY <3>1, <3>2, <3>3
  <2>5. job' \in [Actors -> Job \cup {None}] /\ WellFormed'
    BY <2>1, <2>4, JobsUpdate DEF FireLabel
  <2>6. QED BY <1>9, <2>5 DEF UpdateRead, TypeInv, TypeOK, world, bounds
<1>10. CASE UpdateWrite(a)
  <2>1. job[a] # None /\ job[a].copy \in Row
    BY <1>0, <1>10, JobFields DEF UpdateWrite
  <2>2. job' \in [Actors -> Job \cup {None}] /\ WellFormed'
    BY <1>10, <2>1, GotoOrDone DEF UpdateWrite, Label, FireLabel
  <2>3. QED BY <1>10, <2>1, <2>2 DEF UpdateWrite, TypeInv, TypeOK, world, bounds
<1>11. QED
  BY <1>1, <1>2, <1>3, <1>4, <1>5, <1>6, <1>7, <1>8, <1>9, <1>10
     DEF HandlerStep, TriggerStep

\* The start of a handler.
LEMMA StartTypes ==
  ASSUME TypeInv, NEW a \in Actors, NEW j \in Job, Start(a, j),
         j.at \in FireLabel => j.fire \in Times,
         j.fire \in Times => a \in Pollers
  PROVE  job' \in [Actors -> Job \cup {None}] /\ WellFormed'
BY JobsUpdate DEF Start

LEMMA PollTypes == ASSUME TypeInv, NEW p \in Pollers, Poll(p) PROVE TypeInv'
<1> DEFINE t == IF row.next # None THEN row.next ELSE now
<1>1. t \in Times /\ now \in 0..MaxNow
  BY SchedulerAssumption DEF Poll, TypeInv, TypeOK, Row, Time, Times
<1>2. Start(p, [NewJob("claim") EXCEPT !.fire = t])
  BY DEF Poll
<1> HIDE DEF t
<1>3. job' \in [Actors -> Job \cup {None}] /\ WellFormed'
  <2> DEFINE j == [NewJob("claim") EXCEPT !.fire = t]
  <2>1. j \in Job /\ j.fire = t
    BY <1>1, NewJobType DEF Label
  <2>2. p \in Actors /\ Start(p, j)
    BY <1>2 DEF Actors
  <2> HIDE DEF j
  <2>3. QED BY <1>1, <2>1, <2>2, StartTypes
<1>4. QED BY <1>3 DEF Poll, TypeInv, TypeOK, world, bounds

LEMMA RequestTypes == ASSUME TypeInv, NEW a \in Callers, Request(a) PROVE TypeInv'
<1>0. a \in Actors /\ now \in 0..MaxNow
  BY DEF Actors, TypeInv, TypeOK
<1>1. ASSUME NEW c, Accept(c)
      PROVE  /\ requests' \in 0..MaxRequests /\ failures' = failures
             /\ expiries' = expiries /\ crashes' = crashes
  BY <1>1, SchedulerAssumption DEF Accept, TypeInv, TypeOK
<1>2. ASSUME NEW l \in Label, l \notin FireLabel, NEW p \in Patch,
             Start(a, [NewJob(l) EXCEPT !.patch = p])
      PROVE  job' \in [Actors -> Job \cup {None}] /\ WellFormed'
  <2> DEFINE j == [NewJob(l) EXCEPT !.patch = p]
  <2>1. j \in Job /\ j.fire = None /\ j.at = l
    BY <1>0, <1>2, NewJobType
  <2>2. Start(a, j)
    BY <1>2
  <2> HIDE DEF j
  <2>3. QED BY <1>0, <1>2, <2>1, <2>2, StartTypes, SchedulerAssumption
<1>3. CASE TriggerRequest(a)
  <2>1. job' \in [Actors -> Job \cup {None}] /\ WellFormed'
    BY <1>0, <1>3, NewJobType, StartTypes, SchedulerAssumption
       DEF TriggerRequest, Label, FireLabel
  <2>2. QED BY <1>1, <1>3, <2>1 DEF TriggerRequest, TypeInv, TypeOK, world
<1>4. CASE EnableRequest(a)
  <2> DEFINE on == [row EXCEPT !.enabled = TRUE]
  <2>1. on \in Row
    BY <1>4 DEF EnableRequest, TypeInv, TypeOK, Row
  <2>2. [on EXCEPT !.next = NextFire(on, now)] \in Row
    BY <1>0, <2>1, NextFireType DEF Row, TypeInv, TypeOK
  <2> DEFINE p == [set |-> {"enabled", "next"},
                   to |-> [on EXCEPT !.next = NextFire(on, now)]]
  <2>3. Start(a, [NewJob("update_read") EXCEPT !.patch = p])
    BY <1>4 DEF EnableRequest
  <2> HIDE DEF on
  <2>4. p \in Patch
    BY <2>2 DEF Patch
  <2> HIDE DEF p
  <2>5. job' \in [Actors -> Job \cup {None}] /\ WellFormed'
    BY <1>2, <2>3, <2>4 DEF Label, FireLabel
  <2>6. QED BY <1>1, <1>4, <2>5 DEF EnableRequest, TypeInv, TypeOK, world
<1>5. CASE DisableRequest(a)
  <2> DEFINE p == [set |-> {"enabled", "next"}, to |-> NoRow]
  <2>1. p \in Patch
    BY NoRowType DEF Patch
  <2>2. Start(a, [NewJob("update_read") EXCEPT !.patch = p])
    BY <1>5 DEF DisableRequest
  <2> HIDE DEF p
  <2>3. job' \in [Actors -> Job \cup {None}] /\ WellFormed'
    BY <1>2, <2>1, <2>2 DEF Label, FireLabel
  <2>4. QED BY <1>1, <1>5, <2>3 DEF DisableRequest, TypeInv, TypeOK, world
<1>6. ASSUME NEW on \in BOOLEAN, PatchRequest(a, on)
      PROVE  TypeInv'
  <2> DEFINE p == [set |-> {"enabled", "next", "last"},
                   to |-> [row EXCEPT !.enabled = on]]
  <2>1. [row EXCEPT !.enabled = on] \in Row
    BY <1>6 DEF PatchRequest, TypeInv, TypeOK, Row
  <2>2. p \in Patch
    BY <2>1 DEF Patch
  <2>3. Start(a, [NewJob("patch_get") EXCEPT !.patch = p])
    BY <1>6 DEF PatchRequest
  <2> HIDE DEF p
  <2>4. job' \in [Actors -> Job \cup {None}] /\ WellFormed'
    BY <1>2, <2>2, <2>3 DEF Label, FireLabel
  <2>5. QED BY <1>1, <1>6, <2>4 DEF PatchRequest, TypeInv, TypeOK, world
<1>7. CASE DeleteRequest(a)
  BY <1>1, <1>7 DEF DeleteRequest, TypeInv, TypeOK, WellFormed, Claim, world
<1>8. QED BY <1>3, <1>4, <1>5, <1>6, <1>7 DEF Request

LEMMA WorldTypes ==
  ASSUME TypeInv,
         \/ \E a \in Actors : Crash(a)
         \/ \E t \in Times : LeaseExpires(t)
         \/ Tick \/ ExecutionEnds \/ WorkflowDeleted
  PROVE  TypeInv'
<1>1. ASSUME NEW a \in Actors, Crash(a) PROVE TypeInv'
  <2>1. job' \in [Actors -> Job \cup {None}] /\ WellFormed'
    BY <1>1, JobsUpdate DEF Crash, Done
  <2>2. crashes' \in 0..MaxCrashes
    BY <1>1, SchedulerAssumption DEF Crash, TypeInv, TypeOK
  <2>3. QED BY <1>1, <2>1, <2>2 DEF Crash, TypeInv, TypeOK, world
<1>2. ASSUME NEW t \in Times, LeaseExpires(t) PROVE TypeInv'
  <2>1. claims' \in [Times -> Claim]
    BY <1>2 DEF LeaseExpires, TypeInv, TypeOK, Claim
  <2>2. expiries' \in 0..MaxExpiries
    BY <1>2, SchedulerAssumption DEF LeaseExpires, TypeInv, TypeOK
  <2>3. QED BY <1>2, <2>1, <2>2 DEF LeaseExpires, TypeInv, TypeOK, WellFormed, world
<1>3. CASE Tick
  BY <1>3, SchedulerAssumption DEF Tick, TypeInv, TypeOK, WellFormed, bounds
<1>4. CASE ExecutionEnds
  BY <1>4 DEF ExecutionEnds, TypeInv, TypeOK, WellFormed, world, bounds
<1>5. CASE WorkflowDeleted
  BY <1>5 DEF WorkflowDeleted, TypeInv, TypeOK, WellFormed, bounds
<1>6. QED BY <1>1, <1>2, <1>3, <1>4, <1>5

LEMMA TypeStep == TypeInv /\ [Next]_vars => TypeInv'
<1> SUFFICES ASSUME TypeInv, [Next]_vars PROVE TypeInv'
  OBVIOUS
<1>1. CASE UNCHANGED vars
  BY <1>1 DEF vars, TypeInv, TypeOK, WellFormed
<1>2. QED
  BY <1>1, HandlerTypes, PollTypes, RequestTypes, WorldTypes DEF Next

\* Whatever pollers, requests, failures and crashes there are, the schedule,
\* its claims and the handlers keep their types (scheduler.py:46-490).
THEOREM TypeCorrect == Spec => []TypeOK
<1>1. Init => TypeInv
  BY TypeInvInit
<1>2. TypeInv /\ [Next]_vars => TypeInv'
  BY TypeStep
<1>3. TypeInv => TypeOK
  BY DEF TypeInv
<1>4. QED BY <1>1, <1>2, <1>3, PTL DEF Spec

-----------------------------------------------------------------------------
(* One execution per due time.                                             *)

\* Poller p works on the claim of t and has not yet given it back.
Holds(p, t) ==
  /\ job[p] # None /\ job[p].fire = t
  /\ job[p].at \in {"get", "check", "create", "start", "fired", "failed"}

\* While nothing has lapsed at t: only the poller the claim names holds it,
\* what the holder has created is what there is, and a claim that may be
\* taken has created nothing.
FireInv ==
  \A t \in Times \ lapsed :
    /\ claims[t].status = "claimed" => claims[t].live
    /\ claims[t].status \in {"none", "failed"} => made[t] = 0
    /\ made[t] <= 1
    /\ \A p \in Actors : Holds(p, t) =>
         /\ claims[t].status = "claimed" /\ claims[t].by = p
         /\ job[p].at \in {"get", "check", "create", "failed"} => made[t] = 0

LEMMA FireInvInit == Init => FireInv
BY DEF Init, FireInv, Holds

\* A step that leaves the claims and the executions alone, and in which no
\* handler comes to hold a claim or moves back among the labels.
LEMMA Untouched ==
  ASSUME FireInv, UNCHANGED <<claims, made>>, lapsed \subseteq lapsed',
         \A p \in Actors, t \in Times \ lapsed' :
           Holds(p, t)' => /\ Holds(p, t)
                           /\ job'[p].at \in {"get", "check", "create", "failed"}
                                => job[p].at \in {"get", "check", "create", "failed"}
  PROVE  FireInv'
BY DEF FireInv

\* The handlers other than a keep what they hold.
LEMMA OthersHold ==
  ASSUME TypeInv, NEW a \in Actors, NEW j, job' = [job EXCEPT ![a] = j]
  PROVE  /\ job'[a] = j
         /\ \A p \in Actors \ {a} : job'[p] = job[p]
         /\ \A p \in Actors \ {a} : \A t : Holds(p, t)' <=> Holds(p, t)
BY DEF TypeInv, TypeOK, Holds

\* A handler that moves on, or ends, without touching claims or executions.
LEMMA MovesOn ==
  ASSUME TypeInv, FireInv, NEW a \in Actors, job[a] # None,
         UNCHANGED <<claims, made>>, lapsed \subseteq lapsed',
         NEW j, job' = [job EXCEPT ![a] = j],
         \/ j = None
         \/ j.at \in {"patch_get", "update_read", "update_write"}
         \/ /\ j.fire = job[a].fire
            /\ \/ job[a].at = "get" /\ j.at = "check"
               \/ job[a].at = "check" /\ j.at \in {"create", "failed"}
               \/ job[a].at = "create" /\ j.at = "failed"
               \/ job[a].at = "start" /\ j.at = "fired"
               \/ job[a].at = "start" /\ job[a].fire \in lapsed'
  PROVE  FireInv'
<1>1. ASSUME NEW p \in Actors, NEW t \in Times \ lapsed', Holds(p, t)'
      PROVE  /\ Holds(p, t)
             /\ job'[p].at \in {"get", "check", "create", "failed"}
                  => job[p].at \in {"get", "check", "create", "failed"}
  <2>1. CASE p # a
    BY <1>1, <2>1, OthersHold
  <2>2. CASE p = a
    <3>1. job'[a] = j
      BY OthersHold
    <3>2. QED BY <1>1, <2>2, <3>1 DEF Holds
  <2>3. QED BY <2>1, <2>2
<1>2. QED BY <1>1, Untouched

\* The claim and the execution of one due time change, others do not.
LEMMA OneTime ==
  ASSUME TypeInv, FireInv, NEW a \in Actors, NEW t \in Times \ lapsed,
         NEW j, job' = [job EXCEPT ![a] = j], lapsed' = lapsed,
         \A s \in Times \ {t} : claims'[s] = claims[s] /\ made'[s] = made[s],
         j # None => j.fire = t,
         \* what the step establishes at t
         claims'[t].status = "claimed" => claims'[t].live,
         claims'[t].status \in {"none", "failed"} => made'[t] = 0,
         made'[t] <= 1,
         \A p \in Actors \ {a} : ~Holds(p, t),
         Holds(a, t)' =>
           /\ claims'[t].status = "claimed" /\ claims'[t].by = a
           /\ j.at \in {"get", "check", "create", "failed"} => made'[t] = 0
  PROVE  FireInv'
<1>1. /\ job'[a] = j
      /\ \A p \in Actors \ {a} : job'[p] = job[p]
      /\ \A p \in Actors \ {a} : \A s : Holds(p, s)' <=> Holds(p, s)
  BY OthersHold
<1>2. ASSUME NEW s \in Times \ lapsed', s # t
      PROVE  ~Holds(a, s)'
  BY <1>1, <1>2 DEF Holds
<1>3. SUFFICES ASSUME NEW s \in Times \ lapsed'
               PROVE  /\ claims'[s].status = "claimed" => claims'[s].live
                      /\ claims'[s].status \in {"none", "failed"} => made'[s] = 0
                      /\ made'[s] <= 1
                      /\ \A p \in Actors : Holds(p, s)' =>
                           /\ claims'[s].status = "claimed" /\ claims'[s].by = p
                           /\ job'[p].at \in {"get", "check", "create", "failed"}
                                => made'[s] = 0
  BY DEF FireInv
<1>4. CASE s = t
  BY <1>1, <1>4
<1>5. CASE s # t
  <2>1. claims'[s] = claims[s] /\ made'[s] = made[s] /\ s \in Times \ lapsed
    BY <1>5
  <2>2. \A p \in Actors : Holds(p, s)' => Holds(p, s) /\ job'[p] = job[p]
    BY <1>1, <1>2, <1>5
  <2>3. QED BY <2>1, <2>2 DEF FireInv
<1>6. QED BY <1>4, <1>5

\* A handler that holds no claim of an unlapsed time, before or after.
LEMMA HandlerFires ==
  ASSUME TypeInv, FireInv, NEW a \in Actors, HandlerStep(a)
  PROVE  FireInv'
<1>0. job \in [Actors -> Job \cup {None}]
  BY DEF TypeInv, TypeOK
<1>1. CASE AcquireClaim(a)
  <2> DEFINE t == job[a].fire
             j == [job[a] EXCEPT !.at = "get"]
  <2>1. job[a] \in Job /\ t \in Times /\ job[a].at = "claim" /\ job[a] # None
    BY <1>0, <1>1 DEF AcquireClaim, At, TypeInv, WellFormed, FireLabel
  <2>2. CASE ~(row # None /\ Claimable(claims[t]))
    BY <1>1, <2>1, <2>2, MovesOn DEF AcquireClaim, Done
  <2>3. CASE (row # None /\ Claimable(claims[t])) /\ t \notin lapsed
    <3>1. j.fire = t /\ j.at = "get" /\ job' = [job EXCEPT ![a] = j]
      BY <1>0, <1>1, <2>1, <2>3 DEF AcquireClaim, Goto, Job
    <3>2. claims[t].status \in {"none", "failed"}
      BY <2>1, <2>3 DEF Claimable, FireInv
    <3>3. made[t] = 0 /\ \A p \in Actors : ~Holds(p, t)
      BY <2>1, <2>3, <3>2 DEF FireInv
    <3>4. /\ claims' = [claims EXCEPT ![t] = [status |-> "claimed", by |-> a,
                                               live |-> TRUE]]
          /\ made' = made /\ lapsed' = lapsed
      BY <1>1, <2>3 DEF AcquireClaim
    <3>5. /\ claims'[t] = [status |-> "claimed", by |-> a, live |-> TRUE]
          /\ \A s \in Times \ {t} : claims'[s] = claims[s]
      BY <2>1, <3>4 DEF TypeInv, TypeOK
    <3> HIDE DEF j, t
    <3>6. /\ claims'[t].status = "claimed" /\ claims'[t].by = a /\ claims'[t].live
          /\ made'[t] = 0
      BY <3>3, <3>4, <3>5
    <3>7. t \in Times \ lapsed /\ \A s \in Times \ {t} : made'[s] = made[s]
      BY <2>1, <2>3, <3>4
    <3>8. /\ claims'[t].status \in {"none", "failed"} => made'[t] = 0
          /\ made'[t] <= 1
          /\ \A s \in Times \ {t} : claims'[s] = claims[s] /\ made'[s] = made[s]
          /\ Holds(a, t)' =>
               /\ claims'[t].status = "claimed" /\ claims'[t].by = a
               /\ j.at \in {"get", "check", "create", "failed"} => made'[t] = 0
          /\ \A p \in Actors \ {a} : ~Holds(p, t)
      BY <3>3, <3>5, <3>6, <3>7
    <3>9. QED BY <3>1, <3>4, <3>6, <3>7, <3>8, OneTime
  <2>4. CASE (row # None /\ Claimable(claims[t])) /\ t \in lapsed
    <3>1. /\ job' = [job EXCEPT ![a] = j] /\ j.fire = t
          /\ made' = made /\ lapsed' = lapsed
          /\ \A s \in Times \ {t} : claims'[s] = claims[s]
      BY <1>0, <1>1, <2>1, <2>4 DEF AcquireClaim, Goto, Job, TypeInv, TypeOK
    <3>2. \A s \in Times \ lapsed : ~Holds(a, s)'
      BY <2>4, <3>1, OthersHold DEF Holds
    <3> HIDE DEF j, t
    <3>3. \A p \in Actors, s \in Times \ lapsed :
            Holds(p, s)' => Holds(p, s) /\ job'[p] = job[p]
      BY <3>1, <3>2, OthersHold
    <3>4. QED BY <2>4, <3>1, <3>3 DEF FireInv
  <2>5. QED BY <2>2, <2>3, <2>4
<1>2. CASE TriggerGet(a)
  <2> DEFINE k == [job[a] EXCEPT !.at = "check", !.copy = row, !.at_time = now]
  <2>1. job[a] \in Job /\ job[a] # None /\ job[a].at = "get"
    BY <1>0, <1>2 DEF TriggerGet, At
  <2>2. k.at = "check" /\ k.fire = job[a].fire
    BY <2>1 DEF Job
  <2>3. job' = [job EXCEPT ![a] = None] \/ job' = [job EXCEPT ![a] = k]
    BY <1>0, <1>2 DEF TriggerGet, Done
  <2> HIDE DEF k
  <2>4. UNCHANGED <<claims, made>> /\ lapsed' = lapsed
    BY <1>2 DEF TriggerGet
  <2>5. QED BY <2>1, <2>2, <2>3, <2>4, MovesOn
<1>3. CASE AssertConcurrency(a)
  <2>1. job[a] \in Job /\ job[a] # None /\ job[a].at = "check"
    BY <1>0, <1>3 DEF AssertConcurrency, At
  <2>2. UNCHANGED <<claims, made>> /\ lapsed' = lapsed
    BY <1>3 DEF AssertConcurrency
  <2>3. Done(a) \/ Goto(a, "create") \/ Goto(a, "failed")
    BY <1>3 DEF AssertConcurrency, Fail
  <2>4. \E j : /\ job' = [job EXCEPT ![a] = j]
              /\ \/ j = None
                 \/ j.fire = job[a].fire /\ j.at \in {"create", "failed"}
    BY <1>0, <2>1, <2>3 DEF Done, Goto, Job
  <2>5. QED BY <2>1, <2>2, <2>4, MovesOn
<1>4. CASE CreateExecution(a)
  <2> DEFINE t == job[a].fire
  <2>1. job[a] \in Job /\ job[a] # None /\ job[a].at = "create" /\ t \in Time
    BY <1>0, <1>4, JobFields DEF CreateExecution, At
  <2>2. CASE ~workflow
    <3>1. UNCHANGED <<claims, made>> /\ lapsed' = lapsed
      BY <1>4, <2>2 DEF CreateExecution
    <3>2. \E j : /\ job' = [job EXCEPT ![a] = j]
                /\ j.fire = job[a].fire /\ j.at \in {"update_read", "failed"}
      <4> DEFINE k == [job[a] EXCEPT !.at = IF t = None THEN "update_read"
                                                      ELSE "failed",
                                     !.orphan = TRUE,
                                     !.patch = [set |-> {"enabled", "next"},
                                                to |-> NoRow]]
      <4>1. k.fire = job[a].fire /\ k.at \in {"update_read", "failed"}
        BY <2>1 DEF Job
      <4>2. job' = [job EXCEPT ![a] = k]
        BY <1>0, <1>4, <2>2 DEF CreateExecution
      <4>3. QED BY <4>1, <4>2
    <3>3. QED BY <2>1, <3>1, <3>2, MovesOn
  <2>3. CASE workflow /\ t \notin Times \ lapsed
    <3>1. UNCHANGED claims /\ lapsed' = lapsed
      BY <1>4 DEF CreateExecution
    <3>2. \A s \in Times \ lapsed : made'[s] = made[s]
      BY <1>4, <2>1, <2>3 DEF CreateExecution, TypeInv, TypeOK, Time
    <3>3. job'[a].fire = t /\ \A p \in Actors \ {a} : job'[p] = job[p]
      BY <1>0, <1>4, <2>1, <2>3 DEF CreateExecution, Goto, Job
    <3>4. \A p \in Actors, s \in Times \ lapsed :
            Holds(p, s)' => Holds(p, s) /\ job'[p] = job[p]
      BY <2>3, <3>3 DEF Holds
    <3>5. QED BY <3>1, <3>2, <3>4 DEF FireInv
  <2>4. CASE workflow /\ t \in Times \ lapsed
    <3> DEFINE j == [job[a] EXCEPT !.at = "start"]
    <3>1. j.fire = t /\ j.at = "start" /\ job' = [job EXCEPT ![a] = j]
      BY <1>0, <1>4, <2>1, <2>4 DEF CreateExecution, Goto, Job
    <3>2. Holds(a, t)
      BY <2>1 DEF Holds
    <3>3. /\ claims[t].status = "claimed" /\ claims[t].by = a
          /\ claims[t].live /\ made[t] = 0
      BY <2>1, <2>4, <3>2 DEF FireInv
    <3>4. \A p \in Actors \ {a} : ~Holds(p, t)
      BY <2>4, <3>3 DEF FireInv
    <3>5. claims' = claims /\ lapsed' = lapsed /\ made' = [made EXCEPT ![t] = @ + 1]
      BY <1>4, <2>4, SchedulerAssumption DEF CreateExecution
    <3>6. made'[t] = 1 /\ \A s \in Times \ {t} : made'[s] = made[s]
      BY <2>4, <3>3, <3>5 DEF TypeInv, TypeOK
    <3> HIDE DEF j, t
    <3>7. /\ claims'[t].status = "claimed" /\ claims'[t].by = a /\ claims'[t].live
          /\ \A s \in Times \ {t} : claims'[s] = claims[s]
      BY <3>3, <3>5
    <3>8. t \in Times \ lapsed
      BY <2>4
    <3>9. /\ claims'[t].status \in {"none", "failed"} => made'[t] = 0
          /\ made'[t] <= 1
          /\ \A s \in Times \ {t} : claims'[s] = claims[s] /\ made'[s] = made[s]
          /\ Holds(a, t)' =>
               /\ claims'[t].status = "claimed" /\ claims'[t].by = a
               /\ j.at \in {"get", "check", "create", "failed"} => made'[t] = 0
      BY <3>1, <3>6, <3>7
    <3>10. QED BY <3>1, <3>4, <3>5, <3>7, <3>8, <3>9, OneTime
  <2>5. QED BY <2>2, <2>3, <2>4
<1>5. CASE StartExecution(a)
  <2>1. job[a] \in Job /\ job[a] # None /\ job[a].at = "start"
    BY <1>0, <1>5 DEF StartExecution, At
  <2>2. UNCHANGED <<claims, made>> /\ lapsed' = lapsed
    BY <1>5 DEF StartExecution
  <2>3. \E j : /\ job' = [job EXCEPT ![a] = j]
              /\ j.fire = job[a].fire /\ j.at \in {"update_read", "fired"}
    <3> DEFINE l == IF job[a].fire = None THEN "update_read" ELSE "fired"
               k == [job[a] EXCEPT !.at = l]
    <3>1. k.fire = job[a].fire /\ k.at \in {"update_read", "fired"}
      BY <2>1 DEF Job
    <3>2. job' = [job EXCEPT ![a] = k]
      BY <1>0, <1>5 DEF StartExecution, Goto
    <3>3. QED BY <3>1, <3>2
  <2>4. QED BY <2>1, <2>2, <2>3, MovesOn
<1>6. CASE StartFails(a)
  <2>1. job[a] \in Job /\ job[a] # None /\ job[a].at = "start"
        /\ job[a].fire \in Time
    BY <1>0, <1>6, JobFields DEF StartFails, At
  <2>2. UNCHANGED <<claims, made>> /\ lapsed' = lapsed \cup ({job[a].fire} \cap Times)
    BY <1>6 DEF StartFails
  <2>3. Fail(a)
    BY <1>6 DEF StartFails
  <2>4. \E j : /\ job' = [job EXCEPT ![a] = j]
              /\ \/ j = None
                 \/ j.fire = job[a].fire /\ job[a].fire \in lapsed'
    BY <1>0, <2>1, <2>2, <2>3 DEF Fail, Done, Goto, Job, Time
  <2>5. QED BY <2>1, <2>2, <2>4, MovesOn
<1>7. CASE MarkFired(a) \/ MarkFailed(a)
  <2> DEFINE t == job[a].fire
  <2>1. /\ job[a] \in Job /\ job[a] # None /\ job[a].at \in {"fired", "failed"}
        /\ t \in Times
    BY <1>0, <1>7 DEF MarkFired, MarkFailed, At, TypeInv, WellFormed, FireLabel
  <2>2. \E j : /\ job' = [job EXCEPT ![a] = j]
              /\ \/ j = None
                 \/ j.fire = t /\ j.at = "update_read"
    BY <1>0, <1>7, <2>1 DEF MarkFired, MarkFailed, Done, Goto, Job
  <2>3. PICK j : /\ job' = [job EXCEPT ![a] = j]
                 /\ \/ j = None
                    \/ j.fire = t /\ j.at = "update_read"
    BY <2>2
  <2>4. made' = made /\ lapsed' = lapsed
    BY <1>7 DEF MarkFired, MarkFailed
  <2>5. CASE claims' = claims
    BY <2>1, <2>3, <2>4, <2>5, MovesOn
  <2>6. CASE claims' # claims
    <3>1. /\ claims[t].by = a /\ claims[t].status = "claimed"
          /\ \/ MarkFired(a) /\ claims' = [claims EXCEPT ![t].status = "fired",
                                                        ![t].live = FALSE]
             \/ MarkFailed(a) /\ claims' = [claims EXCEPT ![t].status = "failed",
                                                         ![t].live = FALSE]
      BY <1>7, <2>6 DEF MarkFired, MarkFailed, Mark
    <3>2. /\ \A s \in Times \ {t} : claims'[s] = claims[s]
          /\ \/ MarkFired(a) /\ claims'[t].status = "fired"
             \/ MarkFailed(a) /\ claims'[t].status = "failed"
      BY <2>1, <3>1 DEF TypeInv, TypeOK, Claim
    <3>3. \A s \in Times : ~Holds(a, s)'
      BY <2>3, OthersHold DEF Holds
    <3>4. CASE t \in lapsed
      <4>1. \A p \in Actors, s \in Times :
              Holds(p, s)' => Holds(p, s) /\ job'[p] = job[p]
        BY <2>3, <3>3, OthersHold
      <4> HIDE DEF t
      <4>2. QED BY <2>4, <3>2, <3>4, <4>1 DEF FireInv
    <3>5. CASE t \notin lapsed
      <4>1. Holds(a, t)
        BY <2>1 DEF Holds
      <4>2. /\ made[t] <= 1
            /\ MarkFailed(a) => made[t] = 0
            /\ \A p \in Actors \ {a} : ~Holds(p, t)
        BY <2>1, <3>1, <3>5, <4>1 DEF FireInv, MarkFailed, At
      <4> HIDE DEF t
      <4>3. QED BY <2>1, <2>3, <2>4, <3>2, <3>3, <3>5, <4>2, OneTime
    <3>6. QED BY <3>4, <3>5
  <2>7. QED BY <2>5, <2>6
<1>8. CASE PatchGet(a)
  <2>1. job[a] \in Job /\ job[a] # None
    BY <1>0, <1>8 DEF PatchGet, At
  <2>2. UNCHANGED <<claims, made>> /\ lapsed' = lapsed
    BY <1>8 DEF PatchGet
  <2> DEFINE k == [job[a] EXCEPT !.at = "update_read"]
  <2>3. k.at = "update_read"
    BY <2>1 DEF Job
  <2>4. job' = [job EXCEPT ![a] = None] \/ job' = [job EXCEPT ![a] = k]
    BY <1>0, <1>8 DEF PatchGet, Done, Goto
  <2> HIDE DEF k
  <2>5. QED BY <2>1, <2>2, <2>3, <2>4, MovesOn
<1>9. CASE UpdateRead(a)
  <2> DEFINE k == [job[a] EXCEPT !.at = "update_write",
                                 !.copy = Merge(row, PatchOf(job[a]))]
  <2>1. job[a] \in Job /\ job[a] # None
    BY <1>0, <1>9 DEF UpdateRead, At
  <2>2. k.at = "update_write"
    BY <2>1 DEF Job
  <2>3. job' = [job EXCEPT ![a] = None] \/ job' = [job EXCEPT ![a] = k]
    BY <1>0, <1>9 DEF UpdateRead, Done
  <2> HIDE DEF k
  <2>4. UNCHANGED <<claims, made>> /\ lapsed' = lapsed
    BY <1>9 DEF UpdateRead
  <2>5. QED BY <2>1, <2>2, <2>3, <2>4, MovesOn
<1>10. CASE UpdateWrite(a)
  <2>1. job[a] # None /\ job' = [job EXCEPT ![a] = None]
        /\ UNCHANGED <<claims, made>> /\ lapsed' = lapsed
    BY <1>10 DEF UpdateWrite, At, Done
  <2>2. QED BY <2>1, MovesOn
<1>11. QED
  BY <1>1, <1>2, <1>3, <1>4, <1>5, <1>6, <1>7, <1>8, <1>9, <1>10
     DEF HandlerStep, TriggerStep

\* A request or a poll begins without a claim.
LEMMA BeginFires ==
  ASSUME TypeInv, FireInv, NEW a \in Actors, NEW j, Start(a, j),
         j.at \in {"claim", "patch_get", "update_read"} \/ j.fire = None,
         UNCHANGED <<claims, made, lapsed>>
  PROVE  FireInv'
<1>1. job' = [job EXCEPT ![a] = j]
  BY DEF Start
<1>2. ASSUME NEW t \in Times PROVE ~Holds(a, t)'
  <2>1. job'[a] = j
    BY <1>1, OthersHold
  <2>2. t # None
    BY SchedulerAssumption
  <2>3. QED BY <2>1, <2>2 DEF Holds
<1>3. \A p \in Actors, t \in Times :
        Holds(p, t)' => Holds(p, t) /\ job'[p] = job[p]
  BY <1>1, <1>2, OthersHold
<1>4. QED BY <1>3 DEF FireInv

LEMMA FireStep == TypeInv /\ FireInv /\ [Next]_vars => FireInv'
<1> SUFFICES ASSUME TypeInv, FireInv, [Next]_vars PROVE FireInv'
  OBVIOUS
<1>0. now \in 0..MaxNow /\ job \in [Actors -> Job \cup {None}]
  BY DEF TypeInv, TypeOK
<1>1. ASSUME NEW p \in Pollers, Poll(p) PROVE FireInv'
  <2> DEFINE j == [NewJob("claim") EXCEPT
                     !.fire = IF row.next # None THEN row.next ELSE now]
  <2>1. j.at = "claim"
    BY DEF NewJob
  <2>2. Start(p, j) /\ UNCHANGED <<claims, made, lapsed>> /\ p \in Actors
    BY <1>1 DEF Poll, Actors
  <2> HIDE DEF j
  <2>3. QED BY <2>1, <2>2, BeginFires
<1>2. ASSUME NEW a \in Callers, Request(a) PROVE FireInv'
  <2>0. a \in Actors
    BY DEF Actors
  <2>1. CASE TriggerRequest(a)
    <3>1. NewJob("get").fire = None
      BY DEF NewJob
    <3>2. QED BY <2>0, <2>1, <3>1, BeginFires DEF TriggerRequest
  <2>2. ASSUME NEW l \in {"patch_get", "update_read"}, NEW q,
               Start(a, [NewJob(l) EXCEPT !.patch = q]),
               UNCHANGED <<claims, made, lapsed>>
        PROVE  FireInv'
    <3>1. [NewJob(l) EXCEPT !.patch = q].at = l
      BY DEF NewJob
    <3>2. QED BY <2>0, <2>2, <3>1, BeginFires
  <2>3. CASE EnableRequest(a)
    BY <2>2, <2>3 DEF EnableRequest
  <2>4. CASE DisableRequest(a)
    BY <2>2, <2>4 DEF DisableRequest
  <2>5. ASSUME NEW on \in BOOLEAN, PatchRequest(a, on) PROVE FireInv'
    BY <2>2, <2>5 DEF PatchRequest
  <2>6. CASE DeleteRequest(a)
    BY <2>6 DEF DeleteRequest, FireInv
  <2>7. QED BY <1>2, <2>1, <2>3, <2>4, <2>5, <2>6 DEF Request
<1>3. ASSUME NEW a \in Actors, HandlerStep(a) PROVE FireInv'
  BY <1>3, HandlerFires
<1>4. ASSUME NEW a \in Actors, Crash(a) PROVE FireInv'
  BY <1>4, MovesOn DEF Crash, Done
<1>5. ASSUME NEW t \in Times, LeaseExpires(t) PROVE FireInv'
  <2>1. /\ \A s \in Times \ {t} : claims'[s] = claims[s]
        /\ made' = made /\ job' = job /\ lapsed' = lapsed \cup {t}
    BY <1>5 DEF LeaseExpires, TypeInv, TypeOK
  <2>2. QED BY <2>1 DEF FireInv, Holds
<1>6. CASE Tick \/ ExecutionEnds \/ WorkflowDeleted \/ UNCHANGED vars
  BY <1>6 DEF Tick, ExecutionEnds, WorkflowDeleted, vars, FireInv, Holds
<1>7. QED BY <1>1, <1>2, <1>3, <1>4, <1>5, <1>6 DEF Next

\* However many processes poll the schedule, a due time gets one execution
\* unless a lease ran out, a start failed or the schedule was deleted: the
\* unique row and the guarded UPDATE of acquire_schedule_fire_claim suffice
\* (domain_sql.py:1343-1386).
THEOREM FiredOnce == Spec => []OneExecutionPerFire
<1>1. Init => TypeInv /\ FireInv
  BY TypeInvInit, FireInvInit
<1>2. (TypeInv /\ FireInv) /\ [Next]_vars => (TypeInv /\ FireInv)'
  BY TypeStep, FireStep
<1>3. TypeInv /\ FireInv => OneExecutionPerFire
  BY DEF FireInv, OneExecutionPerFire
<1>4. QED BY <1>1, <1>2, <1>3, PTL DEF Spec
=============================================================================
