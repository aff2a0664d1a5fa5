-------------------------- MODULE NativeEngineProofs -------------------------
(***************************************************************************)
(* No gate of a workflow opens without its approval, for every workflow    *)
(* and every bound (RunsAreApproved of NativeEngine).                      *)
(*                                                                         *)
(* What the planner's loop computes for every graph is out of the prover's *)
(* reach, so nothing here relies on it: a planned position is any value,   *)
(* and the ids an approval or an error may carry are AnyTool.              *)
(***************************************************************************)
EXTENDS NativeEngine, TLAPS

Why == {"policy", "failure"}
RequestStatus == {"pending", "approved", "rejected", "expired"}
AskStages == {"ask", "wait", "park", "delegate"}
RunStages == {"walk", "task", "retry"}
OtherStages == {"idle", "queued", "marked", "sleep_wait", "sleep_again",
                "sleep_row"}

\* The next cycle is scheduled, or a cycle fails, in the try block or after it.
Sleeps(r) == \E then \in {"sleep_wait", "sleep_again"} : Schedule(r, then)
Fails(r) == \E then \in {"sleep_wait", "sleep_again"} : CycleFailure(r, then)

\* The ids in requests and errors: tools, and what a plan may hold.
AnyTool == Tools \cup {Planned[wf][k] : k \in Nat}

RequestIn(T) == [tool : T, why : Why, status : RequestStatus]
CycleCounts == [n : Nat, next : Nat, fails : Nat, same : Nat]
RowIn(T) == [status : Status, outs : Outs, errs : SUBSET T, ckpt : BOOLEAN,
             pend : Nat, active : Nat, cyc : CycleCounts]
MemIn(T) == [outs : Outs, errs : SUBSET T, paused : BOOLEAN,
             cancelled : BOOLEAN]
WaitRow == [kind : {"approval", "sleep"}, key : Nat,
            status : {"pending", "resolved", "cancelled"}]

\* The shapes of the rows, the engine's copies and the tables.
EngineShape ==
  /\ at \in Nat
  /\ pc \in AskStages \cup RunStages \cup OtherStages
  /\ row \in RowIn(AnyTool) /\ own \in RowIn(AnyTool)
  /\ mem \in MemIn(AnyTool)
  /\ ask \in [tool : AnyTool, why : Why]

TableShape ==
  /\ reqs \in Seq(RequestIn(AnyTool))
  /\ waits \in Seq(WaitRow)
  /\ cmd \in [op : {"none", "start", "resume", "pause", "cancel",
                    "preserve"}, snap : RowIn(AnyTool)]
  /\ waking \in Nat

\* Every copy of the row points at a request that exists.
EnginePointers == row.pend <= Len(reqs) /\ own.pend <= Len(reqs)

EngineOK == EngineShape /\ EnginePointers

Shapes == EngineOK /\ TableShape /\ cmd.snap.pend <= Len(reqs)

\* What is asked for: the workflow, or the node the walk has reached.
AskIsForNode ==
  pc \in AskStages =>
    \/ ask.tool = "workflow"
    \/ ask.tool = Node /\ (ask.why = "failure" => Policy(Node) = "on_failure")

\* A workflow with approval before the run walks only once it is approved.
WalkIsGranted ==
  wf.mode = "before_run" /\ ~wf.delegate =>
    /\ pc \in RunStages => GrantedFor("workflow", "policy")
    /\ pc \in AskStages => ask = NoAsk \/ GrantedFor("workflow", "policy")

IInv == Shapes /\ AskIsForNode /\ WalkIsGranted

-----------------------------------------------------------------------------
(* Facts about the operators a step is made of.                            *)

\* The ids stay the same, because the definition is never changed.
LEMMA SameTools == ASSUME wf' = wf PROVE AnyTool' = AnyTool
  BY DEF AnyTool, Planned

LEMMA ToolFacts ==
  /\ "workflow" \in AnyTool
  /\ at \in Nat => Node \in AnyTool
  BY DEF AnyTool, Tools, Node

LEMMA NewShapes ==
  ASSUME NEW T
  PROVE  NewRow \in RowIn(T) /\ NewMem \in MemIn(T)
  BY DEF NewRow, NewMem, RowIn, MemIn, CycleCounts, Outs, NoOuts, Status

\* A sequence keeps its type and length when an element is replaced.
LEMMA ReplaceKeeps ==
  ASSUME NEW S, NEW s \in Seq(S), NEW i, NEW e, i \in DOMAIN s => e \in S
  PROVE  [s EXCEPT ![i] = e] \in Seq(S) /\ Len([s EXCEPT ![i] = e]) = Len(s)
<1> DEFINE t == [j \in 1..Len(s) |-> IF j = i THEN e ELSE s[j]]
<1>1. [s EXCEPT ![i] = e] = t
  OBVIOUS
<1>2. \A j \in 1..Len(s) : t[j] \in S
  OBVIOUS
<1>3. t \in Seq(S) /\ Len(t) = Len(s)
  BY <1>2
<1> QED BY <1>1, <1>3

\* The operators that make a row from a row keep its shape and its request.
LEMMA StatusKeeps ==
  ASSUME NEW T, NEW r \in RowIn(T), NEW s \in Status
  PROVE  /\ [r EXCEPT !.status = s] \in RowIn(T)
         /\ [r EXCEPT !.status = s].pend = r.pend
  BY DEF RowIn

LEMMA CheckpointKeeps ==
  ASSUME NEW T, NEW r \in RowIn(T), NEW m \in MemIn(T)
  PROVE  Checkpoint(r, m) \in RowIn(T) /\ Checkpoint(r, m).pend = r.pend
  BY DEF RowIn, MemIn, Checkpoint

LEMMA ResetKeeps ==
  ASSUME NEW T, NEW r \in RowIn(T)
  PROVE  ResetCycle(r) \in RowIn(T) /\ ResetCycle(r).pend = r.pend
<1>1. NoOuts \in Outs /\ "paused" \in Status
  BY DEF NoOuts, Outs, Status
<1>2. r.cyc \in CycleCounts /\ r.cyc.n + 1 \in Nat
  BY DEF RowIn, CycleCounts
<1>3. [r.cyc EXCEPT !.next = r.cyc.n + 1] \in CycleCounts
  BY <1>2 DEF CycleCounts
<1> QED BY <1>1, <1>3 DEF RowIn, ResetCycle

LEMMA CycleStartedKeeps ==
  ASSUME NEW T, NEW r \in RowIn(T)
  PROVE  CycleStarted(r) \in RowIn(T) /\ CycleStarted(r).pend = r.pend
<1>1. r.cyc \in CycleCounts
  BY DEF RowIn
<1>2. \A n \in Nat : [r.cyc EXCEPT !.n = n, !.next = 0] \in CycleCounts
  BY <1>1 DEF CycleCounts
<1>3. r.cyc.n \in Nat /\ r.cyc.next \in Nat
  BY <1>1 DEF CycleCounts
<1> QED BY <1>2, <1>3 DEF RowIn, CycleStarted

LEMMA RepairedKeeps ==
  ASSUME NEW T, NEW r \in RowIn(T)
  PROVE  Repaired(r) \in RowIn(T) /\ Repaired(r).pend \in {0, r.pend}
<1>1. {"failed", "cancelled", "completed", "queued"} \subseteq Status
  BY DEF Status, Terminal
<1> QED BY <1>1 DEF RowIn, Repaired

LEMMA HydrateKeeps ==
  ASSUME NEW T, NEW r \in RowIn(T), NEW m \in MemIn(T)
  PROVE  Hydrate(m, r) \in MemIn(T)
  BY DEF Hydrate, RowIn, MemIn

\* The steps below leave the definition and the requests alone.
Quiet == wf' = wf /\ reqs' = reqs

\* A run that returns leaves a row of the right shape and no engine state.
LEMMA ReturnKeeps ==
  ASSUME Quiet, NEW r \in RowIn(AnyTool), r.pend <= Len(reqs), Return(r),
         mem' \in MemIn(AnyTool), reqs \in Seq(RequestIn(AnyTool))
  PROVE  EngineOK' /\ pc' = "idle"
<1>1. AnyTool' = AnyTool
  BY SameTools DEF Quiet
<1>2. NewRow \in RowIn(AnyTool) /\ NewRow.pend = 0
  BY NewShapes DEF NewRow
<1>3. NoAsk \in [tool : AnyTool, why : Why]
  BY ToolFacts DEF NoAsk, Why
<1>4. Len(reqs) \in Nat
  OBVIOUS
<1> QED BY <1>1, <1>2, <1>3, <1>4
        DEF Quiet, Return, EngineOK, EngineShape, EnginePointers, OtherStages

\* Every end of a walk leaves the walk: it returns or goes to sleep.
LEMMA CancelledEnds ==
  ASSUME Quiet, Shapes, EndCancelled, UNCHANGED mem
  PROVE  EngineOK' /\ pc' = "idle"
<1> DEFINE r == [Checkpoint(own, mem) EXCEPT !.status = "cancelled"]
<1>1. "cancelled" \in Status
  BY DEF Status, Terminal
<1>2. Checkpoint(own, mem) \in RowIn(AnyTool) /\ Checkpoint(own, mem).pend = own.pend
  BY CheckpointKeeps DEF Shapes, EngineOK, EngineShape
<1>3. r \in RowIn(AnyTool) /\ r.pend = own.pend
  BY <1>1, <1>2 DEF RowIn
<1> QED BY <1>3, ReturnKeeps
        DEF EndCancelled, Shapes, EngineOK, EngineShape, EnginePointers, TableShape

LEMMA UnwindEnds ==
  ASSUME Quiet, Shapes, NEW c \in RowIn(AnyTool), c.pend <= Len(reqs),
         Unwind(c), UNCHANGED mem
  PROVE  EngineOK' /\ pc' = "idle"
<1> DEFINE b == IF c.status \in Suspended THEN c ELSE [own EXCEPT !.status = "paused"]
<1>1. "paused" \in Status
  BY DEF Status
<1>2. own \in RowIn(AnyTool) /\ mem \in MemIn(AnyTool) /\ own.pend <= Len(reqs)
  BY DEF Shapes, EngineOK, EngineShape, EnginePointers
<1>3. b \in RowIn(AnyTool) /\ b.pend <= Len(reqs)
  BY <1>1, <1>2 DEF RowIn
<1>4. Checkpoint(b, mem) \in RowIn(AnyTool) /\ Checkpoint(b, mem).pend = b.pend
  BY <1>2, <1>3, CheckpointKeeps
<1>5. Return(Checkpoint(b, mem))
  BY DEF Unwind
<1> QED BY <1>2, <1>3, <1>4, <1>5, ReturnKeeps DEF Shapes, TableShape

LEMMA GuardEnds ==
  ASSUME Quiet, Shapes, NEW r \in RowIn(AnyTool), r.pend <= Len(reqs),
         GuardPause(r) \/ Sleeps(r)
  PROVE  EngineOK' /\ pc' \in OtherStages
<1>1. "paused" \in Status /\ NoOuts \in Outs
  BY DEF Status, NoOuts, Outs
<1>2. mem \in MemIn(AnyTool)
  BY DEF Shapes, EngineOK, EngineShape
<1>3. ResetCycle(r) \in RowIn(AnyTool) /\ ResetCycle(r).pend = r.pend
  BY ResetKeeps
<1>4. mem' \in MemIn(AnyTool)
  BY <1>1, <1>2 DEF GuardPause, Sleeps, Schedule, Forget, MemIn
<1>5. CASE GuardPause(r)
  BY <1>3, <1>4, <1>5, ReturnKeeps DEF GuardPause, Shapes, TableShape, OtherStages
<1>6. CASE Sleeps(r)
  <2>1. AnyTool' = AnyTool
    BY SameTools DEF Quiet
  <2>2. row' = ResetCycle(r) /\ own' = ResetCycle(r) /\ pc' \in OtherStages
        /\ at' = at /\ ask' = ask
    BY <1>6 DEF Sleeps, Schedule, Save, OtherStages
  <2> QED BY <1>3, <1>4, <2>1, <2>2
          DEF Quiet, Shapes, EngineOK, EngineShape, EnginePointers, OtherStages
<1> QED BY <1>5, <1>6

LEMMA FailureEnds ==
  ASSUME Quiet, Shapes, NEW r \in RowIn(AnyTool), r.pend <= Len(reqs),
         Fails(r)
  PROVE  EngineOK' /\ pc' \in OtherStages
<1> DEFINE f == [r EXCEPT !.cyc.fails = @ + 1]
<1>1. r.cyc \in CycleCounts /\ [r.cyc EXCEPT !.fails = @ + 1] \in CycleCounts
  BY DEF RowIn, CycleCounts
<1>2. f \in RowIn(AnyTool) /\ f.pend = r.pend
  BY <1>1 DEF RowIn
<1>3. GuardPause(f) \/ Sleeps(f)
  BY DEF Fails, CycleFailure, Sleeps
<1> QED BY <1>2, <1>3, GuardEnds

LEMMA FailRunEnds ==
  ASSUME Quiet, Shapes, FailRun
  PROVE  EngineOK' /\ pc' \in OtherStages
<1>1. own \in RowIn(AnyTool) /\ mem \in MemIn(AnyTool) /\ own.pend <= Len(reqs)
  BY DEF Shapes, EngineOK, EngineShape, EnginePointers
<1>2. CASE Fails(own)
  BY <1>1, <1>2, FailureEnds
<1>3. CASE Return([Checkpoint(own, mem) EXCEPT !.status = "failed"]) /\ UNCHANGED mem
  <2> DEFINE r == [Checkpoint(own, mem) EXCEPT !.status = "failed"]
  <2>1. "failed" \in Status
    BY DEF Status, Terminal
  <2>2. Checkpoint(own, mem) \in RowIn(AnyTool) /\ Checkpoint(own, mem).pend = own.pend
    BY <1>1, CheckpointKeeps
  <2>3. r \in RowIn(AnyTool) /\ r.pend = own.pend
    BY <2>1, <2>2 DEF RowIn
  <2> QED BY <1>1, <1>3, <2>3, ReturnKeeps DEF Shapes, TableShape, OtherStages
<1> QED BY <1>2, <1>3 DEF FailRun, Fails

LEMMA ConcludeEnds ==
  ASSUME Quiet, Shapes, NEW r \in RowIn(AnyTool), r.pend <= Len(reqs), Conclude(r)
  PROVE  EngineOK' /\ pc' \in OtherStages
<1>1. mem \in MemIn(AnyTool)
  BY DEF Shapes, EngineOK, EngineShape
<1>2. ASSUME NEW s \in {"completed", "failed"}
      PROVE  Finished(r, s) \in RowIn(AnyTool) /\ Finished(r, s).pend = r.pend
  BY <1>1 DEF Finished, RowIn, MemIn, Status, Terminal
<1>3. CASE Fails(r)
  BY <1>3, FailureEnds
<1>4. CASE \E s \in {"completed", "failed"} : Return(Finished(r, s)) /\ UNCHANGED mem
  BY <1>1, <1>2, <1>4, ReturnKeeps DEF Shapes, TableShape, OtherStages
<1> QED BY <1>3, <1>4 DEF Conclude, Fails

\* After a cycle only the counts of the row differ.
LEMMA CycleRow ==
  ASSUME CycleSuccess, own \in RowIn(AnyTool)
  PROVE  \E r \in RowIn(AnyTool) :
           /\ r.pend = own.pend /\ r.errs = own.errs /\ r.active = own.active
           /\ Conclude(r) \/ GuardPause(r) \/ Sleeps(r)
<1>1. PICK repeated \in BOOLEAN :
        LET r == [own EXCEPT !.cyc.fails = 0,
                             !.cyc.same = IF repeated THEN @ + 1 ELSE 0]
        IN  Conclude(r) \/ GuardPause(r) \/ Sleeps(r)
  BY DEF CycleSuccess, Sleeps
<1> DEFINE c == [own.cyc EXCEPT !.fails = 0, !.same = IF repeated THEN @ + 1 ELSE 0]
           r == [own EXCEPT !.cyc.fails = 0,
                            !.cyc.same = IF repeated THEN @ + 1 ELSE 0]
<1>2. own.cyc \in CycleCounts
  BY DEF RowIn
<1>3. c \in CycleCounts
  <2>1. own.cyc.same \in Nat /\ own.cyc.same + 1 \in Nat
    BY <1>2 DEF CycleCounts
  <2>2. \A k \in Nat : [own.cyc EXCEPT !.fails = 0, !.same = k] \in CycleCounts
    BY <1>2 DEF CycleCounts
  <2>3. CASE repeated
    BY <1>2, <2>1, <2>2, <2>3 DEF CycleCounts
  <2>4. CASE ~repeated
    BY <1>2, <2>1, <2>2, <2>4 DEF CycleCounts
  <2> QED BY <2>3, <2>4
<1>4. r = [own EXCEPT !.cyc = c]
  BY <1>2 DEF RowIn, CycleCounts
<1>5. /\ r \in RowIn(AnyTool) /\ r.pend = own.pend
      /\ r.errs = own.errs /\ r.active = own.active
  BY <1>3, <1>4 DEF RowIn
<1>6. Conclude(r) \/ GuardPause(r) \/ Sleeps(r)
  BY <1>1
<1> HIDE DEF r
<1> QED BY <1>5, <1>6

LEMMA SuccessEnds ==
  ASSUME Quiet, Shapes, CycleSuccess
  PROVE  EngineOK' /\ pc' \in OtherStages
<1>1. own \in RowIn(AnyTool) /\ own.pend <= Len(reqs)
  BY DEF Shapes, EngineOK, EngineShape, EnginePointers
<1>2. PICK r \in RowIn(AnyTool) :
        r.pend = own.pend /\ (Conclude(r) \/ GuardPause(r) \/ Sleeps(r))
  BY <1>1, CycleRow
<1> QED BY <1>1, <1>2, ConcludeEnds, GuardEnds

\* A recorded outcome is checkpointed and the walk goes on, or it is
\* cancelled.
LEMMA RecordKeeps ==
  ASSUME Quiet, Shapes, NEW outcome \in Outcome, Record(outcome)
  PROVE  EngineOK' /\ pc' \in {"walk", "idle"}
<1>1. CASE EndCancelled /\ UNCHANGED mem
  BY <1>1, CancelledEnds
<1>2. CASE ~mem.cancelled
  <2> DEFINE e == IF "failure" \in outcome THEN mem.errs \cup {Node} ELSE mem.errs
             o == [mem.outs EXCEPT ![Node] = outcome]
             m == [mem EXCEPT !.outs = o, !.errs = e]
  <2>1. /\ mem \in MemIn(AnyTool) /\ own \in RowIn(AnyTool) /\ at \in Nat
        /\ own.pend <= Len(reqs) /\ ask \in [tool : AnyTool, why : Why]
    BY DEF Shapes, EngineOK, EngineShape, EnginePointers
  <2>2. e \subseteq AnyTool
    BY <2>1, ToolFacts DEF MemIn
  <2>3. o \in Outs
    BY <2>1 DEF MemIn, Outs
  <2>4. m \in MemIn(AnyTool)
    BY <2>1, <2>2, <2>3 DEF MemIn
  <2>5. /\ mem' = m /\ own' = Checkpoint(own, m) /\ row' = Checkpoint(own, m)
        /\ pc' = "walk" /\ at' = at + 1 /\ ask' = ask
    BY <1>2 DEF Record, Save
  <2>6. Checkpoint(own, m) \in RowIn(AnyTool) /\ Checkpoint(own, m).pend = own.pend
    BY <2>1, <2>4, CheckpointKeeps
  <2>7. AnyTool' = AnyTool
    BY SameTools DEF Quiet
  <2>8. at + 1 \in Nat
    BY <2>1
  <2> HIDE DEF m
  <2> QED BY <2>1, <2>4, <2>5, <2>6, <2>7, <2>8
          DEF Quiet, EngineOK, EngineShape, EnginePointers, RunStages
<1> QED BY <1>1, <1>2 DEF Record

LEMMA RaisedKeeps ==
  ASSUME Quiet, Shapes, TaskRaised
  PROVE  EngineOK' /\ pc' \in {"walk"} \cup OtherStages
<1>1. CASE \E outcome \in Outcomes(Node) : Record(outcome)
  BY <1>1, RecordKeeps DEF Outcomes, OtherStages
<1>2. CASE FailRun
  BY <1>2, FailRunEnds
<1> QED BY <1>1, <1>2 DEF TaskRaised

-----------------------------------------------------------------------------
(* Shapes are kept by every step.                                          *)

\* The definition is never changed.
LEMMA DefinitionStays == ASSUME Next PROVE wf' = wf
  BY DEF Next, Engine, Environment, MarkRunning, StartExecution, Finish,
         SleepWait, SleepRefused, SleepRow, VisitCancelled, Skip, Enter, Interrupted,
         TaskReturns, TaskFails, Consume, CreateRequest, CreateWait, WaitRefused, Park,
         Delegated, Suspend, Decide, Wake, CycleDue, BeginStart, EndStart,
         BeginPause, EndPause, BeginCancel, EndCancel, Preserve, Crash,
         Restart, RecoverLocal, RepairStale

\* The tables of an engine step that leaves requests, waits and commands be.
LEMMA EngineOnly ==
  ASSUME Quiet, Shapes, EngineOK', waits' \in Seq(WaitRow),
         UNCHANGED <<waking, cmd>>
  PROVE  Shapes'
<1>1. AnyTool' = AnyTool
  BY SameTools DEF Quiet
<1> QED BY <1>1 DEF Quiet, Shapes, TableShape

LEMMA EngineShapes ==
  ASSUME Shapes, Quiet,
         \/ MarkRunning \/ StartExecution \/ Finish \/ SleepWait
         \/ SleepRefused \/ SleepRow \/ VisitCancelled \/ Skip \/ Enter
         \/ Interrupted \/ TaskReturns \/ TaskFails \/ Consume
         \/ CreateWait \/ WaitRefused \/ Park \/ Suspend
  PROVE  Shapes'
<1>1. AnyTool' = AnyTool
  BY SameTools DEF Quiet
<1>2. /\ at \in Nat /\ row \in RowIn(AnyTool) /\ own \in RowIn(AnyTool)
      /\ mem \in MemIn(AnyTool) /\ ask \in [tool : AnyTool, why : Why]
      /\ row.pend <= Len(reqs) /\ own.pend <= Len(reqs)
      /\ reqs \in Seq(RequestIn(AnyTool)) /\ waits \in Seq(WaitRow)
      /\ pc \in AskStages \cup RunStages \cup OtherStages
      /\ waking \in Nat
  BY DEF Shapes, EngineOK, EngineShape, EnginePointers, TableShape
<1>3. Len(reqs) \in Nat /\ Len(waits) \in Nat
  BY <1>2
<1>4. {"running", "sleeping", "waiting_for_approval", "queued"} \subseteq Status
  BY DEF Status, Suspended
<1>5. CASE MarkRunning
  <2>1. /\ [row EXCEPT !.status = "running"] \in RowIn(AnyTool)
        /\ [row EXCEPT !.status = "running"].pend = row.pend
    BY <1>2, <1>4, StatusKeeps
  <2>2. EngineOK'
    BY <1>1, <1>2, <1>5, <2>1
       DEF MarkRunning, Quiet, EngineOK, EngineShape, EnginePointers, OtherStages
  <2> QED BY <1>2, <1>5, <2>2, EngineOnly DEF MarkRunning
<1>6. CASE StartExecution
  <2>1. CASE Return(row) /\ UNCHANGED mem
    <3>1. EngineOK'
      BY <1>2, <2>1, ReturnKeeps
    <3> QED BY <1>2, <1>6, <3>1, EngineOnly DEF StartExecution
  <2>2. CASE row.status \notin Terminal
    <3> DEFINE m == [mem EXCEPT !.paused = FALSE, !.cancelled = FALSE]
               r == [CycleStarted(row) EXCEPT !.status = "running"]
    <3>1. m \in MemIn(AnyTool)
      BY <1>2 DEF MemIn
    <3>2. Hydrate(m, row) \in MemIn(AnyTool)
      BY <1>2, <3>1, HydrateKeeps
    <3>3. CycleStarted(row) \in RowIn(AnyTool) /\ CycleStarted(row).pend = row.pend
      BY <1>2, CycleStartedKeeps
    <3>4. r \in RowIn(AnyTool) /\ r.pend = row.pend
      BY <1>4, <3>3, StatusKeeps
    <3>5. /\ row' = r /\ own' = r /\ mem' = Hydrate(m, row) /\ ask' = NoAsk
          /\ pc' \in {"ask", "walk"} /\ at' = at
          /\ UNCHANGED <<waits, waking, cmd>>
      BY <1>6, <2>2 DEF StartExecution, Save
    <3>6. NoAsk \in [tool : AnyTool, why : Why]
      BY ToolFacts DEF NoAsk, Why
    <3> HIDE DEF m, r
    <3>7. EngineOK'
      BY <1>1, <1>2, <3>2, <3>4, <3>5, <3>6
         DEF Quiet, EngineOK, EngineShape, EnginePointers, AskStages, RunStages
    <3> QED BY <1>2, <3>5, <3>7, EngineOnly
  <2> QED BY <1>6, <2>1, <2>2 DEF StartExecution
<1>7. CASE Finish
  <2>1. EngineOK'
    BY <1>2, <1>7, SuccessEnds, ConcludeEnds DEF Finish
  <2> QED BY <1>2, <1>7, <2>1, EngineOnly DEF Finish
<1>8. CASE SleepWait
  <2> DEFINE new == [kind |-> "sleep", key |-> own.cyc.next, status |-> "pending"]
  <2>1. new \in WaitRow /\ Append(waits, new) \in Seq(WaitRow)
    BY <1>2 DEF WaitRow, RowIn, CycleCounts
  <2>2. PICK a \in Nat : own' = [own EXCEPT !.active = a]
    <3>1. \A S \in SUBSET DOMAIN waits : S # {} => (CHOOSE i \in S : TRUE) \in Nat
      BY <1>2
    <3> QED BY <1>3, <1>8, <3>1 DEF SleepWait, SameWait
  <2>3. own' \in RowIn(AnyTool) /\ own'.pend = own.pend
    BY <1>2, <2>2 DEF RowIn
  <2>4. /\ waits' \in Seq(WaitRow) /\ pc' = "sleep_row"
        /\ UNCHANGED <<row, mem, at, ask, waking, cmd>>
    BY <1>2, <1>8, <2>1 DEF SleepWait
  <2>5. EngineOK'
    BY <1>1, <1>2, <2>3, <2>4
       DEF Quiet, EngineOK, EngineShape, EnginePointers, OtherStages
  <2> QED BY <2>4, <2>5, EngineOnly
<1>9. CASE SleepRow
  <2>1. /\ [own EXCEPT !.status = "sleeping"] \in RowIn(AnyTool)
        /\ [own EXCEPT !.status = "sleeping"].pend = own.pend
    BY <1>2, <1>4, StatusKeeps
  <2>2. EngineOK'
    BY <1>2, <1>9, <2>1, ReturnKeeps DEF SleepRow
  <2> QED BY <1>2, <1>9, <2>2, EngineOnly DEF SleepRow
<1>10. CASE VisitCancelled
  <2>1. EngineOK'
    BY <1>10, CancelledEnds DEF VisitCancelled
  <2> QED BY <1>2, <1>10, <2>1, EngineOnly DEF VisitCancelled
<1>11. CASE Skip
  <2>1. EngineOK'
    BY <1>1, <1>2, <1>11 DEF Skip, Quiet, EngineOK, EngineShape, EnginePointers
  <2> QED BY <1>2, <1>11, <2>1, EngineOnly DEF Skip
<1>12. CASE Enter
  <2>1. EngineOK'
    BY <1>1, <1>2, <1>12, ToolFacts
       DEF Enter, Quiet, EngineOK, EngineShape, EnginePointers, Why, AskStages,
           RunStages
  <2> QED BY <1>2, <1>12, <2>1, EngineOnly DEF Enter
<1>13. CASE Interrupted
  <2>1. EngineOK'
    BY <1>2, <1>13, CancelledEnds, UnwindEnds DEF Interrupted
  <2> QED BY <1>2, <1>13, <2>1, EngineOnly DEF Interrupted
<1>14. CASE TaskReturns
  <2>1. EngineOK'
    BY <1>14, RecordKeeps DEF TaskReturns, Outcomes
  <2> QED BY <1>2, <1>14, <2>1, EngineOnly DEF TaskReturns
<1>15. CASE TaskFails
  <2>1. CASE TaskRaised
    BY <2>1, <1>2, <1>15, RaisedKeeps, EngineOnly DEF TaskFails
  <2>2. CASE /\ pc' = "ask" /\ ask' = [tool |-> Node, why |-> "failure"]
             /\ UNCHANGED <<row, own, mem, at>>
    <3>1. EngineOK'
      BY <1>1, <1>2, <2>2, ToolFacts
         DEF Quiet, EngineOK, EngineShape, EnginePointers, Why, AskStages
    <3> QED BY <1>2, <1>15, <3>1, EngineOnly DEF TaskFails
  <2> QED BY <1>15, <2>1, <2>2 DEF TaskFails
<1>16. CASE Consume
  <2>1. [row EXCEPT !.pend = 0] \in RowIn(AnyTool) /\ [row EXCEPT !.pend = 0].pend = 0
    BY <1>2 DEF RowIn
  <2>2. CASE row' = [row EXCEPT !.pend = 0] /\ Granted /\ UNCHANGED own
    <3>1. EngineOK'
      BY <1>1, <1>2, <1>3, <2>1, <2>2
         DEF Granted, Quiet, EngineOK, EngineShape, EnginePointers, RunStages
    <3> QED BY <1>2, <1>16, <3>1, EngineOnly DEF Consume
  <2>3. CASE Refused
    <3>1. EngineOK'
      <4> DEFINE c == [row EXCEPT !.pend = 0]
      <4>1. c \in RowIn(AnyTool) /\ c.pend <= Len(reqs)
        BY <1>3, <2>1
      <4>2. CASE Unwind(c) /\ UNCHANGED mem
        <5> HIDE DEF c
        <5> QED BY <4>1, <4>2, UnwindEnds
      <4>3. CASE TaskRaised
        BY <4>3, RaisedKeeps
      <4> QED BY <2>3, <4>2, <4>3 DEF Refused
    <3> QED BY <1>2, <1>16, <3>1, EngineOnly DEF Consume
  <2> QED BY <1>16, <2>2, <2>3 DEF Consume
<1>17. CASE CreateWait
  <2>1. Append(waits, [kind |-> "approval", key |-> Len(reqs), status |-> "pending"])
          \in Seq(WaitRow)
    BY <1>2, <1>3 DEF WaitRow
  <2>2. EngineOK'
    BY <1>1, <1>2, <1>17
       DEF CreateWait, Quiet, EngineOK, EngineShape, EnginePointers, AskStages
  <2> QED BY <1>17, <2>1, <2>2, EngineOnly DEF CreateWait
<1>18. CASE Park
  <2>1. row' \in RowIn(AnyTool) /\ row'.pend = Len(reqs)
    BY <1>2, <1>3, <1>4, <1>18 DEF Park, RowIn
  <2>2. EngineOK'
    BY <1>1, <1>2, <1>3, <1>18, <2>1
       DEF Park, Quiet, EngineOK, EngineShape, EnginePointers, AskStages
  <2> QED BY <1>2, <1>18, <2>2, EngineOnly DEF Park
<1>19. CASE Suspend
  <2>1. EngineOK'
    BY <1>2, <1>19, UnwindEnds DEF Suspend
  <2> QED BY <1>2, <1>19, <2>1, EngineOnly DEF Suspend
<1>20. CASE SleepRefused
  <2>1. CASE Fails(own)
    BY <1>2, <1>20, <2>1, FailureEnds, EngineOnly DEF SleepRefused
  <2>2. CASE Return(row) /\ UNCHANGED mem
    BY <1>2, <1>20, <2>2, ReturnKeeps, EngineOnly DEF SleepRefused
  <2> QED BY <1>20, <2>1, <2>2 DEF SleepRefused, Fails
<1>21. CASE WaitRefused
  <2>1. EngineOK'
    BY <1>21, FailRunEnds, RaisedKeeps DEF WaitRefused
  <2> QED BY <1>2, <1>21, <2>1, EngineOnly DEF WaitRefused
<1> QED BY <1>5, <1>6, <1>7, <1>8, <1>9, <1>10, <1>11, <1>12, <1>13, <1>14,
           <1>15, <1>16, <1>17, <1>18, <1>19, <1>20, <1>21

\* A decision changes the latest request of a tool and nothing that was
\* decided otherwise.
LEMMA ResolveKeeps ==
  ASSUME Shapes, NEW tool, NEW status \in {"approved", "rejected"},
         Resolvable(tool, status), Resolve(tool, status)
  PROVE  /\ reqs' \in Seq(RequestIn(AnyTool)) /\ Len(reqs') = Len(reqs)
         /\ waits' \in Seq(WaitRow)
         /\ \A i \in DOMAIN reqs : reqs[i].status = "approved" => reqs'[i] = reqs[i]
<1> DEFINE k == Latest(tool)
<1>1. reqs \in Seq(RequestIn(AnyTool)) /\ waits \in Seq(WaitRow)
  BY DEF Shapes, TableShape
<1>2. /\ reqs' = [reqs EXCEPT ![k].status = status]
      /\ reqs[k].status \in {"pending", status}
  BY DEF Resolve, Resolvable
<1>3. waits' \in Seq(WaitRow)
  <2>1. \A w \in WaitRow : [w EXCEPT !.status = "resolved"] \in WaitRow
    BY DEF WaitRow
  <2> QED BY <1>1, <2>1 DEF Resolve
<1>4. \A q \in RequestIn(AnyTool) : [q EXCEPT !.status = status] \in RequestIn(AnyTool)
  BY DEF RequestIn, RequestStatus
<1> HIDE DEF k
<1>5. CASE k \in DOMAIN reqs
  <2>1. reqs[k] \in RequestIn(AnyTool)
    BY <1>1, <1>5
  <2>2. \A i \in DOMAIN reqs : i # k => reqs'[i] = reqs[i]
    BY <1>1, <1>2
  <2>3. reqs[k].status = "approved" => reqs'[k] = reqs[k]
    BY <1>1, <1>2, <1>5, <2>1 DEF RequestIn
  <2>4. reqs' \in Seq(RequestIn(AnyTool)) /\ Len(reqs') = Len(reqs)
    BY <1>1, <1>2, <1>4, <1>5, <2>1
  <2> QED BY <1>3, <2>2, <2>3, <2>4
<1>6. CASE k \notin DOMAIN reqs
  <2> DEFINE e == [reqs[k] EXCEPT !.status = status]
  <2>1. reqs' = [reqs EXCEPT ![k] = e]
    BY <1>2
  <2> HIDE DEF e
  <2>2. reqs' \in Seq(RequestIn(AnyTool)) /\ Len(reqs') = Len(reqs)
    BY <1>1, <1>6, <2>1, ReplaceKeeps
  <2>3. \A i \in DOMAIN reqs : reqs'[i] = reqs[i]
    BY <1>1, <1>6, <2>1
  <2> QED BY <1>3, <2>2, <2>3
<1> QED BY <1>5, <1>6

\* Expiry touches pending requests only.
LEMMA ExpiredKeeps ==
  ASSUME Shapes
  PROVE  /\ Expired(row) \in Seq(RequestIn(AnyTool))
         /\ Len(Expired(row)) = Len(reqs)
         /\ \A i \in DOMAIN reqs :
              reqs[i].status = "approved" => Expired(row)[i] = reqs[i]
<1>1. reqs \in Seq(RequestIn(AnyTool))
  BY DEF Shapes, TableShape
<1>2. \A q \in RequestIn(AnyTool) : [q EXCEPT !.status = "expired"] \in RequestIn(AnyTool)
  BY DEF RequestIn, RequestStatus
<1>3. CASE row.status = "waiting_for_approval"
  <2> DEFINE e == [i \in DOMAIN reqs |->
                     IF reqs[i].status = "pending" /\ i = Latest(reqs[i].tool)
                     THEN [reqs[i] EXCEPT !.status = "expired"] ELSE reqs[i]]
  <2>1. Expired(row) = e
    BY <1>3 DEF Expired
  <2>2. e \in Seq(RequestIn(AnyTool)) /\ Len(e) = Len(reqs)
    BY <1>1, <1>2
  <2>3. \A i \in DOMAIN reqs : reqs[i].status = "approved" => e[i] = reqs[i]
    BY <1>1
  <2> QED BY <2>1, <2>2, <2>3
<1>4. CASE row.status # "waiting_for_approval"
  BY <1>1, <1>4 DEF Expired
<1> QED BY <1>3, <1>4

LEMMA OtherShapes ==
  ASSUME Shapes, wf' = wf,
         \/ CreateRequest \/ Delegated \/ Decide \/ Wake \/ CycleDue
         \/ BeginStart \/ EndStart \/ BeginPause \/ EndPause \/ BeginCancel
         \/ EndCancel \/ Preserve \/ Crash \/ Restart \/ RecoverLocal \/ RepairStale
  PROVE  Shapes'
<1>1. AnyTool' = AnyTool
  BY SameTools
<1>2. /\ at \in Nat /\ row \in RowIn(AnyTool) /\ own \in RowIn(AnyTool)
      /\ mem \in MemIn(AnyTool) /\ ask \in [tool : AnyTool, why : Why]
      /\ row.pend <= Len(reqs) /\ own.pend <= Len(reqs)
      /\ reqs \in Seq(RequestIn(AnyTool)) /\ waits \in Seq(WaitRow)
      /\ pc \in AskStages \cup RunStages \cup OtherStages
      /\ waking \in Nat /\ cmd.snap \in RowIn(AnyTool)
      /\ cmd.snap.pend <= Len(reqs)
      /\ cmd.op \in {"none", "start", "resume", "pause", "cancel", "preserve"}
  BY DEF Shapes, EngineOK, EngineShape, EnginePointers, TableShape
<1>3. Len(reqs) \in Nat /\ Len(waits) \in Nat
  BY <1>2
<1>4. {"running", "queued", "paused", "cancelling", "cancelled"} \subseteq Status
  BY DEF Status, Suspended, Terminal
<1>5. \A r \in RowIn(AnyTool) : /\ [r EXCEPT !.active = 0] \in RowIn(AnyTool)
                                /\ [r EXCEPT !.active = 0].pend = r.pend
  BY DEF RowIn
<1>6. \A m \in MemIn(AnyTool), b \in BOOLEAN :
        /\ [m EXCEPT !.paused = b] \in MemIn(AnyTool)
        /\ [m EXCEPT !.cancelled = b] \in MemIn(AnyTool)
  BY DEF MemIn
<1>7. /\ NewRow \in RowIn(AnyTool) /\ NewRow.pend = 0 /\ NewMem \in MemIn(AnyTool)
      /\ NoAsk \in [tool : AnyTool, why : Why]
      /\ NoCmd = [op |-> "none", snap |-> NewRow]
  BY NewShapes, ToolFacts DEF NewRow, NoAsk, NoCmd, Why
<1>8. \A kinds : Closed(kinds) \in Seq(WaitRow)
  <2>1. \A w \in WaitRow : [w EXCEPT !.status = "cancelled"] \in WaitRow
    BY DEF WaitRow
  <2> QED BY <1>2, <2>1 DEF Closed
<1>9. CASE CreateRequest
  <2> DEFINE q == [tool |-> ask.tool, why |-> ask.why, status |-> "pending"]
  <2>1. q \in RequestIn(AnyTool)
    BY <1>2 DEF RequestIn, RequestStatus
  <2>2. Append(reqs, q) \in Seq(RequestIn(AnyTool)) /\ Len(Append(reqs, q)) = Len(reqs) + 1
    BY <1>2, <2>1
  <2>3. /\ reqs' = Append(reqs, q) /\ pc' = "wait"
        /\ UNCHANGED <<row, own, mem, at, ask, waits, waking, cmd>>
    BY <1>9 DEF CreateRequest
  <2> HIDE DEF q
  <2>4. Len(reqs') = Len(reqs) + 1
    BY <2>2, <2>3
  <2>5. row.pend \in Nat /\ own.pend \in Nat /\ cmd.snap.pend \in Nat
    BY <1>2 DEF RowIn
  <2>6. /\ row'.pend <= Len(reqs') /\ own'.pend <= Len(reqs')
        /\ cmd'.snap.pend <= Len(reqs')
    BY <1>2, <1>3, <2>3, <2>4, <2>5
  <2>7. reqs' \in Seq(RequestIn(AnyTool))
    BY <2>2, <2>3
  <2> QED BY <1>1, <1>2, <2>3, <2>6, <2>7
          DEF Shapes, EngineOK, EngineShape, EnginePointers, TableShape, AskStages
<1>10. CASE Delegated
  <2>1. /\ reqs' \in Seq(RequestIn(AnyTool)) /\ Len(reqs') = Len(reqs)
        /\ waits' \in Seq(WaitRow)
    BY <1>2, <1>10, ResolveKeeps DEF Delegated
  <2>2. row' \in RowIn(AnyTool) /\ row'.pend = 0
    BY <1>2, <1>4, <1>10 DEF Delegated, RowIn
  <2>3. /\ pc' \in RunStages /\ UNCHANGED <<own, mem, at, ask, waking, cmd>>
    BY <1>10 DEF Delegated, Granted, RunStages
  <2> QED BY <1>1, <1>2, <1>3, <2>1, <2>2, <2>3
          DEF Shapes, EngineOK, EngineShape, EnginePointers, TableShape
<1>11. CASE Decide
  <2>1. /\ reqs' \in Seq(RequestIn(AnyTool)) /\ Len(reqs') = Len(reqs)
        /\ waits' \in Seq(WaitRow)
    BY <1>11, ResolveKeeps DEF Decide
  <2>2. waking' \in Nat /\ UNCHANGED <<row, own, mem, pc, at, ask, cmd>>
    BY <1>2, <1>11 DEF Decide, engine, RowIn
  <2> QED BY <1>1, <1>2, <2>1, <2>2
          DEF Shapes, EngineOK, EngineShape, EnginePointers, TableShape
<1>12. ASSUME NEW r \in RowIn(AnyTool), r.pend <= Len(reqs), QueueStart(r),
              mem' \in MemIn(AnyTool), waits' \in Seq(WaitRow), waking' \in Nat,
              reqs' = reqs, cmd' \in {cmd, NoCmd}
       PROVE  Shapes'
  <2>1. row' \in RowIn(AnyTool) /\ row'.pend = r.pend
    BY <1>4, <1>12, StatusKeeps DEF QueueStart
  <2>2. /\ pc' \in AskStages \cup RunStages \cup OtherStages
        /\ UNCHANGED <<own, at, ask>>
    BY <1>2, <1>12 DEF QueueStart, OtherStages
  <2>3. /\ cmd' \in [op : {"none", "start", "resume", "pause", "cancel", "preserve"},
                     snap : RowIn(AnyTool)]
        /\ cmd'.snap.pend <= Len(reqs)
    BY <1>2, <1>3, <1>7, <1>12 DEF Shapes, TableShape
  <2> QED BY <1>1, <1>2, <1>12, <2>1, <2>2, <2>3
          DEF Shapes, EngineOK, EngineShape, EnginePointers, TableShape
<1>13. CASE Wake
  <2>1. CASE QueueStart([row EXCEPT !.active = 0]) /\ mem' = [mem EXCEPT !.paused = FALSE]
    BY <1>2, <1>5, <1>6, <1>12, <1>13, <2>1 DEF Wake
  <2>2. CASE UNCHANGED <<row, engine>>
    BY <1>1, <1>2, <1>13, <2>2
       DEF Wake, engine, Shapes, EngineOK, EngineShape, EnginePointers, TableShape
  <2> QED BY <1>13, <2>1, <2>2 DEF Wake
<1>14. CASE CycleDue
  <2>1. waits' \in Seq(WaitRow)
    <3> DEFINE e == [waits[row.active] EXCEPT !.status = "resolved"]
    <3>1. row.active \in DOMAIN waits => e \in WaitRow
      <4>1. \A w \in WaitRow : [w EXCEPT !.status = "resolved"] \in WaitRow
        BY DEF WaitRow
      <4> QED BY <1>2, <4>1
    <3>2. waits' = [waits EXCEPT ![row.active] = e]
      BY <1>14 DEF CycleDue
    <3> HIDE DEF e
    <3> QED BY <1>2, <3>1, <3>2, ReplaceKeeps
  <2> QED BY <1>2, <1>5, <1>6, <1>12, <1>14, <2>1 DEF CycleDue
<1>15. CASE BeginStart
  <2>1. PICK op \in {"start", "resume"} :
          /\ cmd' = [op |-> op, snap |-> row]
          /\ mem' = IF op = "resume" THEN [mem EXCEPT !.paused = FALSE] ELSE mem
    BY <1>15 DEF BeginStart
  <2>2. mem' \in MemIn(AnyTool)
    BY <1>2, <1>6, <2>1
  <2>3. UNCHANGED <<row, own, pc, at, ask, reqs, waits, waking>>
    BY <1>15 DEF BeginStart
  <2> QED BY <1>1, <1>2, <2>1, <2>2, <2>3
          DEF Shapes, EngineOK, EngineShape, EnginePointers, TableShape
<1>16. CASE EndStart
  BY <1>2, <1>12, <1>16 DEF EndStart
<1>17. ASSUME row' \in RowIn(AnyTool), row'.pend <= Len(reqs),
              mem' \in MemIn(AnyTool), waits' \in Seq(WaitRow),
              cmd'.snap \in RowIn(AnyTool), cmd'.snap.pend <= Len(reqs),
              cmd' \in [op : {"none", "start", "resume", "pause", "cancel",
                              "preserve"}, snap : RowIn(AnyTool)],
              UNCHANGED <<own, pc, at, ask, reqs, waking>>
       PROVE  Shapes'
  BY <1>1, <1>2, <1>17
     DEF Shapes, EngineOK, EngineShape, EnginePointers, TableShape
<1>18. CASE BeginPause
  <2> DEFINE r == IF row.status = "sleeping"
                  THEN [row EXCEPT !.status = "paused", !.active = 0] ELSE row
  <2>1. r \in RowIn(AnyTool) /\ r.pend = row.pend
    BY <1>2, <1>4 DEF RowIn
  <2>2. row' = r /\ cmd' = [op |-> "pause", snap |-> r]
    BY <1>18 DEF BeginPause
  <2> HIDE DEF r
  <2>3. mem' \in MemIn(AnyTool) /\ waits' \in Seq(WaitRow)
    BY <1>2, <1>6, <1>8, <1>18 DEF BeginPause
  <2>4. UNCHANGED <<own, pc, at, ask, reqs, waking>>
    BY <1>18 DEF BeginPause
  <2> QED BY <1>2, <1>17, <2>1, <2>2, <2>3, <2>4
<1>19. CASE EndPause
  <2>1. row' \in RowIn(AnyTool) /\ row'.pend <= Len(reqs)
    BY <1>2, <1>4, <1>19, StatusKeeps DEF EndPause
  <2>2. cmd' = NoCmd /\ UNCHANGED <<own, mem, pc, at, ask, reqs, waits, waking>>
    BY <1>19 DEF EndPause, engine
  <2> QED BY <1>2, <1>3, <1>7, <1>17, <2>1, <2>2
<1>20. CASE BeginCancel
  <2>1. row' \in RowIn(AnyTool) /\ row'.pend = row.pend
    BY <1>2, <1>4, <1>20 DEF BeginCancel, RowIn
  <2> DEFINE c == [NewRow EXCEPT !.ckpt = row.ckpt]
  <2>2. c \in RowIn(AnyTool) /\ c.pend = 0
    BY <1>2, <1>7 DEF RowIn
  <2>3. /\ cmd' = [op |-> "cancel", snap |-> c]
        /\ waits' \in Seq(WaitRow)
        /\ UNCHANGED <<own, mem, pc, at, ask, reqs, waking>>
    BY <1>8, <1>20 DEF BeginCancel, engine
  <2> HIDE DEF c
  <2> QED BY <1>2, <1>3, <1>17, <2>1, <2>2, <2>3
<1>21. CASE EndCancel
  <2>1. row' \in RowIn(AnyTool) /\ row'.pend = row.pend /\ mem' \in MemIn(AnyTool)
    <3>1. CASE UNCHANGED <<row, mem>>
      BY <1>2, <3>1
    <3>2. CASE /\ mem' = [mem EXCEPT !.cancelled = TRUE]
               /\ row' = [row EXCEPT !.status = IF @ = "running" THEN "cancelling"
                                                ELSE "cancelled"]
      BY <1>2, <1>4, <1>6, <3>2 DEF RowIn
    <3> QED BY <1>21, <3>1, <3>2 DEF EndCancel
  <2>2. /\ cmd' \in {NoCmd, [op |-> "preserve", snap |-> row']}
        /\ UNCHANGED <<own, pc, at, ask, reqs, waits, waking>>
    BY <1>21 DEF EndCancel
  <2> QED BY <1>2, <1>3, <1>7, <1>17, <2>1, <2>2
<1>22. CASE Preserve
  <2>1. /\ row' = cmd.snap /\ cmd' = NoCmd
        /\ UNCHANGED <<own, mem, pc, at, ask, reqs, waits, waking>>
    BY <1>22 DEF Preserve, engine
  <2> QED BY <1>2, <1>3, <1>7, <1>17, <2>1
<1>23. CASE Crash
  BY <1>1, <1>2, <1>3, <1>7, <1>23
     DEF Crash, Shapes, EngineOK, EngineShape, EnginePointers, TableShape,
         OtherStages
<1>24. CASE Restart \/ RecoverLocal \/ RepairStale
  <2>1. /\ Repaired(row) \in RowIn(AnyTool) /\ Repaired(row).pend \in {0, row.pend}
        /\ Expired(row) \in Seq(RequestIn(AnyTool)) /\ Len(Expired(row)) = Len(reqs)
    BY <1>2, RepairedKeeps, ExpiredKeeps
  <2>2. /\ row' \in {row, Repaired(row)} /\ reqs' \in {reqs, Expired(row)}
        /\ pc' \in {pc, "queued", "idle"}
        /\ UNCHANGED <<own, mem, at, ask, waits, waking, cmd>>
    BY <1>24 DEF Restart, RecoverLocal, RepairStale, engine
  <2>3. /\ row' \in RowIn(AnyTool) /\ row'.pend <= Len(reqs)
        /\ reqs' \in Seq(RequestIn(AnyTool)) /\ Len(reqs') = Len(reqs)
    BY <1>2, <1>3, <2>1, <2>2
  <2> QED BY <1>1, <1>2, <2>2, <2>3
          DEF Shapes, EngineOK, EngineShape, EnginePointers, TableShape, OtherStages
<1> QED BY <1>9, <1>10, <1>11, <1>13, <1>14, <1>15, <1>16, <1>18, <1>19, <1>20,
           <1>21, <1>22, <1>23, <1>24

\* Every step keeps the shapes.
LEMMA ShapesStay == ASSUME Shapes, Next PROVE Shapes'
<1>1. wf' = wf
  BY DefinitionStays
<1>2. CASE \/ CreateRequest \/ Delegated \/ Environment
  BY <1>1, <1>2, OtherShapes DEF Environment
<1>3. CASE Engine /\ ~CreateRequest /\ ~Delegated
  <2>1. Quiet
    BY <1>1, <1>3
       DEF Quiet, Engine, MarkRunning, StartExecution, Finish, SleepWait,
           SleepRefused, SleepRow, VisitCancelled, Skip, Enter, Interrupted, TaskReturns,
           TaskFails, Consume, CreateWait, WaitRefused, Park, Suspend
  <2> QED BY <1>3, <2>1, EngineShapes DEF Engine
<1> QED BY <1>2, <1>3 DEF Next

-----------------------------------------------------------------------------
(* Gates.                                                                  *)

\* An approval that was given is not taken back.
LEMMA GrantsStay ==
  ASSUME Shapes, Next, NEW t, NEW w, GrantedFor(t, w)
  PROVE  GrantedFor(t, w)'
<1>1. reqs \in Seq(RequestIn(AnyTool))
  BY DEF Shapes, TableShape
<1>2. PICK i \in DOMAIN reqs :
        reqs[i] = [tool |-> t, why |-> w, status |-> "approved"]
  BY DEF GrantedFor
<1>3. SUFFICES i \in DOMAIN reqs' /\ reqs'[i] = reqs[i]
  BY <1>2 DEF GrantedFor
<1>4. CASE UNCHANGED reqs
  BY <1>4
<1>5. CASE CreateRequest
  BY <1>1, <1>5 DEF CreateRequest
<1>6. ASSUME /\ reqs' \in Seq(RequestIn(AnyTool)) /\ Len(reqs') = Len(reqs)
             /\ \A j \in DOMAIN reqs : reqs[j].status = "approved" => reqs'[j] = reqs[j]
      PROVE  i \in DOMAIN reqs' /\ reqs'[i] = reqs[i]
  BY <1>1, <1>2, <1>6
<1>7. CASE Delegated \/ Decide
  <2>1. CASE UNCHANGED reqs
    BY <2>1, <1>4
  <2>2. ASSUME NEW tool, NEW status \in {"approved", "rejected"},
               Resolvable(tool, status), Resolve(tool, status)
        PROVE  i \in DOMAIN reqs' /\ reqs'[i] = reqs[i]
    BY <1>6, <2>2, ResolveKeeps
  <2>3. CASE Delegated
    BY <2>1, <2>2, <2>3 DEF Delegated
  <2>4. CASE Decide
    BY <2>2, <2>4 DEF Decide
  <2> QED BY <1>7, <2>3, <2>4
<1>8. CASE RecoverLocal \/ RepairStale
  <2>1. CASE reqs' = Expired(row)
    BY <1>6, <2>1, ExpiredKeeps
  <2> QED BY <1>4, <1>8, <2>1 DEF RecoverLocal, RepairStale
<1> QED BY <1>4, <1>5, <1>7, <1>8
    DEF Next, Engine, Environment, MarkRunning, StartExecution, Finish,
        SleepWait, SleepRefused, SleepRow, VisitCancelled, Skip, Enter, Interrupted,
        TaskReturns, TaskFails, Consume, CreateWait, WaitRefused, Park, Suspend, Wake,
        CycleDue, BeginStart, EndStart, BeginPause, EndPause, BeginCancel,
        EndCancel, Preserve, Crash, Restart

\* The gate of one step: what RunsAreApproved says of it.
Approved ==
  StartsTask /\ ~wf.delegate =>
    /\ Policy(Node) = "required" => GrantedFor(Node, "policy")'
    /\ wf.mode = "before_run" => GrantedFor("workflow", "policy")'

\* A step that leaves the walk, or moves nothing of it, opens no gate.
LEMMA Aside ==
  ASSUME IInv, Next,
         \/ pc' \in OtherStages
         \/ pc' = pc /\ ask' = ask /\ at' = at
  PROVE  AskIsForNode' /\ WalkIsGranted' /\ Approved
<1>1. wf' = wf
  BY DefinitionStays
<1>2. Shapes /\ (GrantedFor("workflow", "policy") => GrantedFor("workflow", "policy")')
  BY GrantsStay DEF IInv
<1>3. ~StartsTask
  BY DEF StartsTask, OtherStages
<1>4. CASE pc' \in OtherStages
  BY <1>3, <1>4 DEF AskIsForNode, WalkIsGranted, Approved, OtherStages, AskStages,
                    RunStages
<1>5. CASE pc' = pc /\ ask' = ask /\ at' = at
  BY <1>1, <1>2, <1>3, <1>5
     DEF IInv, AskIsForNode, WalkIsGranted, Approved, Node, Policy
<1> QED BY <1>4, <1>5

\* Within the walk, a step back to it keeps what was granted.
LEMMA BackToWalk ==
  ASSUME IInv, Next, pc' = "walk",
         pc \in RunStages \/ (pc \in AskStages /\ ask.tool # "workflow")
  PROVE  AskIsForNode' /\ WalkIsGranted' /\ Approved
<1>1. wf' = wf
  BY DefinitionStays
<1>2. Shapes /\ (GrantedFor("workflow", "policy") => GrantedFor("workflow", "policy")')
  BY GrantsStay DEF IInv
<1>3. ~StartsTask
  BY DEF StartsTask
<1>4. AskIsForNode'
  BY DEF AskIsForNode, AskStages
<1>5. WalkIsGranted'
  BY <1>1, <1>2 DEF IInv, WalkIsGranted, AskStages, RunStages, NoAsk
<1> QED BY <1>3, <1>4, <1>5 DEF Approved

\* A run that ends, from any stage of it.
LEMMA RaisedGates ==
  ASSUME IInv, Next, Quiet, TaskRaised,
         pc \in RunStages \/ (pc \in AskStages /\ ask.tool # "workflow")
  PROVE  AskIsForNode' /\ WalkIsGranted' /\ Approved
<1>1. pc' = "walk" \/ pc' \in OtherStages
  BY RaisedKeeps DEF IInv
<1> QED BY <1>1, Aside, BackToWalk

\* The steps of the engine at its gates.
LEMMA EngineGates ==
  ASSUME IInv, Next, Engine
  PROVE  AskIsForNode' /\ WalkIsGranted' /\ Approved
<1>1. wf' = wf /\ Shapes
  BY DefinitionStays DEF IInv
<1>2. GrantedFor("workflow", "policy") => GrantedFor("workflow", "policy")'
  BY <1>1, GrantsStay
<1>3. CASE MarkRunning \/ SleepWait \/ SleepRow
  BY <1>3, Aside DEF MarkRunning, SleepWait, SleepRow, Return, OtherStages
<1>4. CASE StartExecution
  <2>1. CASE pc' = "idle"
    BY <2>1, Aside DEF OtherStages
  <2>2. CASE pc' = (IF wf.mode = "before_run" THEN "ask" ELSE "walk") /\ ask' = NoAsk
    <3>1. ~StartsTask
      BY <1>4 DEF StartExecution, StartsTask
    <3> QED BY <1>1, <2>2, <3>1
            DEF AskIsForNode, WalkIsGranted, Approved, NoAsk, AskStages, RunStages
  <2> QED BY <1>4, <2>1, <2>2 DEF StartExecution, Return
<1>5. CASE Finish
  <2>1. own \in RowIn(AnyTool) /\ own.pend <= Len(reqs) /\ Quiet
    BY <1>1, <1>5 DEF Finish, Quiet, Shapes, EngineOK, EngineShape, EnginePointers
  <2>2. pc' \in OtherStages
    BY <1>1, <1>5, <2>1, SuccessEnds, ConcludeEnds DEF Finish
  <2> QED BY <2>2, Aside
<1>6. CASE VisitCancelled \/ Interrupted \/ Suspend
  <2>1. pc' = "idle"
    BY <1>6 DEF VisitCancelled, Interrupted, Suspend, EndCancelled, Unwind, Return
  <2> QED BY <2>1, Aside DEF OtherStages
<1>7. CASE Skip
  BY <1>7, BackToWalk DEF Skip, RunStages
<1>8. CASE Enter
  <2>1. Node' = Node /\ Policy(Node)' = Policy(Node)
    BY <1>1, <1>8 DEF Enter, Node, Policy
  <2>2. AskIsForNode'
    BY <1>8, <2>1 DEF Enter, AskIsForNode
  <2>3. wf.mode = "before_run" /\ ~wf.delegate => GrantedFor("workflow", "policy")'
    BY <1>2, <1>8 DEF Enter, IInv, WalkIsGranted, RunStages
  <2>4. StartsTask => Policy(Node) # "required"
    BY <1>8 DEF Enter, StartsTask
  <2> QED BY <1>1, <2>2, <2>3, <2>4 DEF WalkIsGranted, Approved
<1>9. CASE TaskReturns
  <2>1. Quiet /\ pc \in RunStages
    BY <1>1, <1>9 DEF TaskReturns, Quiet, RunStages
  <2>2. pc' \in {"walk", "idle"}
    BY <1>1, <1>9, <2>1, RecordKeeps DEF TaskReturns, Outcomes
  <2> QED BY <2>1, <2>2, Aside, BackToWalk DEF OtherStages
<1>10. CASE TaskFails
  <2>1. Quiet /\ pc \in RunStages /\ pc # "walk"
    BY <1>1, <1>10 DEF TaskFails, Quiet, RunStages
  <2>2. CASE TaskRaised
    BY <2>1, <2>2, RaisedGates
  <2>3. CASE /\ Policy(Node) = "on_failure" /\ pc' = "ask" /\ at' = at
             /\ ask' = [tool |-> Node, why |-> "failure"]
    <3>1. Node' = Node /\ Policy(Node)' = Policy(Node)
      BY <1>1, <2>3 DEF Node, Policy
    <3>2. AskIsForNode'
      BY <2>3, <3>1 DEF AskIsForNode
    <3>3. wf.mode = "before_run" /\ ~wf.delegate => GrantedFor("workflow", "policy")'
      BY <1>2, <2>1 DEF IInv, WalkIsGranted
    <3>4. ~StartsTask
      BY <2>3 DEF StartsTask
    <3> QED BY <1>1, <3>2, <3>3, <3>4 DEF WalkIsGranted, Approved
  <2> QED BY <1>10, <2>2, <2>3 DEF TaskFails
<1>11. CASE Consume
  <2>1. Quiet /\ pc = "ask" /\ Decided(row.pend)
    BY <1>1, <1>11 DEF Consume, Quiet
  <2>2. CASE Refused
    <3>1. CASE ask.tool = "workflow"
      BY <2>2, <3>1, Aside DEF Refused, Unwind, Return, OtherStages
    <3>2. CASE ask.tool # "workflow"
      BY <2>1, <2>2, <3>2, RaisedGates DEF Refused, AskStages
    <3> QED BY <3>1, <3>2
  <2>3. CASE reqs[row.pend].status = "approved" /\ Granted
    <3>1. reqs[row.pend] = [tool |-> ask.tool, why |-> ask.why, status |-> "approved"]
          /\ row.pend \in DOMAIN reqs
      <4>1. reqs \in Seq(RequestIn(AnyTool)) /\ row.pend \in Nat /\ row.pend <= Len(reqs)
        BY <1>1 DEF Shapes, EngineOK, EngineShape, EnginePointers, TableShape, RowIn
      <4>2. row.pend \in DOMAIN reqs
        BY <2>1, <4>1 DEF Decided
      <4>3. reqs[row.pend] \in RequestIn(AnyTool)
        BY <4>1, <4>2
      <4> QED BY <2>1, <2>3, <4>2, <4>3 DEF Decided, RequestIn
    <3>2. GrantedFor(ask.tool, ask.why)'
      BY <2>1, <2>3, <3>1 DEF GrantedFor, Quiet, Granted
    <3>3. Node' = Node
      BY <1>1, <2>3 DEF Granted, Node
    <3>4. wf.mode = "before_run" /\ ~wf.delegate => GrantedFor("workflow", "policy")'
      BY <1>2, <2>1, <2>3, <3>2 DEF IInv, WalkIsGranted, AskStages, NoAsk, Granted
    <3>5. AskIsForNode'
      BY <2>3 DEF Granted, AskIsForNode, AskStages
    <3>6. ASSUME StartsTask, Policy(Node) = "required"
          PROVE  GrantedFor(Node, "policy")'
      <4>1. ask.tool = Node /\ ask.why # "failure"
        BY <2>1, <2>3, <3>6 DEF IInv, AskIsForNode, AskStages, Granted, StartsTask
      <4>2. ask.why = "policy"
        BY <1>1, <4>1 DEF Shapes, EngineOK, EngineShape, Why
      <4>3. ask' = ask
        BY <2>3 DEF Granted
      <4> QED BY <3>2, <3>3, <4>1, <4>2, <4>3 DEF GrantedFor
    <3> QED BY <1>1, <3>4, <3>5, <3>6 DEF WalkIsGranted, Approved
  <2> QED BY <1>11, <2>2, <2>3 DEF Consume
<1>12. CASE CreateRequest \/ CreateWait \/ Park
  <2>1. /\ pc \in AskStages /\ pc' \in AskStages /\ ask' = ask /\ at' = at
    BY <1>12 DEF CreateRequest, CreateWait, Park, AskStages
  <2>2. Node' = Node /\ Policy(Node)' = Policy(Node)
    BY <1>1, <2>1 DEF Node, Policy
  <2>3. ~StartsTask
    BY <2>1 DEF StartsTask, AskStages
  <2>4. AskIsForNode'
    BY <2>1, <2>2 DEF IInv, AskIsForNode
  <2>5. WalkIsGranted'
    BY <1>1, <1>2, <2>1 DEF IInv, WalkIsGranted, AskStages, RunStages
  <2> QED BY <2>3, <2>4, <2>5 DEF Approved
<1>13. CASE Delegated
  <2>1. wf.delegate /\ pc' \in RunStages
    BY <1>13 DEF Delegated, Granted, RunStages
  <2> QED BY <1>1, <2>1
          DEF AskIsForNode, WalkIsGranted, Approved, AskStages, RunStages
<1>14. CASE SleepRefused
  <2>1. own \in RowIn(AnyTool) /\ own.pend <= Len(reqs) /\ Quiet
    BY <1>1, <1>14
       DEF SleepRefused, Quiet, Shapes, EngineOK, EngineShape, EnginePointers
  <2>2. pc' \in OtherStages
    BY <1>1, <1>14, <2>1, FailureEnds DEF SleepRefused, Fails, Return, OtherStages
  <2> QED BY <2>2, Aside
<1>15. CASE WaitRefused
  <2>1. Quiet /\ pc \in AskStages
    BY <1>1, <1>15 DEF WaitRefused, Quiet, AskStages
  <2>2. CASE FailRun
    BY <1>1, <2>1, <2>2, FailRunEnds, Aside
  <2>3. CASE TaskRaised /\ ask.tool # "workflow"
    BY <2>1, <2>3, RaisedGates
  <2> QED BY <1>15, <2>2, <2>3 DEF WaitRefused
<1> QED BY <1>3, <1>4, <1>5, <1>6, <1>7, <1>8, <1>9, <1>10, <1>11, <1>12, <1>13,
           <1>14, <1>15
    DEF Engine

\* Operators, timers, crashes and repairs move nothing of a walk, or end it.
LEMMA OtherGates ==
  ASSUME IInv, Next, Environment
  PROVE  AskIsForNode' /\ WalkIsGranted' /\ Approved
<1>1. \/ pc' \in OtherStages
      \/ pc' = pc /\ ask' = ask /\ at' = at
  BY DEF Environment, Decide, Wake, CycleDue, QueueStart, BeginStart, EndStart,
         BeginPause, EndPause, BeginCancel, EndCancel, Preserve, Crash, Restart,
         RecoverLocal, RepairStale, engine, OtherStages
<1> QED BY <1>1, Aside

\* Every step keeps the invariant and opens no gate without its approval.
LEMMA StepIsApproved ==
  ASSUME IInv, [Next]_vars
  PROVE  IInv' /\ Approved
<1>1. CASE Next
  <2>1. Shapes'
    BY <1>1, ShapesStay DEF IInv
  <2>2. AskIsForNode' /\ WalkIsGranted' /\ Approved
    BY <1>1, EngineGates, OtherGates DEF Next
  <2> QED BY <2>1, <2>2 DEF IInv
<1>2. CASE UNCHANGED vars
  <2>1. AnyTool' = AnyTool
    BY <1>2, SameTools DEF vars
  <2>2. Shapes'
    BY <1>2, <2>1 DEF vars, IInv, Shapes, EngineOK, EngineShape, EnginePointers,
                      TableShape
  <2>3. AskIsForNode' /\ WalkIsGranted'
    BY <1>2 DEF vars, IInv, AskIsForNode, WalkIsGranted, Node, Policy, GrantedFor
  <2>4. ~StartsTask
    BY <1>2 DEF vars, StartsTask
  <2> QED BY <2>2, <2>3, <2>4 DEF IInv, Approved
<1> QED BY <1>1, <1>2

LEMMA InitInv == Init => IInv
<1> SUFFICES ASSUME Init PROVE IInv
  OBVIOUS
<1>1. /\ row = NewRow /\ own = NewRow /\ mem = NewMem /\ pc = "idle" /\ at = 1
      /\ ask = NoAsk /\ reqs = << >> /\ waits = << >> /\ waking = 0 /\ cmd = NoCmd
  BY DEF Init
<1>2. NewRow \in RowIn(AnyTool) /\ NewMem \in MemIn(AnyTool) /\ NewRow.pend = 0
  BY NewShapes DEF NewRow
<1>3. NoAsk \in [tool : AnyTool, why : Why]
  BY ToolFacts DEF NoAsk, Why
<1>4. Shapes
  BY <1>1, <1>2, <1>3 DEF Shapes, EngineOK, EngineShape, EnginePointers,
                          TableShape, OtherStages, NoCmd
<1> QED BY <1>1, <1>4 DEF IInv, AskIsForNode, WalkIsGranted, AskStages, RunStages

\* No task that needs an approval is started without an approved request of
\* its own, and no task of a workflow with approval before the run without
\* that approval, whatever operators, crashes and repairs do in between
\* (engine.py:1718, approvals.py:160).
THEOREM GatesHold == Spec => RunsAreApproved
<1>1. IInv /\ [Next]_vars => IInv'
  BY StepIsApproved
<1>2. IInv /\ [Next]_vars => [StartsTask /\ ~wf.delegate =>
       /\ Policy(Node) = "required" => GrantedFor(Node, "policy")'
       /\ wf.mode = "before_run" => GrantedFor("workflow", "policy")']_vars
  BY StepIsApproved DEF Approved
<1> QED BY <1>1, <1>2, InitInv, PTL DEF Spec, RunsAreApproved
==============================================================================
