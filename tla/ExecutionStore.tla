--------------------------- MODULE ExecutionStore ---------------------------
(***************************************************************************)
(* Status vocabulary of the execution runtime and the row shapes that the  *)
(* execution store persists (app/domain/executions.py,                     *)
(* app/domain/execution_waits.py, app/runtime/native/state.py).            *)
(* No state here: the modules of the runtime share these definitions.      *)
(***************************************************************************)

\* TERMINAL_EXECUTION_STATUSES: nothing may run again under this identity.
Terminal == {"completed", "failed", "cancelled"}

\* DURABLE_WAIT_EXECUTION_STATUSES: suspended on a row of execution_waits.
DurableWait == {"waiting_for_input", "waiting_for_approval",
                "waiting_for_event", "sleeping"}

\* ExecutionStatus
Status == {"created", "queued", "running", "paused", "cancelling"}
             \cup DurableWait \cup Terminal

WaitKind == {"input", "approval", "event", "sleep"}

\* Mutant: a kind of wait is announced by a status the enumeration lacks.
KindAsStatus == [k \in WaitKind |-> k]

\* WAIT_EXECUTION_STATUS: the status that announces a wait of each kind.
WaitExecutionStatus ==
  [k \in WaitKind |->
     CASE k = "input"    -> "waiting_for_input"
       [] k = "approval" -> "waiting_for_approval"
       [] k = "event"    -> "waiting_for_event"
       [] k = "sleep"    -> "sleeping"]

\* WAIT_CREATION_SOURCE_STATUSES: a durable wait may be created from here.
WaitCreationSource == {"paused"} \cup DurableWait

\* TERMINAL_EXECUTION_WAIT_STATUSES
WaitTerminal == {"resolved", "expired", "cancelled"}

\* "absent": no such row in execution_waits yet.
WaitStatus == {"absent", "pending"} \cup WaitTerminal
=============================================================================
