----------------------------- MODULE WaitLedger -----------------------------
(***************************************************************************)
(* What the execution_waits table promises (docs/runtime.md, "Resolution   *)
(* is an atomic single claim"): an execution has at most one open wait, a  *)
(* wait is closed once and for ever by one key, and the wakeup of a closed *)
(* wait is announced at most once.  No handler, no interleaving.           *)
(***************************************************************************)
EXTENDS ExecutionStore, Naturals

CONSTANTS Executions, Waits, ResolutionKeys, None

VARIABLES
  ledger,     \* the wait table: status, execution and winning key of a wait
  announced   \* number of wakeups announced for a wait

lvars == <<ledger, announced>>

Entry(s, e, k) == [status |-> s, exec |-> e, key |-> k]

Init ==
  /\ ledger = [w \in Waits |-> Entry("absent", None, None)]
  /\ announced = [w \in Waits |-> 0]

\* A wait is opened for an execution that has no open one.
Open(w, e) ==
  /\ ledger[w].status = "absent"
  /\ \A v \in Waits : ledger[v].exec = e => ledger[v].status # "pending"
  /\ ledger' = [ledger EXCEPT ![w] = Entry("pending", e, None)]
  /\ UNCHANGED announced

\* The first key to arrive closes the wait.
Claim(w) ==
  /\ ledger[w].status = "pending"
  /\ \E s \in WaitTerminal, k \in ResolutionKeys :
       ledger' = [ledger EXCEPT ![w] = Entry(s, ledger[w].exec, k)]
  /\ UNCHANGED announced

\* The wakeup is announced once, after the claim.
Announce(w) ==
  /\ ledger[w].status \in WaitTerminal
  /\ announced[w] = 0
  /\ announced' = [announced EXCEPT ![w] = 1]
  /\ UNCHANGED ledger

Next ==
  \E w \in Waits : \/ \E e \in Executions : Open(w, e)
                   \/ Claim(w)
                   \/ Announce(w)

Spec == Init /\ [][Next]_lvars
=============================================================================
