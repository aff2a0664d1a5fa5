---------------------------- MODULE GraphOutbox ----------------------------
(***************************************************************************)
(* The outbox between Postgres and Neo4j: the services that write a record *)
(* and then append an event about it (memory service, workflow repository, *)
(* execution store, memory links, personas, backfill), the outbox table    *)
(* (app/db/repositories/graph_projection.py) and the processes that apply  *)
(* it to the graph (projection loop, rebuild and replay commands).         *)
(*                                                                         *)
(* Every repository call is a transaction of its own.  A caller therefore  *)
(* is a list of steps still to do, each a row write or an append; a        *)
(* projector lists a batch and then applies and marks one event at a time. *)
(* An outbox row is identified by its occurred_at, the order list_events   *)
(* returns: an event is stamped when its handler builds it and inserted in *)
(* a later step.                                                           *)
(***************************************************************************)
EXTENDS GraphProjection, Sequences, SequencesExt

CONSTANTS
  Workflows, Memories, Executions, Links, Personas,  \* record ids
  WorkflowRefs,   \* payloads a workflow definition may have
  MemoryRefs,     \* payloads a memory may have
  Inactive,       \* those of a superseded or archived memory
  LinkRefs,       \* payloads a workflow memory link may have
  PersonaEvents,  \* pairs <<type, payload>> the persona factory appends
  RunEvents,      \* pairs <<type, payload>> an execution emits
  HintRefs,       \* payloads of approved source intelligence hints
  Before,         \* payloads of records written before the outbox was added
  Uploads,        \* pairs <<document, memories>> a user may upload
  Extracted,      \* entities found in a memory, {} with extraction disabled
  Callers,        \* concurrent requests of the backend
  Loops,          \* project-neo4j-loop processes
  Shells,         \* operators' shells that run the graph-projection CLI
  Operations,     \* the requests the callers make
  Commands,       \* the commands the operators run
  BatchSize,      \* --limit and --batch-size
  MaxEvents,      \* bound on stamped events
  MaxCommands,    \* bound on CLI commands in a behaviour
  MaxFaults,      \* bound on crashes and failed calls in a behaviour
  Faulty,         \* the callers and projectors they may happen to
  Watched         \* the events EventsAreDecided follows

ASSUME OutboxAssumption ==
  /\ BatchSize \in Nat \ {0}
  /\ MaxEvents \in Nat /\ MaxCommands \in Nat /\ MaxFaults \in Nat
  /\ Loops \cap Shells = {}

(* An id names one record, a request handles finitely many of them, and an *)
(* upload creates memories.                                                *)
ASSUME RecordsAssumption ==
  /\ Workflows \cap (Memories \cup Executions \cup Links \cup Personas) = {}
  /\ Memories \cap (Executions \cup Links \cup Personas) = {}
  /\ Executions \cap (Links \cup Personas) = {} /\ Links \cap Personas = {}
  /\ IsFiniteSet(Workflows) /\ IsFiniteSet(Memories) /\ IsFiniteSet(Links)
  /\ \A refs \in MemoryRefs : IsFiniteSet(refs.document)
  /\ \A m \in DOMAIN Before : IsFiniteSet(Before[m].document)
  /\ \A u \in Uploads : u[2] \subseteq Memories

VARIABLES
  rows,      \* Postgres: per record, whether it is live, whether its id was
             \* ever used, its payload and the number of its events
  todo,      \* the steps each caller still has to do
  stamp,     \* occurred_at of the event a caller is about to insert
  outbox,    \* the outbox table: occurred_at -> [event, key, status]
  graph,     \* Neo4j
  proc,      \* where each projector process stands
  stamps,    \* occurred_at values handed out so far
  commands,  \* CLI commands so far
  faults,    \* crashes and failed calls so far
  lost,      \* records one of whose events never reached the outbox
  blank      \* the graph was cleared and the outbox not reset since

vars == <<rows, todo, stamp, outbox, graph, proc, stamps, commands, faults,
          lost, blank>>

Records == Workflows \cup Memories \cup Executions \cup Links \cup Personas
Projectors == Loops \cup Shells
(* Mutant: the id of a stored record is not remembered. *)
StoredUnknown(refs) == [live |-> TRUE, known |-> FALSE, refs |-> refs, seq |-> 0]
Stored(refs) == [live |-> TRUE, known |-> TRUE, refs |-> refs, seq |-> 0]
NoRow == [live |-> FALSE, known |-> FALSE, refs |-> NoRefs, seq |-> 0]
Idle == [cmd |-> None, pc |-> "idle", batch |-> <<>>, failed |-> FALSE]

Event(type, kind, id, seq, refs) ==
  [type |-> type, kind |-> kind, id |-> id, seq |-> seq, refs |-> refs]

Init ==
  /\ rows = [x \in Records |-> IF x \in DOMAIN Before THEN Stored(Before[x])
                                ELSE NoRow]
  /\ todo = [c \in Callers |-> <<>>]
  /\ stamp = [c \in Callers |-> 0]
  /\ outbox = [t \in {} |-> NoRow]
  /\ graph = EmptyGraph
  /\ proc = [p \in Projectors |-> Idle]
  /\ stamps = 0 /\ commands = 0 /\ faults = 0
  /\ lost = {} /\ blank = FALSE

-----------------------------------------------------------------------------
(* Callers.  A handler reads what it needs, then writes and appends.       *)

Write(new) == <<[do |-> "write", new |-> new]>>
Enqueue(event, key) == <<[do |-> "append", event |-> event, key |-> key]>>
One(x, row) == [y \in {x} |-> row]

(* The first or next step of c is the head of steps; an event about to be  *)
(* appended gets its occurred_at now.                                      *)
Continue(c, steps) ==
  /\ todo' = [todo EXCEPT ![c] = steps]
  /\ IF steps # <<>> /\ Head(steps).do = "append"
       THEN /\ stamps < MaxEvents
            /\ stamps' = stamps + 1
            /\ stamp' = [stamp EXCEPT ![c] = stamps + 1]
       ELSE UNCHANGED <<stamps, stamp>>

Begin(c, op, steps) ==
  /\ op \in Operations
  /\ todo[c] = <<>>
  /\ stamps < MaxEvents
  /\ Continue(c, steps)
  /\ UNCHANGED <<rows, outbox, graph, proc, commands, faults, lost, blank>>

Removed(x) == [rows[x] EXCEPT !.live = FALSE]

(* SQLWorkflowRepository.create and save: a save of a deleted workflow     *)
(* enables it again.                                                       *)
WorkflowSaved(w, refs) ==
  Enqueue(Event(IF rows[w].known THEN "workflow.updated" ELSE "workflow.created",
                "workflow", w, 0, refs), None)

SaveWorkflow(c, w, refs) ==
  Begin(c, "workflow", Write(One(w, Stored(refs))) \o WorkflowSaved(w, refs))

(* soft_delete: no event for a workflow found disabled. *)
DeleteWorkflow(c, w) ==
  /\ rows[w].live
  /\ Begin(c, "workflow",
       Write(One(w, Removed(w))) \o
       Enqueue(Event("workflow.deleted", "workflow", w, 0, rows[w].refs), None))

(* The memory service appends the entities it extracts after every memory  *)
(* event, a deletion included.                                             *)
MemoryEvents(type, m, refs) ==
  Enqueue(Event(type, "memory", m, 0, refs), None) \o
  (IF Extracted = {} THEN <<>>
   ELSE Enqueue(Event("memory.entities.extracted", "memory", m, 0,
                      [NoRefs EXCEPT !.entity = Extracted,
                                     !.document = refs.document]), None))

(* The workflow a payload names exists. *)
Exists(refs) == \A w \in refs.workflow : rows[w].known

CreateMemory(c, m, refs) ==
  /\ ~rows[m].known /\ Exists(refs)
  /\ Begin(c, "memory", Write(One(m, Stored(refs)))
                        \o MemoryEvents("memory.created", m, refs))

(* The row read here is saved in a later transaction, which inserts it     *)
(* again when it was deleted in between.                                   *)
UpdateMemory(c, m, refs) ==
  /\ rows[m].live /\ Exists(refs)
  /\ Begin(c, "memory", Write(One(m, Stored(refs)))
                        \o MemoryEvents("memory.updated", m, refs))

MemoryRemoval(m) == Write(One(m, Removed(m)))
                    \o MemoryEvents("memory.deleted", m, rows[m].refs)

DeleteMemory(c, m) ==
  /\ rows[m].live
  /\ Begin(c, "memory", MemoryRemoval(m))

(* The steps of every record of a listing, one record after the other. *)
Each(steps) ==
  LET order == SetToSeq(DOMAIN steps)
      upto[n \in 0..Len(order)] ==
        IF n = 0 THEN <<>> ELSE upto[n - 1] \o steps[order[n]]
  IN  upto[Len(order)]

(* A document is only the document_id of its memories: an upload creates   *)
(* them one by one and appends the collection event last, a removal        *)
(* deletes them one by one.                                                *)
UploadDocument(c, d, ms) ==
  LET refs == [NoRefs EXCEPT !.document = {d}]
  IN  /\ \A m \in ms : ~rows[m].known
      /\ Begin(c, "document",
           Each([m \in ms |-> Write(One(m, Stored(refs)))
                              \o MemoryEvents("memory.created", m, refs)]) \o
           Enqueue(Event("document_memory_collection.created",
                         "document_memory_collection", d, 0,
                         [NoRefs EXCEPT !.memory = ms]), None))

DeleteDocument(c, d) ==
  LET ms == {m \in Memories : rows[m].live /\ d \in rows[m].refs.document}
  IN  /\ ms # {}
      /\ Begin(c, "document",
           Each([m \in ms |-> MemoryRemoval(m)]) \o
           Enqueue(Event("document_memory_collection.deleted",
                         "document_memory_collection", d, 0,
                         [NoRefs EXCEPT !.memory = ms]), None))

(* The hints of an active memory, once per content; the item of a persona  *)
(* repeats them without looking at the memory.                             *)
Hints(m, refs) == Event("memory.source_intelligence.graph_hints.approved",
                        "memory", m, 0, refs)

ApproveHints(c, m, refs) ==
  /\ rows[m].live /\ rows[m].refs \notin Inactive
  /\ Begin(c, "hints", Enqueue(Hints(m, refs), <<"hints", m, refs.entity>>))

ApprovePersonaItem(c, m, refs) ==
  /\ rows[m].known
  /\ Begin(c, "item", Enqueue(Hints(m, refs), None))

EmitPersona(c, p, type, refs) ==
  Begin(c, "persona", Write(One(p, Stored(refs)))
                      \o Enqueue(Event(type, "persona", p, 0, refs), None))

(* A memory link lives in the metadata of its workflow: saving it saves    *)
(* the workflow too.                                                       *)
LinkEvent(type, l, refs) == Event(type, "workflow_memory_link", l, 0, refs)

SaveLink(c, l, w, refs) ==
  /\ w \in refs.workflow /\ rows[w].live
  /\ Begin(c, "link",
       Write([x \in {w, l} |-> Stored(IF x = w THEN rows[w].refs ELSE refs)]) \o
       WorkflowSaved(w, rows[w].refs) \o
       Enqueue(LinkEvent(IF rows[l].live THEN "workflow_memory_link.updated"
                                         ELSE "workflow_memory_link.created",
                         l, refs), None))

DeleteLink(c, l, w) ==
  /\ rows[l].live /\ w \in rows[l].refs.workflow /\ rows[w].live
  /\ Begin(c, "link",
       Write([x \in {w, l} |-> IF x = w THEN Stored(rows[w].refs) ELSE Removed(l)]) \o
       WorkflowSaved(w, rows[w].refs) \o
       Enqueue(LinkEvent("workflow_memory_link.deleted", l, rows[l].refs), None))

(* An execution's events are numbered as they are saved; an event of a     *)
(* deleted execution is refused.                                           *)
RunEvent(x, type, refs, seq) ==
  LET step == refs.task # {}
  IN  Event(type, IF step THEN "step_run" ELSE "workflow_run",
            IF step THEN <<x, CHOOSE t \in refs.task : TRUE>> ELSE x, seq,
            [refs EXCEPT !.run = {x}])

EmitEvent(c, x, type, refs) ==
  /\ rows[x].live \/ ~rows[x].known
  /\ Exists(refs)
  /\ Begin(c, "execution",
       Write(One(x, [Stored(refs) EXCEPT !.seq = rows[x].seq + 1])) \o
       Enqueue(RunEvent(x, type, refs, rows[x].seq + 1),
               <<"execution", x, rows[x].seq + 1>>))

DeleteExecution(c, x) ==
  /\ rows[x].live
  /\ Begin(c, "execution",
       Write(One(x, Removed(x))) \o
       Enqueue(Event("execution.deleted", "workflow_run", x, 0, NoRefs),
               <<"deleted", x, 0>>))

(* graph-projection backfill: one event per stored record, once per        *)
(* content of the record.  Listing the workflows leaves out the disabled   *)
(* ones, and with them their links; a memory that is not active is         *)
(* deleted from the graph.  Its two other domains, executions and hints,   *)
(* repeat events under the key they already have.                          *)
Backfill(c) ==
  LET live(S) == {x \in S : rows[x].live}
      linked == {l \in live(Links) : \E w \in live(Workflows) :
                                       w \in rows[l].refs.workflow}
      docs == UNION {rows[m].refs.document : m \in live(Memories)}
      chunks(d) == {m \in live(Memories) : d \in rows[m].refs.document}
      keyed(x) == <<"backfill", x, rows[x].refs>>
      shown(m) == IF rows[m].refs \in Inactive THEN "memory.deleted"
                                               ELSE "memory.updated"
  IN  Begin(c, "backfill",
        Each([w \in live(Workflows) |->
          Enqueue(Event("workflow.updated", "workflow", w, 0, rows[w].refs), keyed(w))]) \o
        Each([l \in linked |->
          Enqueue(LinkEvent("workflow_memory_link.updated", l, rows[l].refs),
                  <<"backfill", l, NoRefs>>)]) \o
        Each([m \in live(Memories) |->
          LET both == MemoryEvents(shown(m), m, rows[m].refs)
          IN  [n \in DOMAIN both |->
                 [both[n] EXCEPT !.key = <<"backfill", <<m, n>>, rows[m].refs>>]]]) \o
        Each([d \in docs |->
          Enqueue(Event("document_memory_collection.created",
                        "document_memory_collection", d, 0,
                        [NoRefs EXCEPT !.memory = chunks(d)]),
                  <<"backfill", d, Cardinality(chunks(d))>>)]))

(* The transaction of a write.  Deleting a memory or an execution that is  *)
(* already gone reports so, and its events are not appended.               *)
Appends(steps) == {s \in Range(steps) : s.do = "append"}
AfterAppends(steps) ==
  LET writes == {n \in DOMAIN steps : steps[n].do = "write"}
  IN  IF writes = {} THEN <<>> ELSE SubSeq(steps, Min(writes), Len(steps))
NothingToDelete(new) ==
  \A x \in DOMAIN new : /\ x \notin Workflows \cup Links
                        /\ ~new[x].live /\ ~rows[x].live

WriteRow(c) ==
  /\ todo[c] # <<>> /\ Head(todo[c]).do = "write"
  /\ LET new == Head(todo[c]).new
     IN  /\ rows' = [x \in Records |-> IF x \in DOMAIN new THEN new[x] ELSE rows[x]]
         /\ Continue(c, IF NothingToDelete(new) THEN AfterAppends(Tail(todo[c]))
                                               ELSE Tail(todo[c]))
  /\ UNCHANGED <<outbox, graph, proc, commands, faults, lost, blank>>

(* append: a second event with the same source key is not inserted. *)
AppendEvent(c) ==
  /\ todo[c] # <<>> /\ Head(todo[c]).do = "append"
  /\ LET key == Head(todo[c]).key
         new == [event |-> Head(todo[c]).event, key |-> key, status |-> "pending"]
         at == stamp[c]
     IN  outbox' = IF key # None /\ \E t \in DOMAIN outbox : outbox[t].key = key
                     THEN outbox
                     ELSE [t \in DOMAIN outbox \cup {at} |->
                             IF t = at THEN new ELSE outbox[t]]
  /\ Continue(c, Tail(todo[c]))
  /\ UNCHANGED <<rows, graph, proc, commands, faults, lost, blank>>

(* The records an event is about. *)
About(e) == {e.id} \cup e.refs.run

(* The append fails: every service logs the exception and goes on, without *)
(* the entities of the same memory.                                        *)
LoseAppend(c) ==
  /\ c \in Faulty /\ faults < MaxFaults
  /\ todo[c] # <<>> /\ Head(todo[c]).do = "append"
  /\ LET rest == Tail(todo[c])
         entities == rest # <<>> /\ rest[1].do = "append"
                     /\ rest[1].event.type = "memory.entities.extracted"
     IN  Continue(c, IF entities THEN Tail(rest) ELSE rest)
  /\ lost' = lost \cup About(Head(todo[c]).event)
  /\ faults' = faults + 1
  /\ UNCHANGED <<rows, outbox, graph, proc, commands, blank>>

(* The backend stops in the middle of a request. *)
CrashCaller(c) ==
  /\ c \in Faulty /\ faults < MaxFaults
  /\ todo[c] # <<>>
  /\ todo' = [todo EXCEPT ![c] = <<>>]
  /\ lost' = lost \cup UNION {About(s.event) : s \in Appends(todo[c])}
  /\ faults' = faults + 1
  /\ UNCHANGED <<rows, stamp, outbox, graph, proc, stamps, commands, blank>>

-----------------------------------------------------------------------------
(* Projectors. *)

Having(status) == {t \in DOMAIN outbox : outbox[t].status = status}
(* Mutant: the newest events first. *)
FirstOfNewest(S) ==
  [i \in 1..Min({BatchSize, Cardinality(S)}) |->
     CHOOSE t \in S : Cardinality({u \in S : u >= t}) = i]
(* The first BatchSize events of S, in the order of occurred_at: number i  *)
(* is the event with i events of S up to it.                               *)
FirstOf(S) ==
  [i \in 1..Min({BatchSize, Cardinality(S)}) |->
     CHOOSE t \in S : Cardinality({u \in S : u <= t}) = i]
Marked(T, status) ==
  [t \in DOMAIN outbox |-> IF t \in T THEN [outbox[t] EXCEPT !.status = status]
                                       ELSE outbox[t]]

UnchangedCallers == UNCHANGED <<rows, todo, stamp, stamps, lost>>

(* The commands: project-neo4j applies one batch, rebuild-neo4j resets the *)
(* outbox (and clears the graph first with --clear) and applies batches    *)
(* until one is empty or has a failure, replay resets all or the failed    *)
(* events and with --run hands them to GraphProjectionWorker, which marks  *)
(* them projected and writes nothing.                                      *)
FirstStep(cmd) ==
  CASE cmd = "project" -> "list"
    [] cmd = "rebuild_clear" -> "clear"
    [] cmd = "replay_failed" -> "choose"
    [] OTHER -> "reset"

StartCommand(p, cmd) ==
  /\ proc[p].pc = "idle" /\ commands < MaxCommands
  /\ proc' = [proc EXCEPT ![p] = [Idle EXCEPT !.cmd = cmd, !.pc = FirstStep(cmd)]]
  /\ commands' = commands + 1
  /\ UnchangedCallers /\ UNCHANGED <<outbox, graph, faults, blank>>

(* The next iteration of the loop; one that finds nothing changes nothing. *)
StartIteration(p) ==
  /\ proc[p].pc = "idle" /\ Having("pending") # {}
  /\ proc' = [proc EXCEPT ![p] = [Idle EXCEPT !.cmd = "loop", !.pc = "list"]]
  /\ UnchangedCallers /\ UNCHANGED <<outbox, graph, commands, faults, blank>>

(* Mutant: --clear marks the graph deleted instead of removing it. *)
ClearSoftly(p) ==
  /\ proc[p].pc = "clear"
  /\ graph' = [x \in DOMAIN graph |-> TRUE]
  /\ blank' = TRUE
  /\ proc' = [proc EXCEPT ![p].pc = "reset"]
  /\ UnchangedCallers /\ UNCHANGED <<outbox, commands, faults>>

ClearProjection(p) ==
  /\ proc[p].pc = "clear"
  /\ graph' = EmptyGraph
  /\ blank' = TRUE
  /\ proc' = [proc EXCEPT ![p].pc = "reset"]
  /\ UnchangedCallers /\ UNCHANGED <<outbox, commands, faults>>

ChooseFailed(p) ==
  /\ proc[p].pc = "choose"
  /\ proc' = [proc EXCEPT ![p].pc = "reset", ![p].batch = FirstOf(Having("failed"))]
  /\ UnchangedCallers /\ UNCHANGED <<outbox, graph, commands, faults, blank>>

(* reset_for_replay: an empty list of ids means every event. *)
ResetForReplay(p) ==
  /\ proc[p].pc = "reset"
  /\ LET ids == Range(proc[p].batch)
     IN  outbox' = Marked(IF ids = {} THEN DOMAIN outbox ELSE ids, "pending")
  /\ proc' = [proc EXCEPT ![p] =
                IF proc[p].cmd \in {"replay", "replay_failed"} THEN Idle
                ELSE [@ EXCEPT !.pc = "list", !.batch = <<>>]]
  /\ blank' = (blank /\ proc[p].batch # <<>>)
  /\ UnchangedCallers /\ UNCHANGED <<graph, commands, faults>>

ListPending(p) ==
  /\ proc[p].pc = "list"
  /\ LET batch == FirstOf(Having("pending"))
     IN  proc' = [proc EXCEPT ![p] = IF batch = <<>> THEN Idle
                                     ELSE [@ EXCEPT !.pc = "apply", !.batch = batch]]
  /\ UnchangedCallers /\ UNCHANGED <<outbox, graph, commands, faults, blank>>

(* One event is applied in a Neo4j transaction and marked in a Postgres    *)
(* transaction.  An exception of either marks it failed, also when the     *)
(* first had committed.  The result of session.run is not consumed: that   *)
(* Neo4j reports a failure before run returns, and never at the commit     *)
(* after it, is assumed here.                                              *)
ApplyEvent(p) ==
  /\ proc[p].pc = "apply"
  /\ graph' = IF proc[p].cmd = "replay_run" THEN graph
              ELSE Project(graph, outbox[Head(proc[p].batch)].event)
  /\ proc' = [proc EXCEPT ![p].pc = "mark"]
  /\ UnchangedCallers /\ UNCHANGED <<outbox, commands, faults, blank>>

FailEvent(p) ==
  /\ proc[p].pc \in {"apply", "mark"} /\ p \in Faulty /\ faults < MaxFaults
  /\ proc' = [proc EXCEPT ![p].pc = "fail"]
  /\ faults' = faults + 1
  /\ UnchangedCallers /\ UNCHANGED <<outbox, graph, commands, blank>>

(* Mutant: the loop ends with a failed batch, as the commands do. *)
AdvancedOrStopped(q, failed) ==
  LET rest == Tail(q.batch)
  IN  IF rest # <<>> THEN [q EXCEPT !.pc = "apply", !.batch = rest, !.failed = failed]
      ELSE IF ~failed THEN Idle ELSE [Idle EXCEPT !.pc = "stopped"]

Advanced(q, failed) ==
  LET rest == Tail(q.batch)
  IN  IF rest # <<>> THEN [q EXCEPT !.pc = "apply", !.batch = rest, !.failed = failed]
      ELSE IF q.cmd \in {"rebuild", "rebuild_clear"} /\ ~failed
        THEN [q EXCEPT !.pc = "list", !.batch = <<>>]
        ELSE Idle

MarkProjected(p) ==
  /\ proc[p].pc = "mark"
  /\ outbox' = Marked({Head(proc[p].batch)}, "projected")
  /\ proc' = [proc EXCEPT ![p] = Advanced(@, @.failed)]
  /\ UnchangedCallers /\ UNCHANGED <<graph, commands, faults, blank>>

MarkFailed(p) ==
  /\ proc[p].pc = "fail"
  /\ outbox' = Marked({Head(proc[p].batch)}, "failed")
  /\ proc' = [proc EXCEPT ![p] = Advanced(@, TRUE)]
  /\ UnchangedCallers /\ UNCHANGED <<graph, commands, faults, blank>>

(* The process stops, or mark_failed itself fails and ends the batch. *)
CrashProjector(p) ==
  /\ proc[p].pc # "idle" /\ p \in Faulty /\ faults < MaxFaults
  /\ proc' = [proc EXCEPT ![p] = Idle]
  /\ faults' = faults + 1
  /\ UnchangedCallers /\ UNCHANGED <<outbox, graph, commands, blank>>

-----------------------------------------------------------------------------
Request(c) ==
  \/ \E w \in Workflows : (\E refs \in WorkflowRefs : SaveWorkflow(c, w, refs))
                          \/ DeleteWorkflow(c, w)
  \/ \E m \in Memories :
       \/ \E refs \in MemoryRefs : CreateMemory(c, m, refs) \/ UpdateMemory(c, m, refs)
       \/ DeleteMemory(c, m)
       \/ \E refs \in HintRefs : ApproveHints(c, m, refs)
                                \/ ApprovePersonaItem(c, m, refs)
  \/ \E u \in Uploads : UploadDocument(c, u[1], u[2]) \/ DeleteDocument(c, u[1])
  \/ \E p \in Personas, e \in PersonaEvents : EmitPersona(c, p, e[1], e[2])
  \/ \E l \in Links, w \in Workflows :
       (\E refs \in LinkRefs : SaveLink(c, l, w, refs)) \/ DeleteLink(c, l, w)
  \/ \E x \in Executions : (\E e \in RunEvents : EmitEvent(c, x, e[1], e[2]))
                           \/ DeleteExecution(c, x)
  \/ Backfill(c)

Advance(p) == ListPending(p) \/ ApplyEvent(p) \/ MarkProjected(p) \/ MarkFailed(p)

Next ==
  \/ \E c \in Callers : Request(c) \/ WriteRow(c) \/ AppendEvent(c)
                        \/ LoseAppend(c) \/ CrashCaller(c)
  \/ \E p \in Shells, cmd \in Commands : StartCommand(p, cmd)
  \/ \E p \in Loops : StartIteration(p)
  \/ \E p \in Projectors : \/ ClearProjection(p) \/ ChooseFailed(p)
                          \/ ResetForReplay(p) \/ Advance(p)
                          \/ FailEvent(p) \/ CrashProjector(p)

Spec == Init /\ [][Next]_vars

(* The loop is a service that is restarted and sleeps between iterations:  *)
(* it takes its next step again and again.                                 *)
LiveSpec == Spec /\ \A p \in Loops : WF_vars(StartIteration(p)) /\ WF_vars(Advance(p))

-----------------------------------------------------------------------------
(* Properties. *)

(* The type of every variable; a stored record's id is known, outbox rows  *)
(* have stamps that were handed out, and batches hold outbox rows.         *)
TypeOK ==
  /\ \A x \in Records : /\ rows[x].live \in BOOLEAN /\ rows[x].known \in BOOLEAN
                         /\ rows[x].live => rows[x].known
                         /\ rows[x].seq \in 0..MaxEvents
  /\ \A c \in Callers : stamp[c] \in 0..MaxEvents
  /\ DOMAIN outbox \subseteq 1..stamps
  /\ \A t \in DOMAIN outbox : outbox[t].status \in {"pending", "projected", "failed"}
  /\ \A x \in DOMAIN graph : graph[x] \in BOOLEAN
  /\ \A p \in Projectors :
       /\ proc[p].pc \in {"idle", "clear", "choose", "reset", "list",
                          "apply", "mark", "fail"}
       /\ Range(proc[p].batch) \subseteq DOMAIN outbox
  /\ stamps \in 0..MaxEvents /\ commands \in 0..MaxCommands
  /\ faults \in 0..MaxFaults /\ blank \in BOOLEAN

(* Nothing is in flight and status_summary reports "healthy" or "empty". *)
Settled ==
  /\ \A c \in Callers : todo[c] = <<>>
  /\ \A p \in Projectors : proc[p].pc = "idle"
  /\ DOMAIN outbox = Having("projected")

(* The graphs a projector builds from an empty one by applying the events  *)
(* of box once and in order, up to each stamp.                             *)
Replays(box) ==
  LET graphs[n \in 0..MaxEvents] ==
        IF n = 0 THEN EmptyGraph
        ELSE IF n \in DOMAIN box THEN Project(graphs[n - 1], box[n].event)
        ELSE graphs[n - 1]
  IN  graphs
Replayed == Replays(outbox)[stamps]

RecordNode(x) == Node(CASE x \in Workflows -> "Workflow"
                        [] x \in Memories -> "Memory"
                        [] OTHER -> "WorkflowRun", x)
RecordNodes == {RecordNode(x) : x \in Workflows \cup Memories \cup Executions}
               \cup {Node("Document", u[1]) : u \in Uploads}

(* At-least-once delivery is harmless: whatever batches were cut short,    *)
(* failed after their commit, were applied twice or rebuilt over the old   *)
(* graph, once the outbox is healthy the graph shows the same records as   *)
(* one undisturbed pass over the outbox.                                   *)
RecordsAreReplayed ==
  Settled /\ ~blank => Live(graph) \cap RecordNodes = Live(Replayed) \cap RecordNodes

(* A healthy outbox means that the graph shows a workflow, a memory or an  *)
(* execution exactly when Postgres still has it, unless an append about it *)
(* was lost.                                                               *)
GraphFollowsSource ==
  Settled /\ ~blank => \A x \in (Workflows \cup Memories \cup Executions) \ lost :
               (RecordNode(x) \in Live(graph)) = rows[x].live

(* A rebuild with --clear that ends without a failure has built the graph  *)
(* of one pass over the outbox exactly: every node, every relationship and *)
(* every deletion mark, whatever the graph held before and whatever was    *)
(* appended while it ran.                                                  *)
RebuildIsExact ==
  [][\A p \in Shells :
       proc[p].cmd = "rebuild_clear" /\ ListPending(p) /\ Having("pending") = {}
         => graph = Replayed]_vars

(* With the loop running, no event stays pending: it is projected or       *)
(* reported as failed.                                                     *)
EventsAreDecided ==
  \A t \in Watched : (t \in Having("pending")) ~> (t \notin Having("pending"))

=============================================================================
