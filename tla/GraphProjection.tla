-------------------------- MODULE GraphProjection --------------------------
(***************************************************************************)
(* What one outbox event does to the Neo4j graph: the Cypher handlers of   *)
(* Neo4jGraphProjector (app/graph/neo4j_projection.py).  Every handler is  *)
(* one statement, that is one transaction, so it is one operator from the  *)
(* event and the graph to an effect.                                       *)
(*                                                                         *)
(* The graph is a function from its elements to the property `deleted`.    *)
(* An element is a node (label and id) or a relationship (type, end nodes, *)
(* its workflow_id and the other property its MERGE is keyed by, None      *)
(* without one).  All other properties are abstracted.  An event names its *)
(* aggregate (id) and holds the ids its payload refers to in the sets of   *)
(* e.refs: a NULL field is the empty set, a list the set of its members, a *)
(* list of objects with lists inside the set of its pairs.                 *)
(***************************************************************************)
EXTENDS Naturals, FiniteSets

CONSTANT None

Node(label, id) == [label |-> label, id |-> id]
NodesOf(label, ids) == {Node(label, id) : id \in ids}
KeyedRel(type, src, dst, scope, key) ==
  [type |-> type, src |-> src, dst |-> dst, scope |-> scope, key |-> key]
Keyed(type, from, to, scope, key) ==
  {KeyedRel(type, s, d, scope, key) : s \in from, d \in to}
Rels(type, from, to) == Keyed(type, from, to, None, None)

IsNode(x) == "label" \in DOMAIN x
NodesIn(g) == {x \in DOMAIN g : IsNode(x)}
RelsIn(g) == DOMAIN g \ NodesIn(g)
Live(g) == {x \in DOMAIN g : ~g[x]}
EmptyGraph == [x \in {} |-> FALSE]

(* The payload of an event that refers to nothing. *)
NoRefs ==
  [agent |-> {}, task |-> {}, tool |-> {}, workflow |-> {}, version |-> {},
   canUse |-> {}, handoff |-> {}, models |-> {}, assigned |-> {},
   usesTool |-> {}, dependsOn |-> {}, run |-> {}, schedule |-> {},
   revision |-> {}, container |-> {}, error |-> {}, parent |-> {},
   toolCall |-> {}, modelRequest |-> {}, model |-> {}, provider |-> {},
   artifact |-> {}, health |-> {}, compactionMemory |-> {}, user |-> {},
   conversation |-> {}, sourceConversation |-> {}, sourceRun |-> {},
   supersedes |-> {}, contextPack |-> {}, packItems |-> {}, entity |-> {},
   document |-> {}, memory |-> {}, persona |-> {}, item |-> {},
   sourceMemory |-> {}, sourceMemories |-> {}, related |-> {}]

(* An effect: relationships deleted, elements marked deleted (MERGE or     *)
(* MATCH, then SET deleted = true), elements revived (MERGE, then SET      *)
(* deleted = false), elements only merged, which keep the mark they have.  *)
NoEffect == [drop |-> {}, bury |-> {}, raise |-> {}, touch |-> {}]

Effected(g, f) ==
  LET kept == DOMAIN g \ f.drop
  IN  [x \in kept \cup f.bury \cup f.raise \cup f.touch |->
         \/ x \in f.bury
         \/ x \notin f.raise /\ x \in kept /\ g[x]]

-----------------------------------------------------------------------------
(* Workflow definitions. *)

DefinitionTypes == {"DEFINES_AGENT", "DEFINES_TASK", "DEFINES_TOOL"}
ScopedTypes == {"CAN_USE", "CAN_HANDOFF_TO", "ASSIGNED_TO", "USES_TOOL",
                "DEPENDS_ON", "USED_MODEL", "USES_MODEL_PROFILE"}

OutOf(g, n, types) == {x \in RelsIn(g) : x.src = n /\ x.type \in types}
Into(g, n, types) == {x \in RelsIn(g) : x.dst = n /\ x.type \in types}
Scoped(g, w, types) == {x \in RelsIn(g) : x.scope = w /\ x.type \in types}

(* The relationships of a definition that are scoped to workflow w.  The   *)
(* pairs of canUse are (agent, tool), and so on.                           *)
ScopedRels(w, refs) ==
  LET Pairs(type, from, to, pairs) ==
        {KeyedRel(type, Node(from, p[1]), Node(to, p[2]), w, None) : p \in pairs}
  IN  Pairs("CAN_USE", "Agent", "Tool", refs.canUse)
      \cup Pairs("CAN_HANDOFF_TO", "Agent", "Agent", refs.handoff)
      \cup Pairs("USED_MODEL", "Agent", "Model", refs.models)
      \cup Pairs("USES_MODEL_PROFILE", "Agent", "Model", refs.models)
      \cup Pairs("ASSIGNED_TO", "Task", "Agent", refs.assigned)
      \cup Pairs("USES_TOOL", "Task", "Tool", refs.usesTool)
      \cup Pairs("DEPENDS_ON", "Task", "Task", refs.dependsOn)

Ends(rels) == {x.src : x \in rels} \cup {x.dst : x \in rels}

Workflow(g, e) ==
  LET w == Node("Workflow", e.id)
      scoped == ScopedRels(e.id, e.refs)
      tools == NodesOf("Tool", e.refs.tool)
      agents == NodesOf("Agent", e.refs.agent)
      tasks == NodesOf("Task", e.refs.task)
      versions == NodesOf("WorkflowVersion", e.refs.version)
  IN  [drop |-> OutOf(g, w, DefinitionTypes) \cup Scoped(g, e.id, ScopedTypes),
       bury |-> {},
       raise |-> {w} \cup tools \cup agents \cup tasks \cup versions
                 \cup scoped \cup Ends(scoped)
                 \cup Rels("HAS_VERSION", {w}, versions),
       touch |-> Rels("DEFINES_TOOL", {w}, tools)
                 \cup Rels("DEFINES_AGENT", {w}, agents)
                 \cup Rels("DEFINES_TASK", {w}, tasks)]

WorkflowDeleted(g, e) ==
  LET w == Node("Workflow", e.id)
  IN  [NoEffect EXCEPT !.bury =
         {w} \cup OutOf(g, w, DefinitionTypes \cup {"LINKS_MEMORY",
                          "HAS_MEMORY_LINK", "HAS_RUN", "STARTED"})
             \cup Scoped(g, e.id, ScopedTypes \cup {"HAS_MEMORY_LINK",
                                                    "LINKS_MEMORY"})]

-----------------------------------------------------------------------------
(* Executions, their steps and their events.  refs.run is the execution of *)
(* the event and <<run, seq>> the id of the event's own node.              *)

EventId(e) == <<CHOOSE r \in e.refs.run : TRUE, e.seq>>
Own(e, holds) == IF holds THEN {EventId(e)} ELSE {}

WorkflowRunTypes ==
  {"CREATED_CONTAINER", "EMITTED_EVENT", "FAILED_WITH", "HAS_BUDGET_SIGNAL",
   "HAS_COMPACTION", "HAS_CONTEXT_HEALTH", "HAS_RUN", "HAS_STEP_RUN",
   "OCCURRED_IN", "PARTICIPATED_IN", "PRODUCED_ARTIFACT", "RAISED_FINDING",
   "RECORDED_USAGE", "SOURCE_EXECUTION", "STARTED", "TRIGGERED",
   "USED_WORKFLOW_VERSION", "USED_MODEL", "USED_RUNTIME"}

WorkflowRun(g, e) ==
  LET r == NodesOf("WorkflowRun", e.refs.run)
      w == NodesOf("Workflow", e.refs.workflow)
      version == NodesOf("WorkflowVersion", e.refs.version)
      schedule == NodesOf("Schedule", e.refs.schedule)
      revision == NodesOf("RuntimeRevision", e.refs.revision)
      container == NodesOf("RuntimeContainer", e.refs.container)
      error == NodesOf("Error", Own(e, e.type = "execution.failed"
                                       \/ e.refs.error # {}))
  IN  [NoEffect EXCEPT
         !.raise = Rels("HAS_RUN", w, r) \cup Rels("STARTED", w, r)
                   \cup version \cup Rels("HAS_VERSION", w, version)
                   \cup Rels("USED_WORKFLOW_VERSION", r, version)
                   \cup schedule \cup revision \cup container \cup error,
         !.touch = r \cup w \cup Rels("TRIGGERED", schedule, r)
                   \cup Rels("USED_RUNTIME", r, revision)
                   \cup Rels("CREATED_CONTAINER", r, container)
                   \cup Rels("FAILED_WITH", r, error)]

WorkflowRunDeleted(g, e) ==
  LET r == Node("WorkflowRun", e.id)
      steps == {x.dst : x \in OutOf(g, r, {"HAS_STEP_RUN"})}
      events == {x.dst : x \in OutOf(g, r, {"EMITTED_EVENT"})}
  IN  [NoEffect EXCEPT !.bury =
         {r} \cup OutOf(g, r, WorkflowRunTypes) \cup Into(g, r, WorkflowRunTypes)
             \cup steps \cup events]

StepRun(g, e) ==
  LET s == {Node("StepRun", e.id)}
      r == NodesOf("WorkflowRun", e.refs.run)
      task == NodesOf("Task", e.refs.task)
      agent == NodesOf("Agent", e.refs.agent)
      error == NodesOf("Error", Own(e, \/ e.type \in {"agent.step.failed",
                                                     "execution.failed"}
                                       \/ e.refs.error # {}))
  IN  [NoEffect EXCEPT
         !.raise = task \cup agent \cup error,
         !.touch = s \cup r \cup Rels("HAS_STEP_RUN", r, s)
                   \cup Rels("OCCURRED_IN", task, r)
                   \cup Rels("PARTICIPATED_IN", agent, r)
                   \cup Rels("ASSIGNED_TO", s, agent)
                   \cup Rels("FAILED_WITH", s, error)]

(* The events of execution r with sequence n that are in the graph.  A     *)
(* parent that was only merged by its id has no sequence to be found by.   *)
EventsAt(g, r, n) ==
  {x \in Live(g) : /\ IsNode(x) /\ x.label \in {"ExecutionEvent", "ContainerEvent"}
                   /\ x.id = <<r, n>>
                   /\ Rels("EMITTED_EVENT", {Node("WorkflowRun", r)}, {x})
                        \subseteq DOMAIN g}

EventDetail(g, e, label) ==
  LET run == CHOOSE x \in e.refs.run : TRUE
      r == {Node("WorkflowRun", run)}
      event == {Node(label, EventId(e))}
      previous == IF e.seq > 1 THEN EventsAt(g, run, e.seq - 1) ELSE {}
      agent == NodesOf("Agent", e.refs.agent)
      task == NodesOf("Task", e.refs.task)
      toolCall == NodesOf("ToolCall", e.refs.toolCall)
      request == NodesOf("ModelRequest", e.refs.modelRequest)
      model == NodesOf("Model", e.refs.model)
      provider == NodesOf("ModelProvider", e.refs.provider)
      artifact == NodesOf("Artifact", e.refs.artifact)
      revision == NodesOf("RuntimeRevision", e.refs.revision)
      container == NodesOf("RuntimeContainer", e.refs.container)
      parent == NodesOf("ExecutionEvent", e.refs.parent)
      error == NodesOf("Error", Own(e,
                 \/ e.type \in {"container.failed", "tool.call.failed",
                               "context.compaction.failed"}
                 \/ e.refs.error # {}))
      health == NodesOf("ContextHealth", Own(e,
                 e.type = "context.health.recorded" \/ e.refs.health # {}))
      usage == NodesOf("TokenUsage", Own(e, e.type = "token.usage.recorded"))
      budget == NodesOf("TokenBudget", Own(e,
                  e.type \in {"token.budget.exceeded", "token.budget.warning"}))
      compaction == NodesOf("ContextCompaction", Own(e,
                      e.type \in {"context.compaction.completed",
                                  "context.compaction.failed",
                                  "context.compaction.started"}))
      memory == IF compaction = {} THEN {}
                ELSE NodesOf("Memory", e.refs.compactionMemory)
      finding == NodesOf("MonitorFinding", Own(e,
                   e.type = "monitor.finding.created"))
  IN  [NoEffect EXCEPT
         !.raise = event \cup agent \cup task \cup toolCall \cup request
                   \cup model \cup provider \cup artifact \cup revision
                   \cup container \cup error \cup health \cup usage
                   \cup budget \cup compaction \cup finding
                   \cup Rels("FOLLOWED_BY", previous, event)
                   \cup Rels("FOLLOWED_BY", event, EventsAt(g, run, e.seq + 1)),
         !.touch = r \cup parent \cup memory
                   \cup Rels("EMITTED_EVENT", r \cup agent, event)
                   \cup Rels("PARENT_OF", parent, event)
                   \cup Rels("PARTICIPATED_IN", agent, r)
                   \cup Rels("OCCURRED_IN", task \cup toolCall \cup request, r)
                   \cup Rels("CALLED_TOOL", event, toolCall)
                   \cup Rels("USED_MODEL", r \cup request, model)
                   \cup Rels("USED_PROVIDER", model, provider)
                   \cup Rels("PRODUCED_ARTIFACT", r, artifact)
                   \cup Rels("USED_RUNTIME", r, revision)
                   \cup Rels("CREATED_CONTAINER", r, container)
                   \cup Rels("FAILED_WITH", event \cup r, error)
                   \cup Rels("HAS_CONTEXT_HEALTH", r, health)
                   \cup Rels("RECORDED_CONTEXT_HEALTH", event, health)
                   \cup Rels("RECORDED_USAGE", r \cup event \cup request, usage)
                   \cup Rels("HAS_BUDGET_SIGNAL", r \cup event, budget)
                   \cup Rels("HAS_COMPACTION", r \cup event, compaction)
                   \cup Rels("CREATED_MEMORY", compaction, memory)
                   \cup Rels("RAISED_FINDING", r \cup event, finding)]

-----------------------------------------------------------------------------
(* Memories, documents, memory links and personas. *)

Incident(g, nodes) == {x \in RelsIn(g) : x.src \in nodes \/ x.dst \in nodes}

(* A memory or a document is available to the workflow, the agent and the  *)
(* conversation it names.                                                  *)
Audience(e) == NodesOf("Workflow", e.refs.workflow)
               \cup NodesOf("Agent", e.refs.agent)
               \cup NodesOf("Conversation", e.refs.conversation)

(* refs.contextPack is the memory itself when it is a context pack, and    *)
(* packItems the pairs (label, id) of its decisions, constraints, open     *)
(* questions and next actions.                                             *)
Memory(g, e) ==
  LET m == {Node("Memory", e.id)}
      user == NodesOf("User", e.refs.user)
      source == NodesOf("Conversation", e.refs.sourceConversation)
      run == NodesOf("WorkflowRun", e.refs.sourceRun)
      superseded == NodesOf("Memory", e.refs.supersedes)
      pack == NodesOf("ContextPack", e.refs.contextPack)
      items == IF pack = {} THEN {} ELSE {Node(p[1], p[2]) : p \in e.refs.packItems}
  IN  [NoEffect EXCEPT
         !.raise = m \cup pack \cup items,
         !.touch = user \cup Audience(e) \cup source \cup run \cup superseded
                   \cup Rels("CREATED_MEMORY", user, m)
                   \cup Rels("AVAILABLE_TO", m, Audience(e))
                   \cup Rels("SOURCE_CONVERSATION", m, source)
                   \cup Rels("SOURCE_EXECUTION", m, run)
                   \cup Rels("SUPERSEDES", m, superseded)
                   \cup Rels("HAS_CONTEXT_PACK", m, pack)
                   \cup Rels("SUMMARIZES", pack, items)
                   \cup Rels("MENTIONS", m, items)]

MemoryDeleted(g, e) ==
  LET m == {Node("Memory", e.id)}
  IN  [NoEffect EXCEPT !.bury = m \cup Incident(g, m)]

(* Mutant: the memory of the extracted entities is revived. *)
MemoryEntitiesRevive(g, e) ==
  LET m == {Node("Memory", e.id)}
      entities == NodesOf("Entity", e.refs.entity)
  IN  [NoEffect EXCEPT
         !.raise = m \cup entities
                   \cup Keyed("MENTIONS", m, entities, None, "extractor")]

MemoryEntities(g, e) ==
  LET m == {Node("Memory", e.id)}
      entities == NodesOf("Entity", e.refs.entity)
      d == IF entities = {} THEN {} ELSE NodesOf("Document", e.refs.document)
  IN  [NoEffect EXCEPT
         !.raise = entities
                   \cup Keyed("MENTIONS", m \cup d, entities, None, "extractor"),
         !.touch = m \cup d]

(* refs.related holds the triples (type, source, target) of the hints; the *)
(* entities include every end of them.                                     *)
MemoryGraphHints(g, e) ==
  LET m == {Node("Memory", e.id)}
      d == NodesOf("Document", e.refs.document)
      persona == NodesOf("Persona", e.refs.persona)
      item == NodesOf("DistillationItem", e.refs.item)
      source == IF item = {} THEN {} ELSE {Node("SourceMemory", e.id)}
      entities == NodesOf("Entity", e.refs.entity)
      related == {KeyedRel(t[1], Node("Entity", t[2]), Node("Entity", t[3]),
                           None, e.id) : t \in e.refs.related}
  IN  [NoEffect EXCEPT
         !.raise = m \cup d \cup persona \cup item \cup source \cup entities
                   \cup Rels("ITEM_DERIVED_FROM_MEMORY", item, source)
                   \cup Keyed("MENTIONS", persona, item, None, "hints")
                   \cup Keyed("MENTIONS", m \cup persona \cup item \cup d,
                              entities, None, "hints")
                   \cup related,
         !.touch = Rels("SOURCE_DOCUMENT", m, d)]

(* A chunk is the pair of its document and its memory. *)
Document(g, e) ==
  LET d == {Node("Document", e.id)}
      user == NodesOf("User", e.refs.user)
      memories == NodesOf("Memory", e.refs.memory)
      chunks == NodesOf("DocumentChunk", {<<e.id, m>> : m \in e.refs.memory})
  IN  [NoEffect EXCEPT
         !.raise = d \cup chunks,
         !.touch = user \cup Audience(e) \cup memories
                   \cup Rels("OWNS_DOCUMENT", user, d)
                   \cup Rels("AVAILABLE_TO", d, Audience(e))
                   \cup Rels("HAS_CHUNK", d, chunks)
                   \cup Rels("PART_OF_DOCUMENT", chunks \cup memories, d)
                   \cup Rels("SOURCE_DOCUMENT", memories, d)]

DocumentDeleted(g, e) ==
  LET d == Node("Document", e.id)
      memories == NodesOf("Memory", e.refs.memory)
  IN  [NoEffect EXCEPT !.bury =
         {d} \cup {x.dst : x \in OutOf(g, d, {"HAS_CHUNK"})} \cup memories
             \cup Incident(g, {d} \cup memories)]

(* The link e.id gives memories to a workflow, or to the one agent or task *)
(* of it that refs.agent or refs.task names.                               *)
WorkflowMemoryLink(g, e) ==
  LET w == NodesOf("Workflow", e.refs.workflow)
      scope == CHOOSE x \in e.refs.workflow : TRUE
      memories == NodesOf("Memory", e.refs.memory)
      linked == memories # {}
      agent == IF linked THEN NodesOf("Agent", e.refs.agent) ELSE {}
      task == IF linked THEN NodesOf("Task", e.refs.task) ELSE {}
      target == IF agent \cup task = {} THEN w ELSE agent \cup task
  IN  [NoEffect EXCEPT
         !.raise = Keyed("LINKS_MEMORY", w, memories, scope, e.id)
                   \cup Keyed("HAS_MEMORY_LINK", target, memories, scope, e.id),
         !.touch = w \cup memories \cup agent \cup task
                   \cup Rels("DEFINES_AGENT", w, agent)
                   \cup Rels("DEFINES_TASK", w, task)]

WorkflowMemoryLinkDeleted(g, e) ==
  LET w == NodesOf("Workflow", e.refs.workflow)
      linkOf(x) == x.key = e.id /\ x.scope \in e.refs.workflow
  IN  [NoEffect EXCEPT !.bury =
         {x \in RelsIn(g) : \/ x.type = "LINKS_MEMORY" /\ x.src \in w
                                /\ x.key = e.id
                            \/ x.type = "HAS_MEMORY_LINK" /\ linkOf(x)}]

Persona(g, e) ==
  LET p == {Node("Persona", e.id)}
      run == NodesOf("DistillationRun", e.refs.run)
      version == NodesOf("PersonaVersion", e.refs.version)
      item == NodesOf("DistillationItem", e.refs.item)
      source == IF item = {} THEN {} ELSE NodesOf("SourceMemory", e.refs.sourceMemory)
      sources == NodesOf("SourceMemory", e.refs.sourceMemories)
      memories == NodesOf("Memory", e.refs.memory)
      tools == NodesOf("Tool", e.refs.tool)
      workflows == NodesOf("Workflow", e.refs.workflow)
      artifacts == NodesOf("Artifact", e.refs.artifact)
      agent == NodesOf("Agent", e.refs.agent)
      conversation == NodesOf("Conversation", e.refs.conversation)
  IN  [NoEffect EXCEPT
         !.raise = p \cup run \cup version \cup item \cup source \cup sources
                   \cup tools \cup workflows \cup artifacts \cup agent
                   \cup Rels("PERSONA_HAS_DISTILLATION_RUN", p, run)
                   \cup Rels("PERSONA_HAS_VERSION", p, version)
                   \cup Rels("RUN_PRODUCED_VERSION", run, version)
                   \cup Rels("RUN_EXTRACTED_ITEM", run, item)
                   \cup Rels("ITEM_DERIVED_FROM_MEMORY", item, source)
                   \cup Rels("RUN_USED_SOURCE_MEMORY", run, sources)
                   \cup Rels("PERSONA_PUBLISHED_MEMORY", p, memories)
                   \cup Rels("PERSONA_USES_TOOL", p, tools)
                   \cup Rels("PERSONA_FOLLOWS_WORKFLOW", p, workflows)
                   \cup Rels("PERSONA_PRODUCES_ARTIFACT", p, artifacts)
                   \cup Rels("PERSONA_MATERIALIZED_AS_AGENT", p, agent)
                   \cup Rels("PERSONA_INVOKED_IN_CONVERSATION", p, conversation),
         !.touch = memories \cup conversation]

-----------------------------------------------------------------------------
(* The dispatch of an event to its handler.  An event without one changes  *)
(* nothing and is still marked projected.                                  *)

StepTypes == {"task.started", "agent.step.completed", "agent.step.failed"}
RunTypes == {"execution.started", "execution.completed", "execution.failed"}
ContainerTypes == {"container.created", "container.failed",
                   "container.replaced", "container.started",
                   "container.stopped"}
DetailTypes ==
  {"approval.granted", "approval.rejected", "approval.requested",
   "artifact.created", "context.compaction.completed",
   "context.compaction.failed", "context.compaction.started",
   "context.health.recorded", "llm.request.created", "llm.response.created",
   "monitor.finding.created", "runtime.revision.resolved",
   "token.budget.exceeded", "token.budget.warning", "token.usage.recorded",
   "tool.call.completed", "tool.call.failed", "tool.call.started"}
PersonaTypes ==
  {"persona.factory.distilled", "persona.factory.item.updated",
   "persona.factory.item.approved", "persona.factory.item.rejected",
   "persona.factory.items.normalized", "persona.factory.package.synthesized",
   "persona.factory.package.updated", "persona.factory.run.approved",
   "persona.factory.version.published", "persona.runtime.invoked"}

IsStep(e) == \/ e.type \in StepTypes
             \/ e.kind = "step_run" /\ e.type \in RunTypes

Projection(g, e) ==
  CASE IsStep(e) -> StepRun(g, e)
    [] e.type \in {"workflow.created", "workflow.updated"} -> Workflow(g, e)
    [] e.type = "workflow.deleted" -> WorkflowDeleted(g, e)
    [] e.type \in RunTypes /\ ~IsStep(e) -> WorkflowRun(g, e)
    [] e.type = "execution.deleted" -> WorkflowRunDeleted(g, e)
    [] e.type \in DetailTypes -> EventDetail(g, e, "ExecutionEvent")
    [] e.type \in ContainerTypes -> EventDetail(g, e, "ContainerEvent")
    [] e.type \in {"memory.created", "memory.updated"} -> Memory(g, e)
    [] e.type = "memory.deleted" -> MemoryDeleted(g, e)
    [] e.type = "memory.entities.extracted" -> MemoryEntities(g, e)
    [] e.type = "memory.source_intelligence.graph_hints.approved" ->
         MemoryGraphHints(g, e)
    [] e.type = "document_memory_collection.created" -> Document(g, e)
    [] e.type = "document_memory_collection.deleted" -> DocumentDeleted(g, e)
    [] e.type \in {"workflow_memory_link.created",
                   "workflow_memory_link.updated"} -> WorkflowMemoryLink(g, e)
    [] e.type = "workflow_memory_link.deleted" -> WorkflowMemoryLinkDeleted(g, e)
    [] e.type \in PersonaTypes -> Persona(g, e)
    [] OTHER -> NoEffect

Project(g, e) == Effected(g, Projection(g, e))

=============================================================================
