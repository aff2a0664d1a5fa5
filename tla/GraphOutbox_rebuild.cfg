SPECIFICATION Spec
CONSTANTS
  None = None
  w1 = w1 m1 = m1 m2 = m2 x1 = x1 l1 = l1 p1 = p1 d1 = d1
  a1 = a1 a2 = a2 t1 = t1 k1 = k1
  LinkRefs <- MCLinkRefs
  PersonaEvents <- MCPersonaEvents
  HintRefs <- MCHintRefs
  Uploads <- MCUploads
  Workflows = {w1}
  Memories = {m1}
  Executions = {x1}
  Links = {}
  Personas = {}
  Extracted = {a2}
  Callers = {c1}
  Loops = {}
  Shells = {s1}
  Operations = {"workflow", "memory", "execution"}
  Commands = {"rebuild", "rebuild_clear"}
  BatchSize = 2
  MaxEvents = 4
  MaxCommands = 2
  MaxFaults = 1
  Faulty = {c1, s1}
  Watched = {}
  Before <- MCNothing
  WorkflowRefs <- MCWorkflowRefs
  MemoryRefs <- MCMemoryRef
  Inactive = {}
  RunEvents <- MCRunEvents
INVARIANT TypeOK RecordsAreReplayed GraphFollowsSource
PROPERTY RebuildIsExact
CHECK_DEADLOCK FALSE
