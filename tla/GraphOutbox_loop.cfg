SPECIFICATION LiveSpec
CONSTANTS
  None = None
  w1 = w1 m1 = m1 m2 = m2 x1 = x1 l1 = l1 p1 = p1 d1 = d1
  a1 = a1 a2 = a2 t1 = t1 k1 = k1
  LinkRefs <- MCLinkRefs
  PersonaEvents <- MCPersonaEvents
  HintRefs <- MCHintRefs
  Uploads <- MCUploads
  Workflows = {w1}
  Memories = {m1, m2}
  Executions = {}
  Links = {l1}
  Personas = {p1}
  Extracted = {}
  Callers = {c1}
  Loops = {r1}
  Shells = {s1}
  Operations = {"document", "item", "link", "backfill", "hints", "persona"}
  Commands = {"replay_failed", "replay_run"}
  BatchSize = 2
  MaxEvents = 3
  MaxCommands = 1
  MaxFaults = 1
  Faulty = {r1}
  Watched = {2}
  Before <- MCOldRecords
  WorkflowRefs <- MCWorkflowRef
  MemoryRefs <- MCMemoryRef
  Inactive <- MCInactive
  RunEvents <- MCRunEvents
PROPERTY EventsAreDecided
CHECK_DEADLOCK FALSE
