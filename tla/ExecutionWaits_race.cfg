SPECIFICATION Spec
CONSTANTS
  Executions = {e1}
  NativeExecutions = {e1}
  Waits = {w1, w2}
  Callers = {c1, c2}
  Commands = {"create", "resolve", "event", "cancel"}
  Kinds = {"event", "sleep"}
  WaitLoop = WaitLoop
  Keys = {k1}
  MaxRequests = 3
  MaxBeats = 0
  MaxCrashes = 0
  None = None
SYMMETRY CallerSymmetry
INVARIANTS TypeOK OneWaitPerKey SingleWake
PROPERTY ImplementsLedger
CHECK_DEADLOCK FALSE
