SPECIFICATION FairSpec
CONSTANTS
  Executions = {e1}
  NativeExecutions = {e1}
  Waits = {w1}
  Callers = {c1}
  Commands = {"create", "start", "pause"}
  Kinds = {"sleep"}
  WaitLoop = WaitLoop
  Keys = {k1}
  MaxRequests = 3
  MaxBeats = 1
  MaxCrashes = 1
  None = None
PROPERTY SuspendedTimerFires
CHECK_DEADLOCK FALSE
