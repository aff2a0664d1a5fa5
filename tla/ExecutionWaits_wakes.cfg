SPECIFICATION FairSpec
CONSTANTS
  Executions = {e1}
  NativeExecutions = {e1}
  Waits = {w1, w2}
  Callers = {c1, c2}
  Commands = {"create", "resolve", "resume", "pause", "cancel"}
  Kinds = {"sleep"}
  WaitLoop = WaitLoop
  Keys = {k1, k2}
  MaxRequests = 2
  MaxBeats = 0
  MaxCrashes = 0
  None = None
INVARIANT OnePendingWait
PROPERTIES SuspendedTimerFires ClaimIsAnnounced
CHECK_DEADLOCK FALSE
