SPECIFICATION Spec
CONSTANTS
  Backends = {b1, b2}
  Reconcilers = {}
  Callers = {r1}
  Commands = {"start", "wake", "cancel", "repair"}
  Containers = {c1, c2}
  Terminate = {TRUE}
  MaxRequests = 2
  MaxFaults = 0
  None = None
SYMMETRY Symmetry
INVARIANTS TypeOK OneWorker NoFalseCompletion
CHECK_DEADLOCK FALSE
