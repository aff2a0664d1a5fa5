SPECIFICATION Spec
CONSTANTS
  n1 = n1 n2 = n2 n3 = n3
  Nodes = {n1, n2, n3}
  NodeOrder <- MCNodeOrder
  Workflows <- MCWorkflows
  Signals = {"blocked", "stopped"}
  MaxCommands = 2
  MaxRequests = 3
  MaxDecisions = 2
  MaxCycle = 2
  MaxCrashes = 2
INVARIANTS TypeOK PlanIsTopological CompletedWalkIsExact
PROPERTIES NodesRunOnce RunsAreApproved
CHECK_DEADLOCK FALSE
