SPECIFICATION Spec
CONSTANTS
  n1 = n1 n2 = n2 n3 = n3
  Nodes = {n1, n2, n3}
  NodeOrder <- MCNodeOrder
  Workflows <- MCMonitors
  Signals = {}
  MaxCommands = 1
  MaxRequests = 0
  MaxDecisions = 0
  MaxCycle = 2
  MaxCrashes = 1
INVARIANT MonitorGoesOn
CHECK_DEADLOCK FALSE
