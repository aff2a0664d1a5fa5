SPECIFICATION FairSpec
CONSTANTS
  Backends = {b1}
  Reconcilers = {b1}
  Callers = {r1}
  Commands = {"start"}
  Containers = {c1}
  Terminate = {TRUE, FALSE}
  MaxRequests = 1
  MaxFaults = 2
  None = None
PROPERTIES  ExitedIsRemoved
CHECK_DEADLOCK FALSE
