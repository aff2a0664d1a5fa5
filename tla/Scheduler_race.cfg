SPECIFICATION Spec
CONSTANTS
  Pollers = {p1, p2}
  Callers = {c1}
  Commands = {"trigger", "enable", "disable", "patch", "delete"}
  TriggerTypes = {"cron"}
  CronTimes = {1, 2}
  Interval = 1
  MaxConcurrent = 1
  MaxNow = 1
  Horizon = 2
  MaxRequests = 1
  MaxFailures = 1
  MaxExpiries = 1
  MaxCrashes = 1
  None = None
INVARIANTS TypeOK OneExecutionPerFire
CHECK_DEADLOCK FALSE
