SPECIFICATION FairSpec
CONSTANTS
  Pollers = {p1, p2}
  Callers = {c1}
  Commands = {"disable"}
  TriggerTypes = {"cron", "interval"}
  CronTimes = {1, 2}
  Interval = 1
  MaxConcurrent = 1
  MaxNow = 1
  Horizon = 2
  MaxRequests = 1
  MaxFailures = 1
  MaxExpiries = 0
  MaxCrashes = 0
  None = None
PROPERTY DueTimeIsLeft
CHECK_DEADLOCK FALSE
