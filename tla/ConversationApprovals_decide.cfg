SPECIFICATION Spec
CONSTANTS
  w1 = w1
  w2 = w2
  t1 = t1
  g1 = g1
  k1 = k1
  e1 = e1
  f1 = f1
  f2 = f2
  Workflows = {w1, w2}
  Tools = {t1}
  Agents = {g1}
  Fresh = {w2}
  Edits = {e1}
  Findings <- MCFindings
  Proposals <- MCProposals
  Operators = {o1}
  Decisions = {"approve", "reject", "changes", "split"}
  Monitors = {m1}
  MaxApprovals = 3
  MaxProposals = 1
  MaxScans = 1
  MaxFaults = 1
INVARIANTS TypeOK AppliedIsApproved AppliedOnce OnePendingPerProblem
PROPERTIES DecisionIsFinal
CHECK_DEADLOCK FALSE
