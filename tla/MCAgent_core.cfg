SPECIFICATION AgentSpec
CONSTANTS
  PlanProc = {q1, q2}
  ApplyProc = {p1, p2}
  PlanIds = {i1, i2}
  Contents = {c1, c2}
  Keys = {k1, k2}
  None = None
  MaxFaults = 1
  MaxKills = 1
SYMMETRY Symmetry
INVARIANTS
  ChangedAsApproved
  SuccessIsEarned
  ReadyPlanIsKept
PROPERTIES
  RetryIsRecognised
CHECK_DEADLOCK FALSE
