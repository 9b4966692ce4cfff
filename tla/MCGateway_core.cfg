SPECIFICATION FairSpec
CONSTANTS
  ApplyReq = {a1}
  DecideReq = {d1, d2}
  PlanReq = {}
  PlanIds = {p1}
  Keys = {k1}
  None = None
  MaxFaults = 1
  MaxCrashes = 1
INVARIANTS
  ResultsAreGated
  DecisionIsAnsweredTruly
  AuditTellsTheDecision
PROPERTIES
  OutcomesStay
  EveryRequestAnswered
  ApprovedIsExecuted
CHECK_DEADLOCK FALSE
