SPECIFICATION Spec
CONSTANTS
  ApplyReq = {a1}
  DecideReq = {d1}
  PlanReq = {}
  PlanIds = {p1}
  Keys = {k1}
  None = None
  MaxFaults = 0
  MaxCrashes = 0
INVARIANTS
  ApprovalOutcomeShown
CHECK_DEADLOCK FALSE
