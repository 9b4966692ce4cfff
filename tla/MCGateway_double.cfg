SPECIFICATION Spec
CONSTANTS
  ApplyReq = {a1}
  DecideReq = {d1, d2}
  PlanReq = {}
  PlanIds = {p1}
  Keys = {k1}
  None = None
  MaxFaults = 0
  MaxCrashes = 0
INVARIANTS
  SecondDecisionRefused
CHECK_DEADLOCK FALSE
