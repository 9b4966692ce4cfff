SPECIFICATION Spec
CONSTANTS
  ApplyReq = {a1, a2}
  DecideReq = {}
  PlanReq = {q1, q2}
  PlanIds = {p1, p2}
  Keys = {k1, k2}
  None = None
  MaxFaults = 1
  MaxCrashes = 1
SYMMETRY Symmetry
INVARIANTS
  WritesAreOrdered
  AckedRequestIsDurable
CHECK_DEADLOCK FALSE
