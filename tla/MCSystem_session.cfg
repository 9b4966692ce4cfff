SPECIFICATION SessionSpec
CONSTANTS
  ApplyReq = {a1, a2}
  DecideReq = {d1, d2}
  PlanReq = {q1}
  PlanIds = {p1}
  Keys = {k1, k2}
  None = None
  MaxFaults = 1
  MaxCrashes = 1
  Contents = {c1, c2}
  BodyKeys = {b1, b2}
  MaxAgentFaults = 1
  MaxKills = 1
  MaxAuditFaults = 1
  MaxTroubles = 1
SYMMETRY Symmetry
INVARIANTS
  SysTypeOK
  ChangeWasApproved
  OperationIsHonest
  AuditFileTellsTheDecision
  RunMatchesDecision
  OneApprovalPerKey
PROPERTIES
  ReportedIsNotRepeated
  ImplementsApprovalStore
CHECK_DEADLOCK FALSE
