SPECIFICATION ConfigSpec
CONSTANTS
  Proc = {p1, p2, p3}
  Server = {s1, s2}
  Secret = {x1, x2}
  None = None
  MaxFaults = 1
SYMMETRY Symmetry
INVARIANTS
  ConfigTypeOK
  CredentialsOfTheServer
  NamedServerIsUsable
  SetIsKept
CHECK_DEADLOCK FALSE
