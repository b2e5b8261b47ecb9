SPECIFICATION PanelNodeSpec
CONSTANTS
  u1 = u1
  c1 = c1
  c2 = c2
  c3 = c3
  a1 = a1
  r1 = r1
  r2 = r2
  Users = {u1}
  Clients = {c1, c2, c3}
  None = None
  Attempts = {a1}
  HealthCheck = HealthCheck
  Requests = {r1, r2}
  MaxChanges = 2
  MaxFaults = 1
  MaxEvents = 2
INVARIANTS
  PanelNodeTypeOK
  
  ConnectedNodeServesUsers
CHECK_DEADLOCK FALSE
PROPERTIES
  StoppedUntilEnabled
  ServesUsers
  
