SPECIFICATION FairSpec
CONSTANTS
  e1 = e1  e2 = e2  k1 = k1  k2 = k2  vless = vless  ss = ss  api = api
  Emails = {e1, e2}
  Creds = {k1, k2}
  Inbounds = {vless, ss, api}
  Excluded = {api}
  RawUsers <- MCRawUsers
  Classic = {ss}
  UserMsgs <- MCUserMsgs
  MaxBatch = 2
  Callers = {c1, c2}
  MaxFaults = 2
  None = None
INVARIANTS
  TypeOK
  NoStaleUsers
PROPERTIES
  Recovers
  HealthLoopEnds
