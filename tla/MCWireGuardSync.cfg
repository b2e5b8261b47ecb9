SPECIFICATION FairSpec
CONSTANTS
  e1 = e1  e2 = e2  k1 = k1  k2 = k2  i1 = i1  i2 = i2  far = far
  Emails = {e1, e2}
  Keys = {k1, k2}
  BadKey = BadKey
  IPs = {i1, i2, far}
  PoolIPs = {i1, i2}
  Callers = {c1, c2}
  None = None
  MaxBatch = 2
  UserMsgs <- MCUserMsgs
INVARIANTS
  TypeOK
  OneToOne
  StoreMatchesKernel
  SyncEffect
PROPERTIES
  SyncMuReleased
  UntouchedUsersKept
  ShutdownIsFinal
