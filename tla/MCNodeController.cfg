SPECIFICATION Spec
CONSTANTS
  Handlers = {h1, h2}
  Main = main
  MaxStarts = 2
  KeepAlives <- Either
  Recovers = FALSE
  None = None
SYMMETRY Symmetry
INVARIANTS
  TypeOK
  NoDeadBackendStays
  TrackedWhileInstalled
  NoOrphanWhenSerial
  OneTrackerWhenSerial
CHECK_DEADLOCK FALSE
