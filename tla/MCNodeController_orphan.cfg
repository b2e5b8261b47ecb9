SPECIFICATION Spec
CONSTANTS
  Handlers = {h1}
  Main = main
  MaxStarts = 2
  KeepAlives <- Either
  Recovers = FALSE
  None = None
INVARIANTS
  ControlTakenAway
CHECK_DEADLOCK FALSE
