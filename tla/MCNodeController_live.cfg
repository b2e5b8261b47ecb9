SPECIFICATION FairSpec
CONSTANTS
  Handlers = {h1}
  Main = main
  MaxStarts = 2
  KeepAlives <- Always
  Recovers = TRUE
  None = None
PROPERTIES
  KeepAliveEnforced
CHECK_DEADLOCK FALSE
