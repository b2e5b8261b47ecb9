SPECIFICATION TrackersSpec
CONSTANTS
  h1 = h1
  h2 = h2
  k1 = k1
  Keys = {k1}
  MaxTraffic <- OneKeyTraffic
  None = None
  Handlers = {h1, h2}
  MaxMoved <- MCTraffic
  NoRequest = NoRequest
INVARIANTS
  TypeOK
  NoOvercount
  
PROPERTIES
  AccountedNeverLost
  RetiredEntryLeaves
