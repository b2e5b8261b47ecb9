SPECIFICATION OutboundsSpec
CONSTANTS
  t1 = t1
  t2 = t2
  inbound = inbound
  b0 = b0
  b1 = b1
  Tags = {NoTag, t1, t2, inbound}
  NoTag = NoTag
  Taken = {inbound}
  Bodies = {b0, b1}
  NewBody = b0
  Incomplete = {b0}
  Unmanaged = Unmanaged
  Bad = Bad
  Nothing = Nothing
  Hole = Hole
  StoredLists <- MCStoredLists
  MaxRows = 3
  MaxActs = 2
INVARIANTS
  OutboundTagsUnique
  OnlyOpenedRowChanges
  OutboundsRemain
PROPERTIES
  DiscardedEditIsLost
CHECK_DEADLOCK FALSE
