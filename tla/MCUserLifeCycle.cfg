SPECIFICATION LifeSpec
CONSTANTS
  Requests = {r1}
  Limits = {0, 1}
  Created <- SomeUsers
  Plans <- SomePlans
  NoPlan = NoPlan
  Edits <- SomeEdits
  MaxMoved = 2
  MaxTime = 1
  MaxEvents = 2
INVARIANTS
  ChargedOnce
  StoppedForReason
PROPERTIES
  DisabledUntilEnabled
  EverybodyReviewed
CHECK_DEADLOCK FALSE
