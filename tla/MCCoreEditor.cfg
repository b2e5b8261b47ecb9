SPECIFICATION CoreEditorSpec
CONSTANTS
  A = A
  B = B
  c1 = c1
  c2 = c2
  n1 = n1
  s1 = s1
  s2 = s2
  Cores = {A, B}
  Configs = {c1, c2}
  Default = c1
  Names = {NoName, n1}
  NoName = NoName
  Broken = Broken
  NoCore = NoCore
  Stored <- MCStored
  Slots = {s1, s2}
  MaxEdits = 3
  MaxVisits = 2
SYMMETRY Symmetry
INVARIANTS
  AllChangesSavedWhenSerial
  
  SaveTargetsItsCore
PROPERTIES
  DiscardRestoresSaved
CHECK_DEADLOCK FALSE
