SPECIFICATION Spec
CONSTANTS
  g1 = g1
  g2 = g2
  NoGroup = NoGroup
  Idle = Idle
  Groups = {g1, g2}
  DefaultGroup = g1
  Objects <- AllObjects
  Workers = {w1, w2}
  MaxRetries = 1
  AllowDelete = FALSE
  UpdateCreates = FALSE
  FailingCalls = {"create", "release"}
  MissedDeletes = TRUE
  MaxChanges = 2
  MaxFaults = 1
  MaxRestarts = 1
INVARIANTS TypeOK OnlySyncedReachesPolaris
SYMMETRY Symmetry
CHECK_DEADLOCK FALSE
