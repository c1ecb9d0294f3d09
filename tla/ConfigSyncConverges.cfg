SPECIFICATION FairSpec
CONSTANTS
  g1 = g1
  g2 = g2
  NoGroup = NoGroup
  Idle = Idle
  Groups = {g1, g2}
  DefaultGroup = g1
  Objects <- GroupedObjects
  Workers = {w1}
  MaxRetries = 2
  AllowDelete = TRUE
  UpdateCreates = TRUE
  FailingCalls = {"update", "delete"}
  MissedDeletes = FALSE
  MaxChanges = 3
  MaxFaults = 2
  MaxRestarts = 0
INVARIANTS FilesAccounted QuietIsSynced
PROPERTIES NeverRegresses PublishedConverges RemovedConverges
CHECK_DEADLOCK FALSE
