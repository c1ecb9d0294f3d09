SPECIFICATION FairSpec
CONSTANTS
  s1 = s1
  s2 = s2
  a1 = a1
  a2 = a2
  x = x
  y = y
  NoSvc = NoSvc
  NoAddr = NoAddr
  NoInstance = NoInstance
  Foreign = Foreign
  Idle = Idle
  Objects <- LiveObjects
  Services = {s1}
  Addrs = {a1}
  Attrs = {x, y}
  NsAnnotations = {"unset"}
  SyncMode = "all"
  Workers = {w1, w2}
  MaxRetries = 1
  MissedDeletes = {}
  MaxChanges = 1
  MaxEnables = 0
  MaxWriteFaults = 0
  MaxRefusals = 1
  MaxQueryFaults = 0
  MaxProbeFaults = 0
  MaxRestarts = 0
  MaxForeign = 0
  MaxPending = 1
INVARIANTS TypeOK ResyncTracksServices
PROPERTIES LiveConverges
