SPECIFICATION FairSpec
CONSTANTS
  s1 = s1
  s2 = s2
  a1 = a1
  a2 = a2
  x = x
  y = y
  NoSvc = NoSvc
  NoAddr = NoAddr
  NoInstance = NoInstance
  Foreign = Foreign
  Idle = Idle
  Objects <- NamespaceObjects
  Services = {s1}
  Addrs = {a1}
  Attrs = {x}
  NsAnnotations = {"true", "unset"}
  SyncMode = "demand"
  Workers = {w1}
  MaxRetries = 1
  MissedDeletes = {"service"}
  MaxChanges = 1
  MaxEnables = 0
  MaxWriteFaults = 0
  MaxRefusals = 0
  MaxQueryFaults = 1
  MaxProbeFaults = 3
  MaxRestarts = 1
  MaxForeign = 1
  MaxPending = 1
PROPERTIES ForeignUntouched LiveConverges
