SPECIFICATION FairSpec
CONSTANTS
  Null = Null
  NotLoading = NotLoading
  Pods = {p1, p2}
  UserPods <- MCOnDemandPods
  Edits <- MCEdits
  Templates <- MCTemplates
  NsLabels = {"unset"}
  DefaultMode = "dns"
  Breakable = {"inject", "certs"}
  MaxVersions <- MCFilesChange
  MaxCalls = 1
  MaxFaults = 0
INVARIANT NoUpdateLost
PROPERTY ConfigConverges
CHECK_DEADLOCK FALSE
