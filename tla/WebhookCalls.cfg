SPECIFICATION Spec
CONSTANTS
  Null = Null
  NotLoading = NotLoading
  Pods = {p1, p2}
  UserPods <- MCUserPods
  Edits <- MCEdits
  Templates <- MCTemplates
  NsLabels = {"unset", "java-agent"}
  DefaultMode = "dns"
  Breakable = {}
  MaxVersions <- MCTemplatesChange
  MaxCalls = 2
  MaxFaults = 1
INVARIANTS TypeOK InjectedAsIntended RefusedOnlyForAgent SidecarConfigured
SYMMETRY MCSymmetry
CHECK_DEADLOCK FALSE
