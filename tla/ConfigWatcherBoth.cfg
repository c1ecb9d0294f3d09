SPECIFICATION FairSpec
CONSTANTS
  fApp = fApp
  fdApp = fdApp
  d = d
  app = app
  dApp = dApp
  ddApp = ddApp
  e1 = e1
  e2 = e2
  CmTags = {TRUE}
  ExecWorkers = {e1, e2}
  QueueSize = 1
  NoCm = NoCm
  NoRef = NoRef
  Files = {fApp, fdApp}
  CmNames = {app, dApp, ddApp}
  GroupOf <- MCGroupOf
  MirrorName <- MCMirrorName
  PushedAs <- MCPushedAs
  Direction = "both"
  AllowDelete = TRUE
  MaxChanges = 3
  MaxFaults = 1
  MaxInFlight = 1
INVARIANTS TypeOK NoCycle
PROPERTIES NamespacesFollowed MirrorConverges
