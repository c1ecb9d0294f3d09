SPECIFICATION FairSpec
CONSTANTS
  Null = Null
  NoSvc = NoSvc
  Source = "polaris-controller"
  ClusterName = "c1"
  DefaultWeight = 100
  Objects <- MCObjects
  Addrs = {a1}
  Endpoints <- MCEndpoints
  LabelKeys = {"app"}
  FailingCalls = {"service", "alias", "get", "put", "query", "add", "update", "delete"}
  MaxChanges = 2
  MaxEdits = 1
  MaxBeats = 1
  MaxFaults = 1
INVARIANTS TypeOK SyncExact
PROPERTIES InstancesConverge Settles LabelsConverge AliasConverges
