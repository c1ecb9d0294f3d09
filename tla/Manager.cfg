SPECIFICATION FairSpec
CONSTANTS
  p1 = p1
  p2 = p2
  p3 = p3
  h1 = h1
  h2 = h2
  Processes = {p1, p2, p3}
  Hosts = {h1, h2}
  Host <- MCHost
  LeaseDuration = 4
  RenewDeadline = 2
  RetryPeriod = 1
  NoOne = NoOne
  None = None
  MaxFaults = 2
INVARIANTS TypeOK OneActive
PROPERTIES TakesOver SelfRegistered
