CONSTANTS
  n1 = n1
  n2 = n2
  Node = {n1, n2}
  Token = {j1, j2, j3}
  Request = {r1, r2}
  Free = Free
  Ttl = 1
  Leeway = 1
  MaxEntries = 1
  Worlds <- MCWorlds
  Deadline = 2
  Timeout = 2
  ConnectTimeout = 1
  MaxRetries = 1
  MaxSleep = 1
  Threshold = 2
  OpenSeconds = 2
  MaxCrashes = 1
  None = None
SPECIFICATION FairSpec
INVARIANTS TypeOK EndsInTime
PROPERTIES FailingNodeSpared NoTokenTwice RefusedOnlyWhenFull EventuallyInvestigated
