CONSTANTS
  m1 = m1
  m2 = m2
  m3 = m3
  Msg = {m1, m2, m3}
  Topic = {alerts}
  Consumer = {mesh}
  NoOne = NoOne
  NoTopic = NoTopic
  MaxAttempts = 3
  LeaseS = 2
  MaxDelay = 0
  MaxBatch = 2
  Site = alerts
  Mesh = mesh
  Batch = 2
  End <- MCEnd
  DeltaT = 1
  MaxFailures = 2
SPECIFICATION PFairSpec
INVARIANTS PTypeOK FedOnce HandledOnce IncidentsChained
PROPERTIES EventuallyHandled ImplementsHandling
