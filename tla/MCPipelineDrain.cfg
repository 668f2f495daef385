CONSTANTS
  m1 = m1
  m2 = m2
  m3 = m3
  Msg = {m1, m2, m3}
  Topic = {alerts}
  Consumer = {mesh}
  NoOne = NoOne
  NoTopic = NoTopic
  MaxAttempts = 3
  LeaseS = 1
  MaxDelay = 0
  MaxBatch = 1
  Site = alerts
  Mesh = mesh
  Batch = 1
  End <- MCEndApart
  DeltaT = 1
  MaxFailures = 0
SPECIFICATION PSlowSpec
PROPERTY DrainsTheTopic
