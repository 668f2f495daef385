CONSTANTS
  Msg = {m1, m2, m3}
  Topic = {alerts}
  Consumer = {c1, c2}
  NoOne = NoOne
  NoTopic = NoTopic
  MaxAttempts = 2
  LeaseS = 2
  MaxDelay = 1
  MaxBatch = 2
SPECIFICATION FairSpec
INVARIANTS TypeOK SettledOneWay AttemptsRespected RowsConsistent
PROPERTIES LeaseNotStolen SettledForGood EventuallySettled ImplementsDelivery
