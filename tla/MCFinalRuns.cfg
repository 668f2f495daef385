CONSTANTS
  x1 = x1
  x2 = x2
  Run = {x1, x2}
  Client = {c1, c2}
  Attempt = {a1, a2, a3, a4}
  MaxEvents = 2
  Rank <- MCRank
  None = None
SPECIFICATION FairSpec
INVARIANTS TypeOK AcceptedRightly
PROPERTIES NeverRepeated EventuallyComplete
