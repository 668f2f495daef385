CONSTANTS
  a = a
  b = b
  Node = {a, b}
  NoNode = NoNode
  Rounds = 3
  MinFit = 2
  DegradeAfter = 2
  MaxSteps = 2
  H1c = TRUE
  StatsCost = 1
  ThresholdCost = 1
  Budget <- MCBudget
  MaxRuns = 2
SPECIFICATION FairSpec
INVARIANTS TypeOK BudgetKept H1cComplete RegistryAndLogsAgree
  PlannedRunNeverDeclines
PROPERTIES EventuallyEnds ImplementsLedger
CHECK_DEADLOCK FALSE
