CONSTANTS
  Plan = {n1, n2}
  MaxHops = 2
  Technique = {t1}
  Operator = {o1, o2}
  NoTechnique = NoTechnique
  Nothing = Nothing
  MaxCrashes = 2
SPECIFICATION Spec
INVARIANT DegradedIsReported
