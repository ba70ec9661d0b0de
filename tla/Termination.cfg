SPECIFICATION FairSpec
CONSTANTS
  f1 = f1
  dr1 = dr1
  dr2 = dr2
  good = good
  better = better
  poor = poor
  bad = bad
  p1 = p1
  p2 = p2
  o1 = o1
  o2 = o2
  s1 = s1
  s2 = s2
  None = None
  Families = {f1}
  Names = {dr1, dr2}
  FamilyOf <- MCFamilyOf
  Sources = {good, better}
  StagingStatus <- TwoStaging
  ProductionStatus <- TwoProduction
  Importers = {p1, p2}
  SeedIds = {s1}
  Seed <- LiveSeed
  ImportRequests <- ContendedRequests
  MaxLockAttempts = 3
  LockTimeoutSet = TRUE
  Faults = {}
  Operators = {o1, o2}
  OperatorRequests <- ContendedCommands
  OperatorFaults = FALSE
  Exclusive = FALSE
  LockHolders = {f1}
PROPERTY
  ImportTerminates
