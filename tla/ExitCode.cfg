SPECIFICATION JobSpec
CONSTANTS
  f1 = f1
  dr1 = dr1
  dr2 = dr2
  good = good
  better = better
  poor = poor
  bad = bad
  p1 = p1
  p2 = p2
  o1 = o1
  o2 = o2
  s1 = s1
  s2 = s2
  None = None
  Families = {f1}
  Names = {dr1, dr2}
  FamilyOf <- MCFamilyOf
  Sources = {good, poor, bad}
  StagingStatus <- MixedStaging
  ProductionStatus <- MixedProduction
  Importers = {p1}
  SeedIds = {s1, s2}
  Seed <- PairSeed
  ImportRequests <- SerialRequests
  MaxLockAttempts = 2
  LockTimeoutSet = TRUE
  Faults = {"error"}
  Operators = {}
  OperatorRequests <- SerialCommands
  OperatorFaults = FALSE
  Exclusive = TRUE
  LockHolders = {}
PROPERTY
  ConnectionFailuresExit2
