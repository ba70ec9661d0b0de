SPECIFICATION Spec
CONSTANTS
  f1 = f1
  dr1 = dr1
  dr2 = dr2
  good = good
  better = better
  poor = poor
  bad = bad
  p1 = p1
  p2 = p2
  o1 = o1
  o2 = o2
  s1 = s1
  s2 = s2
  None = None
  Families = {f1}
  Names = {dr1}
  FamilyOf <- OneFamily
  Sources = {good, poor, bad}
  StagingStatus <- MixedStaging
  ProductionStatus <- MixedProduction
  Importers = {p1}
  SeedIds = {s1}
  Seed <- PoorSeed
  ImportRequests <- OneSkip
  MaxLockAttempts = 2
  LockTimeoutSet = TRUE
  Faults = {}
  Operators = {o1}
  OperatorRequests <- Revalidation
  OperatorFaults = FALSE
  Exclusive = TRUE
  LockHolders = {}
PROPERTY
  WarningsBlockActivation
