SPECIFICATION ServingSpec
CONSTANTS
  f1 = f1
  dr1 = dr1
  dr2 = dr2
  good = good
  better = better
  poor = poor
  bad = bad
  p1 = p1
  p2 = p2
  o1 = o1
  o2 = o2
  s1 = s1
  s2 = s2
  t1 = t1
  t2 = t2
  None = None
  Families = {f1}
  Names = {dr1, dr2}
  FamilyOf <- MCFamilyOf
  Sources = {good, better}
  StagingStatus <- TwoStaging
  ProductionStatus <- TwoProduction
  Importers = {}
  SeedIds = {s1, s2}
  Seed <- PairSeed
  ImportRequests <- OverlapRequests
  MaxLockAttempts = 2
  LockTimeoutSet = TRUE
  Faults = {}
  Operators = {o1}
  OperatorRequests <- SwitchCommands
  OperatorFaults = FALSE
  Exclusive = FALSE
  LockHolders = {}
  Threads = {t1}
  Calls <- ActiveCalls
  MaxCloses = 0
INVARIANT
  NoFalseEmpty
