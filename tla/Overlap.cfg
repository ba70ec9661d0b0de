SPECIFICATION Spec
CONSTANTS
  f1 = f1
  dr1 = dr1
  dr2 = dr2
  good = good
  better = better
  poor = poor
  bad = bad
  p1 = p1
  p2 = p2
  o1 = o1
  o2 = o2
  s1 = s1
  s2 = s2
  None = None
  Families = {f1}
  Names = {dr1, dr2}
  FamilyOf <- MCFamilyOf
  Sources = {good, better}
  StagingStatus <- TwoStaging
  ProductionStatus <- TwoProduction
  Importers = {p1, p2}
  SeedIds = {s1}
  Seed <- LiveSeed
  ImportRequests <- OverlapRequests
  MaxLockAttempts = 2
  LockTimeoutSet = TRUE
  Faults = {"error", "crash"}
  Operators = {o1}
  OperatorRequests <- OverlapCommands
  OperatorFaults = TRUE
  Exclusive = FALSE
  LockHolders = {f1}
SYMMETRY ImporterSymmetry
INVARIANTS
  TypeOK
  OneActivePerFamily
  BuiltHasTable
  BuiltIsServed
  RunningMeansLive
