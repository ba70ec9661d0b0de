SPECIFICATION ProvisioningSpec
CONSTANTS
  f1 = f1
  f2 = f2
  c1 = c1
  c2 = c2
  None = None
  Families = {f1, f2}
  Heads = {2, 3}
  CreatedBy <- MCCreatedBy
  Commands = {c1, c2}
SYMMETRY CommandSymmetry
INVARIANTS
  ProvisioningTypeOK
  OwnerMigrates
  PartitionsReadable
  HealthyMeansQueryable
PROPERTIES
  InitRepairs
  NothingTakenAway
