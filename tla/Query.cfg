SPECIFICATION QuerySpec
CONSTANTS
  None = None
  Worlds <- MCWorlds
  Cones <- MCCones
  Lookups <- MCLookups
  Batches <- MCBatches
  Defaults = {None, 0, 30}
  InputIds = {"b", "C", "id"}
  Collation <- MCCollation
  CodePoint <- MCCodePoint
  Heading = "id"
INVARIANTS
  QueryTypeOK
  SearchIsReference
  BatchAgreesWithCone
  EveryInputAnswered
  BatchIsOrdered
  ConnectionsKeepTheirRole
