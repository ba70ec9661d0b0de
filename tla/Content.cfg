SPECIFICATION ContentSpec
CONSTANTS
  None = None
  Ids = {1, 2}
  Clusters = {"M15", "M92"}
  FilesOf <- MCFilesOf
  Sources <- MCSources
  Uploads <- MCUploads
  Stamps <- MCStamps
  Expected = 3
  MaxUploads = 1
  MaxImports = 2
INVARIANTS
  ContentTypeOK
  Accounting
  NothingDropped
  ServedRowsValid
PROPERTIES
  PassedMeansClean
  RevalidationAgrees
CHECK_DEADLOCK FALSE
