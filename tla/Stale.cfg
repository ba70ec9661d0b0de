SPECIFICATION ContentSpec
CONSTANTS
  None = None
  Ids = {1, 2}
  Clusters = {"M15", "M92"}
  FilesOf <- MCFilesOf
  Sources <- MCPlainSources
  Uploads <- MCUploads
  Stamps <- MCStamps
  Expected = 3
  MaxUploads = 1
  MaxImports = 1
INVARIANT
  ContentIdentifiesRows
CHECK_DEADLOCK FALSE
