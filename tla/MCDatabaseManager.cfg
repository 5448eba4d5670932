SPECIFICATION Spec
CONSTANTS
  DefIndices <- MCDefIndices
  Ids = {0, 1, 3}
  IdSpace = 8
  DefVersion <- MCDefVersion
  Rows <- MCRows
  HasHeader <- MCHasHeader
  FileVersion <- MCFileVersion
  Flags <- MCFlags
INVARIANTS TypeOK FetchIsExact OnlySupportedVersions
