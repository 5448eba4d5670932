SPECIFICATION DepotSpec
CONSTANTS
  Directories <- MCDirectories
  Disks <- MCDisks
  MaxDirectiveLoads = 2
  MaxLoads = 2
  ParseInto <- ParseStructure
INVARIANTS PointersExact RecordsExact LoadReports RetryKeepsPrecedence
CHECK_DEADLOCK FALSE
