SPECIFICATION Spec
CONSTANTS
  Key = {1, 2, 3}
  Manifest = {"a", "b"}
  Disks <- MCDisks
  MaxArchives = 2
INVARIANTS TypeOK ReadIsExact SizesAgree MountedFilesRead
CHECK_DEADLOCK FALSE
