SPECIFICATION FairSpec
CONSTANTS
  Base <- MCBase
  Digits <- MCDigits
  Span <- MCSpan
  Name <- MCName
  ByIdName <- MCByIdName
  Placeholder <- MCPlaceholder
  Archives <- MCArchives
  FileTables <- MCFileTables
INVARIANTS SizesOfFirstArchive TreeIsExact FilesAreListed
PROPERTIES BuildEnds
CHECK_DEADLOCK FALSE
