SPECIFICATION LookupSpec
CONSTANTS
  Base <- MCBase
  Digits <- MCDigits
  Span <- MCSpan
  Name <- MCName
  ByIdName <- MCByIdName
  m_files <- MCFiles
  Inodes <- MCInodes
  PathsAsked <- MCPaths
  Offsets = {0, 1, 2, 3, 4}
  Lengths = {0, 1, 4}
  DataSize <- MCDataSize
INVARIANTS LookupAgreesWithListing ReadClipped
