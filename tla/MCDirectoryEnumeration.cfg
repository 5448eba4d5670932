SPECIFICATION FairSpec
CONSTANTS
  t1 = t1
  t2 = t2
  g1 = g1
  g2 = g2
  Base <- MCBase
  Digits <- MCDigits
  Span <- MCSpan
  Name <- MCName
  ByIdName <- MCByIdName
  m_files <- MCFiles
  Inodes <- MCInodes
  Threads <- OneThread
  Guids <- OneGuid
  Paths <- MCPaths
  Expressions <- MCExpressions
  NoExpression = NoExpression
  MaxRoom = 2
  MaxRestarts = 2
INVARIANTS TypeOK
PROPERTIES ImplementsListing DeliveredInOrder ScanEnds
