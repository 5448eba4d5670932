SPECIFICATION Spec
CONSTANTS
  t1 = t1
  t2 = t2
  g1 = g1
  g2 = g2
  Base <- MCBase
  Digits <- MCDigits
  Span <- MCSpan
  Name <- MCName
  ByIdName <- MCByIdName
  m_files <- FilesBelowLast
  Inodes <- MCInodes
  Threads <- TwoThreads
  Guids <- TwoGuids
  Paths <- TwoPaths
  Expressions <- MCExpressions
  NoExpression = NoExpression
  MaxRoom = 1
  MaxRestarts = 1
INVARIANTS NoDanglingPointer ListingExact
SYMMETRY Interchangeable
