SPECIFICATION FairSpec
CONSTANTS
  Key = {1, 2, 3}
  HashSize = 3
  hashData64 <- MCHash
INVARIANTS TypeOK FindExact IterationExact
PROPERTIES FindEnds
