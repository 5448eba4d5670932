SPECIFICATION ParseSpec
CONSTANTS
  Files <- MCFiles
  Number <- MCNumber
  MaxInt <- MCMaxInt
INVARIANTS TokensRecovered RecordsAreBlocks
CHECK_DEADLOCK FALSE
