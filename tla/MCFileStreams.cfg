SPECIFICATION StreamsSpec
CONSTANTS
  Files <- Formats
  FormatOf <- Format
  Operations <- MCOperations
  Base = 4
  Values <- MCValues
INVARIANTS StreamsAligned RoundTrip
CHECK_DEADLOCK FALSE
