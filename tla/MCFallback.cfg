CONSTANTS
  MaxRetries = 2
SPECIFICATION FetchSpec
INVARIANTS FallbackTried
CHECK_DEADLOCK FALSE
