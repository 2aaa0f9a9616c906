SPECIFICATION FairSpec
CONSTANTS
  Providers <- MCProviders
  Required <- MCRequired
  Unresolved = Unresolved
  MaxRetries = 3
  MaxAttempts = 3
  MaxCalls = 2
INVARIANTS
  CleanEnds
  ProbeVouches
PROPERTIES
  SessionEnds
CHECK_DEADLOCK FALSE
