SPECIFICATION FairSpec
CONSTANTS
  c1 = c1
  c2 = c2
  Nobody = Nobody
  Callers = {c1, c2}
  MaxAttempts = 3
  BaseDelay = 1
  MaxDelay = 2
  MaxWait = 2
  MaxElapsed = 2
  RateLimitWait = 1
  AttemptTime = 1
  InitTimeout = 1
  Skew = 2
  FetchAttempts = 2
  FetchDelay = 1
  Lifetime = 5
  Waits = {2, 3}
  MaxPages = 2
INVARIANTS
  TokenAlive
  EndsInTime
PROPERTY CallsEnd
