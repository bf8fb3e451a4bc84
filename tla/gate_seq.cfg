SPECIFICATION Spec
CONSTANTS
  p1 = p1
  p2 = p2
  s1 = s1
  s2 = s2
  s3 = s3
  None = None
  Procs = {p1}
  Scopes <- ThreeScopes
  HeadOf <- MCHeadOf
  BaseOf <- MCBaseOf
  Commands = {"review", "rerun", "retry"}
  Events = {"comment", "nothing"}
  Responses = {"posted", "failed"}
  Overlap = FALSE
  Prunes = TRUE
  MaxRuns = 2
  MaxMoves = 1
  MaxFaults = 1
  MaxExtras = 1
INVARIANTS
  CompleteExitsEarly
  OwnRunsReviewOnce
CHECK_DEADLOCK FALSE
