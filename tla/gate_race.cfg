SPECIFICATION LiveSpec
CONSTANTS
  p1 = p1
  p2 = p2
  s1 = s1
  s2 = s2
  s3 = s3
  None = None
  Procs = {p1, p2}
  Scopes <- TwoBases
  HeadOf <- MCHeadOf
  BaseOf <- MCBaseOf
  Commands = {"review"}
  Events = {"comment"}
  Responses = {}
  Overlap = TRUE
  Prunes = FALSE
  MaxRuns = 3
  MaxMoves = 1
  MaxFaults = 1
  MaxExtras = 0
PROPERTIES
  HandIsMine
  NothingPostedOnceLeft
  EventuallyReviewed
CHECK_DEADLOCK FALSE
