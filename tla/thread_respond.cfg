SPECIFICATION LiveSpec
CONSTANTS
  p1 = p1
  p2 = p2
  Procs = {p1, p2}
  Threads = {1, 2}
  Beginnings <- MCBeginnings
  Decisions <- MCDecisions
  People <- MCPeople
  Requests <- MCRequests
  LockAttempts = 2
  None = None
  MaxUpsets = 2
PROPERTIES
  AnsweredOnce
  EventuallyAnswered
CHECK_DEADLOCK FALSE
