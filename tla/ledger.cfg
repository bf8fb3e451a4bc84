SPECIFICATION FairSpec
CONSTANTS
  c1 = c1
  c2 = c2
  c3 = c3
  r1 = r1
  r2 = r2
  s1 = s1
  f1 = f1
  f2 = f2
  a1 = a1
  a2 = a2
  n1 = n1
  g1 = g1
  g2 = g2
  None = None
  Runs = {r1, r2}
  Sessions = {s1}
  Findings = {f1, f2}
  Actions = {a1, a2}
  Names = {n1}
  Agents = {g1, g2}
  FindingOf <- MCFindingOf
  Initial <- MCInitial
  QueueSize = 1
  Callers = {c1, c2, c3}
  Requests <- MCRequests
  MaxCalls = 3
  MaxFaults = 1
INVARIANTS
  DrainedBeforeShut
PROPERTIES
  CallsReturn
  ImplementsLedger
CHECK_DEADLOCK FALSE
