SPECIFICATION Spec
CONSTANTS
  m = m  n = n  k = k  ra = ra  rb = rb  rc = rc  t = t  u = u
  Files = {m, n, k}
  Lockfiles = {k}
  Agents = {ra, rb, rc}
  Order <- MCOrder
  Repo = {}
  Globless = {rb}
  Include <- MCInclude
  Exclude <- MCExclude
  MaxAgents = 2
  DefaultMaxAgents = 2
  Texts = {t, u}
  Normal <- MCNormal
  Native = FALSE
  MaxInline = 1
  MajorRequests = TRUE
  OwnPullRequest = FALSE
  AllowSelfApprove = FALSE
  Pushes <- MCPushes
  Proposals <- MCProposals
  Reports <- MCReports
  MaxRounds = 3
  MaxNotes = 2
INVARIANTS
  ApprovalIsCovered
  RequiredSeesMatches
  NoRepeat
  FindingsAccounted
CHECK_DEADLOCK FALSE
