SPECIFICATION FairSpec
CONSTANTS
  Actions <- GitHubReview
  Threads <- MCThreads
  None = None
  Kind <- MCKind
  Thread <- MCThread
  Rank <- MCRank
  Required <- MCRequired
  Malformed <- MCMalformed
  Bundle = TRUE
  WriteRetry = TRUE
  MaxSends = 3
  PermissionAdvisory = TRUE
  SettledStart = TRUE
  MaxFaults = 5
INVARIANTS
  NoDuplicate
  OutageBudget
PROPERTIES
  ImplementsDelivery
  RunSettles
CHECK_DEADLOCK FALSE
