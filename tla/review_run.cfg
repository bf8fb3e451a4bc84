SPECIFICATION FairSpec
CONSTANTS
    r1 = r1
    r2 = r2
    None = None
    Reviewers <- MCReviewers
    Required <- MCRequired
    Reports <- MCReports
    Discussions <- Both
    Selections <- MCSelections
    Cohorts <- MCCohorts
    SlotCounts <- OneOrTwo
    Renewed = FALSE
    FreshPasses = {1, 2}
    Cancellable = TRUE
    MaxPasses = 2
    MaxFaults = 1
    MaxComments = 1
INVARIANTS
  PaidOnce
  AllAccounted
  NotBlamed
  OwnSession
PROPERTIES
  PassEnds
CHECK_DEADLOCK FALSE
