SPECIFICATION Spec
CONSTANTS
  Live = {l}
  Dry = {d}
  Respond = {a}
  Pruners = {c}
  Purgers = {u}
  Selectors <- MCSelectors
  LiveRetention = 2
  DryRunRetention = 1
  OrphanGrace = 2
  MaxRuns = 2
  MaxTime = 2
  MaxStarts = 3
  MaxFiles = 3
INVARIANTS
  GuardedRunKept
PROPERTIES
  SweepSparesRuns
CHECK_DEADLOCK FALSE
