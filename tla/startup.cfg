SPECIFICATION StartupSpec
CONSTANTS
  old = old
  new = new
  Processes = {old, new}
  Version <- MCVersion
  LastEntry = 3
  Directories = {3}
  MaxStarts = 4
INVARIANTS
  AloneFindsAll
  EarlyKept
  MigratedInOrder
CHECK_DEADLOCK FALSE
