SPECIFICATION SessionSpec
CONSTANTS
  None = None
  a1 = a1  a2 = a2  e1 = e1  r1 = r1  r2 = r2  v1 = v1  v2 = v2  c1 = c1  c2 = c2
  Profiles = {1, 2}
  AccessNames = {a1, a2}
  EntityNames = {e1}
  RuntimeNames = {r1, r2}
  AccessValues <- MCAccessValues
  EntityValues <- MCEntityValues
  LLMs = {v1, v2}
  FirstConfigs <- MCFirstConfigs
  FirstKeys <- MCFirstKeys
  MaxEdits = 2
  Faults = TRUE
INVARIANTS
  StoredBeforeSaved
PROPERTIES
  UndoneInReverse
  ReviewerKeysSpared
  NoLostUpdate
CHECK_DEADLOCK FALSE
