SPECIFICATION Spec
CONSTANTS
  LastDay = 3
  Days <- MCDays
  StartDate = 1
  Revisions = {r1, r2, r3}
  Configs = {c1, c2}
  Workers = {w1, w2}
  MaxPublications = 1
  MaxDecisions = 3
  None = None
SYMMETRY Interchangeable
INVARIANTS
  LogTellsStatus
  OnlyEditsDeadlock
  ApprovedInOrder
  ApprovedAsFrozen
  PublicationsStand
PROPERTIES
  DecidedIsFinal
CHECK_DEADLOCK FALSE
