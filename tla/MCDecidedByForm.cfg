SPECIFICATION FormSpec
CONSTANTS
  LastDay = 3
  Days <- MCDays
  StartDate = 1
  Revisions = {r1, r2}
  Configs = {c1}
  Workers = {w1, w2}
  MaxPublications = 1
  MaxDecisions = 4
  None = None
SYMMETRY Interchangeable
PROPERTIES
  DecidedIsFinal
CHECK_DEADLOCK FALSE
