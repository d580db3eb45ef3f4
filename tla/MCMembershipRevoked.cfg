SPECIFICATION Spec
CONSTANTS
  Workers = {w1}
  None = None
INVARIANTS
  RevokedHasNoGroup
CHECK_DEADLOCK FALSE
