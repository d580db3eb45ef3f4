SPECIFICATION Spec
CONSTANTS
  Workers = {w1, w2}
  Objects = {o1, o2}
  MaxVersion = 2
  MaxEvents = 3
  MaxSends = 1
  None = None
SYMMETRY Interchangeable
INVARIANTS
  FilesStored
  OutboxTellsActive
CHECK_DEADLOCK FALSE
