SPECIFICATION Spec
CONSTANTS
  Contracts = {c1}
  Companies = {d1}
  Requests = {r1, r2}
  LastDay = 1
  DefaultLength = 1
  MaxVersion = 1
  MaxForms = 2
  None = None
PROPERTIES
  ClosedIsFinal
CHECK_DEADLOCK FALSE
