SPECIFICATION FairSpec
CONSTANTS
  Workers = {w1, w2}
  Objects = {o1}
  MaxVersion = 1
  MaxEvents = 2
  MaxSends = 2
  None = None
PROPERTIES
  PublishedNotResent
  EveryEventSent
CHECK_DEADLOCK FALSE
