SPECIFICATION Spec
CONSTANTS
  Days <- MCDays
  Revisions = {r1, r2, r3}
  p1 = p1
  complete = complete
  incomplete = incomplete
  Profiles = {p1}
  Configs = {complete, incomplete}
  ConfigsOf <- MCConfigsOf
  ProposedConfig <- MCProposedConfig
  ApprovableConfigs = {complete}
  MaxPublications = 1
  NoDate = NoDate
  None = None
SYMMETRY RevisionSymmetry
INVARIANTS
  TypeOK
  PeriodsAgreeWithResolution
  LifecycleInvariant
PROPERTIES
  ImplementsTimeline
  PastTimelineStable
  NoHoleOnceStarted
CHECK_DEADLOCK FALSE
