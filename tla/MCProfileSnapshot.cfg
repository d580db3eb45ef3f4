SPECIFICATION Spec
CONSTANTS
  rule = rule
  spec = spec
  flow = flow
  orchestration = orchestration
  indicator = indicator
  other = other
  profile = profile
  Versions = {spec, flow, orchestration, indicator, profile}
  Kind <- MCKind
  Formal = {}
  Workers = {w1}
  Graph = Graph
  None = None
PROPERTIES
  ProfileIsSnapshot
CHECK_DEADLOCK FALSE
