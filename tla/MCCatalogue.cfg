SPECIFICATION AllSpec
CONSTANTS
  rule = rule
  base = base
  spec = spec
  second = second
  flow = flow
  orchestration = orchestration
  indicator = indicator
  other = other
  service = service
  DatasetVersions = {rule, base, indicator, other}
  ProfileVersions = {spec, second, flow, orchestration, indicator, service}
  FormalVersions = {indicator, other}
  CatalogWorkers = {w1, w2}
  Workers = {w3}
  Graph = Graph
  None = None
  Revisions = {w1, w2}
  MaxChanges = 2
  Profiles = {"urban", "regional"}
  Choices = {"punctuality", "delays1", "delays2"}
  Flows = {"timetables", "positions"}
  Offer <- MCOffer
  Proposal <- MCProposal
  Inputs <- MCInputs
  IndicatorOf <- MCIndicatorOf
  Needs <- MCNeeds
  Reads <- MCReads
  Supplies <- MCSupplies
  Parameterised = {"delays1"}
  Retirable = {"urban"}
  Values = {0, 1}
  Empty = 0
  Versions <- MCVersions
  Symbol <- MCSymbol
  Texts <- MCTexts
  Input <- MCInput
  Specs = {"timetables"}
  Names = {"netex", "gtfs"}
  Selected = {"rate_001"}
  MaxEdits = 1
  Package <- MCPackage
  PackageSpecs <- MCPackageSpecs
SYMMETRY Interchangeable
INVARIANTS
  TypesOK
  RestsOnPublished
  InputsAreSupplied
  Acyclic
  FrozenIsCoherent
  RowsAreFrozen
  ProofsStand
PROPERTIES
  FrozenOncePublished
  PublishedOverPublished
  ImportedAsPackaged
CHECK_DEADLOCK FALSE
