SPECIFICATION AllSpec
CONSTANTS
  Invited = {c1, c2, c3}
  Users = {d1, d2}
  LastDay = 2
  Validity = 1
  None = None
  MembershipWorkers = {m1}
  LotContractKeys = {k1, k2}
  LotCompanies = {d1, d2}
  LotRequests = {w1, w2}
  LotLastDay = 1
  LotLength = 1
  LotVersions = 1
  LotForms = 1
  ClientCompanies = {d1, d2}
  Workers = {w1, w2}
  Payloads <- MCPayloads
  Emails = {"d1"}
  MaxInvited = 2
  MaxClients = 2
  MaxSecrets = 2
  MaxEdits = 1
  Revisions = {w1, w2}
  EvaluationDays = 2
  DeclaredWindows <- MCWindows
  Metrics = {"delay", "trips"}
  Advertised <- MCAdvertised
  Groupings <- MCGroupings
  MaxChanges = 3
  Categories = {"netex"}
  AnyCategory = "any"
  AgreedDates <- MCDates
  GrantWindows <- MCGrantWindows
  Effects = {1, 2}
  Schema <- MCSchema
  Inputs <- MCInputs
  LastMoment = 3
  MaxSaves = 1
  FormLastDay = 3
  FormProfiles = {"p1"}
  FormConfigs = {"c1", "c2"}
  FormConfigsOf <- MCConfigsOf
  FormProposed <- MCProposed
  FormApprovable = {"c1"}
  NoDate = NoDate
  MaxPublications = 1
SYMMETRY Interchangeable
INVARIANTS
  TypesOK
  RoleIsHighestAccepted
  AccessFollowsKeycloak
  ChangeKeepsAccess
  OneContractPerDay
  RevokedIsDisabled
  SecretIsUsable
  ClientsHaveOneOwner
  FrozenEvaluationsHold
  AccessIsDecided
  OneRevisionPerDay
  BootstrapIsWhole
PROPERTIES
  DecisionsStand
  PastRewrittenOnlyByDates
CHECK_DEADLOCK FALSE
