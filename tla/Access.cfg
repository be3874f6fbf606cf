SPECIFICATION AccessSpec
CONSTANTS
  Ids = {"root", "i1"}
  Root = "root"
  IdentityNames = {"n1"}
  GrantIds = {"g0", "g1"}
  RootGrant = "g0"
  GrantShapes <- Shapes
  Requests = {q1, q2, q3}
  Roles = {"x1"}
  CredentialIds = {"c1"}
  MaxCredentials = 3
  MaxUses = 2
  Ttl = 1
  MaxNow = 2
  Consumers = {"c1", "c2"}
  Instances = {"n1"}
  Labels = {"l1"}
  MaxRowGeneration = 3
  Readers = {1}
  Parents = {1}
  Processes = {1}
  Clock = 3
  Lookback = 1
  MaxDeclared = 2
  MaxObserved = 2
  PageSize = 1
  Callers = {c1, c2}
  ShardIds = {0}
  GlobalAttempts = 2
  ClassAttempts = 1
  MaxAggregates = 2
  Permits = 1
  MaxWindow = 1
  MaxRequests = 4
  Reloads = {"sighup", "control"}
  MaxPair = 3
SYMMETRY AccessSymmetry
INVARIANTS
  CatalogStaysSound CredentialsAccounted ViewIsComplete LimiterAccounts ServedIsExpected
PROPERTIES
  AuthorityKeepsItsWord 
CHECK_DEADLOCK FALSE
