SPECIFICATION OperationsSpec
CONSTANTS
  MaxEvents = 3
  MaxGeneration = 3
  MaxStoreEpoch = 2
  MaxSecond = 2
  MaxRecords = 1
  TicksPerSecond = 3
  Targets = {t1}
  Restorers = {r1, r2}
  Identities = {i1, i2}
  Defects = {"signature", "records"}
  MaxArchives = 1
  MaxEpoch = 2
  MaxMinted = 2
  MaxSequence = 3
  MaxEvidence = 2
  MaxForkEpoch = 2
  Heads = {h1}
  Signers = {s1, s2}
  FormatVersion = 1
  MaxRewriteHead = 3
  MaxRewriteGeneration = 2
  MaxSize = 2
  MaxSpace = 5
  Headroom = 1
  Procs = {p1, p2}
  MaxCredentials = 2
  MaxBegun = 2
  MaxCommits = 3
  LaneDepth = 3
  MinimalRecovery = 1
  ShutdownFloor = 2
  IdleGrowth = 1
  MaxCommit = 1
  Outputs = {o1}
  MaxFree = 8
  ReserveSize = 3
  ReserveOps = {"op1", "op2"}
  MaxReserveGeneration = 5
  SigningKeys = {k1, k2, k3}
  TransitionIds = {t1}
  DescriptorIds = {d1}
  Artifacts = {a1, a2}
  MaxPublicKeys = 3
  TransitionTtl = 1
  MaxHead = 2
  Archives = {a1}
  MaxSigner = 2
  MaxRecoverySet = 2
  Operations = {"read", "write"}
  MaxChain = 3
  PageLimit = 1
  Bundles = {b1}
  MaxExportSigner = 2
INVARIANTS
  AuditAccountsForState RewritesKeepStore  RestoreIsTruthful ForkIsTruthful
     RolloverKeepsTrust ExportIsExact
PROPERTIES
   PublicationsAreFinal
CHECK_DEADLOCK FALSE
