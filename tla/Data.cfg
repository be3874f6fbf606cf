SPECIFICATION DataSpec
CONSTANTS
  p1 = p1  v1 = v1  v2 = v2  x1 = x1  x2 = x2
  Path = {p1}
  Value = {v1, v2}
  Client = {x1, x2}
  GrantSet <- Grants
  CasChoice = {"no"}
  MaxChoice = {1, 2}
  MaxVersion = 4
  MaxGeneration = 6
  MaxPurges = 1
  Id = {x1, x2}
  Secret = {v1, v2}
  Limits = {1}
  MaxHistory = 3
  MaxTarget = 4
VIEW DataView
SYMMETRY DataSymmetry
INVARIANTS
   RotationAnchored
PROPERTIES
  HistoryIsAppendOnly MutationsAudited NoLostUpdate PurgeTakesWhatWasReviewed
  RotationMovesForward
CHECK_DEADLOCK FALSE
