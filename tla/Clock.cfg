SPECIFICATION Spec
CONSTANTS
  Tolerance = 1
  SettlePeriod = 1
  IdleInterval = 1
  CommitDeadline = 0
  MaxPlausible = 2
  InitialMark = 3
  MaxTime = 5
  MaxLead = 1
  MaxLag = 2
  Jump = 4
  MaxInFlight = 1
  MaxEvents = 3
INVARIANTS
  EffectiveCoversMark NoAnomalousMark ChainMatchesState
PROPERTIES
  CalmRestartBounded ChainGrowsInOrder
CHECK_DEADLOCK FALSE
