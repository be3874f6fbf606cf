SPECIFICATION Spec
CONSTANTS
  Tolerance = 1
  SettlePeriod = 1
  IdleInterval = 1
  CommitDeadline = 0
  MaxPlausible = 2
  InitialMark = 3
  MaxTime = 5
  MaxLead = 8
  MaxLag = 2
  Jump = 4
  MaxInFlight = 1
  MaxEvents = 3
PROPERTIES RestartBounded
CHECK_DEADLOCK FALSE
