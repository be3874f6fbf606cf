SPECIFICATION MaintenanceSpec
CONSTANTS
  MaxEvents = 3
  MaxGeneration = 3
  MaxStoreEpoch = 2
  MaxSecond = 2
  MaxRecords = 1
  TicksPerSecond = 3
INVARIANTS KeyringSurvivesCrash
CHECK_DEADLOCK FALSE
