SPECIFICATION ThreadsSpec
CONSTANTS
  d1 = d1  u1 = u1  r1 = r1
  Command <- LaneCommands
  OperationOf <- LaneOperation
  BucketOf <- LaneBucket
  NoCommand = NoCommand
  DataCapacity = 1
  RecoveryCapacity = 2
  RecoveryWeight = 1
  StreakMax = 1
  MaxBuckets = 1
  MaxOwed = 0
  SnapSlots = {s1, s2}
  SnapWorkers = {t1}
  SnapQueueSize = 1
  SnapMaxBytes = 1
  SnapChunkSizes = {0, 1}
PROPERTIES ImplementsSerialWriter WaitersAnswered BarrierCrossed SnapshotsEnd
CHECK_DEADLOCK FALSE
