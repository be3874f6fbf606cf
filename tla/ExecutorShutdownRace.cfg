SPECIFICATION ExecutorSpec
CONSTANTS
  d1 = d1  d2 = d2  d3 = d3  w1 = w1  w2 = w2
  Command <- Slots
  OperationOf <- SlotOperation
  BucketOf <- SlotBucket
  NoCommand = NoCommand
  DataCapacity = 1
  RecoveryCapacity = 2
  RecoveryWeight = 1
  StreakMax = 1
  MaxBuckets = 1
  MaxOwed = 3
  SnapSlots = {s1, s2}
  SnapWorkers = {t1, t2}
  SnapQueueSize = 1
  SnapMaxBytes = 1
  SnapChunkSizes = {0, 1}
SYMMETRY WatermarkSymmetry
INVARIANTS QueuedAreCancelled
CHECK_DEADLOCK FALSE
