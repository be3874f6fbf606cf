SPECIFICATION RotationSpec
CONSTANTS
  Id = {r1, r2}
  Secret = {a, b}
  Limits = {1}
  MaxHistory = 4
  MaxTarget = 4
PROPERTIES CompletedWhileCurrent
CHECK_DEADLOCK FALSE
