SPECIFICATION ColumnSpec
CONSTANTS
  Thresholds = {0, 1, 2, 6, 7, 127, 128, 255, 256, 257, 262}
  Opponents = {0, 1, 2, 6, 7, 128, 255, 256}
  Amounts = {0, 4, 5, 10, 15, 1234567890}
  Memos = {0, 200, 201, 256}
INVARIANTS
  ThresholdIsReachable
CHECK_DEADLOCK FALSE
