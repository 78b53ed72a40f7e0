SPECIFICATION DbSpec
CONSTANTS
  MaxLosses = 2
PROPERTIES PingReconnects
CHECK_DEADLOCK FALSE
