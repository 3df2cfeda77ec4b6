SPECIFICATION MCSpec
CONSTANTS
  MaxConnections = 2
  MaxBytes = 2
INVARIANTS OnlyCurrentListens NoByteTwice
PROPERTY EndpointComesBack
CHECK_DEADLOCK FALSE
