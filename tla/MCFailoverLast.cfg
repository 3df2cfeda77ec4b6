SPECIFICATION Spec
CONSTANTS
  N = 2
  MaxFailures = 2
PROPERTY
  ExhaustionIsReported
CHECK_DEADLOCK FALSE
