SPECIFICATION Spec
CONSTANTS
  N = 3
  MaxFailures = 2
INVARIANTS
  TypeOK
  MonitoredUnlessLast
  AgreeUnlessAbandoned
  FatalMeansExhausted
PROPERTIES
  ImplementsOrderedWalk
  DeadServerIsLeft
CHECK_DEADLOCK FALSE
