SPECIFICATION Spec
CONSTANTS
  Starters = {s1, s2}
  Stoppers = {p1}
  CounterCap = 5
  RawConfigs <- MCRawConfigs
INVARIANTS
  TypeOK
  OneLoop
  AttemptBudget
  BackoffInRange
  AtMostOneLateCall
PROPERTY
  LoopEndsWhenTold
CHECK_DEADLOCK FALSE
