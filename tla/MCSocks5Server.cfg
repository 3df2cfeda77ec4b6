SPECIFICATION Spec
CONSTANTS
  Conns = {c1, c2}
  Silent = {c2}
  AuthRequired = TRUE
  MaxUnread = 2
INVARIANTS TypeOK StopWaitsForAll  EveryRequestAnswered
PROPERTIES OnlyPeersEndRelays EstablishmentEnds StopReturns
CHECK_DEADLOCK FALSE
