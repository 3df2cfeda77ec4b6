SPECIFICATION Spec
CONSTANTS
  URLs = 1
  Unlimited = TRUE
  EnableKillSwitch = TRUE
  MaxConnectors = 2
PROPERTY SignalStops
CHECK_DEADLOCK FALSE
