SPECIFICATION Spec
CONSTANTS
  URLs = 2
  Unlimited = FALSE
  EnableKillSwitch = TRUE
  MaxConnectors = 3
PROPERTIES FatalIsHandled CancelledMeansNoConnection PatientOperatorStops ReconnectionEnds
CHECK_DEADLOCK FALSE
