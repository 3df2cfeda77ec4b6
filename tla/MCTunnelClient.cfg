SPECIFICATION MCSpec
CONSTANTS
  a = a  b = b  s1 = s1  s2 = s2
  NoServer = NoServer
  Callers <- MCCallers
  Servers <- MCServers
  EnableKillSwitch = TRUE
  FirewallMayFail = TRUE
  MaxCalls = 3
  MaxCrashes = 1
INVARIANTS TypeOK IdleHoldsNothing ConnectedMeansUp KillSwitchGap FlagMatchesRules
PROPERTIES DisconnectWaits OperationsEnd
