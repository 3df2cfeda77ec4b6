SPECIFICATION Spec
CONSTANTS
  a = a  b = b  s1 = s1  s2 = s2
  NoServer = NoServer
  Callers <- MCCaller
  Servers <- MCServer
  EnableKillSwitch = TRUE
  FirewallMayFail = FALSE
  MaxCalls = 2
  MaxCrashes = 1
INVARIANT UnblockedWhenConnected
