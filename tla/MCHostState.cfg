SPECIFICATION Spec
CONSTANTS
  s1 = s1
  s2 = s2
  Servers <- MCServers
  NoServer = NoServer
  EnableIPv6 = TRUE
  EnableDNSProtection = TRUE
  RemovalMayFail = TRUE
  MaxConnects = 3
  MaxCrashes = 1
INVARIANTS ConnectedIsRouted DownRoutesNothing
PROPERTY RejectGoes
CHECK_DEADLOCK FALSE
