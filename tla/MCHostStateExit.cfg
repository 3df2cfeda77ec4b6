SPECIFICATION Spec
CONSTANTS
  s1 = s1
  s2 = s2
  Servers <- MCServers
  NoServer = NoServer
  EnableIPv6 = FALSE
  EnableDNSProtection = FALSE
  RemovalMayFail = FALSE
  MaxConnects = 2
  MaxCrashes = 0
PROPERTY RejectIsTemporary
CHECK_DEADLOCK FALSE
