\* Liveness. The system may stop: every tab closed for good, or the gateway shut down.
CONSTANTS
  c1 = c1
  c2 = c2
  i1 = i1
  u1 = u1
  Null = Null
  Conn <- TwoTabs
  Ip <- OneAddress
  IpOf <- FromOneAddress
  User <- OneUser
  MaxPerIp = 2
  MaxParked = 1
  MaxSessions = 1
  MaxQueued = 1
  MaxToken = 2
  RequestTypes <- ResumeRequests
SPECIFICATION FairSpec
PROPERTIES
  ShutdownEnds
  ParkEnds
CHECK_DEADLOCK FALSE
