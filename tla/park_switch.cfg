\* The requests a server switch sends. The system may stop: every tab closed for good, or the gateway shut down.
CONSTANTS
  c1 = c1
  c2 = c2
  i1 = i1
  u1 = u1
  Null = Null
  Conn <- OneTab
  Ip <- OneAddress
  IpOf <- FromOneAddress
  User <- OneUser
  MaxPerIp = 1
  MaxParked = 1
  MaxSessions = 1
  MaxQueued = 1
  MaxToken = 1
  RequestTypes <- ResumeRequests
SPECIFICATION Spec
PROPERTIES
  LoginLeavesTheWorld
CHECK_DEADLOCK FALSE
