\* A login queued behind the selection of a company, and a tab that closes. The system may stop: every tab closed for good, or the gateway shut down.
CONSTANTS
  c1 = c1
  c2 = c2
  i1 = i1
  u1 = u1
  Null = Null
  Conn <- OneTab
  Ip <- OneAddress
  IpOf <- FromOneAddress
  User <- OneUser
  MaxPerIp = 1
  MaxParked = 1
  MaxSessions = 1
  MaxQueued = 2
  MaxToken = 2
  RequestTypes <- WorldRequests
SPECIFICATION Spec
INVARIANTS
  DetachedHasTimer
CHECK_DEADLOCK FALSE
