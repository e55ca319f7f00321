\* Two tabs, a request running and one queued behind it, every request but a logout. The system may stop: every tab closed for good, or the gateway shut down.
CONSTANTS
  c1 = c1
  c2 = c2
  i1 = i1
  u1 = u1
  Null = Null
  Conn <- TwoTabs
  Ip <- OneAddress
  IpOf <- FromOneAddress
  User <- OneUser
  MaxPerIp = 2
  MaxParked = 1
  MaxSessions = 1
  MaxQueued = 2
  MaxToken = 2
  RequestTypes <- OtherRequests
SPECIFICATION Spec
INVARIANTS
  OneTabPerSession
  LimitsHold
  ParkedIsIntact
  TokensSingleUse
  NoResumeOfTheDead
  IpSlotsAccounted
  DrainCovers
  EvictedAreGone
PROPERTIES
  TakeoverSpendsToken
  LeaseSpec
  TeardownHasACause
SYMMETRY Tabs
CHECK_DEADLOCK FALSE
