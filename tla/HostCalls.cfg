SPECIFICATION FairSpec
CONSTANTS
  MaxCall = 3
  MaxDepth = 2
  Remote = {3}
  MaxPending = 2
  MaxInFlight = 2
  SendQuota = 2
  MaxDeps = 2
  MaxFaults = 1
INVARIANTS WaitsMatchReplies QuotasExact RevokedStaysRevoked
PROPERTIES AcceptedWithAuthority CallsEnd
CHECK_DEADLOCK FALSE
