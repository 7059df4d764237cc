SPECIFICATION FairSpec
CONSTANTS
  Provider = {p1, p2}
  MaxLink = 2
  MaxLease = 4
  First = p1
  MaxSync = 2
  MaxFaults = 1
INVARIANTS FailClosed
CHECK_DEADLOCK FALSE
PROPERTIES ClosedLinksEnd LinkRecovers
