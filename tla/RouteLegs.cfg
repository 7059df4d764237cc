SPECIFICATION RouteFairSpec
CONSTANTS
    w1 = w1
    w2 = w2
    alice = alice
    echo = echo
    o1 = o1
    s1 = s1
    Worker = {w1, w2}
    Principal = {alice}
    Component = {echo}
    External = {echo}
    Op = {o1}
    Session = {s1}
    NoLease = NoLease
    NoJob = NoJob
    NoSession = NoSession
    MaxToken = 2
    MaxInst = 2
    MaxFence = 2
    MaxEpoch = 2
    MaxOps = 1
    MaxSeq = 0
    MaxLegs = 1
    Acts = {"effect", "child", "restart", "release"}
INVARIANTS OkMeansStarted AnsweredIsStored
PROPERTIES ImplementsLedger LateLeaseRetired InvocationReturns
CHECK_DEADLOCK FALSE
