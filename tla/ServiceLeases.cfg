SPECIFICATION Spec
CONSTANTS
    alice = alice
    bob = bob
    echo = echo
    o1 = o1
    o2 = o2
    Worker = {}
    Principal = {alice, bob}
    Component = {echo}
    External = {echo}
    Op = {o1, o2}
    NoLease = NoLease
    NoJob = NoJob
    MaxToken = 3
    MaxInst = 3
    MaxFence = 3
    MaxEpoch = 2
    MaxOps = 2
    MaxSeq = 1
    Acts = {"effect", "renew", "renew_seq", "release", "revoke", "child", "restart",
            "shutdown", "store_fails", "activate_fails"}
SYMMETRY PeerSymmetry
INVARIANTS LeaseHoldsFence RevocationHolds
PROPERTIES EffectsInFenceOrder
CHECK_DEADLOCK FALSE
