SPECIFICATION Spec
CONSTANTS
    w1 = w1
    w2 = w2
    alice = alice
    echo = echo
    calc = calc
    o1 = o1
    o2 = o2
    Worker = {w1, w2}
    Principal = {alice}
    Component = {echo, calc}
    External = {echo}
    Op = {o1, o2}
    NoLease = NoLease
    NoJob = NoJob
    MaxToken = 3
    MaxInst = 3
    MaxFence = 2
    MaxEpoch = 2
    MaxOps = 1
    MaxSeq = 0
    Acts = {"effect", "restart", "store_fails"}
SYMMETRY WorkerSymmetry
INVARIANTS StartedAtMostOnce AnswersAreDurable CompletedIsSettled
PROPERTIES LedgerFinal
CHECK_DEADLOCK FALSE
