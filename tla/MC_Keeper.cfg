CONSTANTS
    A = A
    B = B
    k1 = k1
    k2 = k2
    k3 = k3
    k4 = k4
    k5 = k5
    k6 = k6
    NoKey = NoKey
    KeeperMaxNonce = 2
    Workers = {w1, w2}
    Account = Account
    ClientMaxNonce = 3
    MaxCopies = 2
    NoWorker = NoWorker
    r1 = r1
    r2 = r2
    ReplayInitialHeight = 2
    MaxEthHeight = 5
    MaxCrashes = 2

SPECIFICATION Spec
INVARIANTS
    PendingIndexConsistent
    NextNonceIsFirstGap
    AckedTxsKept
    ReplayFollowsEth
    SeededOnce
PROPERTIES
    ImplementsAbstractPending
    NoReissueBetweenReads
    ReplayCatchesUp
