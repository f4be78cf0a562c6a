SPECIFICATION Spec
CONSTANTS
    d1 = d1
    u1 = u1
    None = None
    Withdrawals <- MCWithdrawals
    Deposits = {d1}
    UnknownBundles = {u1}
    BundleCap = 1
    FailureGap = 1
    CrossFork = FALSE
    Scopes <- MCScopes
INVARIANTS
    Conservation
    HeldOnce
    DisconnectExact
CHECK_DEADLOCK FALSE
