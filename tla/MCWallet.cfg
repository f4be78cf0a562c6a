SPECIFICATION Spec
CONSTANTS
    Clients = {c1, c2}
    Kinds <- MCKinds
    Spend <- MCSpend
    Fee = 1
    Minted = {3}
    Coins = {2, 3}
    Bounds <- MCBounds
    None = None
INVARIANTS
    WalletSound
PROPERTIES
    EventuallyExact
CHECK_DEADLOCK FALSE
