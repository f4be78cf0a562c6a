SPECIFICATION Spec
CONSTANTS
    None = None
    NaN = NaN
    Full = 20
    AlphaNum = 3
    AlphaDen = 10
    Addresses = {1, 2, 3, 4}
    FirstReputation <- MCReputation
    Decisions = {1, 2, 3}
    PeriodIndex <- MCPeriodIndex
    Kinds <- MCKinds
    Requests <- MCRequests
    Scores <- MCScores
    Radix = 2
    MaxPeriod = 5
    Scopes <- MCScopes
INVARIANTS
    ReputationConserved
    VotesCounted
    PeriodsWhole
    PeriodsClose
PROPERTIES
    DisconnectRestores
CHECK_DEADLOCK FALSE
