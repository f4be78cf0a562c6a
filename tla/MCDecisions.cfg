CONSTANTS
    TierCount = 1
    SlotsPerTier = 2
    SlotsPerMint = 1
    GenesisPrice = 16
    QBits = 8
    FracBits = 12
    Ln2Fixed = 2839
    SeriesTerms = 6
    MaxU64 = 200
    DecisionIds <- MCDecisionIds
    FuturePeriods = 2
    SettledAfter = 2
    Quantity = 2
    Reprices = 1
    SecondsPerBlock = 1
    Timestamps = {1, 2, 3, 5}
    MaxDrift = 1
    MaxHeight = 6
    MaxPeriod = 5
    Scopes <- MCScopes
    NoPricing = NoPricing
SPECIFICATION Spec
INVARIANTS
    RecordsAgree
    ClaimsAccounted
    StandardResolvedOnTime
    ListingsClaimable
PROPERTIES
    DisconnectRestores
