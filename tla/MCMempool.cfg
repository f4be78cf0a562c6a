SPECIFICATION PoolSpec
CONSTANTS
    m1 = m1
    None = None
    MarketIds = {m1}
    Addresses = {1, 2, 3}
    Author = 3
    Miner = 3
    NumOutcomes = 2
    Kind = "binary"
    Cost <- MCCost
    Coins <- MCCoins
    Orders <- MCOrders
    Results <- MCResults
    Scale = 4
    PriceScale = 4
    FeeNum = 1
    FeeDen = 8
    MinTradingFee = 1
    MinerFee = 1
    MaxShares = 4
    MaxBase = 3
    Scopes <- MCScopes
    Cases <- MCCases
    MaxTransactions = 3
    NumTransactions = 2
    Radix = 3
INVARIANTS
    IndexesExact
    TemplateExact
    AloneDisconnects
CHECK_DEADLOCK FALSE
