SPECIFICATION Spec
CONSTANTS
    m1 = m1
    None = None
    MarketIds = {m1}
    Addresses = {1, 2, 3}
    Author = 3
    Miner = 3
    NumOutcomes = 2
    Kind = "binary"
    Cost <- MCCost
    Coins <- MCCoins
    Orders <- MCOrders
    Results <- MCResults
    Scale = 4
    PriceScale = 4
    FeeNum = 1
    FeeDen = 8
    MinTradingFee = 1
    MinerFee = 1
    MaxShares = 9
    MaxBase = 4
    Scopes <- MCScopes
INVARIANTS
    BooksAgree
    Conserved
    Settleable
    DisconnectExact
CHECK_DEADLOCK FALSE
