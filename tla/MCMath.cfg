CONSTANTS
    TierCount = 3
    SlotsPerTier = 6
    SlotsPerMint = 2
    GenesisPrice = 16
    QBits = 10
    FracBits = 14
    Ln2Fixed = 11356
    SeriesTerms = 11
    MaxU64 = 65535
    MaxPrice = 24
    MaxSlots = 4
    Scale = 4
    PriceScale = 4
    FeeNum = 1
    FeeDen = 8
    MinTradingFee = 1
    MinerFee = 1
    Full = 20
    AlphaNum = 3
    AlphaDen = 10
    NaN = NaN
    MaxHeld = 3
    MaxPool = 9
    MaxRep = 3
    MaxTransactions = 3
    IdByteBits = 2
    Abstain = Abstain
    MaxOutcomes = 6
    None = None
    Base = 2
    Precision = 3
    MaxShift = 6
    MinBeta = 0
    MaxBeta = 3
    MostOutcomes = 3
    ChunkSize = 2
    NoProof = NoProof
    MaxWeight = 748
    SpkSizes <- ScriptSizes
    HashFunctions <- Functions4
    ByteBits = 3
    MaxPowDifficulty = 9
SPECIFICATION Spec
INVARIANTS
    RepriceOnCurve
    MarketsSolvent
    ConsensusSound
    VotesRoundTrip
    OutcomesExact
    BodiesSound
    BundleSound
