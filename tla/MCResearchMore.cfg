CONSTANTS
    Paths <- MCPaths
    PutPrice <- MCPutPrice
    PutDelta <- MCPutDelta
    ParamSets <- MCParamSets
    HedgeWidth = 20
    OtmPct = 1
    FloorPct = 3
    Step = 10
    VixMax = 22
    VixLookback = 10
    MinVixHistory = 4
    IvrMin = 30
    SmaDays = 4
    Events = {13}
    TargetDelta = 18
    MinCwPct = 10
    EntryWeekday = 4
    DteEntry = 7
    TpPct = 25
    SlPct = 250
    DeltaManage = 52
    LotSize = 1
    InitialCapital = 20000
    MaxCapital = 20000
    Slippage = 1
    Brokerage = 1
    SellPermille = 4
    BuyPermille = 2
    TrainDays = 11
    TestDays = 8
    RiskPct = 15
    PortfolioPct = 20
    NoSpread = NoSpread
    Tapes = {0,1,2,3,4,5,6,7,8,9,10,11,12,13,14,15,16,17,18,19,20,21,22,23,24,25,26,27,28,29,30,31,32,33,34,35,36,37,38,39,40}
    Markets = {"gold", "zinc"}
    Products <- MCProducts
    Reference <- MCReference
    LastSession = 18
    Week <- MCWeek
    FiscalYear <- MCFiscalYear
    ContractOf <- MCContractOf
    ExpiryDay <- MCExpiryDay
    Quote <- MCQuote
    Mult <- MCMult
    Qualifies <- MCQualifies
    Vol <- MCVol
    Signal <- MCSignal
    NoFuture = NoFuture
    NoQuote = NoQuote
    NoProduct = NoProduct
    NoOrder = NoOrder
    Capital = 100000
    TargetRisk <- MCTargetRisk
    CapX = 20
    FutBuyPermille = 1
    FutSellPermille = 2
    TickSize = 1
    TaxPct = 30
    MarketTapes <- MCMarketTapes
    Names = {1,2,3,4,5}
    Sessions = 26
    Row <- MCRow
    Rebalance <- MCRebalance
    YearOf <- MCYearOf
    YearLong = 5
    FmvDay = 7
    LtcgFrom = 11
    NoRow = NoRow
    NoBook = NoBook
    NoFmv = NoFmv
    StartCash = 3000
    Slots = 2
    Keep = 3
    Missing = 2
    HaircutPct = 30
    SlipTopPermille = 2
    SlipRestPermille = 4
    FeePermille = 1
    FlatFee = 2
    StPct = 15
    LtPct = 10
    LtExempt = 5
    Cal <- MCCal
    Expiries <- MCExpiries
    Month <- MCMonth
    LifetimeLots <- MCLots
    QuoteSets <- MCQuoteSets
    Market <- MCMarket
    Basis <- MCBasis
    Roll = 1
    NoContract = NoContract
    Releases <- MCReleases
    Indices = {"TOP", "MID"}
    Other = Other
    None = None
    Stocks = {a}
    LastDate = 6
    Announcements = 5
    Repeats = 1
    Nothing = Nothing
SPECIFICATION ResearchSpec
CHECK_DEADLOCK FALSE
INVARIANTS TrendLossUsedOnce
PROPERTIES NeverBuysOnCredit BacktestImplementsSim
