CONSTANTS
    Enabled = {"ivr", "events", "trend", "midweek", "mid_price"}
    Days = {0, 2, 3, 4, 9, 11}
    Events = {3}
    DaysBefore = 1
    DaysAfter = 0
    MidweekDays = {1, 2, 3}
    MidweekVix = {16, 20}
    VixLow = 13
    VixElevated = 18
    VixMax = 22
    OtmLow = 12
    OtmNormal = 10
    OtmElevated = 15
    MinHistory = 3
    IvrMinPct = 30
    SmaDays = 2
    MinDte = 10
    MaxDte = 42
    HedgeWidth = 10
    MaxSpreadPct = 25
    MinCwPct = 15
    TargetDelta = 280
    Delta <- MCDelta
    MaxCapital = 2000
    RiskPct = 3
    PortfolioPct = 8
    RequoteAttempts = 2
    StepPct = 25
    MaxImprovement = 1
    Vixes = {12, 16, 20, 23}
    Histories <- MCHistories
    Spots = {1000}
    Closes <- MCCloses
    Chains <- MCChains
    LotSizes = {0, 2}
    Margins = {0, 1000, 2000}
    LifetimePnls <- MCPnls
    OpenRisks = {0, 60}
SPECIFICATION Spec
CHECK_DEADLOCK FALSE
INVARIANTS LossWithinBudgets SpreadInsideBounds BlindEntryOnlyOnFriday
