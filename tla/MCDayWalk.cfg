CONSTANTS
    Calendars <- MCCalendars
    Window = {4, 7, 8, 9, 10, 11, 14, 15, 16, 17, 18}
    Modes = {"hold", "stop2x", "mgmt"}
    DteLow = 3
    DteHigh = 10
    Width = 10
    TargetDelta = 20
    MinCwPct = 15
    SmaDays = 1
    Slip = 1
    Tick = 1
    TakeProfitPct = 25
    StopPct = 200
    DteManage = 1
    Equity0 = 1000
    RiskPct = 5
    PortfolioPct = 8
    NoPosition = NoPosition
    PutChains <- MCPutChains
    LotSizes = {2}
    Marks <- MCMarks
    Closings = {85, 101}
    Fees = {1}
SPECIFICATION Spec
CHECK_DEADLOCK FALSE
INVARIANTS ExitByTheRules LossInsideRisk
PROPERTIES ImplementsSim
