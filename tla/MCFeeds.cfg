CONSTANTS
    LastDay = 3
    Sessions = {1, 3}
    Workers = {w1, w2}
    Attempts = 3
    Asks = 3
    BadLimit = 2
    SaveEvery = 2
    Lag = 1
    FalseEmpties <- MCFalse
    Runs = 2
    Jobs = {j1}
    Sdk = sdk
    Keys = {k1, k2}
    KeyUpdates = 3
    Opens = 2
    Bots = {b1, b2}
    Ttl = 2
    LastTick = 3
    Listed <- MCListed
    MasterCalls = 2
    Absent = Absent
    NoLot = NoLot
    NoHolder = NoHolder
    Filters = {p1, p2}
    Companies = {"A", "B", "C"}
    Shares <- MCShares
    Deals <- MCDeals
    DealDays = {0, 6, 12}
    Unwritten = Unwritten
SPECIFICATION FeedsSpec
CHECK_DEADLOCK FALSE
INVARIANTS NoSessionLost ReconnectRepairs BadMasterExpires ScreenKnowsShares
