CONSTANTS
    Entrants = {t1}
    Exiters = {t1, m1, m2}
    Tickers = {m1, m2}
    Spreads = {s1}
    NoSpread = NoSpread
    NoWorker = NoWorker
    Faults = {"crash", "db_error"}
    RequoteAttempts = 0
    MaxJobs = 3
    MaxStarts = 2
SPECIFICATION RealtimeSpec
CHECK_DEADLOCK FALSE
INVARIANTS RealtimeTypeOK NeverNakedShort OneStream OpenPositionWatched
SYMMETRY TickerSymmetry
