CONSTANTS
    Entrants = {t1}
    Exiters = {t1, m1}
    Tickers = {m1}
    Spreads = {s1, s2}
    NoSpread = NoSpread
    NoWorker = NoWorker
    Faults = {}
    RequoteAttempts = 0
    MaxJobs = 4
    MaxStarts = 1
SPECIFICATION RealtimeSpec
CHECK_DEADLOCK FALSE
PROPERTIES TickExitsOpenSpread
