CONSTANTS
    Entrants = {e1}
    Exiters = {x1}
    Spreads = {s1, s2}
    NoSpread = NoSpread
    NoWorker = NoWorker
    Faults = {}
    RequoteAttempts = 1
    MaxJobs = 5
SPECIFICATION Spec
CHECK_DEADLOCK FALSE
INVARIANTS NoOverClose ShortTracked LedgerAgrees NeverDoubleEntered
PROPERTIES NoLivePositionOverwritten
