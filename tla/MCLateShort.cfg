CONSTANTS
    Entrants = {e1}
    Exiters = {}
    Spreads = {s1}
    NoSpread = NoSpread
    NoWorker = NoWorker
    Faults = {"late_fill"}
    RequoteAttempts = 1
    MaxJobs = 2
SPECIFICATION Spec
CHECK_DEADLOCK FALSE
INVARIANTS NeverNakedShort
