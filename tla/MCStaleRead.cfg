CONSTANTS
    Entrants = {e1, e2}
    Exiters = {}
    Spreads = {s1, s2}
    NoSpread = NoSpread
    NoWorker = NoWorker
    Faults = {}
    RequoteAttempts = 1
    MaxJobs = 2
SPECIFICATION Spec
CHECK_DEADLOCK FALSE
INVARIANTS NeverDoubleEntered
