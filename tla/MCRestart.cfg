CONSTANTS
    Entrants = {e1}
    Exiters = {}
    Spreads = {s1, s2}
    NoSpread = NoSpread
    NoWorker = NoWorker
    Faults = {"crash"}
    RequoteAttempts = 1
    MaxJobs = 3
SPECIFICATION Spec
CHECK_DEADLOCK FALSE
INVARIANTS NeverDoubleEntered
