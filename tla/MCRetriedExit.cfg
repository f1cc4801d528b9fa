CONSTANTS
    Entrants = {e1}
    Exiters = {x1}
    Spreads = {s1}
    NoSpread = NoSpread
    NoWorker = NoWorker
    Faults = {"late_fill"}
    RequoteAttempts = 1
    MaxJobs = 4
SPECIFICATION Spec
CHECK_DEADLOCK FALSE
INVARIANTS NoOverClose
