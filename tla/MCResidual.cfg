CONSTANTS
    Entrants = {e1}
    Exiters = {x1}
    Spreads = {s1}
    NoSpread = NoSpread
    NoWorker = NoWorker
    Faults = {}
    RequoteAttempts = 1
    MaxJobs = 3
SPECIFICATION Spec
CHECK_DEADLOCK FALSE
PROPERTIES ClosedOnlyWhenFlat
