CONSTANTS
    Entrants = {e1}
    Exiters = {x1}
    Spreads = {s1, s2}
    NoSpread = NoSpread
    NoWorker = NoWorker
    Faults = {"db_error"}
    RequoteAttempts = 1
    MaxJobs = 3
SPECIFICATION Spec
CHECK_DEADLOCK FALSE
PROPERTIES NoLivePositionOverwritten
