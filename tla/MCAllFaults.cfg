CONSTANTS
    Entrants = {e1, e2}
    Exiters = {x1}
    Spreads = {s1}
    NoSpread = NoSpread
    NoWorker = NoWorker
    Faults = {"late_fill", "lost_reply", "status_error", "db_error", "crash"}
    RequoteAttempts = 1
    MaxJobs = 2
SPECIFICATION FairSpec
CHECK_DEADLOCK FALSE
INVARIANTS TypeOK OneEntryInFlight
PROPERTIES JobEnds
