CONSTANTS
    Entrants = {e1, e2}
    Exiters = {x1, x2}
    Spreads = {s1}
    NoSpread = NoSpread
    NoWorker = NoWorker
    Faults = {"crash", "db_error", "session_lost"}
    RequoteAttempts = 1
    MaxJobs = 4
SPECIFICATION Spec
CHECK_DEADLOCK FALSE
INVARIANTS NeverNakedShort Hedged
PROPERTIES ImplementsBook
SYMMETRY Symmetry
