CONSTANTS
    c1 = c1
    c2 = c2
    c3 = c3
    h1 = h1
    h2 = h2
    Callers = {c1, c2, c3}
    Hosts = {h1, h2}
    HostOf <- Placement
    NoCaller = NoCaller
    Keyless = {h2}
    Faults = {"slow_login", "login_error", "server_error", "redis_error", "crash"}
    MaxBoots = 1
    MaxCalls = 1
    MaxExpiries = 1
SPECIFICATION FairSpec
CHECK_DEADLOCK FALSE
INVARIANTS TypeOK FileLockExact
PROPERTIES CallEnds
