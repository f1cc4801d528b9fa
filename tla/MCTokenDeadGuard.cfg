CONSTANTS
    c1 = c1
    c2 = c2
    c3 = c3
    h1 = h1
    h2 = h2
    Callers = {c1, c2, c3}
    Hosts = {h1}
    HostOf <- OneHost
    NoCaller = NoCaller
    Keyless = {}
    Faults = {}
    MaxBoots = 0
    MaxCalls = 4
    MaxExpiries = 1
SPECIFICATION Spec
CHECK_DEADLOCK FALSE
INVARIANTS BusSettles
PROPERTIES ForcedRefreshIsFresh
