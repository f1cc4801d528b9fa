CONSTANTS
    c1 = c1
    c2 = c2
    c3 = c3
    h1 = h1
    h2 = h2
    Callers = {c1, c3}
    Hosts = {h1, h2}
    HostOf <- Placement
    NoCaller = NoCaller
    Keyless = {}
    Faults = {"server_error"}
    MaxBoots = 0
    MaxCalls = 3
    MaxExpiries = 1
SPECIFICATION Spec
CHECK_DEADLOCK FALSE
PROPERTIES ForcedOnlyWhenBusDead
