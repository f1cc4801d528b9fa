CONSTANTS
    c1 = c1
    c2 = c2
    c3 = c3
    h1 = h1
    h2 = h2
    Callers = {c1, c2, c3}
    Hosts = {h1}
    HostOf <- OneHost
    NoCaller = NoCaller
    Keyless = {}
    Faults = {"slow_login", "server_error"}
    MaxBoots = 1
    MaxCalls = 3
    MaxExpiries = 2
SPECIFICATION PromptSpec
CHECK_DEADLOCK FALSE
INVARIANTS BusSettles
