CONSTANTS
    x = x
    y = y
    a = a
    b = b
    s = s
    Pages = {a}
    Workers = {b}
    Channels = {x, y}
    Home <- Pair
    NoPort = NoPort
    NoContext = NoContext
    MaxCalls = 2
    MaxDeaths = 1
SPECIFICATION PortsSpec
SYMMETRY Symmetry
INVARIANTS HeldOnce StartedPortsAreWoken
CHECK_DEADLOCK FALSE
