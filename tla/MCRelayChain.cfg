CONSTANTS
    a = a
    b = b
    c = c
    d = d
    Relays = {a, b, c, d}
    Home = a
    None = None
    MAX_HOPS = 3
    WireBound = 2
    MaxMoves = 5
    MaxToggles = 2

SPECIFICATION Spec
SYMMETRY Interchangeable
CHECK_DEADLOCK FALSE
INVARIANT RouteInv
INVARIANT SettledStreamsArrive
INVARIANT SettledRoutesAgree
