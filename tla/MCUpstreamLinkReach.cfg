CONSTANTS
    k1 = k1
    k2 = k2
    r1 = r1
    r2 = r2
    None = None
    Credentials = {k1, k2}
    Requests = {r1}
    MaxAbandoned = 0
    MaxRestarts = 0

SPECIFICATION Spec
CHECK_DEADLOCK FALSE
INVARIANT ReachIsLive
