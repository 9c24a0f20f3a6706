CONSTANTS
    u1 = u1
    t1 = t1
    t2 = t2
    r1 = r1
    r2 = r2
    None = None
    Users = {u1}
    Tokens = {t1, t2}
    Requests = {r1, r2}
    SESSION_LIFETIME = 3
    SESSION_RENEWAL_THRESHOLD = 1
    MaxLatency = 1
    MaxTime = 4
    MaxChanges = 1
    MaxRestarts = 1

SPECIFICATION Spec
SYMMETRY Interchangeable
CHECK_DEADLOCK FALSE
INVARIANT SessionInv
INVARIANT IdleLimit
INVARIANT ChangeEndsSessions
