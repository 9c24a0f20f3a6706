CONSTANTS
    u1 = u1
    c1 = c1
    d1 = d1
    d2 = d2
    e1 = e1
    e2 = e2
    o1 = o1
    t1 = t1
    t2 = t2
    None = None
    Users = {u1}
    Codes = {c1}
    Devices = {d1, d2}
    Enrollers = {e1, e2}
    Operators = {o1}
    Tunnels = {t1, t2}
    MaxRestarts = 1

SPECIFICATION Spec
CHECK_DEADLOCK FALSE
CONSTRAINT TwoAtOnce
SYMMETRY Interchangeable
INVARIANT CodeInv
INVARIANT LoserRevoked
INVARIANT RemovedOwnerRevoked
INVARIANT RevokedIsClosed
