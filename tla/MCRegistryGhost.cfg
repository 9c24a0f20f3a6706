CONSTANTS
    d1 = d1
    l1 = l1
    l2 = l2
    a = a
    b = b
    c = c
    k1 = k1
    k2 = k2
    t1 = t1
    t2 = t2
    None = None
    Desktops = {d1}
    Links = {l1}
    RelayIds = {a, b, c}
    Self = a
    Vias <- RoutableVias
    Sessions = {k1, k2}
    SessionDevice <- OverlappingLink
    MAX_HOPS = 3
    MaxSequence = 5

SPECIFICATION Spec
CHECK_DEADLOCK FALSE
INVARIANT AnnouncedLinkRegistered
