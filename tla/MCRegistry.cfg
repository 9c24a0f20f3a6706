CONSTANTS
    d1 = d1
    l1 = l1
    l2 = l2
    a = a
    b = b
    c = c
    k1 = k1
    k2 = k2
    t1 = t1
    t2 = t2
    None = None
    Desktops = {d1}
    Links = {l1}
    RelayIds = {a, b, c}
    Self = a
    Vias <- MCVias
    Sessions = {k1, t1, t2}
    SessionDevice <- LinkAndDesktop
    MAX_HOPS = 3
    MaxSequence = 4

SPECIFICATION Spec
CHECK_DEADLOCK FALSE
INVARIANT TypeOK
INVARIANT DirectHasTunnel
INVARIANT EvictedOnlyByNewer
INVARIANT ClosedIsSuperseded
INVARIANT RelayLinksRegistered
INVARIANT WithdrawnIsOffline
INVARIANT AnnouncedThroughLiveLink
INVARIANT WithdrawnWhileLinkUp
INVARIANT RoutedIsClaimed
PROPERTY ImplementsChangeSource
