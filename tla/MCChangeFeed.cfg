CONSTANTS
    d1 = d1
    d2 = d2
    w1 = w1
    b = b
    c = c
    u = u
    Devices = {d1, d2}
    Writers = {w1}
    Chains <- MCChains
    UpstreamId = u
    MAX_HOPS = 3
    CHANGE_CAPACITY = 1
    WireCapacity = 1
    MaxUpdates = 4
    MaxDrops = 1

SPECIFICATION FeedSpec
CHECK_DEADLOCK FALSE
INVARIANT FeedInv
INVARIANT RefusedIsUnrouted
PROPERTY EventuallyAgrees
