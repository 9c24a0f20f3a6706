SPECIFICATION Spec
CONSTANTS
    NoValue = NoValue
    d1 = d1
    d2 = d2
    u1 = u1
    u2 = u2
    Devices = {d1, d2}
    Enrolled = {d1}
    Users = {u1, u2}
    Admins = {u2}
    Owner = u1
    MaxTunnel = 2
    Ports = {443, 8443}
    PublicHost <- MCPublicHost
    Configs <- MCConfigs
    Segments <- MCSegments
    Requests <- MCRequests
INVARIANTS
    RoutingInv
    GuardedRequests
    SessionStaysHere
    ToldByRelay
PROPERTY OfflineIsTrue
CHECK_DEADLOCK FALSE
