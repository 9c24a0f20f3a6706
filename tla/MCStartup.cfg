CONSTANTS
    p1 = p1
    p2 = p2
    Processes = {p1, p2}
    Service = p1
    Nobody = Nobody
    Torn = Torn
    MaxCrashes = 2
    MaxCommands = 2

SPECIFICATION Spec
INVARIANT IdentityInv
INVARIANT AdminKnown
INVARIANT SecretsUnreadable
PROPERTY Recovers
