CONSTANTS
    c1 = c1
    Nobody = Nobody
    Callers = {c1}
    COMMAND_CAPACITY = 2
    FRAME_QUEUE_CAPACITY = 1
    MAX_CONCURRENT_STREAMS = 1
    MaxRequests = 4

SPECIFICATION Spec
CHECK_DEADLOCK FALSE
INVARIANT RequestInv
PROPERTY OpensAreAnswered
PROPERTY OneEndsAll
PROPERTY CloseEndsTunnel
