\* Both sides close at any time; a buffer holds one frame, so the next one is held.
SPECIFICATION FairSpec
CONSTANTS
    NRequests = 3
    ClientSizes = {1}
    ServerSizes = {1}
    ClientBytes = 1
    ServerBytes = 1
    QueueSize = 1
    Closers = {"client", "server"}
INVARIANTS
    CloseDelivers
    CloseReleases
PROPERTY CloseEnds
CHECK_DEADLOCK FALSE
