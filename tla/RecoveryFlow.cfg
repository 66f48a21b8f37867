\* Five requests fill the queues of one and the buffers of two bytes; a reply may be too large.
SPECIFICATION FairSpec
CONSTANTS
    NRequests = 5
    ClientSizes = {1, 2}
    ServerSizes = {2, 3}
    ClientBytes = 2
    ServerBytes = 2
    QueueSize = 1
    Closers = {}
INVARIANTS
    TypeOK
    BufferExact
PROPERTY SendReturns
CHECK_DEADLOCK FALSE
