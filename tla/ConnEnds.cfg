\* Close by the client and Stream.Close by the server, at any time; nobody need receive.
SPECIFICATION FairSpec
CONSTANTS
    NStreams = 1
    ClientMessages = 2
    ServerMessages = 0
    QueueSize = 1
    OutboundSize = 1
    Closers = {"client"}
    StreamClosers = {"server"}
    MaxFailures = 0
    MaxTimeouts = 2
PROPERTIES
    CloseEnds
    ClosedStreamFreesReader
CHECK_DEADLOCK FALSE
