\* Two messages, Stream.Close on both sides, Close by the client, one failure.
SPECIFICATION Spec
CONSTANTS
    NStreams = 1
    ClientMessages = 2
    ServerMessages = 0
    QueueSize = 1
    OutboundSize = 1
    Closers = {"client"}
    StreamClosers = {"client", "server"}
    MaxFailures = 1
    MaxTimeouts = 0
INVARIANTS
    TypeOK
    NeverReopened
    ReleasedOnce
    FinDelivers
    CloseDelivers
CHECK_DEADLOCK FALSE
