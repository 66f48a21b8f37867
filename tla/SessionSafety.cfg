\* A buffer of one frame, delayed ACKs, a broken transport, a resume, expiry.
SPECIFICATION Spec
CONSTANTS
    ClientFrames = 2
    ServerFrames = 0
    MaxReplay = 1
    AckEvery = 2
    MaxTransports = 2
    MaxFailures = 1
INVARIANTS
    TypeOK
    NoGap
    InOrderOnce
    UnreceivedIsKept
    AckScheduledIffOwed
    NoLostWakeup
    SessionInv
    DetachedClientReconnects
    ClientOutlivesServer
PROPERTIES
    ImplementsChannel
\* The connection may end (closed, or all frames delivered and no heartbeat due).
CHECK_DEADLOCK FALSE
