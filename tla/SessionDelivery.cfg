\* Liveness across a resume.
SPECIFICATION FairSpec
CONSTANTS
    ClientFrames = 1
    ServerFrames = 0
    MaxReplay = 1
    AckEvery = 1
    MaxTransports = 2
    MaxFailures = 1
PROPERTIES
    AcceptedIsDelivered
    ClientReattaches
\* The connection may end (closed, or all frames delivered and no heartbeat due).
CHECK_DEADLOCK FALSE
