\* liveness of held sends across a resume, with heartbeats
SPECIFICATION HeartbeatSpec
CONSTANTS
    ClientFrames = 2
    ServerFrames = 0
    MaxReplay = 1
    AckEvery = 1
    MaxTransports = 2
    MaxFailures = 1
PROPERTIES
    HeldSendProceeds
\* The connection may end (closed, or all frames delivered and no heartbeat due).
CHECK_DEADLOCK FALSE
