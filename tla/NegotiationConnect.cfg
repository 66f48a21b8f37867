SPECIFICATION Spec
CONSTANTS
    CodecLists <- SomeCodecLists
    MaxFrames = {0, 1, 2}
    Intervals = {0, 1, 2, 5, 24}
    Timeouts = {0, 3, 4, 30}
    AckDelays = {0, 1, 24}
    DefaultInterval = 4
    DefaultTimeout = 12
    DefaultAckDelay = 3
    TicksPerMilli = 2
    MaxMillis = 10
    MaxFailures = 1
INVARIANT TypeOK
INVARIANT Agreement
INVARIANT ConnectSucceeds
CHECK_DEADLOCK FALSE
