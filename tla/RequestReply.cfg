\* Two goroutines, two calls and a Send, two timeouts, an event or a reply that is not sent.
SPECIFICATION FairSpec
CONSTANTS
    Callers = {g1, g2}
    MaxCalls = 2
    MaxSends = 1
    MaxOdd = 1
    MaxTimeouts = 2
INVARIANTS
    TypeOK
    OwnReply
    NothingLost
    OnceSendsOnce
PROPERTY CallReturns
CHECK_DEADLOCK FALSE
