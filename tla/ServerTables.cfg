SPECIFICATION Spec
CONSTANTS
    NConns = 2
    MaxRecovery = 1
    Kinds = {"v2", "new", "resume"}
INVARIANT TypeOK
INVARIANT OpenConnsAreOwned
INVARIANT StoredIsServed
INVARIANT ShutdownComplete
INVARIANT NobodyEscapesShutdown
CHECK_DEADLOCK FALSE
