\* One conn, v2 or v3, that nobody resumes.
SPECIFICATION FairSpec
CONSTANTS
    NConns = 1
    MaxRecovery = 1
    Kinds = {"v2", "new"}
PROPERTIES
    ShutdownEnds
    DetachedExpires
CHECK_DEADLOCK FALSE
