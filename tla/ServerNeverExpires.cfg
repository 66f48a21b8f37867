SPECIFICATION FairSpec
CONSTANTS
    NConns = 2
    MaxRecovery = 1
    Kinds = {"new", "resume"}
PROPERTY DetachedExpires
CHECK_DEADLOCK FALSE
