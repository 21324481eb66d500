CONSTANTS
    s1 = s1
    s2 = s2
    Subscribers = {s1, s2}
    MaxDeaths = 2
    MaxCalls = 2
SPECIFICATION FairSpec
INVARIANTS OneRecovery
PROPERTIES StopEnds RecoveryConverges
CHECK_DEADLOCK FALSE
