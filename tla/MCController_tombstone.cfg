\* A delete the watch missed reaches the handler as a tombstone.
CONSTANTS
    k1 = k1
    k2 = k2
    w1 = w1
    w2 = w2
    Keys = {k1}
    Workers = {w1}
    NoKey = NoKey
    MaxRV = 2
    MaxPending = 2
    MaxRetries = 0
    WatchGaps = TRUE
SPECIFICATION SafetySpec
INVARIANT NoLostUpdate
CHECK_DEADLOCK FALSE
