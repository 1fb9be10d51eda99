\* Cancellation right after the cache sync, before any worker has started.
CONSTANTS
    k1 = k1
    k2 = k2
    w1 = w1
    w2 = w2
    Keys = {k1}
    Workers = {w1, w2}
    NoKey = NoKey
    MaxRV = 2
    MaxPending = 2
    MaxRetries = 0
    WatchGaps = FALSE
SPECIFICATION SafetySpec
INVARIANT DrainCompletes
CHECK_DEADLOCK FALSE
