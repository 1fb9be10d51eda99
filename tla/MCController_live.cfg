\* Every change is eventually reconciled unless Run is cancelled, and a
\* cancel always makes Run return.
CONSTANTS
    k1 = k1
    k2 = k2
    w1 = w1
    w2 = w2
    Keys = {k1, k2}
    Workers = {w1, w2}
    NoKey = NoKey
    MaxRV = 2
    MaxPending = 2
    MaxRetries = 1
    WatchGaps = FALSE
SPECIFICATION Spec
PROPERTY EventuallyReconciled
PROPERTY CancelStops
PROPERTY ImplementsKeyedReconcileLive
CHECK_DEADLOCK FALSE
