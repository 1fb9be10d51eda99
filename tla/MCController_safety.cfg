\* Queue discipline and no lost update: one worker per key, no duplicate
\* queue entries, every unseen change still owed a reconcile, and every
\* step a step of the abstract KeyedReconcile specification.
CONSTANTS
    k1 = k1
    k2 = k2
    w1 = w1
    w2 = w2
    Keys <- MCKeys
    Workers <- MCWorkers
    NoKey = NoKey
    MaxRV <- MCMaxRV
    MaxPending <- MCMaxPending
    MaxRetries <- MCMaxRetries
    WatchGaps = FALSE
SPECIFICATION SafetySpec
SYMMETRY Symmetry
INVARIANT TypeOK
INVARIANT AtMostOneInFlight
INVARIANT NoLostUpdate
CHECK_DEADLOCK FALSE
PROPERTY ImplementsKeyedReconcile
