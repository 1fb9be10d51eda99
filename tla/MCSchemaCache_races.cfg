\* Concurrent misses for the same gvk, racing CRD changes and their purges.
CONSTANTS
    gkA = gkA
    v1 = v1
    v2 = v2
    emptyGK = emptyGK
    crdGK = crdGK
    t1 = t1
    t2 = t2
    None = None
    GKs <- MCGKs
    Versions <- MCVersions
    TypeMetaGKs <- MCTypeMetaGKs
    Threads <- MCThreads
    MaxRev = 3
    MaxPending = 2
    WatchGaps = FALSE
SPECIFICATION Spec
PROPERTY MonotoneCache
