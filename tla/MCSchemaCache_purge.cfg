\* A CRD change purges the cached schemas of the kind it defines.
CONSTANTS
    gkA = gkA
    v1 = v1
    v2 = v2
    emptyGK = emptyGK
    crdGK = crdGK
    t1 = t1
    t2 = t2
    None = None
    GKs <- MCGKs
    Versions <- MCVersions
    TypeMetaGKs <- MCTypeMetaGKs
    Threads <- MCThreads
    MaxRev = 3
    MaxPending = 2
    WatchGaps = FALSE
SPECIFICATION Spec
INVARIANT InvalidatedAfterChange
