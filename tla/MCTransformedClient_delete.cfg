\* Non-fitting content written by another client, then deleted.
CONSTANTS
    n1 = n1
    n2 = n2
    Err = Err
    Resource = "policies"
    Names <- MCNames
    Gens <- MCGens
    ForeignFits = {TRUE, FALSE}
    MaxWrites = 3
    MaxEvents = 2
SPECIFICATION Spec
INVARIANT DeletedObjectsLeaveMirror
