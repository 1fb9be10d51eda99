\* Any content: the types are kept, List is all or nothing, and every
\* convertible object reaches the consumer's mirror.
CONSTANTS
    n1 = n1
    n2 = n2
    Err = Err
    Resource = "policies"
    Names <- MCNames
    Gens <- MCGens
    ForeignFits = {TRUE, FALSE}
    MaxWrites = 4
    MaxEvents = 2
SPECIFICATION Spec
INVARIANT TypeOK
INVARIANT ConvertibleObjectsMirrored
PROPERTY ListNeverPartial
