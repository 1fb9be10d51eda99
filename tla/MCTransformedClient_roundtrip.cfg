\* The apiVersion of objects returned by Create, Update and Get.
CONSTANTS
    n1 = n1
    n2 = n2
    Err = Err
    Resource = "policies"
    Names <- MCNames
    Gens <- MCGens
    ForeignFits = {TRUE}
    MaxWrites = 2
    MaxEvents = 2
SPECIFICATION Spec
INVARIANT RoundTripKeepsNativeAPIVersion
