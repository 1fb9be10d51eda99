\* Backing content that fits the native type and informers that sync on an
\* empty first list (client-go's shared informer): the plugin becomes ready,
\* its informers mirror the backing objects, and a signal or a server
\* failure ends the process.
CONSTANTS
    n1 = n1
    Err = Err
    Names <- MCNames
    Gens <- MCGens
    BindingGens <- MCBindingGens
    Resources <- MCResources
    ForeignFits = {TRUE}
    EmptyListSyncs = TRUE
    MaxWrites = 2
    MaxEvents = 2
SPECIFICATION Spec
INVARIANT TypeOK
INVARIANT MirrorTracksBacking
PROPERTY ProcessExits
PROPERTY EventuallyReady
\* main returns once both goroutines are done.
CHECK_DEADLOCK FALSE
