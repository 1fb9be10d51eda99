\* Informers with the empty-list bug that plugin.go's HasSynced comments on,
\* and whose workaround is commented out: with no policy or no binding in
\* the cluster, the plugin never becomes ready.
CONSTANTS
    n1 = n1
    Err = Err
    Names <- MCNames
    Gens <- MCGens
    BindingGens <- MCBindingGens
    Resources <- MCResources
    ForeignFits = {TRUE}
    EmptyListSyncs = FALSE
    MaxWrites = 2
    MaxEvents = 2
SPECIFICATION Spec
PROPERTY EventuallyReady
\* main returns once both goroutines are done.
CHECK_DEADLOCK FALSE
