SPECIFICATION StoreSpec
CONSTANTS
    Keys = {k1, k2}
    MaxVersion = 2
    MaxCreds = 1
    MaxFailures = 2
INVARIANTS
    NothingForgotten
    TidyShutdown
PROPERTIES
    ImplementsWriteBehind
    Retried
