SPECIFICATION Spec
CONSTANTS
    Sources = {s1, s2}
    Workers = {}
    Main = main
    NoId = none
    MaxAdapters = 10
    MaxConfigs = 2
    MaxRequests = 1
    Options <- AllPools
    Messages <- Requests
    Suspends <- NoSuspend
    EarlySources = FALSE
    Tracking = FALSE
    AddrMayBeEmpty = FALSE
SYMMETRY SourceSymmetry
INVARIANTS TypeOK ExclusiveOwnership NeverSeveralSources PoolsAsConfigured NoClientLeftBehind PromptSourcesServed
VIEW LiveView
