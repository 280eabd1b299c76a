SPECIFICATION Spec
CONSTANTS
    Sources = {s1}
    Workers = {w1, w2}
    Main = main
    NoId = none
    MaxAdapters = 10
    MaxConfigs = 2
    MaxRequests = 2
    Options <- SomePools
    Messages <- Requests
    Suspends <- AnySuspend
    EarlySources = FALSE
    Tracking = FALSE
    AddrMayBeEmpty = FALSE
SYMMETRY ThreadSymmetry
INVARIANTS OwnershipInv PoolsAsConfigured OwnedClientsAreCurrent
VIEW LiveView
