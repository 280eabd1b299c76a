SPECIFICATION Spec
CONSTANTS
    Sources = {s1, s2}
    Workers = {w1}
    Main = main
    NoId = none
    MaxAdapters = 10
    MaxConfigs = 1
    MaxRequests = 1
    Options <- Returning
    Messages <- Requests
    Suspends <- NoSuspend
    EarlySources = FALSE
    Tracking = FALSE
    AddrMayBeEmpty = FALSE
SYMMETRY ThreadSymmetry
INVARIANT NeverSeveralSources
