SPECIFICATION Spec
CONSTANTS
    Sources = {s1, s2}
    Workers = {w1, w2}
    Main = main
    NoId = none
    MaxAdapters = 6
    MaxConfigs = 1
    MaxRequests = 1
    Options <- NoPools
    Messages <- Requests
    Suspends <- NoSuspend
    EarlySources = FALSE
    Tracking = FALSE
    AddrMayBeEmpty = FALSE
SYMMETRY ThreadSymmetry
INVARIANTS CallsOK AnswersGoToTheAsker
PROPERTIES ClientsPrivate
VIEW LiveView
