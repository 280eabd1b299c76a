SPECIFICATION FairSpec
CONSTANTS
    Sources = {s1}
    Workers = {w1}
    Main = main
    NoId = none
    MaxAdapters = 8
    MaxConfigs = 1
    MaxRequests = 1
    Options <- OneWayPools
    Messages <- Sends
    Suspends <- NoSuspend
    EarlySources = TRUE
    Tracking = TRUE
    AddrMayBeEmpty = TRUE
INVARIANT PromptSourcesServed
PROPERTIES WaitersServed CallsReturn LifeCycleEnds
