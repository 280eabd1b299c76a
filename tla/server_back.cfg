SPECIFICATION Spec
CONSTANTS
    Conns = {c1}
    Addresses = {a, b}
    MaxConfigs = 3
    MaxMessages = 0
    KeepAlives <- Always
    DirectModes <- Never
    Suspends <- Never
INVARIANT ListensWhileRunning
