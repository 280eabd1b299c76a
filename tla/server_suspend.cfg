SPECIFICATION Spec
CONSTANTS
    Conns = {c1}
    Addresses = {a}
    MaxConfigs = 1
    MaxMessages = 1
    KeepAlives <- Always
    DirectModes <- Never
    Suspends <- Either
INVARIANT SuspendForNewOnly
