SPECIFICATION FairSpec
CONSTANTS
    Conns = {c1}
    Addresses = {a, b}
    MaxConfigs = 2
    MaxMessages = 2
    KeepAlives <- Either
    DirectModes <- Either
    Suspends <- Either
INVARIANTS TypeOK RegistrationMatches NoServerLost ListensWhileRunning
PROPERTIES ConnectionsReset StopsListening ClosedAfterAnswer LifeCycleOfUdp
