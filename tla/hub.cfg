SPECIFICATION FairSpec
CONSTANTS
    Sources = {s1, s2}
    Connections = {s1, s2}
    Performers = {s1, w1}
    Nobody = none
    MaxRestarts = 2
INVARIANTS TypeOK ReachesAll NothingAfterLeaving NoEcho ConnectionsCounted
PROPERTIES CallsReturn
