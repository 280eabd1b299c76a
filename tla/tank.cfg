SPECIFICATION Spec
CONSTANTS
    k1 = k1
    k2 = k2
    c1 = c1
    Tanks <- TwoTanks
    Options <- MixedOptions
    MaxCalls <- Calls
    Counters <- OneCounter
    Limits <- Ranges
INVARIANTS TypeOK OwnIds VerdictsTrue CountersCycle
CHECK_DEADLOCK FALSE
