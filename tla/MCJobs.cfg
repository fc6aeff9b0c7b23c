SPECIFICATION FairSpec
CONSTANTS
    k1 = k1
    k2 = k2
    Keys = {k1, k2}
    Interval <- MCInterval
    Period = 3
    Ticks = {t1, t2}
    Lag = 2
    MaxFaults = 1
INVARIANTS
    ChecksAreOnTime
PROPERTIES
    DispatchesAreSpaced
    EveryKeyIsDispatched
