CONSTANTS
    d1 = d1
    d2 = d2
    k1 = k1
    j1 = j1
    NoRecord = NoRecord
    NoRun = NoRun
    Deliveries <- MCDeliveries
    MaxRuns <- Once
    Keys <- MCKeys
    KeyOf <- MCKeyOf
    UserInterval = 1
    GroupInterval = 1
    MaxTime = 0
    Jobs <- MCJobs
    Retention = 1
    MapAddrs <- SignedAddrs
SPECIFICATION FairSpec
PROPERTIES
    EveryProcessEnds
CHECK_DEADLOCK FALSE
