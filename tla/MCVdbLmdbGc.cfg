CONSTANTS
    d1 = d1
    d2 = d2
    k1 = k1
    j1 = j1
    NoRecord = NoRecord
    NoRun = NoRun
    Deliveries <- MCDeliveries
    MaxRuns <- TwiceAlone
    Keys <- MCKeys
    KeyOf <- MCKeyOf
    UserInterval = 1
    GroupInterval = 2
    MaxTime = 2
    Jobs <- MCJobs
    Retention = 1
    MapAddrs <- High
SPECIFICATION Spec
PROPERTIES
    GcCollects
CHECK_DEADLOCK FALSE
