CONSTANTS
    d1 = d1
    d2 = d2
    k1 = k1
    NoRecord = NoRecord
    NoRun = NoRun
    NoExpiry = NoExpiry
    Deliveries <- MCDeliveries
    MaxRuns <- Once
    Keys <- MCKeys
    KeyOf <- MCKeyOf
    UserInterval = 1
    GroupInterval = 3
    MaxTime = 2
    Retention = 2
SYMMETRY MCSymmetry
SPECIFICATION Spec
INVARIANTS
    TypeOK
    RecordsKeepTheirRetention
PROPERTIES
    LedgerSpec
CHECK_DEADLOCK FALSE
