CONSTANTS
    r1 = r1
    r2 = r2
    r3 = r3
    k1 = k1
    NoRun = NoRun
    Run <- MCRun
    Keys <- MCKeys
    RunKey <- MCRunKey
    MaxInterval = 1
    MaxTime = 1
SYMMETRY MCSymmetry
SPECIFICATION Spec
INVARIANTS
    TypeOK
    Suppression
    RecordsPersist
CHECK_DEADLOCK FALSE
