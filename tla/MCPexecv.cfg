CONSTANTS
    d1 = d1
    k1 = k1
    NoRecord = NoRecord
    NoRun = NoRun
    Deliveries <- MCDeliveries
    MaxRuns <- MCMaxRuns
    Keys <- MCKeys
    KeyOf <- MCKeyOf
    UserInterval = 1
    GroupInterval = 1
    MaxTime = 0
    TextSize = 2
    BufferSize = 1
    PipeSize = 1
SPECIFICATION HandoffSpec
INVARIANTS
    HandoffTypeOK
    SecondReplyNeedsFailure
    TextTwiceNeedsSignal
    CutMeansFailure
PROPERTIES
    NullSpec
    SendingEnds
    MailerEnds
CHECK_DEADLOCK FALSE
