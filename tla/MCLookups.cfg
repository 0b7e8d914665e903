CONSTANTS
    Times <- MCTimes
    MaxTime = 3
    Messages <- MCMessages
    Recipients <- MCRecipients
    KeyEnd = 22
SPECIFICATION LookupSpec
INVARIANTS
    TypeOK
    OneStretch
    OneKind
    NobodyPassedOver
    KeyTypeOK
    FingerprintIsResidue
    ShortDifferencesShow
    KeyTells
