\* yaslsplitargs returns once, and an address arrives once.
CHECK_DEADLOCK FALSE
SPECIFICATION StringsSpec
CONSTANTS
    NUL = 0
    junk = 256
    Byte <- MCByte
    Text <- MCText
    Remaps <- MCRemaps
    YASL_MAX_PREALLOC = 4
    FirstBuflen = 2
    MaxLen = 4
    Commands <- MCCommands
    Gaps <- MCGaps
    Lines <- MCLines
    rcpt <- MCrcpt
    Locals <- MCLocals
    Forwarders <- MCForwarders
    Recipients <- MCRecipients
    CommonNames <- MCCommonNames
    RcptLines <- MCRcptLines
INVARIANTS
    TypeOK
    HeaderTellsBlock
    HoldsItsText
    SplitTypeOK
    QuotedComesBack
    BlanksSeparate
    RecipientIsOneWord
    SameCorrespondent
    RefusedWhereverFrom
    FoundWhereNamed
