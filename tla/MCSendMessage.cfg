CONSTANTS
    Lines <- MCLines
    MaxLines = 4
SPECIFICATION SendSpec
INVARIANTS
    TypeOK
    ForbiddenUnlessHidden
    SuppressedForCause
    LinesStayInTheirField
    ReplyIsThreaded
CHECK_DEADLOCK FALSE
