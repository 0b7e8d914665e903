CONSTANTS
    Locals <- MCLocals
    Forwarders <- MCForwarders
    Recipients <- MCRecipients
    CommonNames <- MCCommonNames
    RcptLines <- MCRcptLines
SPECIFICATION MatchSpec
INVARIANT NullAddressRefused
CHECK_DEADLOCK FALSE
