CONSTANTS
    Lines <- MCSpacedLines
    MaxLines = 3
SPECIFICATION SendSpec
INVARIANTS
    ThreadedBySingleIdentifier
CHECK_DEADLOCK FALSE
