CONSTANTS
    Lines <- MCSpacedLines
    MaxLines = 3
SPECIFICATION SendSpec
INVARIANTS
    AutoSubmittedHonoured
CHECK_DEADLOCK FALSE
