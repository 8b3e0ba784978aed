SPECIFICATION FairSpec
CONSTANTS
    NoResult = NoResult
    Truncates = TRUE
    MaxEvents = 1
    MaxWakers = 1
PROPERTIES
    Answered
CHECK_DEADLOCK FALSE
