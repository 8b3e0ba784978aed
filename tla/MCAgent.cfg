SPECIFICATION FairSpec
CONSTANTS
    QueueMode = "all"
    Modes <- MCModes
    Compacts = FALSE
    MaxCalls = 1
    MaxToolTurns = 1
    MaxSteered = 1
    MaxFollowUps = 1
    Callers = {a, b}
    NoOne = NoOne
    MaxQueued = 1
    MaxMade = 2
INVARIANTS
    RunsAlone
    IdleIsClean
    EachOnce
PROPERTIES
    CallsReturn
CHECK_DEADLOCK FALSE
