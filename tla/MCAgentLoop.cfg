\* One run of the agent loop: two responses may call up to two tools each, one at a
\* time or together, while messages are queued and an abort comes.
SPECIFICATION FairLoopSpec
CONSTANTS
    QueueMode = "one-at-a-time"
    Modes = {"sequential", "parallel"}
    Compacts = TRUE
    MaxCalls = 2
    MaxToolTurns = 2
    MaxSteered = 2
    MaxFollowUps = 1
INVARIANTS
    ContextFollowsTranscript
    AnsweredInOrder
    NoneLostOrOvertaken
    OneAtATime
PROPERTIES
    EventsNest
    RunEnds
CHECK_DEADLOCK FALSE
