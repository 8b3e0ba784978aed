SPECIFICATION ProviderSpec
CONSTANTS
    Protocols = {"google", "vertex"}
    MaxRetries = 0
    Reasons = {"Stop"}
    MaxBlocks = 1
    MaxDeltas = 1
INVARIANTS
    GoogleFinalIsSaid
CHECK_DEADLOCK FALSE
