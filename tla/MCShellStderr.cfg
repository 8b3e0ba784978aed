SPECIFICATION CommandsSpec
CONSTANTS
    Protocols = {"anthropic", "completions", "compat", "responses", "azure", "codex",
                 "mistral", "google", "vertex", "bedrock", "pi"}
    MaxRetries = 1
    Reasons = {"Stop", "ToolUse", "Error", "unhandled"}
    MaxBlocks = 2
    MaxDeltas = 2
    NoResult = NoResult
    Truncates = FALSE
    MaxEvents = 3
    MaxWakers = 2
    Requests = {r1, r2}
    Catalogues = {k1}
    Logins = {l1}
    Logouts = {o1}
    Nobody = Nobody
    MaxTokens = 4
    Asks = {1, 2, 3}
    Sockets = {s1, s2, s3}
    NoSocket = NoSocket
    MaxAtOnce = 2
    MaxBusiness = 3
    Issuers = {"codex", "radius", "kimi", "copilot", "xai"}
    MinInterval = 2
    DefaultInterval = 4
    SlowDownBy = 2
    Millisecond = 2
    CodexLifetime = 9
    Lifetimes = {0, 7}
    Intervals <- ServerIntervals
    RetryBudget = 3
    Delays = {1, 3}
    RateRetries = 2
    RefreshRetries = 3
    MaxModels = 2
    Sites = {"anthropic", "codex", "openrouter", "radius"}
    Tabs = {"one", "two"}
    ListRefreshes = {1}
    Offline = {}
    MaxObjects = 2
    Commands <- SomeCommands
    Pieces <- SomePieces
    MaxPieces = 2
    PipeRoom = 1
    ByteLimit = 3
    LineLimit = 2
PROPERTY
    StderrIsHeard
CHECK_DEADLOCK FALSE
