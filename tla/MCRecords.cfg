SPECIFICATION RecordsSpec
CONSTANTS
    a = a
    b = b
    main = main
    thread = thread
    t = t
    Id = {a, b}
    Lane = {main, thread}
    MainLane = main
    Text = {t}
    None = none
    Caller = {k1}
    Requests <- FewRequests
    Faults = {"fail", "unflushed", "cancel", "share"}
    MaxLines = 2
    MaxCrashes = 0
    Creates = {"create", "other"}
    Forks = {"fork"}
    Destination <- Wants
    MaxRestarts = 1
    Edits = {"edit", "linkedit"}
    Writes = {"write"}
    Paths = {"file", "link", "new"}
    FileOf <- PathAt
    Namings <- PathsNamed
    Missing = {"new"}
    NoCall = NoCall
    Formats = {"anthropic", "kimi", "bedrock", "nova", "completions", "bridged",
               "responses", "mistral", "gemini3", "gemini2"}
    MaxSaid = 5
    MaxLog = 7
    MaxQueued = 1
    MaxWrites = 1
    MaxAttempts = 2
    MaxCalls = 2
    Unset = Unset
    RequestModels <- AllTargets
    Rooms <- SomeRooms
    CustomBudgets <- SomeBudgets
    Tools = {"read", "Read"}
    Alias <- ClaudeCodeName
    Rosters <- SomeRosters
    MaxTurns = 4
    KeepRecent = 2
    BranchBudget = 2
    ResultSizes = {1}
    RetryPolicy = 1
    MaxFacts = 4
    MaxEntries = 6
    MaxSummaries = 2
    ListRefreshes = {1, 2}
    Offline = {}
    MaxObjects = 2
    Contents <- SomeFiles
    Wishes <- SomeEdits
    OldLines <- SomeLines
    NewLines <- SomeLines
    Context = 1
    Bodies <- SomeBodies
    WrittenCalls <- SomeArguments
INVARIANTS
    
    LoadedCoherent
    
    
    ListingComplete
    RecoversExactly
    RequestsFit
    CompactionKeeps
    
    WireExact
PROPERTIES
    CatalogueKept
CHECK_DEADLOCK FALSE
