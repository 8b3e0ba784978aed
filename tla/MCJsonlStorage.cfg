CONSTANTS
    a = a
    b = b
    main = main
    thread = thread
    t = t
    Id = {a, b}
    Lane = {main, thread}
    MainLane = main
    Text = {t}
    None = none
    Caller = {k1, k2}
    Requests <- SomeRequests
    Faults = {}
    MaxLines = 3
    MaxCrashes = 2
SPECIFICATION FairSpec
INVARIANT OneOpenAfterRestart
 
 
PROPERTY CallsSettle
