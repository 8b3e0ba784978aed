CONSTANTS
    a = a
    b = b
    main = main
    thread = thread
    t = t
    Id = {a, b}
    Lane = {main, thread}
    MainLane = main
    Text = {t}
    None = none
    Caller = {k1, k2}
    Requests <- SomeRequests
    Faults = {"fail"}
    MaxLines = 3
    MaxCrashes = 1
SPECIFICATION Spec
INVARIANT DropsOnlyUnacknowledged
