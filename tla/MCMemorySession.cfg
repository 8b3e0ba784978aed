CONSTANTS
    Id = {a, b, c}
    Lane = {main, thread}
    MainLane = main
    Text = {t}
    None = none
    SessionId = {s1, s2}
    Caller = {k1}
    MaxStorages = 2
    MaxMutations = 3
SPECIFICATION Spec
SYMMETRY Symmetry
CHECK_DEADLOCK FALSE
INVARIANT SessionsWellFormed
INVARIANT AcceptedNeverRefused
INVARIANT ForkFaithful
