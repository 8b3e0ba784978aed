----------------------------- MODULE SessionLog -----------------------------
(***************************************************************************)
(* What a SessionStorage promises its callers, whatever it is stored in:   *)
(* a log to which each operation appends one mutation, atomically, at the  *)
(* next sequence number and only if the session it finds accepts it; and   *)
(* an operation is acknowledged once, after its mutation is in the log,    *)
(* from which nothing is ever removed.  Crashes and restarts do not show.  *)
(***************************************************************************)
EXTENDS SessionState

CONSTANT Requests

VARIABLES
    log,      \* the committed mutations
    acked     \* the mutations whose operation returned Ok

vars == <<log, acked>>

Init ==
    /\ log = <<>>
    /\ acked = <<>>

Commit(r) ==
    LET session == Replay(log) IN
    /\ Accepts(session, r)
    /\ log' = Append(log, MutationOf(session, r))
    /\ UNCHANGED acked

Acknowledge ==
    /\ log # <<>>
    /\ \A i \in DOMAIN acked : acked[i] # log[Len(log)]
    /\ acked' = Append(acked, log[Len(log)])
    /\ UNCHANGED log

\* (A commit changes the log: said first, it saves a checker of a refinement
\* the work of trying every request on every stuttering step.)
Next == Acknowledge \/ (log' # log /\ \E r \in Requests : Commit(r))

Spec == Init /\ [][Next]_vars
=============================================================================
