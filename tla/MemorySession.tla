--------------------------- MODULE MemorySession ---------------------------
(***************************************************************************)
(* The in-memory session backend (src/agent/harness/session/memory.rs):    *)
(* InMemorySessionStorage, whose every operation runs under one mutex, and *)
(* InMemorySessionRepo, a map from session ids to shared storages.  A fork *)
(* takes the map's lock three times: to look its source up, to refuse an   *)
(* id in use and, after copying the source, to insert the copy.  A storage *)
(* outlives its entry in the map as long as a Session holds it.            *)
(***************************************************************************)
EXTENDS SessionState, SequencesExt

CONSTANTS
    SessionId,     \* ids of sessions
    Caller,        \* concurrent users of the repository
    MaxStorages,   \* bound: storages ever built
    MaxMutations   \* bound: mutations of all storages, forked ones included

ASSUME MemoryAssumption == MaxStorages \in Nat /\ MaxMutations \in Nat

VARIABLES
    heap,       \* the storages built so far, in order of creation
    sessions,   \* InMemorySessionRepo::sessions, session id to storage
    forking     \* what each caller's fork call is about to do

vars == <<heap, sessions, forking>>

Idle == [step |-> "idle"]

Init ==
    /\ heap = <<>>
    /\ sessions = [i \in {} |-> 0]
    /\ forking = [c \in Caller |-> Idle]

-----------------------------------------------------------------------------
\* InMemorySessionRepo::create: one lock around the check and the insert.
Create(id) ==
    /\ Len(heap) < MaxStorages
    /\ id \notin DOMAIN sessions
    /\ heap' = Append(heap, InitState)
    /\ sessions' = Put(sessions, id, Len(heap) + 1)
    /\ UNCHANGED forking

\* InMemorySessionRepo::delete: Sessions already handed out keep their storage.
Delete(id) ==
    /\ id \in DOMAIN sessions
    /\ sessions' = Drop(sessions, id)
    /\ UNCHANGED <<heap, forking>>

Room == FoldSeq(LAMBDA s, n : s.sequence + n, 0, heap) < MaxMutations

\* A mutating operation of a storage, by any Session that holds it.
Operate(h, r) ==
    /\ Accepts(heap[h], r)
    /\ Valid(heap[h], MutationOf(heap[h], r))
    /\ heap' = [heap EXCEPT ![h] = Apply(@, MutationOf(@, r))]
    /\ UNCHANGED <<sessions, forking>>

\* fork: the source's storage is looked up ...
ForkFind(c, source, id) ==
    /\ forking[c] = Idle
    /\ Len(heap) < MaxStorages
    /\ source \in DOMAIN sessions
    /\ forking' = [forking EXCEPT ![c] =
            [step |-> "check", source |-> sessions[source], id |-> id]]
    /\ UNCHANGED <<heap, sessions>>

\* ... and, under the lock taken again, the new id is refused if it is in use.
ForkCheck(c) ==
    /\ forking[c].step = "check"
    /\ forking' = [forking EXCEPT ![c] =
            IF @.id \in DOMAIN sessions THEN Idle
            ELSE [step |-> "build", source |-> @.source, id |-> @.id]]
    /\ UNCHANGED <<heap, sessions>>

\* fork_storage: the source is locked while its mutations are collected.  A
\* rejected fork, or one whose replay fails, returns its error to the caller.
ForkBuild(c, o) ==
    /\ forking[c].step = "build"
    /\ Len(heap) < MaxStorages
    /\ LET source == heap[forking[c].source]
           copy   == Replay(ForkMutations(source, o)) IN
       IF ForkAccepts(source, o) /\ copy # Invalid
       THEN /\ heap' = Append(heap, copy)
            /\ forking' = [forking EXCEPT ![c] =
                    [step |-> "insert", id |-> forking[c].id, storage |-> Len(heap) + 1]]
       ELSE /\ forking' = [forking EXCEPT ![c] = Idle]
            /\ UNCHANGED heap
    /\ UNCHANGED sessions

\* The insert does not check the id again.
ForkInsert(c) ==
    /\ forking[c].step = "insert"
    /\ sessions' = Put(sessions, forking[c].id, forking[c].storage)
    /\ forking' = [forking EXCEPT ![c] = Idle]
    /\ UNCHANGED heap

Next ==
    \/ \E id \in SessionId : Create(id) \/ Delete(id)
    \/ Room /\ \E h \in DOMAIN heap, r \in Request : Operate(h, r)
    \/ \E c \in Caller :
          \/ \E source, id \in SessionId : ForkFind(c, source, id)
          \/ ForkCheck(c)
          \/ \E o \in ForkOptions : ForkBuild(c, o)
          \/ ForkInsert(c)

Spec == Init /\ [][Next]_vars

-----------------------------------------------------------------------------
ForkStep ==
    {Idle}
        \cup [step : {"check", "build"}, source : 1 .. MaxStorages, id : SessionId]
        \cup [step : {"insert"}, id : SessionId, storage : 1 .. MaxStorages]

\* Variables hold values of their types; storages are named by position.
TypeOK ==
    /\ \A h \in DOMAIN heap : IsState(heap[h])
    /\ sessions \in [DOMAIN sessions -> DOMAIN heap] /\ DOMAIN sessions \subseteq SessionId
    /\ forking \in [Caller -> ForkStep]

CountsMessages(s) ==
    s.messages = Cardinality({e \in DOMAIN s.entries : s.entries[e].type = "message"})

\* Whatever the operations and forks that built it, every storage is a well
\* formed session: consecutive log, acyclic branches, ids used once, lanes and
\* labels that point at entries, at most one open operation per lane, and
\* statistics that count each message once, forked ones included.
SessionsWellFormed ==
    TypeOK /\ \A h \in DOMAIN heap : WellFormed(heap[h]) /\ CountsMessages(heap[h])

\* The checks an operation makes before it takes a sequence number are enough:
\* apply_mutation never refuses the mutation it builds.  (The JSONL storage
\* writes the mutation to the file between the two.)
AcceptedNeverRefused ==
    \A h \in DOMAIN heap, r \in Request :
        Accepts(heap[h], r) => Valid(heap[h], MutationOf(heap[h], r))

\* What a fork of s has: exactly the selected entries with their parents, the
\* lanes, the name and the labels of the copied entries, and no operation.
FaithfulFork(s, o) ==
    LET f == Replay(ForkMutations(s, o)) IN
    /\ f # Invalid
    /\ WellFormed(f)
    /\ DOMAIN f.entries = ForkEntries(s, o)
    /\ \A e \in DOMAIN f.entries :
          /\ f.entries[e].parent = s.entries[e].parent
          /\ f.entries[e].type = s.entries[e].type
          /\ Branch(f, e) = Branch(s, e)
    /\ \A e1, e2 \in DOMAIN f.entries :
          s.entries[e1].seq < s.entries[e2].seq => f.entries[e1].seq < f.entries[e2].seq
    /\ f.lanes = ForkLanes(s, o)
    /\ f.name = s.name
    /\ f.labels = [e \in DOMAIN s.labels \cap ForkEntries(s, o) |-> s.labels[e]]
    /\ f.records = InitState.records
    /\ f.open = InitState.open

\* A fork accepted by create_fork_mutations can always be built, and is faithful
\* to its source as it is when it is copied.
ForkFaithful ==
    \A h \in DOMAIN heap, o \in ForkOptions :
        ForkAccepts(heap[h], o) => FaithfulFork(heap[h], o)

=============================================================================
