---------------------------- MODULE SessionState ----------------------------
(***************************************************************************)
(* The in-memory session tree (src/agent/harness/session/state.rs) as a    *)
(* value: InitState, what apply_mutation accepts (Valid) and does (Apply), *)
(* the validation and mutation building that the SessionStorage operations *)
(* of both storages share (Accepts, MutationOf), and the mutations a fork  *)
(* is made of (ForkMutations).  The storages are state machines over such  *)
(* values.                                                                 *)
(*                                                                         *)
(* Payloads, timestamps and token statistics are left out; entry and       *)
(* record ids share one name space, as used_ids does.                      *)
(***************************************************************************)
EXTENDS Naturals, Sequences, FiniteSets

CONSTANTS
    Id,         \* ids of entries and records
    Lane,       \* lane names
    MainLane,   \* the lane a new session starts with
    Text,       \* session names and labels
    None        \* no parent, no leaf, no lane, no name, no label

ASSUME SessionAssumption ==
    /\ MainLane \in Lane
    /\ None \notin Id \cup Lane \cup Text

-----------------------------------------------------------------------------
(***************************************************************************)
(* Types.  An entry's type matters only for being a message (fork targets, *)
(* message_count); a record's for opening and closing operations.          *)
(***************************************************************************)
EntryType  == {"message", "custom"}
RecordType == {"operation_started", "operation_finished", "other"}

EntryMutation ==
    [kind : {"entry"}, seq : Nat, lane : Lane \cup {None}, id : Id,
     parent : Id \cup {None}, type : EntryType]
RecordMutation ==
    [kind : {"record"}, seq : Nat, lane : Lane, id : Id, type : RecordType,
     run : Id \cup {None}]
LaneMutation  == [kind : {"lane"}, seq : Nat, lane : Lane, leaf : Id \cup {None}]
NameMutation  == [kind : {"name"}, seq : Nat, name : Text \cup {None}]
LabelMutation ==
    [kind : {"label"}, seq : Nat, target : Id, label : Text \cup {None}]

SessionMutation == EntryMutation \cup RecordMutation \cup LaneMutation
                       \cup NameMutation \cup LabelMutation

Entry  == [seq : Nat, parent : Id \cup {None}, type : EntryType]
Record == [seq : Nat, lane : Lane, type : RecordType, run : Id \cup {None}]

\* Map insertion, HashMap::insert.
Put(f, k, v) == [x \in DOMAIN f \cup {k} |-> IF x = k THEN v ELSE f[x]]

\* Map removal, HashMap::remove.
Drop(f, k) == [x \in DOMAIN f \ {k} |-> f[x]]

\* The code's hash maps are functions on the keys present.
IsState(s) ==
    /\ s \in [sequence : Nat,
             entries  : [DOMAIN s.entries -> Entry],
             records  : [DOMAIN s.records -> Record],
             open     : [Lane -> SUBSET Id],
             lanes    : [DOMAIN s.lanes -> Id \cup {None}],
             log      : Seq(SessionMutation),
             messages : Nat,
             name     : Text \cup {None},
             labels   : [DOMAIN s.labels -> Text]]
    /\ DOMAIN s.entries \subseteq Id
    /\ DOMAIN s.records \subseteq Id
    /\ DOMAIN s.lanes \subseteq Lane
    /\ DOMAIN s.labels \subseteq Id

\* SessionState::new: one lane, main, with no leaf.
InitState ==
    [sequence |-> 0,
     entries  |-> [i \in {} |-> None],
     records  |-> [i \in {} |-> None],
     open     |-> [l \in Lane |-> {}],
     lanes    |-> [l \in {MainLane} |-> None],
     log      |-> <<>>,
     messages |-> 0,
     name     |-> None,
     labels   |-> [i \in {} |-> None]]

\* used_ids: entries and records never share an id.
UsedIds(s) == DOMAIN s.entries \cup DOMAIN s.records

NextSequence(s) == s.sequence + 1

-----------------------------------------------------------------------------
(***************************************************************************)
(* apply_mutation: the checks of each kind, then the assignments.          *)
(***************************************************************************)
ValidEntry(s, m) ==
    /\ m.id \notin UsedIds(s)
    /\ m.lane # None => /\ m.lane \in DOMAIN s.lanes
                        /\ m.parent = s.lanes[m.lane]
    /\ m.parent # None => m.parent \in DOMAIN s.entries

ValidRecord(s, m) ==
    /\ m.lane \in DOMAIN s.lanes
    /\ m.id \notin UsedIds(s)

ValidLane(s, m)  == m.leaf # None => m.leaf \in DOMAIN s.entries
ValidLabel(s, m) == m.target \in DOMAIN s.entries

\* Mutant: the sequence number of the mutation is not checked.
ValidUnnumbered(s, m) ==
    /\ m.kind = "entry"  => ValidEntry(s, m)
    /\ m.kind = "record" => ValidRecord(s, m)
    /\ m.kind = "lane"   => ValidLane(s, m)
    /\ m.kind = "label"  => ValidLabel(s, m)

Valid(s, m) ==
    /\ m.seq = NextSequence(s)
    /\ m.kind = "entry"  => ValidEntry(s, m)
    /\ m.kind = "record" => ValidRecord(s, m)
    /\ m.kind = "lane"   => ValidLane(s, m)
    /\ m.kind = "label"  => ValidLabel(s, m)

\* A log item: an entry's item does not keep the lane it was appended to.
LogItem(m) == IF m.kind = "entry" THEN [m EXCEPT !.lane = None] ELSE m

ApplyEntry(s, m) ==
    [s EXCEPT
        !.sequence = m.seq,
        !.entries  = Put(@, m.id, [seq |-> m.seq, parent |-> m.parent, type |-> m.type]),
        !.lanes    = IF m.lane = None THEN @ ELSE Put(@, m.lane, m.id),
        !.messages = IF m.type = "message" THEN @ + 1 ELSE @,
        !.log      = Append(@, LogItem(m))]

\* Mutant: finishing does not close.
OpenAfterUnclosed(s, m) ==
    IF m.type = "operation_started" THEN s.open[m.lane] \cup {m.id} ELSE s.open[m.lane]

\* The operations open on the lane of a record, once it is applied.
OpenAfter(s, m) ==
    CASE m.type = "operation_started"  -> s.open[m.lane] \cup {m.id}
      [] m.type = "operation_finished" -> s.open[m.lane] \ {m.run}
      [] OTHER                         -> s.open[m.lane]

ApplyRecord(s, m) ==
    [s EXCEPT
        !.sequence = m.seq,
        !.records  = Put(@, m.id, [seq |-> m.seq, lane |-> m.lane,
                                   type |-> m.type, run |-> m.run]),
        !.open     = [@ EXCEPT ![m.lane] = OpenAfter(s, m)],
        !.log      = Append(@, LogItem(m))]

ApplyLane(s, m) ==
    [s EXCEPT !.sequence = m.seq,
              !.lanes    = Put(@, m.lane, m.leaf),
              !.log      = Append(@, LogItem(m))]

ApplyName(s, m) ==
    [s EXCEPT !.sequence = m.seq, !.name = m.name, !.log = Append(@, LogItem(m))]

ApplyLabel(s, m) ==
    [s EXCEPT !.sequence = m.seq,
              !.labels   = IF m.label = None THEN Drop(@, m.target)
                                             ELSE Put(@, m.target, m.label),
              !.log      = Append(@, LogItem(m))]

Apply(s, m) ==
    CASE m.kind = "entry"  -> ApplyEntry(s, m)
      [] m.kind = "record" -> ApplyRecord(s, m)
      [] m.kind = "lane"   -> ApplyLane(s, m)
      [] m.kind = "name"   -> ApplyName(s, m)
      [] m.kind = "label"  -> ApplyLabel(s, m)

-----------------------------------------------------------------------------
(***************************************************************************)
(* The mutating SessionStorage operations, up to the mutation they commit: *)
(* identical in memory.rs and jsonl/storage.rs.                            *)
(***************************************************************************)
Request ==
    [op : {"create_lane", "move_lane"}, lane : Lane, leaf : Id \cup {None}]
        \cup [op : {"append_entry"}, lane : Lane, id : Id, type : EntryType]
        \cup [op : {"append_record"}, lane : Lane, id : Id,
              type : {"operation_started", "other"}, run : {None}]
        \cup [op : {"append_record"}, lane : Lane, id : Id,
              type : {"operation_finished"}, run : Id]
        \cup [op : {"set_name"}, name : Text \cup {None}]
        \cup [op : {"set_label"}, target : Id, label : Text \cup {None}]

\* validate_new_lane, validate_target, require_lane, validate_unused_id and
\* the open-operation check, in the combination each operation makes.
AcceptsCreateLane(s, r) == /\ r.lane \notin DOMAIN s.lanes
                           /\ r.leaf # None => r.leaf \in DOMAIN s.entries
AcceptsMoveLane(s, r) == /\ r.lane \in DOMAIN s.lanes
                         /\ r.leaf # None => r.leaf \in DOMAIN s.entries

\* Mutants: an id is compared with no ids, or with entry ids only.
AcceptsAppendEntryReused(s, r)  == r.lane \in DOMAIN s.lanes
AcceptsAppendEntryEntries(s, r) == r.lane \in DOMAIN s.lanes /\ r.id \notin DOMAIN s.entries

AcceptsAppendEntry(s, r) == r.lane \in DOMAIN s.lanes /\ r.id \notin UsedIds(s)

\* Mutant: an operation may start beside an open one.
AcceptsAppendRecordBeside(s, r) == r.lane \in DOMAIN s.lanes /\ r.id \notin UsedIds(s)

AcceptsAppendRecord(s, r) ==
    /\ r.lane \in DOMAIN s.lanes
    /\ r.id \notin UsedIds(s)
    /\ r.type = "operation_started" => s.open[r.lane] = {}
AcceptsSetLabel(s, r) == r.target \in DOMAIN s.entries

Accepts(s, r) ==
    CASE r.op = "create_lane"   -> AcceptsCreateLane(s, r)
      [] r.op = "move_lane"     -> AcceptsMoveLane(s, r)
      [] r.op = "append_entry"  -> AcceptsAppendEntry(s, r)
      [] r.op = "append_record" -> AcceptsAppendRecord(s, r)
      [] r.op = "set_name"      -> TRUE
      [] r.op = "set_label"     -> AcceptsSetLabel(s, r)

MutationOf(s, r) ==
    CASE r.op \in {"create_lane", "move_lane"} ->
            [kind |-> "lane", seq |-> NextSequence(s), lane |-> r.lane, leaf |-> r.leaf]
      [] r.op = "append_entry" ->
            [kind |-> "entry", seq |-> NextSequence(s), lane |-> r.lane, id |-> r.id,
             parent |-> s.lanes[r.lane], type |-> r.type]
      [] r.op = "append_record" ->
            [kind |-> "record", seq |-> NextSequence(s), lane |-> r.lane, id |-> r.id,
             type |-> r.type, run |-> r.run]
      [] r.op = "set_name" ->
            [kind |-> "name", seq |-> NextSequence(s), name |-> r.name]
      [] r.op = "set_label" ->
            [kind |-> "label", seq |-> NextSequence(s), target |-> r.target, label |-> r.label]

-----------------------------------------------------------------------------
(***************************************************************************)
(* Replaying a sequence of mutations on a new state, as load and fork do.  *)
(* Invalid stands for the error apply_mutation returns.                    *)
(***************************************************************************)
Invalid == [invalid |-> TRUE]

Replay(ms) ==
    LET after[i \in 0 .. Len(ms)] ==
            IF i = 0 THEN InitState
            ELSE LET s == after[i - 1] IN
                 IF s # Invalid /\ Valid(s, ms[i]) THEN Apply(s, ms[i]) ELSE Invalid
    IN  after[Len(ms)]

\* walk_to_root: the entry and its ancestors, as the entries that lie in every
\* parent-closed set containing it.
ParentClosed(s, S) ==
    \A e \in S : s.entries[e].parent # None => s.entries[e].parent \in S

Branch(s, id) ==
    {e \in DOMAIN s.entries :
        \A S \in SUBSET DOMAIN s.entries : id \in S /\ ParentClosed(s, S) => e \in S}

\* The items of a sequence that lie in T, in their order.
Chosen(q, T) ==
    LET chosen[i \in 0 .. Len(q)] ==
            IF i = 0 THEN <<>>
            ELSE IF q[i] \in T THEN Append(chosen[i - 1], q[i]) ELSE chosen[i - 1]
    IN  chosen[Len(q)]

\* The id of the entry each item of the log appended, None if it is another item.
LogEntries(s) ==
    [i \in 1 .. Len(s.log) |-> IF s.log[i].kind = "entry" THEN s.log[i].id ELSE None]

\* Mutant: a branch is copied in the order it is walked, newest first.
NewestFirst(s, ids) ==
    LET items == Chosen(LogEntries(s), ids)
    IN  [i \in DOMAIN items |-> items[Len(items) + 1 - i]]

\* A set of entries, oldest first: the order of the log is the order of seq.
OldestFirst(s, ids) == Chosen(LogEntries(s), ids)

(***************************************************************************)
(* create_fork_mutations.  A fork copies the whole tree, or the branch of  *)
(* one message entry: up to it ("at") or up to its parent ("before").      *)
(***************************************************************************)
ForkOptions ==
    [kind : {"tree"}]
        \cup [kind : {"branch"}, entry : Id \cup {None}, position : {"at", "before", "default"}]

ForkSelected(s, o) == IF o.entry = None THEN s.lanes[MainLane] ELSE o.entry

ForkPosition(o) == IF o.position # "default" THEN o.position
                   ELSE IF o.entry = None THEN "at" ELSE "before"

ForkAccepts(s, o) ==
    o.kind = "branch" =>
        LET e == ForkSelected(s, o) IN
        e # None => e \in DOMAIN s.entries /\ s.entries[e].type = "message"

ForkTarget(s, o) ==
    LET e == ForkSelected(s, o) IN
    IF e = None THEN None
    ELSE IF ForkPosition(o) = "at" THEN e ELSE s.entries[e].parent

ForkEntries(s, o) ==
    IF o.kind = "tree" THEN DOMAIN s.entries
    ELSE IF ForkTarget(s, o) = None THEN {} ELSE Branch(s, ForkTarget(s, o))

ForkLanes(s, o) ==
    IF o.kind = "tree" THEN s.lanes ELSE [l \in {MainLane} |-> ForkTarget(s, o)]

\* Any order of the lanes will do: a fork's lane mutations commute.
LaneOrder(lanes) ==
    CHOOSE q \in [1 .. Cardinality(DOMAIN lanes) -> DOMAIN lanes] :
        \A i, j \in DOMAIN q : q[i] = q[j] => i = j

ForkMutations(s, o) ==
    LET copied == OldestFirst(s, ForkEntries(s, o))
        lanes  == ForkLanes(s, o)
        order  == LaneOrder(lanes)
        entry(i) == [kind |-> "entry", seq |-> i, lane |-> None, id |-> copied[i],
                     parent |-> s.entries[copied[i]].parent,
                     type |-> s.entries[copied[i]].type]
        base1 == Len(copied)
        lane(i) == [kind |-> "lane", seq |-> base1 + i, lane |-> order[i],
                    leaf |-> lanes[order[i]]]
        base2 == base1 + Len(order)
        names == IF s.name = None THEN <<>>
                 ELSE <<[kind |-> "name", seq |-> base2 + 1, name |-> s.name]>>
        base3 == base2 + Len(names)
        labelled == Chosen(copied, DOMAIN s.labels)
        label(i) == [kind |-> "label", seq |-> base3 + i, target |-> labelled[i],
                     label |-> s.labels[labelled[i]]]
    IN  [i \in 1 .. Len(copied) |-> entry(i)] \o [i \in 1 .. Len(order) |-> lane(i)]
            \o names \o [i \in 1 .. Len(labelled) |-> label(i)]

-----------------------------------------------------------------------------
(***************************************************************************)
(* What makes a session state well formed.                                 *)
(***************************************************************************)

\* The log holds one item per sequence number, 1 to sequence: an entry's or a
\* record's item is at the entry's or the record's own number, and no item is
\* left of an entry or a record that is not there.
LogComplete(s) ==
    /\ Len(s.log) = s.sequence
    /\ \A i \in 1 .. Len(s.log) :
          /\ s.log[i].seq = i
          /\ s.log[i].kind = "entry" => /\ s.log[i].id \in DOMAIN s.entries
                                       /\ s.entries[s.log[i].id].seq = i
          /\ s.log[i].kind = "record" => /\ s.log[i].id \in DOMAIN s.records
                                        /\ s.records[s.log[i].id].seq = i
    /\ \A e \in DOMAIN s.entries :
          /\ s.entries[e].seq \in 1 .. s.sequence
          /\ s.log[s.entries[e].seq].kind = "entry"
          /\ s.log[s.entries[e].seq].id = e
    /\ \A r \in DOMAIN s.records :
          /\ s.records[r].seq \in 1 .. s.sequence
          /\ s.log[s.records[r].seq].kind = "record"
          /\ s.log[s.records[r].seq].id = r

\* Every parent is an earlier entry, so a branch is finite and acyclic.
ParentsEarlier(s) ==
    \A e \in DOMAIN s.entries :
        s.entries[e].parent # None =>
            /\ s.entries[e].parent \in DOMAIN s.entries
            /\ s.entries[s.entries[e].parent].seq < s.entries[e].seq

\* An id names one thing: no id is both an entry's and a record's.
IdsUnique(s) == DOMAIN s.entries \cap DOMAIN s.records = {}

\* Lanes and labels point at entries; the main lane is never removed.
PointersExist(s) ==
    /\ MainLane \in DOMAIN s.lanes
    /\ \A l \in DOMAIN s.lanes : s.lanes[l] # None => s.lanes[l] \in DOMAIN s.entries
    /\ DOMAIN s.labels \subseteq DOMAIN s.entries

\* A lane has at most one open operation, and it is a started record of that
\* lane that no later record of the lane finished.
OneOpenOperation(s) ==
    \A l \in Lane :
        /\ \A i, j \in s.open[l] : i = j
        /\ \A i \in s.open[l] :
              /\ l \in DOMAIN s.lanes
              /\ i \in DOMAIN s.records
              /\ s.records[i].lane = l
              /\ s.records[i].type = "operation_started"
              /\ \A k \in DOMAIN s.records :
                    (s.records[k].type = "operation_finished" /\ s.records[k].lane = l
                        /\ s.records[k].run = i)
                    => s.records[k].seq < s.records[i].seq

\* What replaying any log guarantees: apply_mutation checks it.
Coherent(s) ==
    /\ LogComplete(s)
    /\ ParentsEarlier(s)
    /\ IdsUnique(s)
    /\ PointersExist(s)

\* With what only append_record checks.
WellFormed(s) == Coherent(s) /\ OneOpenOperation(s)
=============================================================================
