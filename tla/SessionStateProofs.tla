------------------------- MODULE SessionStateProofs -------------------------
(***************************************************************************)
(* Facts about apply_mutation and the operations built on it, for any ids, *)
(* lanes and texts: what one mutation preserves of a session state.        *)
(***************************************************************************)
EXTENDS SessionState, FiniteSetTheorems, WellFoundedInduction, TLAPS

\* The finite maps from keys in S to values in T.
Map(S, T) == UNION {[D -> T] : D \in SUBSET S}

\* A finite map of the code is a function on some of the keys.
LEMMA InMap ==
    ASSUME NEW S, NEW T, NEW f \in Map(S, T)
    PROVE  f \in [DOMAIN f -> T] /\ DOMAIN f \subseteq S
BY DEF Map

\* And every such function is one.
LEMMA IsMap ==
    ASSUME NEW S, NEW T, NEW f, f \in [DOMAIN f -> T], DOMAIN f \subseteq S
    PROVE  f \in Map(S, T)
BY DEF Map

\* HashMap::insert gives a map again.
LEMMA PutMap ==
    ASSUME NEW S, NEW T, NEW f \in Map(S, T), NEW k \in S, NEW v \in T
    PROVE  Put(f, k, v) \in Map(S, T)
<1>1. Put(f, k, v) \in [DOMAIN f \cup {k} -> T]
    BY InMap DEF Put
<1>2. DOMAIN f \cup {k} \subseteq S
    BY InMap
<1> QED BY <1>1, <1>2 DEF Map

\* HashMap::remove gives a map again.
LEMMA DropMap ==
    ASSUME NEW S, NEW T, NEW f \in Map(S, T), NEW k
    PROVE  Drop(f, k) \in Map(S, T)
<1>1. Drop(f, k) \in [DOMAIN f \ {k} -> T]
    BY InMap DEF Drop
<1>2. DOMAIN f \ {k} \subseteq S
    BY InMap
<1> QED BY <1>1, <1>2 DEF Map

\* The session states, as a set.
State ==
    [sequence : Nat,
     entries  : Map(Id, Entry),
     records  : Map(Id, Record),
     open     : [Lane -> SUBSET Id],
     lanes    : Map(Lane, Id \cup {None}),
     log      : Seq(SessionMutation),
     messages : Nat,
     name     : Text \cup {None},
     labels   : Map(Id, Text)]

\* IsState, which TLC evaluates, and State, which the proofs use, agree.
LEMMA StateIsState == \A s : IsState(s) <=> s \in State
<1>1. ASSUME NEW s, IsState(s) PROVE s \in State
    BY <1>1, IsMap DEF IsState, State
<1>2. ASSUME NEW s \in State PROVE IsState(s)
    BY InMap DEF IsState, State
<1> QED BY <1>1, <1>2

\* The log item of a mutation is a mutation with the same sequence.
LEMMA LogItemType ==
    ASSUME NEW m \in SessionMutation
    PROVE  LogItem(m) \in SessionMutation /\ LogItem(m).seq = m.seq
BY SessionAssumption DEF LogItem, SessionMutation, EntryMutation, RecordMutation, LaneMutation,
    NameMutation, LabelMutation

\* SessionState::new gives a state.
LEMMA InitStateType == InitState \in State
<1>1. [i \in {} |-> None] \in Map(Id, Entry) /\ [i \in {} |-> None] \in Map(Id, Record) /\ [i \in {} |-> None] \in Map(Id, Text)
    BY DEF Map
<1>2. [l \in {MainLane} |-> None] \in Map(Lane, Id \cup {None})
  <2>1. [l \in {MainLane} |-> None] \in [{MainLane} -> Id \cup {None}]
    OBVIOUS
  <2> QED BY <2>1, SessionAssumption DEF Map
<1> QED BY <1>1, <1>2 DEF InitState, State

\* The kind of a mutation decides its fields.
LEMMA KindType ==
    ASSUME NEW m \in SessionMutation
    PROVE  /\ m.kind = "entry" => m \in EntryMutation
           /\ m.kind = "record" => m \in RecordMutation
           /\ m.kind = "lane" => m \in LaneMutation
           /\ m.kind = "name" => m \in NameMutation
           /\ m.kind = "label" => m \in LabelMutation
           /\ m.kind \in {"entry", "record", "lane", "name", "label"}
           /\ m.seq \in Nat
BY DEF SessionMutation, EntryMutation, RecordMutation, LaneMutation,
    NameMutation, LabelMutation

\* apply_mutation gives a state again.
LEMMA ApplyType ==
    ASSUME NEW s \in State, NEW m \in SessionMutation
    PROVE  Apply(s, m) \in State
<1>1. Append(s.log, LogItem(m)) \in Seq(SessionMutation)
    BY LogItemType DEF State
<1>2. m.seq \in Nat
    BY KindType
<1>3. CASE m.kind = "entry"
    <2>1. m \in EntryMutation
        BY <1>3, KindType
    <2>2. Put(s.entries, m.id, [seq |-> m.seq, parent |-> m.parent, type |-> m.type]) \in Map(Id, Entry)
      <3>1. [seq |-> m.seq, parent |-> m.parent, type |-> m.type] \in Entry
        BY <2>1 DEF EntryMutation, Entry
      <3>2. m.id \in Id /\ s.entries \in Map(Id, Entry)
        BY <2>1 DEF EntryMutation, State
      <3> QED BY <3>1, <3>2, PutMap
    <2>3. (IF m.lane = None THEN s.lanes ELSE Put(s.lanes, m.lane, m.id)) \in Map(Lane, Id \cup {None})
        BY <2>1, PutMap DEF EntryMutation, State
    <2>4. (IF m.type = "message" THEN s.messages + 1 ELSE s.messages) \in Nat
        BY DEF State
    <2>5. ApplyEntry(s, m) \in State
        BY <1>1, <1>2, <2>2, <2>3, <2>4 DEF ApplyEntry, State
    <2> QED BY <1>3, <2>5 DEF Apply
<1>4. CASE m.kind = "record"
    <2>1. m \in RecordMutation
        BY <1>4, KindType
    <2>2. Put(s.records, m.id, [seq |-> m.seq, lane |-> m.lane, type |-> m.type, run |-> m.run]) \in Map(Id, Record)
      <3>1. [seq |-> m.seq, lane |-> m.lane, type |-> m.type, run |-> m.run] \in Record
        BY <2>1 DEF RecordMutation, Record
      <3>2. m.id \in Id /\ s.records \in Map(Id, Record)
        BY <2>1 DEF RecordMutation, State
      <3> QED BY <3>1, <3>2, PutMap
    <2>3. [s.open EXCEPT ![m.lane] = OpenAfter(s, m)] \in [Lane -> SUBSET Id]
        BY <2>1 DEF RecordMutation, State, OpenAfter
    <2>5. ApplyRecord(s, m) \in State
        BY <1>1, <1>2, <2>2, <2>3 DEF ApplyRecord, State
    <2> QED BY <1>4, <2>5 DEF Apply
<1>5. CASE m.kind = "lane"
    <2>1. m \in LaneMutation
        BY <1>5, KindType
    <2>2. Put(s.lanes, m.lane, m.leaf) \in Map(Lane, Id \cup {None})
        BY <2>1, PutMap DEF LaneMutation, State
    <2>5. ApplyLane(s, m) \in State
        BY <1>1, <1>2, <2>2 DEF ApplyLane, State
    <2> QED BY <1>5, <2>5 DEF Apply
<1>6. CASE m.kind = "name"
    <2>1. m \in NameMutation
        BY <1>6, KindType
    <2>5. ApplyName(s, m) \in State
        BY <1>1, <1>2, <2>1 DEF ApplyName, State, NameMutation
    <2> QED BY <1>6, <2>5 DEF Apply
<1>7. CASE m.kind = "label"
    <2>1. m \in LabelMutation
        BY <1>7, KindType
    <2>2. (IF m.label = None THEN Drop(s.labels, m.target) ELSE Put(s.labels, m.target, m.label)) \in Map(Id, Text)
        BY <2>1, PutMap, DropMap DEF LabelMutation, State
    <2>5. ApplyLabel(s, m) \in State
        BY <1>1, <1>2, <2>2 DEF ApplyLabel, State
    <2> QED BY <1>7, <2>5 DEF Apply
<1> QED BY <1>3, <1>4, <1>5, <1>6, <1>7, KindType

\* Every mutation moves the sequence to its own and adds one log item.
LEMMA AppliedLog ==
    ASSUME NEW s \in State, NEW m \in SessionMutation
    PROVE  Apply(s, m).sequence = m.seq /\ Apply(s, m).log = Append(s.log, LogItem(m))
BY KindType DEF Apply, ApplyEntry, ApplyRecord, ApplyLane, ApplyName, ApplyLabel, State

\* t is s after an entry, after a record, and after another kind of mutation.
EntryApplied(s, m, t) ==
    /\ DOMAIN t.entries = DOMAIN s.entries \cup {m.id}
    /\ t.entries[m.id] = [seq |-> m.seq, parent |-> m.parent, type |-> m.type]
    /\ \A e \in DOMAIN s.entries : e # m.id => t.entries[e] = s.entries[e]
    /\ t.lanes = IF m.lane = None THEN s.lanes ELSE Put(s.lanes, m.lane, m.id)
    /\ t.records = s.records /\ t.open = s.open /\ t.labels = s.labels

RecordApplied(s, m, t) ==
    /\ DOMAIN t.records = DOMAIN s.records \cup {m.id}
    /\ t.records[m.id] = [seq |-> m.seq, lane |-> m.lane, type |-> m.type, run |-> m.run]
    /\ \A r \in DOMAIN s.records : r # m.id => t.records[r] = s.records[r]
    /\ t.open = [s.open EXCEPT ![m.lane] = OpenAfter(s, m)]
    /\ t.entries = s.entries /\ t.lanes = s.lanes /\ t.labels = s.labels

OtherApplied(s, m, t) ==
    /\ t.entries = s.entries /\ t.records = s.records /\ t.open = s.open
    /\ t.lanes = IF m.kind = "lane" THEN Put(s.lanes, m.lane, m.leaf) ELSE s.lanes
    /\ DOMAIN t.labels \subseteq
         IF m.kind = "label" THEN DOMAIN s.labels \cup {m.target} ELSE DOMAIN s.labels

\* What each kind of mutation changes, and what it leaves alone.
LEMMA Applied ==
    ASSUME NEW s \in State, NEW m \in SessionMutation
    PROVE  /\ m.kind = "entry" => EntryApplied(s, m, Apply(s, m))
           /\ m.kind = "record" => RecordApplied(s, m, Apply(s, m))
           /\ m.kind \notin {"entry", "record"} => OtherApplied(s, m, Apply(s, m))
<1> SUFFICES ASSUME NEW t, t = Apply(s, m)
             PROVE  /\ m.kind = "entry" => EntryApplied(s, m, t)
                    /\ m.kind = "record" => RecordApplied(s, m, t)
                    /\ m.kind \notin {"entry", "record"} => OtherApplied(s, m, t)
    OBVIOUS
<1>1. CASE m.kind = "entry"
  <2>1. t.entries = Put(s.entries, m.id, [seq |-> m.seq, parent |-> m.parent, type |-> m.type])
      BY <1>1 DEF Apply, ApplyEntry, State
  <2>2. /\ t.lanes = IF m.lane = None THEN s.lanes ELSE Put(s.lanes, m.lane, m.id)
        /\ t.records = s.records /\ t.open = s.open /\ t.labels = s.labels
      BY <1>1 DEF Apply, ApplyEntry, State
  <2>3. /\ DOMAIN t.entries = DOMAIN s.entries \cup {m.id}
        /\ t.entries[m.id] = [seq |-> m.seq, parent |-> m.parent, type |-> m.type]
        /\ \A e \in DOMAIN s.entries : e # m.id => t.entries[e] = s.entries[e]
      BY <2>1 DEF Put
  <2> QED BY <1>1, <2>2, <2>3 DEF EntryApplied
<1>2. CASE m.kind = "record"
  <2>1. t.records = Put(s.records, m.id,
                        [seq |-> m.seq, lane |-> m.lane, type |-> m.type, run |-> m.run])
      BY <1>2 DEF Apply, ApplyRecord, State
  <2>2. /\ t.open = [s.open EXCEPT ![m.lane] = OpenAfter(s, m)]
        /\ t.entries = s.entries /\ t.lanes = s.lanes /\ t.labels = s.labels
      BY <1>2 DEF Apply, ApplyRecord, State
  <2>3. /\ DOMAIN t.records = DOMAIN s.records \cup {m.id}
        /\ t.records[m.id] = [seq |-> m.seq, lane |-> m.lane, type |-> m.type, run |-> m.run]
        /\ \A r \in DOMAIN s.records : r # m.id => t.records[r] = s.records[r]
      BY <2>1 DEF Put
  <2> QED BY <1>2, <2>2, <2>3 DEF RecordApplied
<1>3. CASE m.kind = "lane"
    BY <1>3 DEF Apply, ApplyLane, State, OtherApplied
<1>4. CASE m.kind = "name"
    BY <1>4 DEF Apply, ApplyName, State, OtherApplied
<1>5. CASE m.kind = "label"
  <2>1. /\ t.entries = s.entries /\ t.records = s.records /\ t.open = s.open
        /\ t.lanes = s.lanes
        /\ t.labels = IF m.label = None THEN Drop(s.labels, m.target)
                                        ELSE Put(s.labels, m.target, m.label)
      BY <1>5 DEF Apply, ApplyLabel, State
  <2>2. DOMAIN t.labels \subseteq DOMAIN s.labels \cup {m.target}
      BY <2>1 DEF Drop, Put
  <2> QED BY <1>5, <2>1, <2>2 DEF OtherApplied
<1> QED BY <1>1, <1>2, <1>3, <1>4, <1>5, KindType

\* A valid mutation extends the log without a gap.
LEMMA ApplyLogComplete ==
    ASSUME NEW s \in State, NEW m \in SessionMutation, LogComplete(s), Valid(s, m),
           NEW t, t = Apply(s, m)
    PROVE  LogComplete(t)
<1>1. /\ m.seq = s.sequence + 1
      /\ s.sequence \in Nat
      /\ Len(s.log) = s.sequence
      /\ s.log \in Seq(SessionMutation)
    BY DEF Valid, NextSequence, State, LogComplete
<1>2. t.sequence = m.seq /\ t.log = Append(s.log, LogItem(m))
    BY AppliedLog
<1>3. LogItem(m) \in SessionMutation /\ LogItem(m).seq = m.seq
    BY LogItemType
<1>4. /\ Len(t.log) = t.sequence
      /\ t.log[t.sequence] = LogItem(m)
      /\ \A i \in 1 .. s.sequence : t.log[i] = s.log[i]
    BY <1>1, <1>2, <1>3
<1>5. \A i \in 1 .. Len(t.log) : t.log[i].seq = i
    BY <1>1, <1>2, <1>3, <1>4 DEF LogComplete
<1>6. ASSUME NEW e \in DOMAIN t.entries
      PROVE  /\ t.entries[e].seq \in 1 .. t.sequence
             /\ t.log[t.entries[e].seq].kind = "entry"
             /\ t.log[t.entries[e].seq].id = e
  <2>1. CASE m.kind = "entry" /\ e = m.id
    <3>1. t.entries[m.id] = [seq |-> m.seq, parent |-> m.parent, type |-> m.type]
        BY <2>1, Applied DEF EntryApplied
    <3>2. LogItem(m).kind = "entry" /\ LogItem(m).id = m.id
        BY <2>1, KindType DEF LogItem, EntryMutation
    <3> QED BY <2>1, <3>1, <3>2, <1>1, <1>2, <1>4
  <2>2. CASE m.kind = "entry" /\ e # m.id
    <3>1. /\ DOMAIN t.entries = DOMAIN s.entries \cup {m.id}
          /\ \A x \in DOMAIN s.entries : x # m.id => t.entries[x] = s.entries[x]
        BY <2>2, Applied, ZenonT(60) DEF EntryApplied
    <3> QED BY <3>1, <2>2, <1>1, <1>2, <1>4, <1>6 DEF LogComplete
  <2>3. CASE m.kind # "entry"
    <3>1. t.entries = s.entries
        BY <2>3, Applied DEF RecordApplied, OtherApplied
    <3> QED BY <3>1, <1>1, <1>2, <1>4, <1>6 DEF LogComplete
  <2> QED BY <2>1, <2>2, <2>3
<1>7. ASSUME NEW r \in DOMAIN t.records
      PROVE  /\ t.records[r].seq \in 1 .. t.sequence
             /\ t.log[t.records[r].seq].kind = "record"
             /\ t.log[t.records[r].seq].id = r
  <2>1. CASE m.kind = "record" /\ r = m.id
    <3>1. t.records[m.id] = [seq |-> m.seq, lane |-> m.lane, type |-> m.type, run |-> m.run]
        BY <2>1, Applied DEF RecordApplied
    <3>2. LogItem(m).kind = "record" /\ LogItem(m).id = m.id
        BY <2>1, KindType DEF LogItem, RecordMutation
    <3> QED BY <2>1, <3>1, <3>2, <1>1, <1>2, <1>4
  <2>2. CASE m.kind = "record" /\ r # m.id
    <3>1. /\ DOMAIN t.records = DOMAIN s.records \cup {m.id}
          /\ \A x \in DOMAIN s.records : x # m.id => t.records[x] = s.records[x]
        BY <2>2, Applied, ZenonT(60) DEF RecordApplied
    <3> QED BY <3>1, <2>2, <1>1, <1>2, <1>4, <1>7 DEF LogComplete
  <2>3. CASE m.kind # "record"
    <3>1. t.records = s.records
        BY <2>3, Applied DEF EntryApplied, OtherApplied
    <3> QED BY <3>1, <1>1, <1>2, <1>4, <1>7 DEF LogComplete
  <2> QED BY <2>1, <2>2, <2>3
<1>8. ASSUME NEW i \in 1 .. Len(t.log), t.log[i].kind = "entry"
      PROVE  t.log[i].id \in DOMAIN t.entries /\ t.entries[t.log[i].id].seq = i
  <2>1. CASE i \in 1 .. s.sequence
    <3>1. t.log[i] = s.log[i] /\ i \in 1 .. Len(s.log)
        BY <1>1, <1>4, <2>1
    <3>2. s.log[i].id \in DOMAIN s.entries /\ s.entries[s.log[i].id].seq = i
        BY <1>8, <3>1 DEF LogComplete
    <3>3. CASE m.kind = "entry"
      <4>1. m.id \notin DOMAIN s.entries
          BY <3>3 DEF Valid, ValidEntry, UsedIds
      <4>2. /\ DOMAIN t.entries = DOMAIN s.entries \cup {m.id}
            /\ \A x \in DOMAIN s.entries : x # m.id => t.entries[x] = s.entries[x]
          BY <3>3, Applied, ZenonT(60) DEF EntryApplied
      <4> QED BY <3>1, <3>2, <4>1, <4>2
    <3>4. CASE m.kind # "entry"
      <4>1. t.entries = s.entries
          BY <3>4, Applied DEF RecordApplied, OtherApplied
      <4> QED BY <3>1, <3>2, <4>1
    <3> QED BY <3>3, <3>4
  <2>2. CASE i = s.sequence + 1
    <3>1. t.log[i] = LogItem(m)
        BY <1>1, <1>2, <1>4, <2>2
    <3>2. m.kind = "entry" /\ LogItem(m).id = m.id
        BY <1>8, <3>1, KindType DEF LogItem, EntryMutation
    <3>3. m.id \in DOMAIN t.entries /\ t.entries[m.id].seq = m.seq
      <4>1. /\ DOMAIN t.entries = DOMAIN s.entries \cup {m.id}
            /\ t.entries[m.id] = [seq |-> m.seq, parent |-> m.parent, type |-> m.type]
          BY <3>2, Applied, ZenonT(60) DEF EntryApplied
      <4> QED BY <4>1
    <3> QED BY <1>1, <2>2, <3>1, <3>2, <3>3
  <2> QED BY <1>1, <1>2, <1>4, <2>1, <2>2
<1>9. ASSUME NEW i \in 1 .. Len(t.log), t.log[i].kind = "record"
      PROVE  t.log[i].id \in DOMAIN t.records /\ t.records[t.log[i].id].seq = i
  <2>1. CASE i \in 1 .. s.sequence
    <3>1. t.log[i] = s.log[i] /\ i \in 1 .. Len(s.log)
        BY <1>1, <1>4, <2>1
    <3>2. s.log[i].id \in DOMAIN s.records /\ s.records[s.log[i].id].seq = i
        BY <1>9, <3>1 DEF LogComplete
    <3>3. CASE m.kind = "record"
      <4>1. m.id \notin DOMAIN s.records
          BY <3>3 DEF Valid, ValidRecord, UsedIds
      <4>2. /\ DOMAIN t.records = DOMAIN s.records \cup {m.id}
            /\ \A x \in DOMAIN s.records : x # m.id => t.records[x] = s.records[x]
          BY <3>3, Applied, ZenonT(60) DEF RecordApplied
      <4> QED BY <3>1, <3>2, <4>1, <4>2
    <3>4. CASE m.kind # "record"
      <4>1. t.records = s.records
          BY <3>4, Applied DEF EntryApplied, OtherApplied
      <4> QED BY <3>1, <3>2, <4>1
    <3> QED BY <3>3, <3>4
  <2>2. CASE i = s.sequence + 1
    <3>1. t.log[i] = LogItem(m)
        BY <1>1, <1>2, <1>4, <2>2
    <3>2. m.kind = "record" /\ LogItem(m).id = m.id
        BY <1>9, <3>1, KindType DEF LogItem, RecordMutation, EntryMutation
    <3>3. m.id \in DOMAIN t.records /\ t.records[m.id].seq = m.seq
      <4>1. /\ DOMAIN t.records = DOMAIN s.records \cup {m.id}
            /\ t.records[m.id] = [seq |-> m.seq, lane |-> m.lane, type |-> m.type, run |-> m.run]
          BY <3>2, Applied, ZenonT(60) DEF RecordApplied
      <4> QED BY <4>1
    <3> QED BY <1>1, <2>2, <3>1, <3>2, <3>3
  <2> QED BY <1>1, <1>2, <1>4, <2>1, <2>2
<1> QED BY <1>4, <1>5, <1>6, <1>7, <1>8, <1>9 DEF LogComplete

\* An appended entry's parent is in the tree already.
LEMMA ApplyParentsEarlier ==
    ASSUME NEW s \in State, NEW m \in SessionMutation, LogComplete(s), ParentsEarlier(s),
           Valid(s, m), NEW t, t = Apply(s, m)
    PROVE  ParentsEarlier(t)
<1>1. CASE m.kind # "entry"
  <2>1. t.entries = s.entries
      BY <1>1, Applied DEF RecordApplied, OtherApplied
  <2> QED BY <2>1 DEF ParentsEarlier
<1>2. CASE m.kind = "entry"
  <2>1. /\ m.seq = s.sequence + 1
        /\ m.id \notin DOMAIN s.entries
        /\ m.parent # None => m.parent \in DOMAIN s.entries
      BY <1>2 DEF Valid, ValidEntry, UsedIds, NextSequence
  <2>2. /\ DOMAIN t.entries = DOMAIN s.entries \cup {m.id}
        /\ t.entries[m.id] = [seq |-> m.seq, parent |-> m.parent, type |-> m.type]
        /\ \A e \in DOMAIN s.entries : e # m.id => t.entries[e] = s.entries[e]
      BY <1>2, Applied DEF EntryApplied
  <2>3. s.sequence \in Nat /\ \A e \in DOMAIN s.entries : s.entries[e].seq \in 1 .. s.sequence
      BY DEF LogComplete, State
  <2>4. SUFFICES ASSUME NEW e \in DOMAIN t.entries, t.entries[e].parent # None
                 PROVE  /\ t.entries[e].parent \in DOMAIN t.entries
                        /\ t.entries[t.entries[e].parent].seq < t.entries[e].seq
      BY DEF ParentsEarlier
  <2>5. CASE e = m.id
      BY <2>1, <2>2, <2>3, <2>4, <2>5
  <2>6. CASE e \in DOMAIN s.entries
      BY <2>1, <2>2, <2>3, <2>4, <2>6 DEF ParentsEarlier
  <2> QED BY <2>2, <2>5, <2>6
<1> QED BY <1>1, <1>2

\* used_ids keeps entries and records apart.
LEMMA ApplyIdsUnique ==
    ASSUME NEW s \in State, NEW m \in SessionMutation, IdsUnique(s), Valid(s, m),
           NEW t, t = Apply(s, m)
    PROVE  IdsUnique(t)
<1>1. CASE m.kind = "entry"
  <2>1. DOMAIN t.entries = DOMAIN s.entries \cup {m.id} /\ t.records = s.records
      BY <1>1, Applied DEF EntryApplied
  <2>2. m.id \notin DOMAIN s.records
      BY <1>1 DEF Valid, ValidEntry, UsedIds
  <2> QED BY <2>1, <2>2 DEF IdsUnique
<1>2. CASE m.kind = "record"
  <2>1. DOMAIN t.records = DOMAIN s.records \cup {m.id} /\ t.entries = s.entries
      BY <1>2, Applied DEF RecordApplied
  <2>2. m.id \notin DOMAIN s.entries
      BY <1>2 DEF Valid, ValidRecord, UsedIds
  <2> QED BY <2>1, <2>2 DEF IdsUnique
<1>3. CASE m.kind \in {"lane", "name", "label"}
  <2>1. t.entries = s.entries /\ t.records = s.records
      BY <1>3, Applied DEF OtherApplied
  <2> QED BY <2>1 DEF IdsUnique
<1> QED BY <1>1, <1>2, <1>3, KindType

\* Lanes and labels are only moved to entries that exist.
LEMMA ApplyPointersExist ==
    ASSUME NEW s \in State, NEW m \in SessionMutation, PointersExist(s), Valid(s, m),
           NEW t, t = Apply(s, m)
    PROVE  PointersExist(t)
<1>1. CASE m.kind = "entry"
  <2>1. /\ DOMAIN t.entries = DOMAIN s.entries \cup {m.id}
        /\ t.lanes = IF m.lane = None THEN s.lanes ELSE Put(s.lanes, m.lane, m.id)
        /\ t.labels = s.labels
      BY <1>1, Applied DEF EntryApplied
  <2> QED BY <2>1 DEF PointersExist, Put
<1>2. CASE m.kind = "record"
  <2>1. t.entries = s.entries /\ t.lanes = s.lanes /\ t.labels = s.labels
      BY <1>2, Applied DEF RecordApplied
  <2> QED BY <2>1 DEF PointersExist
<1>3. CASE m.kind \in {"lane", "name", "label"}
  <2>1. /\ t.entries = s.entries
        /\ t.lanes = IF m.kind = "lane" THEN Put(s.lanes, m.lane, m.leaf) ELSE s.lanes
        /\ DOMAIN t.labels \subseteq
                IF m.kind = "label" THEN DOMAIN s.labels \cup {m.target} ELSE DOMAIN s.labels
      BY <1>3, Applied DEF OtherApplied
  <2>2. m.kind = "lane" => (m.leaf # None => m.leaf \in DOMAIN s.entries)
      BY DEF Valid, ValidLane
  <2>3. m.kind = "label" => m.target \in DOMAIN s.entries
      BY DEF Valid, ValidLabel
  <2> QED BY <2>1, <2>2, <2>3 DEF PointersExist, Put
<1> QED BY <1>1, <1>2, <1>3, KindType

\* What append_record checks and apply_mutation does not.
OpensAlone(s, m) ==
    m.kind = "record" /\ m.type = "operation_started" => s.open[m.lane] = {}

\* A lane that opens an operation alone has one, and finishing it closes it.
LEMMA ApplyOneOpenOperation ==
    ASSUME NEW s \in State, NEW m \in SessionMutation, LogComplete(s), OneOpenOperation(s),
           Valid(s, m), OpensAlone(s, m), NEW t, t = Apply(s, m)
    PROVE  OneOpenOperation(t)
<1>1. CASE m.kind = "record"
  <2>1. /\ DOMAIN t.records = DOMAIN s.records \cup {m.id}
        /\ t.records[m.id] = [seq |-> m.seq, lane |-> m.lane, type |-> m.type, run |-> m.run]
        /\ \A r \in DOMAIN s.records : r # m.id => t.records[r] = s.records[r]
        /\ t.open = [s.open EXCEPT ![m.lane] = OpenAfter(s, m)]
        /\ t.lanes = s.lanes
      BY <1>1, Applied DEF RecordApplied
  <2>2. /\ m.lane \in Lane /\ m.lane \in DOMAIN s.lanes
        /\ m.id \notin DOMAIN s.records
        /\ m.seq = s.sequence + 1
        /\ m.type \in RecordType
      BY <1>1, KindType DEF Valid, ValidRecord, UsedIds, NextSequence, RecordMutation
  <2>3. s.sequence \in Nat /\ \A r \in DOMAIN s.records : s.records[r].seq \in 1 .. s.sequence
      BY DEF LogComplete, State
  <2>4. /\ \A l \in Lane : l # m.lane => t.open[l] = s.open[l]
        /\ t.open[m.lane] = OpenAfter(s, m)
      BY <2>1, <2>2 DEF State
  <2>5. ASSUME NEW l \in Lane
        PROVE  \A i, j \in t.open[l] : i = j
    <3>1. CASE l # m.lane
        BY <3>1, <2>4 DEF OneOpenOperation
    <3>2. CASE l = m.lane /\ m.type = "operation_started"
      <4>1. t.open[l] = {m.id}
          BY <1>1, <3>2, <2>4 DEF OpenAfter, OpensAlone
      <4> QED BY <4>1
    <3>3. CASE l = m.lane /\ m.type # "operation_started"
      <4>1. t.open[l] \subseteq s.open[l]
          BY <3>3, <2>4 DEF OpenAfter
      <4> QED BY <4>1 DEF OneOpenOperation
    <3> QED BY <3>1, <3>2, <3>3
  <2>6. ASSUME NEW l \in Lane, NEW i \in t.open[l]
        PROVE  /\ l \in DOMAIN t.lanes
               /\ i \in DOMAIN t.records
               /\ t.records[i].lane = l
               /\ t.records[i].type = "operation_started"
               /\ \A k \in DOMAIN t.records :
                     (t.records[k].type = "operation_finished" /\ t.records[k].lane = l
                        /\ t.records[k].run = i)
                     => t.records[k].seq < t.records[i].seq
    <3>1. CASE l = m.lane /\ m.type = "operation_started"
      <4>1. i = m.id
          BY <1>1, <3>1, <2>4, <2>6 DEF OpenAfter, OpensAlone
      <4> QED BY <4>1, <3>1, <2>1, <2>2, <2>3
    <3>2. CASE ~(l = m.lane /\ m.type = "operation_started")
      <4>1. /\ i \in s.open[l]
            /\ l = m.lane /\ m.type = "operation_finished" => i # m.run
          BY <3>2, <2>4, <2>6 DEF OpenAfter
      <4>2. /\ l \in DOMAIN s.lanes
            /\ i \in DOMAIN s.records
            /\ s.records[i].lane = l
            /\ s.records[i].type = "operation_started"
            /\ \A k \in DOMAIN s.records :
                     (s.records[k].type = "operation_finished" /\ s.records[k].lane = l
                        /\ s.records[k].run = i)
                     => s.records[k].seq < s.records[i].seq
          BY <4>1 DEF OneOpenOperation
      <4> QED BY <4>1, <4>2, <2>1, <2>2
    <3> QED BY <3>1, <3>2
  <2> QED BY <2>5, <2>6 DEF OneOpenOperation
<1>2. CASE m.kind # "record"
  <2>1. t.records = s.records /\ t.open = s.open
      BY <1>2, Applied DEF EntryApplied, OtherApplied
  <2>2. t.lanes \in {s.lanes, Put(s.lanes, m.lane, m.id), Put(s.lanes, m.lane, m.leaf)}
      BY <1>2, Applied DEF EntryApplied, OtherApplied
  <2>3. DOMAIN s.lanes \subseteq DOMAIN t.lanes
      BY <2>2 DEF Put
  <2> QED BY <2>1, <2>3 DEF OneOpenOperation
<1> QED BY <1>1, <1>2

\* A new session is coherent.
LEMMA InitCoherent == Coherent(InitState)
<1>1. LogComplete(InitState) /\ ParentsEarlier(InitState) /\ IdsUnique(InitState)
    BY DEF InitState, LogComplete, ParentsEarlier, IdsUnique
<1>2. PointersExist(InitState)
    BY DEF InitState, PointersExist
<1> QED BY <1>1, <1>2 DEF Coherent

\* A new session has no operation open.
LEMMA InitWellFormed == WellFormed(InitState)
<1>1. OneOpenOperation(InitState)
    BY DEF InitState, OneOpenOperation
<1> QED BY <1>1, InitCoherent DEF WellFormed

\* Whatever mutation apply_mutation accepts, the session stays coherent: its
\* log has no gap, every parent is earlier, ids are unique, and lanes and labels
\* point at entries.  This is what a load that replays any file can rely on.
THEOREM ApplyKeepsCoherent ==
    ASSUME NEW s \in State, NEW m \in SessionMutation, Coherent(s), Valid(s, m)
    PROVE  Coherent(Apply(s, m))
<1>1. LogComplete(Apply(s, m))
    BY ApplyLogComplete DEF Coherent
<1>2. ParentsEarlier(Apply(s, m))
    BY ApplyParentsEarlier DEF Coherent
<1>3. IdsUnique(Apply(s, m))
    BY ApplyIdsUnique DEF Coherent
<1>4. PointersExist(Apply(s, m))
    BY ApplyPointersExist DEF Coherent
<1> QED BY <1>1, <1>2, <1>3, <1>4 DEF Coherent

\* With the rule that append_record alone checks (an operation opens on a lane
\* that has none open), apply_mutation keeps one open operation per lane.
THEOREM ApplyKeepsWellFormed ==
    ASSUME NEW s \in State, NEW m \in SessionMutation, WellFormed(s), Valid(s, m), OpensAlone(s, m)
    PROVE  WellFormed(Apply(s, m))
<1>1. Coherent(Apply(s, m))
    BY ApplyKeepsCoherent DEF WellFormed
<1>2. OneOpenOperation(Apply(s, m))
    BY ApplyOneOpenOperation DEF WellFormed, Coherent
<1> QED BY <1>1, <1>2 DEF WellFormed

\* The storages build well-typed mutations.
LEMMA MutationOfType ==
    ASSUME NEW s \in State, NEW r \in Request, PointersExist(s), Accepts(s, r)
    PROVE  MutationOf(s, r) \in SessionMutation
<1>1. NextSequence(s) \in Nat
    BY DEF NextSequence, State
<1>2. CASE r.op \in {"create_lane", "move_lane"}
    BY <1>1, <1>2 DEF Request, MutationOf, SessionMutation, LaneMutation
<1>3. CASE r.op = "append_entry"
  <2>1. s.lanes[r.lane] \in Id \cup {None}
      BY <1>3, InMap DEF Accepts, AcceptsAppendEntry, State
  <2> QED BY <1>1, <1>3, <2>1 DEF Request, MutationOf, SessionMutation, EntryMutation
<1>4. CASE r.op = "append_record"
    BY <1>1, <1>4 DEF Request, MutationOf, SessionMutation, RecordMutation, RecordType
<1>5. CASE r.op = "set_name"
    BY <1>1, <1>5 DEF Request, MutationOf, SessionMutation, NameMutation
<1>6. CASE r.op = "set_label"
    BY <1>1, <1>6 DEF Request, MutationOf, SessionMutation, LabelMutation
<1> QED BY <1>2, <1>3, <1>4, <1>5, <1>6 DEF Request

\* A request that an operation accepts becomes a mutation that apply_mutation
\* accepts: after append_mutation wrote the line, applying it cannot fail.
THEOREM AcceptedIsValid ==
    ASSUME NEW s \in State, NEW r \in Request, PointersExist(s), Accepts(s, r)
    PROVE  Valid(s, MutationOf(s, r)) /\ OpensAlone(s, MutationOf(s, r))
<1>2. CASE r.op \in {"create_lane", "move_lane"}
    BY <1>2 DEF Request, MutationOf, Accepts, AcceptsCreateLane, AcceptsMoveLane, Valid, ValidLane, OpensAlone
<1>3. CASE r.op = "append_entry"
    BY <1>3 DEF Request, MutationOf, Accepts, AcceptsAppendEntry, Valid, ValidEntry, OpensAlone, PointersExist
<1>4. CASE r.op = "append_record"
    BY <1>4 DEF Request, MutationOf, Accepts, AcceptsAppendRecord, Valid, ValidRecord, OpensAlone
<1>5. CASE r.op = "set_name"
    BY <1>5 DEF Request, MutationOf, Accepts, Valid, OpensAlone
<1>6. CASE r.op = "set_label"
    BY <1>6 DEF Request, MutationOf, Accepts, AcceptsSetLabel, Valid, ValidLabel, OpensAlone
<1> QED BY <1>2, <1>3, <1>4, <1>5, <1>6 DEF Request

-----------------------------------------------------------------------------
\* Induction over the natural numbers, for a set of them: the finite intervals 1 .. n are
\* well founded under strict inclusion.
LEMMA EveryNumber ==
    ASSUME NEW N, 0 \in N, \A n \in Nat : n \in N => n + 1 \in N
    PROVE  Nat \subseteq N
<1> SUFFICES ASSUME NEW n0 \in Nat, n0 \notin N PROVE FALSE
    OBVIOUS
<1> DEFINE R == StrictSubsetOrdering(Nat)
           T == {1 .. n : n \in {k \in Nat : k \notin N}}
<1>1. IsWellFoundedOn(R, FiniteSubsetsOf(Nat))
    BY FS_StrictSubsetOrderingWellFounded
<1>2. T \subseteq FiniteSubsetsOf(Nat)
  <2> SUFFICES ASSUME NEW n \in Nat PROVE 1 .. n \in FiniteSubsetsOf(Nat)
      OBVIOUS
  <2>1. n \in Int /\ 1 \in Int
      OBVIOUS
  <2> QED BY <2>1, FS_Interval DEF FiniteSubsetsOf
<1>3. T # {}
    BY DEF T
<1> HIDE DEF R
<1>4. PICK t \in T : \A u \in T : <<u, t>> \notin R
  <2> HIDE DEF T
  <2> QED BY <1>1, <1>2, <1>3, WFMin
<1>5. PICK n \in Nat : n \notin N /\ t = 1 .. n
    OBVIOUS
<1>6. n # 0
    BY <1>5
<1>7. n - 1 \in Nat /\ n - 1 \notin N
    BY <1>5, <1>6
<1>8. <<1 .. (n - 1), 1 .. n>> \in R
  <2>1. n \in 1 .. n /\ n \notin 1 .. (n - 1)
      BY <1>6
  <2>2. 1 .. (n - 1) \subseteq 1 .. n /\ 1 .. n \subseteq Nat
      OBVIOUS
  <2>3. <<1 .. (n - 1), 1 .. n>> \in (SUBSET Nat) \X (SUBSET Nat)
      BY <2>2
  <2> QED BY <2>1, <2>2, <2>3 DEF R, StrictSubsetOrdering
<1> QED BY <1>4, <1>5, <1>7, <1>8

\* One mutation of a replay, from the session before it.
Replayed(s, m) == IF s # Invalid /\ Valid(s, m) THEN Apply(s, m) ELSE Invalid

\* g holds the sessions that the first n mutations of ms lead through.
Passes(ms, n, g) == g = [i \in 0 .. n |-> IF i = 0 THEN InitState ELSE Replayed(g[i - 1], ms[i])]

LEMMA PassesStep ==
    ASSUME NEW ms, NEW n \in Nat, NEW g, Passes(ms, n, g)
    PROVE  g[0] = InitState /\ \A i \in 1 .. n : g[i] = Replayed(g[i - 1], ms[i])
<1>1. 0 \in 0 .. n /\ \A i \in 1 .. n : i \in 0 .. n /\ i # 0
    OBVIOUS
<1>2. \A i \in 0 .. n : g[i] = IF i = 0 THEN InitState ELSE Replayed(g[i - 1], ms[i])
    BY DEF Passes
<1> QED BY <1>1, <1>2

\* Any number of mutations leads through some sessions ...
LEMMA PassesExist ==
    ASSUME NEW ms, NEW n \in Nat
    PROVE  \E g : Passes(ms, n, g)
<1> DEFINE N == {k \in Nat : \E g : Passes(ms, k, g)}
<1>1. 0 \in N
  <2> DEFINE g == [i \in 0 .. 0 |-> InitState]
  <2>1. \A i \in 0 .. 0 : i = 0
      OBVIOUS
  <2>2. Passes(ms, 0, g)
      BY <2>1 DEF Passes
  <2> HIDE DEF g
  <2> QED BY <2>2
<1>2. ASSUME NEW k \in Nat, k \in N PROVE k + 1 \in N
  <2>1. PICK g : Passes(ms, k, g)
      BY <1>2
  <2> DEFINE h == [i \in 0 .. k + 1 |-> IF i = k + 1 THEN Replayed(g[k], ms[k + 1]) ELSE g[i]]
  <2>2. g[0] = InitState /\ \A i \in 1 .. k : g[i] = Replayed(g[i - 1], ms[i])
      BY <2>1, PassesStep
  <2>3. \A i \in 0 .. k : h[i] = g[i]
      OBVIOUS
  <2>4. h[k + 1] = Replayed(g[k], ms[k + 1])
      OBVIOUS
  <2>5. \A i \in 0 .. k + 1 : h[i] = IF i = 0 THEN InitState ELSE Replayed(h[i - 1], ms[i])
    <3> SUFFICES ASSUME NEW i \in 0 .. k + 1
                 PROVE  h[i] = IF i = 0 THEN InitState ELSE Replayed(h[i - 1], ms[i])
        OBVIOUS
    <3> HIDE DEF h
    <3>1. CASE i = 0
        BY <3>1, <2>2, <2>3
    <3>2. CASE i = k + 1
      <4>1. i - 1 = k /\ k \in 0 .. k /\ i # 0
          BY <3>2
      <4>2. h[i - 1] = g[k]
          BY <4>1, <2>3
      <4> QED BY <4>1, <4>2, <3>2, <2>4
    <3>3. CASE i \in 1 .. k
      <4>1. i \in 0 .. k /\ i - 1 \in 0 .. k /\ i # 0
          BY <3>3
      <4> QED BY <4>1, <3>3, <2>2, <2>3
    <3> QED BY <3>1, <3>2, <3>3
  <2>6. h = [i \in 0 .. k + 1 |-> h[i]]
      OBVIOUS
  <2> HIDE DEF h
  <2>7. Passes(ms, k + 1, h)
      BY <2>5, <2>6 DEF Passes
  <2> QED BY <2>7
<1>3. Nat \subseteq N
  <2> HIDE DEF N
  <2> QED BY <1>1, <1>2, EveryNumber
<1> QED BY <1>3

\* ... and the same ones through the same sessions.
LEMMA PassesAgree ==
    ASSUME NEW ms1, NEW n1 \in Nat, NEW g1, Passes(ms1, n1, g1),
           NEW ms2, NEW n2 \in Nat, NEW g2, Passes(ms2, n2, g2),
           NEW n \in Nat, n <= n1, n <= n2, \A i \in 1 .. n : ms1[i] = ms2[i]
    PROVE  \A i \in 0 .. n : g1[i] = g2[i]
<1> DEFINE N == {k \in Nat : k <= n => g1[k] = g2[k]}
<1>1. /\ g1[0] = InitState /\ \A i \in 1 .. n1 : g1[i] = Replayed(g1[i - 1], ms1[i])
      /\ g2[0] = InitState /\ \A i \in 1 .. n2 : g2[i] = Replayed(g2[i - 1], ms2[i])
    BY PassesStep
<1>2. 0 \in N
    BY <1>1
<1>3. ASSUME NEW k \in Nat, k \in N PROVE k + 1 \in N
  <2> SUFFICES ASSUME k + 1 <= n PROVE g1[k + 1] = g2[k + 1]
      OBVIOUS
  <2>1. k <= n /\ k + 1 \in 1 .. n /\ k + 1 \in 1 .. n1 /\ k + 1 \in 1 .. n2 /\ (k + 1) - 1 = k
      OBVIOUS
  <2>2. g1[k] = g2[k]
      BY <1>3, <2>1
  <2>3. /\ g1[k + 1] = Replayed(g1[(k + 1) - 1], ms1[k + 1])
        /\ g2[k + 1] = Replayed(g2[(k + 1) - 1], ms2[k + 1])
        /\ ms1[k + 1] = ms2[k + 1]
      BY <1>1, <2>1
  <2> QED BY <2>1, <2>2, <2>3
<1>4. Nat \subseteq N
  <2> HIDE DEF N
  <2> QED BY <1>2, <1>3, EveryNumber
<1>5. \A k \in 0 .. n : k \in Nat /\ k <= n
    OBVIOUS
<1> QED BY <1>4, <1>5

\* A replay ends in the last of them.
LEMMA ReplayPasses ==
    ASSUME NEW ms, NEW n \in Nat, n = Len(ms), NEW g, Passes(ms, n, g)
    PROVE  Replay(ms) = g[n]
<1> DEFINE f == CHOOSE a : Passes(ms, n, a)
<1>1. Passes(ms, n, f)
  <2>1. \E a : Passes(ms, n, a)
      OBVIOUS
  <2> QED BY <2>1
<1>2. Replay(ms) = f[n]
    BY DEF Replay, Passes, Replayed
<1>3. n \in 0 .. n /\ n <= n
    OBVIOUS
<1> HIDE DEF f
<1>4. f[n] = g[n]
    BY <1>1, <1>3, PassesAgree
<1> QED BY <1>2, <1>4

LEMMA ReplayNothing == Replay(<<>>) = InitState
<1>1. Len(<<>>) = 0 /\ 0 \in Nat
    OBVIOUS
<1>2. PICK g : Passes(<<>>, 0, g)
    BY PassesExist
<1>3. g[0] = InitState
    BY <1>2, PassesStep
<1>4. Replay(<<>>) = g[0]
    BY <1>1, <1>2, ReplayPasses
<1> QED BY <1>3, <1>4

LEMMA ReplayAppend ==
    ASSUME NEW S, NEW ms \in Seq(S), NEW m \in S
    PROVE  Replay(Append(ms, m)) = Replayed(Replay(ms), m)
<1> DEFINE n == Len(ms)
           ms2 == Append(ms, m)
<1>1. n \in Nat /\ Len(ms2) = n + 1 /\ n + 1 \in Nat /\ ms2[n + 1] = m
    OBVIOUS
<1>2. \A i \in 1 .. n : ms[i] = ms2[i]
    OBVIOUS
<1> HIDE DEF ms2
<1>3. PICK g : Passes(ms, n, g)
    BY <1>1, PassesExist
<1>4. PICK h : Passes(ms2, n + 1, h)
    BY <1>1, PassesExist
<1>5. Replay(ms) = g[n] /\ Replay(ms2) = h[n + 1]
    BY <1>1, <1>3, <1>4, ReplayPasses
<1>6. n <= n /\ n <= n + 1 /\ n \in 0 .. n /\ n + 1 \in 1 .. n + 1 /\ (n + 1) - 1 = n
    BY <1>1
<1> HIDE DEF n
<1>7. \A i \in 0 .. n : g[i] = h[i]
  <2>1. n \in Nat /\ n + 1 \in Nat /\ n <= n /\ n <= n + 1
      BY <1>1, <1>6
  <2> HIDE DEF n
  <2> QED BY <2>1, <1>2, <1>3, <1>4, PassesAgree, SMTT(60)
<1>8. h[n + 1] = Replayed(h[n], m)
    BY <1>1, <1>4, <1>6, PassesStep
<1> QED BY <1>5, <1>6, <1>7, <1>8 DEF ms2

\* No session state is the marker of a failed replay.
LEMMA StateNotInvalid == \A s \in State : s # Invalid
BY DEF State, Invalid

\* What a new session has and valid mutations keep, a replay that succeeds has.
LEMMA ReplayStays ==
    ASSUME NEW ms \in Seq(SessionMutation), NEW P, InitState \in P,
           \A i \in 1 .. Len(ms) : \A s \in P : Valid(s, ms[i]) => Apply(s, ms[i]) \in P
    PROVE  Replay(ms) \in P \cup {Invalid}
<1> DEFINE n == Len(ms)
<1>1. n \in Nat
    OBVIOUS
<1>2. PICK g : Passes(ms, n, g)
    BY <1>1, PassesExist
<1>3. g[0] = InitState /\ \A i \in 1 .. n : g[i] = Replayed(g[i - 1], ms[i])
    BY <1>1, <1>2, PassesStep
<1> DEFINE M == {k \in Nat : k <= n => g[k] \in P \cup {Invalid}}
<1>4. 0 \in M
    BY <1>3
<1>5. ASSUME NEW k \in Nat, k \in M PROVE k + 1 \in M
  <2> SUFFICES ASSUME k + 1 <= n PROVE g[k + 1] \in P \cup {Invalid}
      OBVIOUS
  <2>1. k <= n /\ k + 1 \in 1 .. n /\ (k + 1) - 1 = k
      BY <1>1
  <2>2. g[k] \in P \cup {Invalid}
      BY <1>5, <2>1
  <2>3. g[k + 1] = Replayed(g[k], ms[k + 1])
      BY <1>3, <2>1
  <2>4. \A s \in P : Valid(s, ms[k + 1]) => Apply(s, ms[k + 1]) \in P
      BY <2>1
  <2> QED BY <2>2, <2>3, <2>4 DEF Replayed
<1>6. Nat \subseteq M
  <2> HIDE DEF M
  <2> QED BY <1>4, <1>5, EveryNumber
<1>7. g[n] \in P \cup {Invalid}
    BY <1>1, <1>6
<1> QED BY <1>1, <1>2, <1>7, ReplayPasses

\* A log that replays gives a coherent session, whatever mutations are in it: what
\* a load and a fork can rely on.
THEOREM ReplaysAreCoherent ==
    ASSUME NEW ms \in Seq(SessionMutation), Replay(ms) # Invalid
    PROVE  Replay(ms) \in State /\ Coherent(Replay(ms))
<1> DEFINE P == {s \in State : Coherent(s)}
<1>1. InitState \in P
    BY InitStateType, InitCoherent
<1>2. ASSUME NEW i \in 1 .. Len(ms), NEW s \in P, Valid(s, ms[i])
      PROVE  Apply(s, ms[i]) \in P
  <2>1. ms[i] \in SessionMutation
      OBVIOUS
  <2> QED BY <1>2, <2>1, ApplyType, ApplyKeepsCoherent
<1>3. Replay(ms) \in P \cup {Invalid}
  <2> HIDE DEF P
  <2> QED BY <1>1, <1>2, ReplayStays
<1> QED BY <1>3

\* What is chosen with one more item.
OneMore(c, x, T) == IF x \in T THEN Append(c, x) ELSE c

\* g holds what is chosen of the first items of q, up to n of them.
Chooses(q, T, n, g) ==
    g = [i \in 0 .. n |-> IF i = 0 THEN <<>> ELSE OneMore(g[i - 1], q[i], T)]

LEMMA ChoosesStep ==
    ASSUME NEW q, NEW T, NEW n \in Nat, NEW g, Chooses(q, T, n, g)
    PROVE  g[0] = <<>> /\ \A i \in 1 .. n : g[i] = OneMore(g[i - 1], q[i], T)
<1>1. 0 \in 0 .. n /\ \A i \in 1 .. n : i \in 0 .. n /\ i # 0
    OBVIOUS
<1>2. \A i \in 0 .. n : g[i] = IF i = 0 THEN <<>> ELSE OneMore(g[i - 1], q[i], T)
    BY DEF Chooses
<1> QED BY <1>1, <1>2

LEMMA ChoosesExist ==
    ASSUME NEW q, NEW T, NEW n \in Nat
    PROVE  \E g : Chooses(q, T, n, g)
<1> DEFINE N == {k \in Nat : \E g : Chooses(q, T, k, g)}
<1>1. 0 \in N
  <2> DEFINE g == [i \in 0 .. 0 |-> <<>>]
  <2>1. \A i \in 0 .. 0 : i = 0
      OBVIOUS
  <2>2. Chooses(q, T, 0, g)
      BY <2>1 DEF Chooses
  <2> HIDE DEF g
  <2> QED BY <2>2
<1>2. ASSUME NEW k \in Nat, k \in N PROVE k + 1 \in N
  <2>1. PICK g : Chooses(q, T, k, g)
      BY <1>2
  <2> DEFINE h == [i \in 0 .. k + 1 |-> IF i = k + 1 THEN OneMore(g[k], q[k + 1], T) ELSE g[i]]
  <2>2. g[0] = <<>> /\ \A i \in 1 .. k : g[i] = OneMore(g[i - 1], q[i], T)
      BY <2>1, ChoosesStep
  <2>3. \A i \in 0 .. k : h[i] = g[i]
      OBVIOUS
  <2>4. h[k + 1] = OneMore(g[k], q[k + 1], T)
      OBVIOUS
  <2>5. \A i \in 0 .. k + 1 : h[i] = IF i = 0 THEN <<>> ELSE OneMore(h[i - 1], q[i], T)
    <3> SUFFICES ASSUME NEW i \in 0 .. k + 1
                 PROVE  h[i] = IF i = 0 THEN <<>> ELSE OneMore(h[i - 1], q[i], T)
        OBVIOUS
    <3> HIDE DEF h
    <3>1. CASE i = 0
        BY <3>1, <2>2, <2>3
    <3>2. CASE i = k + 1
      <4>1. i - 1 = k /\ k \in 0 .. k /\ i # 0
          BY <3>2
      <4>2. h[i - 1] = g[k]
          BY <4>1, <2>3
      <4> QED BY <4>1, <4>2, <3>2, <2>4
    <3>3. CASE i \in 1 .. k
      <4>1. i \in 0 .. k /\ i - 1 \in 0 .. k /\ i # 0
          BY <3>3
      <4> QED BY <4>1, <3>3, <2>2, <2>3
    <3> QED BY <3>1, <3>2, <3>3
  <2>6. h = [i \in 0 .. k + 1 |-> h[i]]
      OBVIOUS
  <2> HIDE DEF h
  <2>7. Chooses(q, T, k + 1, h)
      BY <2>5, <2>6 DEF Chooses
  <2> QED BY <2>7
<1>3. Nat \subseteq N
  <2> HIDE DEF N
  <2> QED BY <1>1, <1>2, EveryNumber
<1> QED BY <1>3

\* c is what lies in T of the first n items of q, of which p names the places.
Picks(q, T, n, c, p) ==
    /\ c \in Seq(T)
    /\ p \in [1 .. Len(c) -> 1 .. n]
    /\ \A i \in 1 .. Len(c) : c[i] = q[p[i]]
    /\ \A i, j \in 1 .. Len(c) : i < j => p[i] < p[j]
    /\ \A k \in 1 .. n : q[k] \in T => \E i \in 1 .. Len(c) : p[i] = k

LEMMA PicksOneMore ==
    ASSUME NEW q, NEW T, NEW n \in Nat, NEW c, NEW p, Picks(q, T, n, c, p)
    PROVE  \E p2 : Picks(q, T, n + 1, OneMore(c, q[n + 1], T), p2)
<1>1. /\ c \in Seq(T) /\ Len(c) \in Nat
      /\ p \in [1 .. Len(c) -> 1 .. n]
      /\ \A i \in 1 .. Len(c) : c[i] = q[p[i]]
      /\ \A i, j \in 1 .. Len(c) : i < j => p[i] < p[j]
      /\ \A k \in 1 .. n : q[k] \in T => \E i \in 1 .. Len(c) : p[i] = k
    BY DEF Picks
<1>2. CASE q[n + 1] \notin T
  <2>1. p \in [1 .. Len(c) -> 1 .. n + 1]
      BY <1>1
  <2>2. \A k \in 1 .. n + 1 : q[k] \in T => \E i \in 1 .. Len(c) : p[i] = k
    <3>1. \A k \in 1 .. n + 1 : k \in 1 .. n \/ k = n + 1
        OBVIOUS
    <3> QED BY <3>1, <1>1, <1>2
  <2>3. Picks(q, T, n + 1, c, p)
      BY <1>1, <2>1, <2>2 DEF Picks
  <2> QED BY <1>2, <2>3 DEF OneMore
<1>3. CASE q[n + 1] \in T
  <2> DEFINE l == Len(c)
             c2 == Append(c, q[n + 1])
             p2 == [i \in 1 .. l + 1 |-> IF i = l + 1 THEN n + 1 ELSE p[i]]
  <2>1. c2 \in Seq(T) /\ Len(c2) = l + 1 /\ c2[l + 1] = q[n + 1] /\ \A i \in 1 .. l : c2[i] = c[i]
      BY <1>1, <1>3
  <2> HIDE DEF c2
  <2>2. l \in Nat /\ \A i \in 1 .. l + 1 : i \in 1 .. l \/ i = l + 1
      BY <1>1
  <2>3. p2[l + 1] = n + 1 /\ \A i \in 1 .. l : p2[i] = p[i]
      BY <2>2
  <2>4. p2 \in [1 .. l + 1 -> 1 .. n + 1]
      BY <1>1, <2>2
  <2> HIDE DEF p2
  <2>5. \A i \in 1 .. l + 1 : c2[i] = q[p2[i]]
      BY <1>1, <2>1, <2>2, <2>3
  <2>6. \A i, j \in 1 .. l + 1 : i < j => p2[i] < p2[j]
    <3> SUFFICES ASSUME NEW i \in 1 .. l + 1, NEW j \in 1 .. l + 1, i < j PROVE p2[i] < p2[j]
        OBVIOUS
    <3>1. i \in 1 .. l
        BY <2>2
    <3>2. p2[i] = p[i] /\ p[i] \in 1 .. n
        BY <1>1, <2>3, <3>1
    <3>3. CASE j = l + 1
        BY <2>3, <3>2, <3>3
    <3>4. CASE j \in 1 .. l
      <4>1. p[i] < p[j]
          BY <1>1, <3>1, <3>4
      <4> QED BY <4>1, <2>3, <3>2, <3>4
    <3> QED BY <2>2, <3>3, <3>4
  <2>7. \A k \in 1 .. n + 1 : q[k] \in T => \E i \in 1 .. l + 1 : p2[i] = k
    <3>1. \A k \in 1 .. n + 1 : k \in 1 .. n \/ k = n + 1
        OBVIOUS
    <3>2. l + 1 \in 1 .. l + 1 /\ \A i \in 1 .. l : i \in 1 .. l + 1
        BY <2>2
    <3> HIDE DEF l
    <3> QED BY <3>1, <3>2, <1>1, <2>3 DEF l
  <2>8. Picks(q, T, n + 1, c2, p2)
      BY <2>1, <2>4, <2>5, <2>6, <2>7 DEF Picks
  <2> QED BY <1>3, <2>8 DEF c2, OneMore
<1> QED BY <1>2, <1>3

LEMMA ChosenPicks ==
    ASSUME NEW S, NEW q \in Seq(S), NEW T
    PROVE  \E p : Picks(q, T, Len(q), Chosen(q, T), p)
<1> DEFINE n == Len(q)
           f == CHOOSE g : Chooses(q, T, n, g)
           N == {k \in Nat : k <= n => \E p : Picks(q, T, k, f[k], p)}
<1>1. n \in Nat
    OBVIOUS
<1>2. Chooses(q, T, n, f)
  <2>1. \E g : Chooses(q, T, n, g)
      BY <1>1, ChoosesExist
  <2> QED BY <2>1
<1>3. Chosen(q, T) = f[n]
    BY DEF Chosen, Chooses, OneMore
<1> HIDE DEF f
<1>4. f[0] = <<>> /\ \A i \in 1 .. n : f[i] = OneMore(f[i - 1], q[i], T)
  <2> HIDE DEF n
  <2> QED BY <1>1, <1>2, ChoosesStep
<1>5. 0 \in N
  <2>1. 1 .. 0 = {} /\ Len(<<>>) = 0 /\ <<>> \in Seq(T)
      OBVIOUS
  <2> DEFINE p == [i \in 1 .. 0 |-> 0]
  <2>2. p \in [1 .. 0 -> 1 .. 0]
      BY <2>1
  <2> HIDE DEF p
  <2>3. Picks(q, T, 0, <<>>, p)
      BY <2>1, <2>2 DEF Picks
  <2> QED BY <1>4, <2>3
<1>6. ASSUME NEW k \in Nat, k \in N PROVE k + 1 \in N
  <2> SUFFICES ASSUME k + 1 <= n PROVE \E p : Picks(q, T, k + 1, f[k + 1], p)
      OBVIOUS
  <2>1. k <= n /\ k + 1 \in 1 .. n /\ (k + 1) - 1 = k
      BY <1>1
  <2>2. PICK p : Picks(q, T, k, f[k], p)
      BY <1>6, <2>1
  <2>3. f[k + 1] = OneMore(f[k], q[k + 1], T)
      BY <1>4, <2>1
  <2> HIDE DEF n
  <2> QED BY <2>2, <2>3, PicksOneMore
<1>7. Nat \subseteq N
  <2> HIDE DEF N
  <2> QED BY <1>5, <1>6, EveryNumber
<1> QED BY <1>1, <1>3, <1>7
=============================================================================
