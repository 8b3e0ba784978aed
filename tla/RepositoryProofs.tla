-------------------------- MODULE RepositoryProofs --------------------------
(***************************************************************************)
(* The repositories of sessions, for any sessions, callers and bounds.     *)
(*                                                                         *)
(* In memory: every storage is a well formed session that counts its       *)
(* messages and accepts what its operations build, and a fork is faithful  *)
(* to its source.  The last is what replaying the mutations of a fork      *)
(* gives, followed through its entries, lanes, name and labels.            *)
(*                                                                         *)
(* JSONL: makers that race for a destination leave one session there, and  *)
(* listings are complete.                                                  *)
(***************************************************************************)
EXTENDS MemorySession, JsonlRepo, SessionStateProofs, SequenceTheorems

\* The entries of a fork, oldest first: each selected entry once, in the order of the log.
Sorted(s, F, c) ==
    /\ c \in Seq(F)
    /\ \A e \in F : \E i \in 1 .. Len(c) : c[i] = e
    /\ \A i, j \in 1 .. Len(c) : i < j => s.entries[c[i]].seq < s.entries[c[j]].seq

LEMMA OldestFirstSorted ==
    ASSUME NEW s \in State, LogComplete(s), NEW F \in SUBSET DOMAIN s.entries
    PROVE  Sorted(s, F, OldestFirst(s, F))
<1> DEFINE q == LogEntries(s)
           c == OldestFirst(s, F)
           n == Len(s.log)
<1>1. n \in Nat /\ s.log \in Seq(SessionMutation) /\ n = s.sequence
    BY DEF State, LogComplete
<1>2. /\ \A i \in 1 .. n : q[i] = IF s.log[i].kind = "entry" THEN s.log[i].id ELSE None
      /\ q \in Seq(Id \cup {None}) /\ Len(q) = n
  <2>1. \A i \in 1 .. n : (IF s.log[i].kind = "entry" THEN s.log[i].id ELSE None) \in Id \cup {None}
    <3> SUFFICES ASSUME NEW i \in 1 .. n, s.log[i].kind = "entry" PROVE s.log[i].id \in Id
        OBVIOUS
    <3>1. s.log[i] \in SessionMutation
        BY <1>1
    <3> QED BY <3>1, KindType DEF EntryMutation
  <2>2. q = [i \in 1 .. n |-> IF s.log[i].kind = "entry" THEN s.log[i].id ELSE None]
      BY DEF LogEntries
  <2> HIDE DEF q, n
  <2> QED BY <1>1, <2>1, <2>2
<1>3. F \subseteq Id /\ None \notin F
  <2>1. DOMAIN s.entries \subseteq Id
      BY InMap DEF State
  <2> QED BY <2>1, SessionAssumption
<1>4. PICK p : Picks(q, F, n, c, p)
  <2>1. c = Chosen(q, F)
      BY DEF OldestFirst
  <2> HIDE DEF q, c, n
  <2> QED BY <1>2, <2>1, ChosenPicks
<1> HIDE DEF q, c
<1>5. /\ c \in Seq(F)
      /\ p \in [1 .. Len(c) -> 1 .. n]
      /\ \A i \in 1 .. Len(c) : c[i] = q[p[i]]
      /\ \A i, j \in 1 .. Len(c) : i < j => p[i] < p[j]
      /\ \A k \in 1 .. n : q[k] \in F => \E i \in 1 .. Len(c) : p[i] = k
    BY <1>4 DEF Picks
<1>6. ASSUME NEW i \in 1 .. Len(c) PROVE s.entries[c[i]].seq = p[i]
  <2>1. c[i] \in F /\ p[i] \in 1 .. n /\ c[i] = q[p[i]]
      BY <1>5
  <2>2. s.log[p[i]].kind = "entry" /\ s.log[p[i]].id = c[i]
      BY <1>2, <1>3, <2>1
  <2> QED BY <2>1, <2>2 DEF LogComplete
<1>7. ASSUME NEW e \in F PROVE \E i \in 1 .. Len(c) : c[i] = e
  <2>1. /\ s.entries[e].seq \in 1 .. n /\ s.log[s.entries[e].seq].kind = "entry"
        /\ s.log[s.entries[e].seq].id = e
      BY <1>1 DEF LogComplete
  <2>2. q[s.entries[e].seq] = e
      BY <1>2, <2>1
  <2>3. PICK i \in 1 .. Len(c) : p[i] = s.entries[e].seq
      BY <1>5, <2>1, <2>2
  <2>4. c[i] = e
      BY <1>5, <2>2, <2>3
  <2> QED BY <2>4
<1>8. \A i, j \in 1 .. Len(c) : i < j => s.entries[c[i]].seq < s.entries[c[j]].seq
    BY <1>5, <1>6
<1>9. Sorted(s, F, c)
    BY <1>5, <1>7, <1>8 DEF Sorted
<1> QED BY <1>9 DEF c

\* What may come before in a fork: an entry's parent is copied ahead of it.
LEMMA SortedParents ==
    ASSUME NEW s \in State, LogComplete(s), ParentsEarlier(s), NEW F \in SUBSET DOMAIN s.entries,
           ParentClosed(s, F), NEW c, Sorted(s, F, c), NEW k \in 1 .. Len(c),
           s.entries[c[k]].parent # None
    PROVE  \E i \in 1 .. k - 1 : c[i] = s.entries[c[k]].parent
<1> DEFINE e == c[k]
           p == s.entries[e].parent
<1>1. c \in Seq(F) /\ Len(c) \in Nat /\ e \in F
    BY DEF Sorted
<1>2. p \in F
    BY <1>1 DEF ParentClosed
<1>3. s.entries[p].seq < s.entries[e].seq
    BY <1>1 DEF ParentsEarlier
<1>4. s.entries[p].seq \in Nat /\ s.entries[e].seq \in Nat
    BY <1>1, <1>2 DEF LogComplete
<1>5. PICK i \in 1 .. Len(c) : c[i] = p
    BY <1>2 DEF Sorted
<1>6. \A j \in 1 .. Len(c) : k < j => s.entries[e].seq < s.entries[c[j]].seq
    BY DEF Sorted
<1>7. i # k /\ ~(k < i)
    BY <1>3, <1>4, <1>5, <1>6
<1>8. i \in 1 .. k - 1
    BY <1>1, <1>7
<1> QED BY <1>5, <1>8

\* Copies are made once.
LEMMA SortedOnce ==
    ASSUME NEW s \in State, LogComplete(s), NEW F \in SUBSET DOMAIN s.entries,
           NEW c, Sorted(s, F, c), NEW i \in 1 .. Len(c), NEW j \in 1 .. Len(c), c[i] = c[j]
    PROVE  i = j
<1>1. c \in Seq(F) /\ Len(c) \in Nat /\ c[i] \in F
    BY DEF Sorted
<1>2. s.entries[c[i]].seq \in Nat
    BY <1>1 DEF LogComplete
<1>3. /\ i < j => s.entries[c[i]].seq < s.entries[c[j]].seq
      /\ j < i => s.entries[c[j]].seq < s.entries[c[i]].seq
    BY DEF Sorted
<1> QED BY <1>1, <1>2, <1>3

\* The items of two sequences one after the other.
LEMMA TwoTogether ==
    ASSUME NEW T, NEW a \in Seq(T), NEW b \in Seq(T), NEW ab, ab = a \o b
    PROVE  /\ ab \in Seq(T) /\ Len(ab) = Len(a) + Len(b)
           /\ \A i \in 1 .. Len(a) : ab[i] = a[i]
           /\ \A i \in 1 .. Len(b) : ab[Len(a) + i] = b[i]
<1>1. \A i \in 1 .. Len(b) : Len(a) + i \in 1 .. Len(a) + Len(b) /\ ~(Len(a) + i <= Len(a)) /\ (Len(a) + i) - Len(a) = i
    OBVIOUS
<1>2. \A i \in 1 .. Len(a) : i \in 1 .. Len(a) + Len(b)
    OBVIOUS
<1> QED BY <1>1, <1>2, ConcatProperties

\* The items of four sequences one after the other.
LEMMA FourTogether ==
    ASSUME NEW T, NEW a \in Seq(T), NEW b \in Seq(T), NEW d \in Seq(T), NEW z \in Seq(T),
           NEW ms, ms = a \o b \o d \o z
    PROVE  /\ ms \in Seq(T) /\ Len(ms) = Len(a) + Len(b) + Len(d) + Len(z)
           /\ \A i \in 1 .. Len(a) : ms[i] = a[i]
           /\ \A i \in 1 .. Len(b) : ms[Len(a) + i] = b[i]
           /\ \A i \in 1 .. Len(d) : ms[Len(a) + Len(b) + i] = d[i]
           /\ \A i \in 1 .. Len(z) : ms[Len(a) + Len(b) + Len(d) + i] = z[i]
<1> SUFFICES ASSUME NEW ab, ab = a \o b, NEW abd, abd = ab \o d, ms = abd \o z
             PROVE  /\ ms \in Seq(T) /\ Len(ms) = Len(a) + Len(b) + Len(d) + Len(z)
                    /\ \A i \in 1 .. Len(a) : ms[i] = a[i]
                    /\ \A i \in 1 .. Len(b) : ms[Len(a) + i] = b[i]
                    /\ \A i \in 1 .. Len(d) : ms[Len(a) + Len(b) + i] = d[i]
                    /\ \A i \in 1 .. Len(z) : ms[Len(a) + Len(b) + Len(d) + i] = z[i]
    OBVIOUS
<1>1. /\ ab \in Seq(T) /\ Len(ab) = Len(a) + Len(b)
      /\ \A i \in 1 .. Len(a) : ab[i] = a[i]
      /\ \A i \in 1 .. Len(b) : ab[Len(a) + i] = b[i]
    BY TwoTogether
<1>2. /\ abd \in Seq(T) /\ Len(abd) = Len(ab) + Len(d)
      /\ \A i \in 1 .. Len(ab) : abd[i] = ab[i]
      /\ \A i \in 1 .. Len(d) : abd[Len(ab) + i] = d[i]
    BY <1>1, TwoTogether
<1>3. /\ ms \in Seq(T) /\ Len(ms) = Len(abd) + Len(z)
      /\ \A i \in 1 .. Len(abd) : ms[i] = abd[i]
      /\ \A i \in 1 .. Len(z) : ms[Len(abd) + i] = z[i]
    BY <1>2, TwoTogether
<1>4. Len(a) \in Nat /\ Len(b) \in Nat /\ Len(d) \in Nat /\ Len(z) \in Nat
    OBVIOUS
<1>5. /\ \A i \in 1 .. Len(a) : i \in 1 .. Len(ab) /\ i \in 1 .. Len(abd)
      /\ \A i \in 1 .. Len(b) : Len(a) + i \in 1 .. Len(ab) /\ Len(a) + i \in 1 .. Len(abd)
      /\ \A i \in 1 .. Len(d) : Len(ab) + i \in 1 .. Len(abd)
    BY <1>1, <1>2, <1>4
<1>6. /\ \A i \in 1 .. Len(a) : ms[i] = a[i]
      /\ \A i \in 1 .. Len(b) : ms[Len(a) + i] = b[i]
    BY <1>1, <1>2, <1>3, <1>5
<1>7. \A i \in 1 .. Len(d) : ms[Len(a) + Len(b) + i] = d[i]
    BY <1>1, <1>2, <1>3, <1>5
<1>8. \A i \in 1 .. Len(z) : ms[Len(a) + Len(b) + Len(d) + i] = z[i]
    BY <1>1, <1>2, <1>3
<1> QED BY <1>1, <1>2, <1>3, <1>4, <1>6, <1>7, <1>8

\* The lanes of a fork in some order, each once.
LEMMA LanesInOrder ==
    ASSUME NEW lanes, IsFiniteSet(DOMAIN lanes), NEW q, q = LaneOrder(lanes)
    PROVE  /\ q \in Seq(DOMAIN lanes)
           /\ \A x \in DOMAIN lanes : \E i \in 1 .. Len(q) : q[i] = x
<1> DEFINE D == DOMAIN lanes
           n == Cardinality(D)
           Orders(p) == p \in [1 .. n -> D] /\ \A i, j \in 1 .. n : p[i] = p[j] => i = j
<1>1. n \in Nat /\ ExistsBijection(1 .. n, D)
    BY FS_CardinalityType
<1>2. PICK p : Orders(p)
  <2>1. PICK p \in Bijection(1 .. n, D) : TRUE
      BY <1>1 DEF ExistsBijection
  <2>2. p \in [1 .. n -> D] /\ \A i, j \in 1 .. n : p[i] = p[j] => i = j
    <3> HIDE DEF n, D
    <3> QED BY <2>1 DEF Bijection, Injection, Surjection, IsInjective
  <2> QED BY <2>2
<1>3. Orders(q)
  <2>1. \E a \in [1 .. n -> D] : \A i, j \in DOMAIN a : a[i] = a[j] => i = j
      BY <1>2
  <2>2. q = CHOOSE a \in [1 .. n -> D] : \A i, j \in DOMAIN a : a[i] = a[j] => i = j
      BY DEF LaneOrder
  <2> HIDE DEF n, D
  <2>3. q \in [1 .. n -> D] /\ \A i, j \in DOMAIN q : q[i] = q[j] => i = j
      BY <2>1, <2>2
  <2>4. DOMAIN q = 1 .. n
      BY <2>3
  <2> QED BY <2>3, <2>4
<1>4. q \in Seq(D) /\ Len(q) = n
  <2> HIDE DEF n, D
  <2> QED BY <1>1, <1>3
<1>5. q \in Surjection(1 .. n, D)
  <2>1. IsFiniteSet(1 .. n) /\ Cardinality(1 .. n) = n
    <3>1. 1 \in Int /\ n \in Int /\ (1 > n => n = 0) /\ n - 1 + 1 = n
        BY <1>1
    <3> HIDE DEF n
    <3> QED BY <3>1, FS_Interval
  <2>2. q \in Injection(1 .. n, D)
    <3> HIDE DEF n, D
    <3> QED BY <1>3 DEF Injection, IsInjective
  <2>3. IsFiniteSet(D) /\ Cardinality(1 .. n) = Cardinality(D)
      BY <2>1
  <2> HIDE DEF n, D
  <2> QED BY <2>2, <2>3, FS_Injection
<1>6. \A x \in D : \E i \in 1 .. n : q[i] = x
  <2> HIDE DEF n, D
  <2> QED BY <1>5 DEF Surjection
<1> QED BY <1>4, <1>6

\* The mutations of a fork: of each copied entry, of each lane, of the name and of each label.
EntryCopy(s, c, i) ==
    [kind |-> "entry", seq |-> i, lane |-> None, id |-> c[i],
     parent |-> s.entries[c[i]].parent, type |-> s.entries[c[i]].type]
LaneCopy(lanes, q, n, i) ==
    [kind |-> "lane", seq |-> n + i, lane |-> q[i], leaf |-> lanes[q[i]]]
NameCopy(s, n) == [kind |-> "name", seq |-> n + 1, name |-> s.name]
LabelCopy(s, l, n, i) ==
    [kind |-> "label", seq |-> n + i, target |-> l[i], label |-> s.labels[l[i]]]

\* How many of them are the name's.
Names(s) == IF s.name = None THEN 0 ELSE 1

\* ms forks the entries c, the lanes q and the labels l of s, in this order.
ForkLog(s, lanes, c, q, l, ms) ==
    /\ ms \in Seq(SessionMutation)
    /\ Len(ms) = Len(c) + Len(q) + Names(s) + Len(l)
    /\ \A i \in 1 .. Len(c) : ms[i] = EntryCopy(s, c, i)
    /\ \A i \in 1 .. Len(q) : ms[Len(c) + i] = LaneCopy(lanes, q, Len(c), i)
    /\ \A i \in 1 .. Names(s) : ms[Len(c) + Len(q) + i] = NameCopy(s, Len(c) + Len(q))
    /\ \A i \in 1 .. Len(l) :
          ms[Len(c) + Len(q) + Names(s) + i] = LabelCopy(s, l, Len(c) + Len(q) + Names(s), i)

LEMMA ForkMutationsAre ==
    ASSUME NEW s \in State, NEW o, NEW lanes \in Map(Lane, Id \cup {None}), lanes = ForkLanes(s, o),
           NEW c \in Seq(DOMAIN s.entries), c = OldestFirst(s, ForkEntries(s, o)),
           NEW q \in Seq(DOMAIN lanes), q = LaneOrder(lanes),
           NEW l \in Seq(DOMAIN s.labels), l = Chosen(c, DOMAIN s.labels)
    PROVE  ForkLog(s, lanes, c, q, l, ForkMutations(s, o))
<1> DEFINE a == [i \in 1 .. Len(c) |-> EntryCopy(s, c, i)]
           b == [i \in 1 .. Len(q) |-> LaneCopy(lanes, q, Len(c), i)]
           d == IF s.name = None THEN <<>> ELSE <<NameCopy(s, Len(c) + Len(q))>>
           n == Len(c) + Len(q) + Len(d)
           z == [i \in 1 .. Len(l) |-> LabelCopy(s, l, n, i)]
           T == SessionMutation
<1>1. ForkMutations(s, o) = a \o b \o d \o z
    BY DEF ForkMutations, EntryCopy, LaneCopy, NameCopy, LabelCopy
<1>2. a \in Seq(T) /\ Len(a) = Len(c) /\ \A i \in 1 .. Len(c) : a[i] = EntryCopy(s, c, i)
  <2>1. ASSUME NEW i \in 1 .. Len(c) PROVE EntryCopy(s, c, i) \in T
    <3>1. c[i] \in DOMAIN s.entries /\ i \in Nat
        OBVIOUS
    <3>2. c[i] \in Id /\ s.entries[c[i]] \in Entry
        BY <3>1, InMap DEF State
    <3> QED BY <3>1, <3>2 DEF EntryCopy, SessionMutation, EntryMutation, Entry
  <2>2. Len(c) \in Nat
      OBVIOUS
  <2> HIDE DEF T
  <2> QED BY <2>1, <2>2
<1>3. b \in Seq(T) /\ Len(b) = Len(q) /\ \A i \in 1 .. Len(q) : b[i] = LaneCopy(lanes, q, Len(c), i)
  <2>1. ASSUME NEW i \in 1 .. Len(q) PROVE LaneCopy(lanes, q, Len(c), i) \in T
    <3>1. q[i] \in DOMAIN lanes /\ Len(c) + i \in Nat
        OBVIOUS
    <3>2. q[i] \in Lane /\ lanes[q[i]] \in Id \cup {None}
        BY <3>1, InMap
    <3> QED BY <3>1, <3>2 DEF LaneCopy, SessionMutation, LaneMutation
  <2>2. Len(q) \in Nat
      OBVIOUS
  <2> HIDE DEF T
  <2> QED BY <2>1, <2>2
<1>4. /\ d \in Seq(T) /\ Len(d) = Names(s)
      /\ \A i \in 1 .. Names(s) : d[i] = NameCopy(s, Len(c) + Len(q))
  <2>1. NameCopy(s, Len(c) + Len(q)) \in T
    <3>1. Len(c) + Len(q) + 1 \in Nat /\ s.name \in Text \cup {None}
        BY DEF State
    <3> QED BY <3>1 DEF NameCopy, SessionMutation, NameMutation
  <2> HIDE DEF T
  <2>2. CASE s.name = None
    <3>1. d = <<>> /\ Names(s) = 0
        BY <2>2 DEF Names
    <3> QED BY <3>1
  <2>3. CASE s.name # None
    <3>1. d = <<NameCopy(s, Len(c) + Len(q))>> /\ Names(s) = 1
        BY <2>3 DEF Names
    <3> HIDE DEF d
    <3>2. d \in Seq(T) /\ Len(d) = 1 /\ d[1] = NameCopy(s, Len(c) + Len(q))
        BY <2>1, <3>1
    <3> QED BY <3>1, <3>2
  <2> QED BY <2>2, <2>3
<1> HIDE DEF a, b, d
<1>5. z \in Seq(T) /\ Len(z) = Len(l) /\ \A i \in 1 .. Len(l) : z[i] = LabelCopy(s, l, n, i)
  <2>1. ASSUME NEW i \in 1 .. Len(l) PROVE LabelCopy(s, l, n, i) \in T
    <3>1. l[i] \in DOMAIN s.labels /\ n + i \in Nat
        BY <1>4
    <3>2. l[i] \in Id /\ s.labels[l[i]] \in Text
        BY <3>1, InMap DEF State
    <3> HIDE DEF n
    <3> QED BY <3>1, <3>2 DEF LabelCopy, SessionMutation, LabelMutation
  <2>2. Len(l) \in Nat
      OBVIOUS
  <2> HIDE DEF T, n
  <2> QED BY <2>1, <2>2
<1>6. n = Len(c) + Len(q) + Names(s)
    BY <1>4
<1> HIDE DEF z, n, T
<1>7. SUFFICES ASSUME NEW ms, ms = a \o b \o d \o z PROVE ForkLog(s, lanes, c, q, l, ms)
    BY <1>1
<1>8. /\ ms \in Seq(T) /\ Len(ms) = Len(a) + Len(b) + Len(d) + Len(z)
      /\ \A i \in 1 .. Len(a) : ms[i] = a[i]
      /\ \A i \in 1 .. Len(b) : ms[Len(a) + i] = b[i]
      /\ \A i \in 1 .. Len(d) : ms[Len(a) + Len(b) + i] = d[i]
      /\ \A i \in 1 .. Len(z) : ms[Len(a) + Len(b) + Len(d) + i] = z[i]
  <2>1. a \in Seq(T) /\ b \in Seq(T) /\ d \in Seq(T) /\ z \in Seq(T)
      BY <1>2, <1>3, <1>4, <1>5
  <2> QED BY <1>7, <2>1, FourTogether
<1>9. /\ Len(ms) = Len(c) + Len(q) + Names(s) + Len(l)
      /\ \A i \in 1 .. Len(c) : ms[i] = a[i]
      /\ \A i \in 1 .. Len(q) : ms[Len(c) + i] = b[i]
      /\ \A i \in 1 .. Names(s) : ms[Len(c) + Len(q) + i] = d[i]
      /\ \A i \in 1 .. Len(l) : ms[n + i] = z[i]
    BY <1>2, <1>3, <1>4, <1>5, <1>6, <1>8
<1>10. /\ \A i \in 1 .. Len(c) : ms[i] = EntryCopy(s, c, i)
       /\ \A i \in 1 .. Len(q) : ms[Len(c) + i] = LaneCopy(lanes, q, Len(c), i)
       /\ \A i \in 1 .. Names(s) : ms[Len(c) + Len(q) + i] = NameCopy(s, Len(c) + Len(q))
       /\ \A i \in 1 .. Len(l) : ms[n + i] = LabelCopy(s, l, n, i)
  <2>1. \A i \in 1 .. Len(c) : ms[i] = EntryCopy(s, c, i)
      BY <1>2, <1>9
  <2>2. \A i \in 1 .. Len(q) : ms[Len(c) + i] = LaneCopy(lanes, q, Len(c), i)
      BY <1>3, <1>9
  <2>3. \A i \in 1 .. Names(s) : ms[Len(c) + Len(q) + i] = NameCopy(s, Len(c) + Len(q))
      BY <1>4, <1>9
  <2>4. \A i \in 1 .. Len(l) : ms[n + i] = LabelCopy(s, l, n, i)
      BY <1>5, <1>9
  <2> QED BY <2>1, <2>2, <2>3, <2>4
<1> QED BY <1>6, <1>8, <1>9, <1>10 DEF ForkLog, T

\* t has the first k entries of c, lanes of q and labels of l, and nothing else of that kind.
EntriesCopied(s, c, k, t) ==
    /\ DOMAIN t.entries = {c[i] : i \in 1 .. k}
    /\ \A i \in 1 .. k : t.entries[c[i]] = [seq |-> i, parent |-> s.entries[c[i]].parent,
                                          type |-> s.entries[c[i]].type]
LanesCopied(lanes, q, k, t) ==
    /\ DOMAIN t.lanes = {MainLane} \cup {q[i] : i \in 1 .. k}
    /\ \A i \in 1 .. k : t.lanes[q[i]] = lanes[q[i]]
LabelsCopied(s, l, k, t) ==
    /\ DOMAIN t.labels = {l[i] : i \in 1 .. k}
    /\ \A i \in 1 .. k : t.labels[l[i]] = s.labels[l[i]]

\* A fork has none of the operations of its source.
Unrecorded(t) == t.records = InitState.records /\ t.open = InitState.open

\* t is the fork after a entries, b lanes, d names and z labels.
Forked(s, lanes, c, q, l, a, b, d, z, t) ==
    /\ t \in State /\ t.sequence = a + b + d + z
    /\ EntriesCopied(s, c, a, t)
    /\ LanesCopied(lanes, q, b, t)
    /\ t.name = IF d = 0 THEN None ELSE s.name
    /\ LabelsCopied(s, l, z, t)
    /\ Unrecorded(t)

LEMMA ForkedFirst ==
    ASSUME NEW s, NEW lanes, NEW c, NEW q, NEW l
    PROVE  Forked(s, lanes, c, q, l, 0, 0, 0, 0, InitState)
<1>1. 1 .. 0 = {} /\ 0 + 0 + 0 + 0 = 0
    OBVIOUS
<1>2. /\ InitState.sequence = 0 /\ DOMAIN InitState.entries = {}
      /\ DOMAIN InitState.lanes = {MainLane} /\ InitState.name = None
      /\ DOMAIN InitState.labels = {}
    BY DEF InitState
<1> HIDE DEF InitState
<1> QED BY <1>1, <1>2, InitStateType DEF Forked, EntriesCopied, LanesCopied, LabelsCopied, Unrecorded

LEMMA CopyEntry ==
    ASSUME NEW s \in State, LogComplete(s), ParentsEarlier(s), NEW F \in SUBSET DOMAIN s.entries,
           ParentClosed(s, F), NEW c, Sorted(s, F, c), NEW lanes, NEW q, NEW l,
           NEW k \in Nat, k < Len(c), NEW t, Forked(s, lanes, c, q, l, k, 0, 0, 0, t),
           NEW m \in SessionMutation, m = EntryCopy(s, c, k + 1)
    PROVE  Valid(t, m) /\ Forked(s, lanes, c, q, l, k + 1, 0, 0, 0, Apply(t, m))
<1> DEFINE u == Apply(t, m)
<1>1. /\ c \in Seq(F) /\ Len(c) \in Nat /\ k + 1 \in 1 .. Len(c)
      /\ \A i \in 1 .. k : i \in 1 .. Len(c) /\ i # k + 1
    BY DEF Sorted
<1>2. /\ t \in State /\ t.sequence = k /\ EntriesCopied(s, c, k, t) /\ LanesCopied(lanes, q, 0, t)
      /\ t.name = None /\ LabelsCopied(s, l, 0, t) /\ Unrecorded(t)
    BY DEF Forked
<1>3. /\ m.kind = "entry" /\ m.seq = k + 1 /\ m.lane = None /\ m.id = c[k + 1]
      /\ m.parent = s.entries[c[k + 1]].parent /\ m.type = s.entries[c[k + 1]].type
    BY DEF EntryCopy
<1>4. m.id \notin DOMAIN t.entries
  <2>1. SUFFICES ASSUME NEW i \in 1 .. k, c[i] = c[k + 1] PROVE FALSE
      BY <1>2, <1>3 DEF EntriesCopied
  <2> QED BY <1>1, <2>1, SortedOnce
<1>5. DOMAIN t.records = {}
    BY <1>2 DEF Unrecorded, InitState
<1>6. m.parent # None => m.parent \in DOMAIN t.entries
  <2> SUFFICES ASSUME m.parent # None PROVE m.parent \in DOMAIN t.entries
      OBVIOUS
  <2>1. PICK i \in 1 .. (k + 1) - 1 : c[i] = s.entries[c[k + 1]].parent
      BY <1>1, <1>3, SortedParents
  <2>2. i \in 1 .. k
      OBVIOUS
  <2> QED BY <1>2, <1>3, <2>1, <2>2 DEF EntriesCopied
<1>7. Valid(t, m)
    BY <1>2, <1>3, <1>4, <1>5, <1>6 DEF Valid, NextSequence, ValidEntry, UsedIds
<1>8. /\ DOMAIN u.entries = DOMAIN t.entries \cup {m.id}
      /\ u.entries[m.id] = [seq |-> m.seq, parent |-> m.parent, type |-> m.type]
      /\ \A e \in DOMAIN t.entries : e # m.id => u.entries[e] = t.entries[e]
      /\ u.lanes = t.lanes /\ u.records = t.records /\ u.open = t.open /\ u.labels = t.labels
    BY <1>2, <1>3, Applied, ZenonT(60) DEF EntryApplied
<1>9. u.name = t.name /\ u.sequence = k + 1
    BY <1>2, <1>3 DEF Apply, ApplyEntry, State
<1>10. u \in State
    BY <1>2, ApplyType
<1> HIDE DEF u
<1>11. EntriesCopied(s, c, k + 1, u)
  <2>1. \A i \in 1 .. k + 1 : i \in 1 .. k \/ i = k + 1
      OBVIOUS
  <2>2. \A i \in 1 .. k : i \in 1 .. k + 1
      OBVIOUS
  <2>3. k + 1 \in 1 .. k + 1
      OBVIOUS
  <2>4. \A i \in 1 .. k : c[i] \in DOMAIN t.entries /\ c[i] # m.id
      BY <1>2, <1>4 DEF EntriesCopied
  <2>5. \A i \in 1 .. k : u.entries[c[i]] = [seq |-> i, parent |-> s.entries[c[i]].parent,
                                          type |-> s.entries[c[i]].type]
      BY <1>2, <1>8, <2>4 DEF EntriesCopied
  <2>6. u.entries[c[k + 1]] = [seq |-> k + 1, parent |-> s.entries[c[k + 1]].parent,
                               type |-> s.entries[c[k + 1]].type]
      BY <1>3, <1>8
  <2>7. DOMAIN u.entries = {c[i] : i \in 1 .. k + 1}
    <3>1. DOMAIN u.entries = {c[i] : i \in 1 .. k} \cup {c[k + 1]}
        BY <1>2, <1>3, <1>8 DEF EntriesCopied
    <3> QED BY <3>1, <2>1, <2>2, <2>3
  <2> QED BY <2>1, <2>5, <2>6, <2>7 DEF EntriesCopied
<1>12. LanesCopied(lanes, q, 0, u) /\ LabelsCopied(s, l, 0, u) /\ Unrecorded(u)
    BY <1>2, <1>8 DEF LanesCopied, LabelsCopied, Unrecorded
<1>13. Forked(s, lanes, c, q, l, k + 1, 0, 0, 0, u)
    BY <1>2, <1>9, <1>10, <1>11, <1>12 DEF Forked
<1> QED BY <1>7, <1>13 DEF u

LEMMA CopyLane ==
    ASSUME NEW s \in State, NEW n \in Nat, NEW c, NEW lanes, NEW q \in Seq(DOMAIN lanes), NEW l,
           \A x \in DOMAIN lanes : lanes[x] # None => \E i \in 1 .. n : c[i] = lanes[x],
           NEW k \in Nat, k < Len(q), NEW t, Forked(s, lanes, c, q, l, n, k, 0, 0, t),
           NEW m \in SessionMutation, m = LaneCopy(lanes, q, n, k + 1)
    PROVE  Valid(t, m) /\ Forked(s, lanes, c, q, l, n, k + 1, 0, 0, Apply(t, m))
<1> DEFINE u == Apply(t, m)
<1>1. k + 1 \in 1 .. Len(q) /\ q[k + 1] \in DOMAIN lanes
    OBVIOUS
<1>2. /\ t \in State /\ t.sequence = n + k /\ EntriesCopied(s, c, n, t) /\ LanesCopied(lanes, q, k, t)
      /\ t.name = None /\ LabelsCopied(s, l, 0, t) /\ Unrecorded(t)
    BY DEF Forked
<1>3. /\ m.kind = "lane" /\ m.seq = n + (k + 1) /\ m.lane = q[k + 1] /\ m.leaf = lanes[q[k + 1]]
    BY DEF LaneCopy
<1>4. m.leaf # None => m.leaf \in DOMAIN t.entries
    BY <1>1, <1>2, <1>3 DEF EntriesCopied
<1>5. Valid(t, m)
    BY <1>2, <1>3, <1>4 DEF Valid, NextSequence, ValidLane
<1>6. /\ u.entries = t.entries /\ u.records = t.records /\ u.open = t.open /\ u.labels = t.labels
      /\ u.lanes = Put(t.lanes, m.lane, m.leaf) /\ u.name = t.name /\ u.sequence = m.seq
    BY <1>2, <1>3 DEF Apply, ApplyLane, State
<1>7. u \in State
    BY <1>2, ApplyType
<1> HIDE DEF u
<1>8. LanesCopied(lanes, q, k + 1, u)
  <2>1. \A i \in 1 .. k + 1 : i \in 1 .. k \/ i = k + 1
      OBVIOUS
  <2>2. k + 1 \in 1 .. k + 1 /\ \A i \in 1 .. k : i \in 1 .. k + 1
      OBVIOUS
  <2>3. /\ DOMAIN u.lanes = DOMAIN t.lanes \cup {q[k + 1]}
        /\ u.lanes[q[k + 1]] = lanes[q[k + 1]]
        /\ \A x \in DOMAIN t.lanes : x # q[k + 1] => u.lanes[x] = t.lanes[x]
      BY <1>3, <1>6 DEF Put
  <2>4. /\ DOMAIN t.lanes = {MainLane} \cup {q[i] : i \in 1 .. k}
        /\ \A i \in 1 .. k : t.lanes[q[i]] = lanes[q[i]]
      BY <1>2 DEF LanesCopied
  <2>5. DOMAIN u.lanes = {MainLane} \cup {q[i] : i \in 1 .. k + 1}
      BY <2>1, <2>2, <2>3, <2>4
  <2>6. ASSUME NEW i \in 1 .. k PROVE u.lanes[q[i]] = lanes[q[i]]
    <3>1. q[i] \in DOMAIN t.lanes /\ t.lanes[q[i]] = lanes[q[i]]
        BY <2>4
    <3>2. CASE q[i] = q[k + 1]
        BY <2>3, <3>2
    <3>3. CASE q[i] # q[k + 1]
        BY <2>3, <3>1, <3>3
    <3> QED BY <3>2, <3>3
  <2> QED BY <2>1, <2>3, <2>5, <2>6 DEF LanesCopied
<1>9. EntriesCopied(s, c, n, u) /\ LabelsCopied(s, l, 0, u) /\ Unrecorded(u)
    BY <1>2, <1>6 DEF EntriesCopied, LabelsCopied, Unrecorded
<1>10. Forked(s, lanes, c, q, l, n, k + 1, 0, 0, u)
  <2>1. u.sequence = n + (k + 1) + 0 + 0
      BY <1>3, <1>6
  <2> QED BY <1>2, <1>6, <1>7, <1>8, <1>9, <2>1 DEF Forked
<1> QED BY <1>5, <1>10 DEF u

LEMMA CopyName ==
    ASSUME NEW s \in State, NEW n \in Nat, NEW b \in Nat, NEW c, NEW lanes, NEW q, NEW l,
           s.name # None, NEW t, Forked(s, lanes, c, q, l, n, b, 0, 0, t),
           NEW m \in SessionMutation, m = NameCopy(s, n + b)
    PROVE  Valid(t, m) /\ Forked(s, lanes, c, q, l, n, b, 1, 0, Apply(t, m))
<1> DEFINE u == Apply(t, m)
<1>1. /\ t \in State /\ t.sequence = n + b /\ EntriesCopied(s, c, n, t) /\ LanesCopied(lanes, q, b, t)
      /\ LabelsCopied(s, l, 0, t) /\ Unrecorded(t)
    BY DEF Forked
<1>2. m.kind = "name" /\ m.seq = n + b + 1 /\ m.name = s.name
    BY DEF NameCopy
<1>3. Valid(t, m)
    BY <1>1, <1>2 DEF Valid, NextSequence
<1>4. /\ u.entries = t.entries /\ u.records = t.records /\ u.open = t.open /\ u.labels = t.labels
      /\ u.lanes = t.lanes /\ u.name = s.name /\ u.sequence = m.seq
    BY <1>1, <1>2 DEF Apply, ApplyName, State
<1>5. u \in State
    BY <1>1, ApplyType
<1> HIDE DEF u
<1>6. EntriesCopied(s, c, n, u) /\ LanesCopied(lanes, q, b, u) /\ LabelsCopied(s, l, 0, u) /\ Unrecorded(u)
    BY <1>1, <1>4 DEF EntriesCopied, LanesCopied, LabelsCopied, Unrecorded
<1>7. Forked(s, lanes, c, q, l, n, b, 1, 0, u)
  <2>1. u.sequence = n + b + 1 + 0
      BY <1>2, <1>4
  <2> QED BY <1>4, <1>5, <1>6, <2>1 DEF Forked
<1> QED BY <1>3, <1>7 DEF u

LEMMA CopyLabel ==
    ASSUME NEW s \in State, NEW n \in Nat, NEW b \in Nat, NEW d \in Nat, NEW c, NEW lanes, NEW q,
           NEW l \in Seq(DOMAIN s.labels),
           \A i \in 1 .. Len(l) : \E j \in 1 .. n : c[j] = l[i],
           NEW k \in Nat, k < Len(l), NEW t, Forked(s, lanes, c, q, l, n, b, d, k, t),
           NEW m \in SessionMutation, m = LabelCopy(s, l, n + b + d, k + 1)
    PROVE  Valid(t, m) /\ Forked(s, lanes, c, q, l, n, b, d, k + 1, Apply(t, m))
<1> DEFINE u == Apply(t, m)
<1>1. k + 1 \in 1 .. Len(l) /\ l[k + 1] \in DOMAIN s.labels
    OBVIOUS
<1>2. /\ t \in State /\ t.sequence = n + b + d + k /\ EntriesCopied(s, c, n, t)
      /\ LanesCopied(lanes, q, b, t)
      /\ t.name = (IF d = 0 THEN None ELSE s.name) /\ LabelsCopied(s, l, k, t) /\ Unrecorded(t)
    BY DEF Forked
<1>3. /\ m.kind = "label" /\ m.seq = n + b + d + (k + 1) /\ m.target = l[k + 1]
      /\ m.label = s.labels[l[k + 1]]
    BY DEF LabelCopy
<1>4. m.target \in DOMAIN t.entries
    BY <1>1, <1>2, <1>3 DEF EntriesCopied
<1>5. m.label # None
  <2>1. s.labels[l[k + 1]] \in Text
      BY <1>1, InMap DEF State
  <2> QED BY <1>3, <2>1, SessionAssumption
<1>6. Valid(t, m)
    BY <1>2, <1>3, <1>4 DEF Valid, NextSequence, ValidLabel
<1>7. /\ u.entries = t.entries /\ u.records = t.records /\ u.open = t.open /\ u.lanes = t.lanes
      /\ u.labels = Put(t.labels, m.target, m.label) /\ u.name = t.name /\ u.sequence = m.seq
    BY <1>2, <1>3, <1>5 DEF Apply, ApplyLabel, State
<1>8. u \in State
    BY <1>2, ApplyType
<1> HIDE DEF u
<1>9. LabelsCopied(s, l, k + 1, u)
  <2>1. \A i \in 1 .. k + 1 : i \in 1 .. k \/ i = k + 1
      OBVIOUS
  <2>2. k + 1 \in 1 .. k + 1 /\ \A i \in 1 .. k : i \in 1 .. k + 1
      OBVIOUS
  <2>3. /\ DOMAIN u.labels = DOMAIN t.labels \cup {l[k + 1]}
        /\ u.labels[l[k + 1]] = s.labels[l[k + 1]]
        /\ \A x \in DOMAIN t.labels : x # l[k + 1] => u.labels[x] = t.labels[x]
      BY <1>3, <1>7 DEF Put
  <2>4. /\ DOMAIN t.labels = {l[i] : i \in 1 .. k}
        /\ \A i \in 1 .. k : t.labels[l[i]] = s.labels[l[i]]
      BY <1>2 DEF LabelsCopied
  <2>5. DOMAIN u.labels = {l[i] : i \in 1 .. k + 1}
      BY <2>1, <2>2, <2>3, <2>4
  <2>6. ASSUME NEW i \in 1 .. k PROVE u.labels[l[i]] = s.labels[l[i]]
    <3>1. l[i] \in DOMAIN t.labels /\ t.labels[l[i]] = s.labels[l[i]]
        BY <2>4
    <3>2. CASE l[i] = l[k + 1]
        BY <2>3, <3>2
    <3>3. CASE l[i] # l[k + 1]
        BY <2>3, <3>1, <3>3
    <3> QED BY <3>2, <3>3
  <2> QED BY <2>1, <2>3, <2>5, <2>6 DEF LabelsCopied
<1>10. EntriesCopied(s, c, n, u) /\ LanesCopied(lanes, q, b, u) /\ Unrecorded(u)
    BY <1>2, <1>7 DEF EntriesCopied, LanesCopied, Unrecorded
<1>11. Forked(s, lanes, c, q, l, n, b, d, k + 1, u)
  <2>1. u.sequence = n + b + d + (k + 1)
      BY <1>3, <1>7
  <2> QED BY <1>2, <1>7, <1>8, <1>9, <1>10, <2>1 DEF Forked
<1> QED BY <1>6, <1>11 DEF u

\* A stretch of a replay: if each of its mutations leads from the sessions P[i] into P[i + 1],
\* the replay is in P[k] after k of them.
LEMMA ReplayWalks ==
    ASSUME NEW ms, NEW n \in Nat, NEW g, Passes(ms, n, g), NEW b \in Nat, NEW k \in Nat, b + k <= n,
           NEW P, \A i \in 0 .. k : P[i] \subseteq State, g[b] \in P[0],
           \A i \in 0 .. k - 1 : \A t \in P[i] :
                Valid(t, ms[b + (i + 1)]) /\ Apply(t, ms[b + (i + 1)]) \in P[i + 1]
    PROVE  g[b + k] \in P[k]
<1> DEFINE M == {i \in Nat : i <= k => g[b + i] \in P[i]}
<1>1. 0 \in M
  <2>1. b + 0 = b
      OBVIOUS
  <2> QED BY <2>1
<1>2. ASSUME NEW i \in Nat, i \in M PROVE i + 1 \in M
  <2> SUFFICES ASSUME i + 1 <= k PROVE g[b + (i + 1)] \in P[i + 1]
      OBVIOUS
  <2>1. /\ i <= k /\ i \in 0 .. k /\ i \in 0 .. k - 1
        /\ b + (i + 1) \in 1 .. n /\ (b + (i + 1)) - 1 = b + i
      OBVIOUS
  <2>2. g[b + i] \in P[i]
      BY <1>2, <2>1
  <2>3. Valid(g[b + i], ms[b + (i + 1)]) /\ Apply(g[b + i], ms[b + (i + 1)]) \in P[i + 1]
      BY <2>1, <2>2
  <2>4. g[b + (i + 1)] = Replayed(g[b + i], ms[b + (i + 1)])
    <3>1. \A j \in 1 .. n : g[j] = Replayed(g[j - 1], ms[j])
        BY PassesStep
    <3> QED BY <2>1, <3>1
  <2>5. g[b + i] # Invalid
      BY <2>1, <2>2, StateNotInvalid
  <2> QED BY <2>3, <2>4, <2>5 DEF Replayed
<1>3. Nat \subseteq M
  <2> HIDE DEF M
  <2> QED BY <1>1, <1>2, EveryNumber
<1> QED BY <1>3

\* Replaying the mutations of a fork never fails and gives the fork.
LEMMA ForkReplays ==
    ASSUME NEW s \in State, LogComplete(s), ParentsEarlier(s), NEW F \in SUBSET DOMAIN s.entries,
           ParentClosed(s, F), NEW c, Sorted(s, F, c), NEW lanes, NEW q \in Seq(DOMAIN lanes),
           \A x \in DOMAIN lanes : lanes[x] # None => lanes[x] \in F,
           NEW l \in Seq(DOMAIN s.labels), \A i \in 1 .. Len(l) : l[i] \in F,
           NEW ms, ForkLog(s, lanes, c, q, l, ms)
    PROVE  Forked(s, lanes, c, q, l, Len(c), Len(q), Names(s), Len(l), Replay(ms))
<1> DEFINE Stage(a, b, d, z, t) == Forked(s, lanes, c, q, l, a, b, d, z, t)
<1>1. PICK nc \in Nat : nc = Len(c)
    BY DEF Sorted
<1>2. PICK nq \in Nat : nq = Len(q)
    OBVIOUS
<1>3. PICK nl \in Nat : nl = Len(l)
    OBVIOUS
<1>4. PICK nd \in Nat : nd = Names(s) /\ (nd = 0 \/ nd = 1) /\ (nd = 1 => s.name # None)
    BY DEF Names
<1>5. /\ ms \in Seq(SessionMutation)
      /\ Len(ms) = nc + nq + nd + nl
      /\ \A i \in 1 .. nc : ms[i] = EntryCopy(s, c, i)
      /\ \A i \in 1 .. nq : ms[nc + i] = LaneCopy(lanes, q, nc, i)
      /\ \A i \in 1 .. nd : ms[nc + nq + i] = NameCopy(s, nc + nq)
      /\ \A i \in 1 .. nl : ms[nc + nq + nd + i] = LabelCopy(s, l, nc + nq + nd, i)
    BY <1>1, <1>2, <1>3, <1>4 DEF ForkLog
<1>6. PICK n \in Nat : n = nc + nq + nd + nl /\ n = Len(ms)
    BY <1>5
<1>7. \A i \in 1 .. n : ms[i] \in SessionMutation
    BY <1>5, <1>6
<1>8. PICK g : Passes(ms, n, g)
    BY PassesExist
<1>9. Stage(0, 0, 0, 0, g[0])
  <2>1. g[0] = InitState
      BY <1>8, PassesStep
  <2>2. Stage(0, 0, 0, 0, InitState)
      BY ForkedFirst
  <2> QED BY <2>1, <2>2
<1>10. \A a, b, d, z, t : Stage(a, b, d, z, t) => t \in State
    BY DEF Forked
<1>11. Stage(nc, 0, 0, 0, g[nc])
  <2> DEFINE P == [i \in 0 .. nc |-> {t \in State : Stage(i, 0, 0, 0, t)}]
  <2>1. \A i \in 0 .. nc : P[i] \subseteq State
      OBVIOUS
  <2>2. g[0] \in P[0]
      BY <1>9, <1>10
  <2>3. ASSUME NEW i \in 0 .. nc - 1, NEW t \in P[i]
        PROVE  Valid(t, ms[0 + (i + 1)]) /\ Apply(t, ms[0 + (i + 1)]) \in P[i + 1]
    <3>1. i \in 0 .. nc /\ i + 1 \in 0 .. nc /\ i + 1 \in 1 .. nc /\ i + 1 \in 1 .. n
          /\ 0 + (i + 1) = i + 1 /\ i < nc /\ i \in Nat
        BY <1>6
    <3>2. Stage(i, 0, 0, 0, t)
        BY <3>1
    <3>3. ms[i + 1] = EntryCopy(s, c, i + 1) /\ ms[i + 1] \in SessionMutation
        BY <1>5, <1>7, <3>1
    <3>4. Valid(t, ms[i + 1]) /\ Stage(i + 1, 0, 0, 0, Apply(t, ms[i + 1]))
        BY <1>1, <3>1, <3>2, <3>3, CopyEntry
    <3>5. Apply(t, ms[i + 1]) \in State
        BY <1>10, <3>4
    <3> QED BY <3>1, <3>4, <3>5
  <2>4. 0 + nc <= n /\ 0 + nc = nc
      BY <1>6
  <2>5. g[0 + nc] \in P[nc]
    <3> HIDE DEF P
    <3> QED BY <1>8, <2>1, <2>2, <2>3, <2>4, ReplayWalks
  <2>6. nc \in 0 .. nc
      OBVIOUS
  <2> QED BY <2>4, <2>5, <2>6
<1>12. Stage(nc, nq, 0, 0, g[nc + nq])
  <2> DEFINE P == [i \in 0 .. nq |-> {t \in State : Stage(nc, i, 0, 0, t)}]
  <2>1. \A i \in 0 .. nq : P[i] \subseteq State
      OBVIOUS
  <2>2. g[nc] \in P[0]
      BY <1>10, <1>11
  <2>3. \A x \in DOMAIN lanes : lanes[x] # None => \E i \in 1 .. nc : c[i] = lanes[x]
      BY <1>1 DEF Sorted
  <2>4. ASSUME NEW i \in 0 .. nq - 1, NEW t \in P[i]
        PROVE  Valid(t, ms[nc + (i + 1)]) /\ Apply(t, ms[nc + (i + 1)]) \in P[i + 1]
    <3>1. /\ i \in 0 .. nq /\ i + 1 \in 0 .. nq /\ i + 1 \in 1 .. nq /\ nc + (i + 1) \in 1 .. n
          /\ i < nq /\ i \in Nat
        BY <1>6
    <3>2. Stage(nc, i, 0, 0, t)
        BY <3>1
    <3> DEFINE m == ms[nc + (i + 1)]
    <3>3. m = LaneCopy(lanes, q, nc, i + 1) /\ m \in SessionMutation
        BY <1>5, <1>7, <3>1
    <3> HIDE DEF m
    <3>4. Valid(t, m) /\ Stage(nc, i + 1, 0, 0, Apply(t, m))
        BY <1>2, <2>3, <3>1, <3>2, <3>3, CopyLane
    <3>5. Apply(t, m) \in State
        BY <1>10, <3>4
    <3> QED BY <3>1, <3>4, <3>5 DEF m
  <2>5. nc + nq <= n
      BY <1>6
  <2>6. g[nc + nq] \in P[nq]
    <3> HIDE DEF P
    <3> QED BY <1>8, <2>1, <2>2, <2>4, <2>5, ReplayWalks
  <2>7. nq \in 0 .. nq
      OBVIOUS
  <2> QED BY <2>6, <2>7
<1>13. Stage(nc, nq, nd, 0, g[nc + nq + nd])
  <2>1. CASE nd = 0
    <3>1. nc + nq + nd = nc + nq
        BY <2>1
    <3> QED BY <1>12, <2>1, <3>1
  <2>2. CASE nd = 1
    <3> DEFINE m == ms[nc + nq + 1]
    <3>1. /\ nc + nq + 1 \in 1 .. n /\ nc + nq + nd = nc + nq + 1 /\ (nc + nq + 1) - 1 = nc + nq
          /\ 1 \in 1 .. nd /\ nc + nq \in Nat
        BY <1>6, <2>2
    <3>2. m = NameCopy(s, nc + nq) /\ m \in SessionMutation
        BY <1>5, <1>7, <3>1
    <3>3. g[nc + nq + 1] = Replayed(g[nc + nq], m)
      <4>1. \A j \in 1 .. n : g[j] = Replayed(g[j - 1], ms[j])
          BY <1>8, PassesStep
      <4> QED BY <3>1, <4>1
    <3> HIDE DEF m
    <3>4. Valid(g[nc + nq], m) /\ Stage(nc, nq, 1, 0, Apply(g[nc + nq], m))
        BY <1>4, <1>12, <2>2, <3>2, CopyName
    <3>5. g[nc + nq] # Invalid
        BY <1>10, <1>12, StateNotInvalid
    <3> QED BY <2>2, <3>1, <3>3, <3>4, <3>5 DEF Replayed
  <2> QED BY <1>4, <2>1, <2>2
<1>14. Stage(nc, nq, nd, nl, g[nc + nq + nd + nl])
  <2> DEFINE P == [i \in 0 .. nl |-> {t \in State : Stage(nc, nq, nd, i, t)}]
  <2>1. \A i \in 0 .. nl : P[i] \subseteq State
      OBVIOUS
  <2>2. g[nc + nq + nd] \in P[0]
      BY <1>10, <1>13
  <2>3. \A i \in 1 .. Len(l) : \E j \in 1 .. nc : c[j] = l[i]
      BY <1>1 DEF Sorted
  <2>4. ASSUME NEW i \in 0 .. nl - 1, NEW t \in P[i]
        PROVE  Valid(t, ms[nc + nq + nd + (i + 1)]) /\ Apply(t, ms[nc + nq + nd + (i + 1)]) \in P[i + 1]
    <3>1. /\ i \in 0 .. nl /\ i + 1 \in 0 .. nl /\ i + 1 \in 1 .. nl
          /\ nc + nq + nd + (i + 1) \in 1 .. n /\ i < nl /\ i \in Nat
        BY <1>6
    <3>2. Stage(nc, nq, nd, i, t)
        BY <3>1
    <3> DEFINE m == ms[nc + nq + nd + (i + 1)]
    <3>3. m = LabelCopy(s, l, nc + nq + nd, i + 1) /\ m \in SessionMutation
        BY <1>5, <1>7, <3>1
    <3> HIDE DEF m
    <3>4. Valid(t, m) /\ Stage(nc, nq, nd, i + 1, Apply(t, m))
        BY <1>3, <2>3, <3>1, <3>2, <3>3, CopyLabel
    <3>5. Apply(t, m) \in State
        BY <1>10, <3>4
    <3> QED BY <3>1, <3>4, <3>5 DEF m
  <2>5. nc + nq + nd + nl <= n /\ nc + nq + nd \in Nat
      BY <1>6
  <2>6. g[nc + nq + nd + nl] \in P[nl]
    <3> HIDE DEF P
    <3> QED BY <1>8, <2>1, <2>2, <2>4, <2>5, ReplayWalks
  <2>7. nl \in 0 .. nl
      OBVIOUS
  <2> QED BY <2>6, <2>7
<1>15. Replay(ms) = g[nc + nq + nd + nl]
    BY <1>6, <1>8, ReplayPasses
<1> QED BY <1>1, <1>2, <1>3, <1>4, <1>14, <1>15

\* What a fork copies: entries of the source with all their ancestors, lanes that point at
\* copied entries, the main lane among them.
LEMMA ForkSelects ==
    ASSUME NEW s \in State, Coherent(s), IsFiniteSet(DOMAIN s.lanes),
           NEW o \in ForkOptions, ForkAccepts(s, o),
           NEW F, F = ForkEntries(s, o), NEW lanes, lanes = ForkLanes(s, o)
    PROVE  /\ F \in SUBSET DOMAIN s.entries /\ ParentClosed(s, F)
           /\ lanes \in Map(Lane, Id \cup {None}) /\ MainLane \in DOMAIN lanes
           /\ IsFiniteSet(DOMAIN lanes)
           /\ \A x \in DOMAIN lanes : lanes[x] # None => lanes[x] \in F
<1>1. /\ ParentsEarlier(s) /\ PointersExist(s)
      /\ s.lanes \in Map(Lane, Id \cup {None}) /\ DOMAIN s.entries \subseteq Id
    BY InMap DEF Coherent, State
<1>2. ParentClosed(s, DOMAIN s.entries)
    BY <1>1 DEF ParentClosed, ParentsEarlier
<1>3. CASE o.kind = "tree"
  <2>1. F = DOMAIN s.entries /\ lanes = s.lanes
      BY <1>3 DEF ForkEntries, ForkLanes
  <2> QED BY <1>1, <1>2, <2>1 DEF PointersExist
<1>4. CASE o.kind = "branch"
  <2> DEFINE e == ForkSelected(s, o)
             x == ForkTarget(s, o)
  <2>1. e # None => e \in DOMAIN s.entries
      BY <1>4 DEF ForkAccepts
  <2>2. x # None => x \in DOMAIN s.entries
      BY <1>1, <2>1 DEF ForkTarget, ParentsEarlier
  <2>3. /\ F = IF x = None THEN {} ELSE Branch(s, x)
        /\ lanes = [y \in {MainLane} |-> x]
      BY <1>4 DEF ForkEntries, ForkLanes
  <2> HIDE DEF x
  <2>4. DOMAIN lanes = {MainLane} /\ lanes[MainLane] = x
      BY <2>3
  <2>5. lanes \in Map(Lane, Id \cup {None})
    <3>1. lanes \in [{MainLane} -> Id \cup {None}]
        BY <1>1, <2>2, <2>3
    <3> QED BY <3>1, SessionAssumption DEF Map
  <2>6. IsFiniteSet(DOMAIN lanes)
      BY <2>4, FS_Singleton
  <2>7. CASE x = None
      BY <2>3, <2>4, <2>5, <2>6, <2>7 DEF ParentClosed
  <2>8. CASE x # None
    <3>1. F = Branch(s, x)
        BY <2>3, <2>8
    <3>2. F \in SUBSET DOMAIN s.entries
        BY <3>1 DEF Branch
    <3>3. x \in F
        BY <2>2, <2>8, <3>1 DEF Branch
    <3>4. ParentClosed(s, F)
      <4> SUFFICES ASSUME NEW y \in F, s.entries[y].parent # None
                   PROVE  s.entries[y].parent \in F
          BY DEF ParentClosed
      <4>1. s.entries[y].parent \in DOMAIN s.entries
          BY <1>1, <3>2 DEF ParentsEarlier
      <4>2. ASSUME NEW S \in SUBSET DOMAIN s.entries, x \in S, ParentClosed(s, S)
            PROVE  s.entries[y].parent \in S
        <5>1. y \in S
            BY <3>1, <4>2 DEF Branch
        <5> QED BY <4>2, <5>1 DEF ParentClosed
      <4> QED BY <3>1, <4>1, <4>2 DEF Branch
    <3> QED BY <2>4, <2>5, <2>6, <3>2, <3>3, <3>4
  <2> QED BY <2>7, <2>8
<1> QED BY <1>3, <1>4 DEF ForkOptions

\* A branch of a fork is the branch of its source.
LEMMA ForkBranches ==
    ASSUME NEW s, NEW f, NEW F, F \in SUBSET DOMAIN s.entries, ParentClosed(s, F),
           DOMAIN f.entries = F, \A e \in F : f.entries[e].parent = s.entries[e].parent,
           NEW e \in F
    PROVE  Branch(f, e) = Branch(s, e)
<1>1. \A S \in SUBSET F : ParentClosed(f, S) <=> ParentClosed(s, S)
    BY DEF ParentClosed
<1>2. ASSUME NEW x \in Branch(f, e) PROVE x \in Branch(s, e)
  <2>1. x \in F
      BY <1>2 DEF Branch
  <2>2. ASSUME NEW S \in SUBSET DOMAIN s.entries, e \in S, ParentClosed(s, S)
        PROVE  x \in S
    <3>1. S \cap F \in SUBSET F /\ e \in S \cap F
        BY <2>2
    <3>2. ParentClosed(s, S \cap F)
        BY <2>2 DEF ParentClosed
    <3>3. ParentClosed(f, S \cap F)
        BY <1>1, <3>1, <3>2
    <3>4. x \in S \cap F
        BY <1>2, <3>1, <3>3 DEF Branch
    <3> QED BY <3>4
  <2> QED BY <2>1, <2>2 DEF Branch
<1>3. ASSUME NEW x \in Branch(s, e) PROVE x \in Branch(f, e)
  <2>1. x \in F
      BY <1>3 DEF Branch
  <2>2. ASSUME NEW S \in SUBSET F, e \in S, ParentClosed(f, S)
        PROVE  x \in S
    <3>1. ParentClosed(s, S) /\ S \in SUBSET DOMAIN s.entries
        BY <1>1, <2>2
    <3> QED BY <1>3, <2>2, <3>1 DEF Branch
  <2> QED BY <2>1, <2>2 DEF Branch
<1> QED BY <1>2, <1>3

\* The copies keep their order.
LEMMA SortedOrder ==
    ASSUME NEW s \in State, LogComplete(s), NEW F \in SUBSET DOMAIN s.entries,
           NEW c, Sorted(s, F, c), NEW i \in 1 .. Len(c), NEW j \in 1 .. Len(c),
           s.entries[c[i]].seq < s.entries[c[j]].seq
    PROVE  i < j
<1>1. c \in Seq(F) /\ Len(c) \in Nat /\ c[i] \in F /\ c[j] \in F
    BY DEF Sorted
<1>2. s.entries[c[i]].seq \in Nat /\ s.entries[c[j]].seq \in Nat
    BY <1>1 DEF LogComplete
<1>3. j < i => s.entries[c[j]].seq < s.entries[c[i]].seq
    BY DEF Sorted
<1> QED BY <1>1, <1>2, <1>3

\* A fork that is accepted can be built, and what is built is faithful.
THEOREM ForksOfSessions ==
    ASSUME NEW s \in State, Coherent(s), IsFiniteSet(DOMAIN s.lanes),
           NEW o \in ForkOptions, ForkAccepts(s, o)
    PROVE  FaithfulFork(s, o)
<1> DEFINE F == ForkEntries(s, o)
           lanes == ForkLanes(s, o)
           c == OldestFirst(s, F)
           q == LaneOrder(lanes)
           l == Chosen(c, DOMAIN s.labels)
           ms == ForkMutations(s, o)
           f == Replay(ms)
<1>1. /\ F \in SUBSET DOMAIN s.entries /\ ParentClosed(s, F)
      /\ lanes \in Map(Lane, Id \cup {None}) /\ MainLane \in DOMAIN lanes
      /\ IsFiniteSet(DOMAIN lanes)
      /\ \A x \in DOMAIN lanes : lanes[x] # None => lanes[x] \in F
    BY ForkSelects
<1>2. LogComplete(s) /\ ParentsEarlier(s)
    BY DEF Coherent
<1>3. /\ Sorted(s, F, c) /\ c \in Seq(F) /\ c \in Seq(DOMAIN s.entries)
      /\ \A e \in F : \E i \in 1 .. Len(c) : c[i] = e
  <2> HIDE DEF F
  <2>1. Sorted(s, F, c)
      BY <1>1, <1>2, OldestFirstSorted
  <2> HIDE DEF c
  <2>2. c \in Seq(F) /\ \A e \in F : \E i \in 1 .. Len(c) : c[i] = e
      BY <2>1 DEF Sorted
  <2>3. c \in Seq(DOMAIN s.entries)
      BY <1>1, <2>2
  <2> QED BY <2>1, <2>2, <2>3
<1>4. /\ q \in Seq(DOMAIN lanes)
      /\ \A x \in DOMAIN lanes : \E i \in 1 .. Len(q) : q[i] = x
  <2> HIDE DEF lanes
  <2> QED BY <1>1, LanesInOrder
<1>5. /\ l \in Seq(DOMAIN s.labels)
      /\ \A i \in 1 .. Len(l) : l[i] \in F
      /\ \A e \in F \cap DOMAIN s.labels : \E i \in 1 .. Len(l) : l[i] = e
  <2> HIDE DEF c, F
  <2>1. PICK p : Picks(c, DOMAIN s.labels, Len(c), l, p)
      BY <1>3, ChosenPicks
  <2> HIDE DEF l
  <2>2. /\ l \in Seq(DOMAIN s.labels)
        /\ p \in [1 .. Len(l) -> 1 .. Len(c)]
        /\ \A i \in 1 .. Len(l) : l[i] = c[p[i]]
        /\ \A k \in 1 .. Len(c) : c[k] \in DOMAIN s.labels => \E i \in 1 .. Len(l) : p[i] = k
      BY <2>1 DEF Picks
  <2>3. ASSUME NEW i \in 1 .. Len(l) PROVE l[i] \in F
    <3>1. p[i] \in 1 .. Len(c) /\ l[i] = c[p[i]]
        BY <2>2
    <3> QED BY <1>3, <3>1
  <2>4. ASSUME NEW e \in F \cap DOMAIN s.labels PROVE \E i \in 1 .. Len(l) : l[i] = e
    <3>1. PICK k \in 1 .. Len(c) : c[k] = e
        BY <1>3
    <3>2. PICK i \in 1 .. Len(l) : p[i] = k
        BY <2>2, <3>1
    <3>3. l[i] = e
        BY <2>2, <3>1, <3>2
    <3> QED BY <3>3
  <2> QED BY <2>2, <2>3, <2>4
<1>6. ForkLog(s, lanes, c, q, l, ms)
    BY <1>1, <1>3, <1>4, <1>5, ForkMutationsAre
<1> HIDE DEF F, lanes, c, q, l, ms
<1>7. Forked(s, lanes, c, q, l, Len(c), Len(q), Names(s), Len(l), f)
    BY <1>1, <1>2, <1>3, <1>4, <1>5, <1>6, ForkReplays
<1>8. ms \in Seq(SessionMutation)
    BY <1>6 DEF ForkLog
<1>9. /\ f \in State
      /\ EntriesCopied(s, c, Len(c), f)
      /\ LanesCopied(lanes, q, Len(q), f)
      /\ f.name = IF Names(s) = 0 THEN None ELSE s.name
      /\ LabelsCopied(s, l, Len(l), f)
      /\ f.records = InitState.records /\ f.open = InitState.open
    BY <1>7 DEF Forked, Unrecorded
<1>10. f # Invalid /\ WellFormed(f)
  <2>1. f # Invalid
      BY <1>9, StateNotInvalid
  <2>2. Coherent(f)
      BY <1>8, <2>1, ReplaysAreCoherent
  <2>3. OneOpenOperation(f)
    <3>1. \A x \in Lane : f.open[x] = {}
        BY <1>9 DEF InitState
    <3> QED BY <3>1 DEF OneOpenOperation
  <2> QED BY <2>1, <2>2, <2>3 DEF WellFormed
<1> HIDE DEF f
<1>11. DOMAIN f.entries = F
  <2>1. DOMAIN f.entries = {c[i] : i \in 1 .. Len(c)}
      BY <1>9 DEF EntriesCopied
  <2>2. \A i \in 1 .. Len(c) : c[i] \in F
      BY <1>3
  <2> QED BY <1>3, <2>1, <2>2
<1>12. ASSUME NEW e \in F
       PROVE  \E i \in 1 .. Len(c) : /\ c[i] = e /\ f.entries[e].seq = i
                                     /\ f.entries[e].parent = s.entries[e].parent
                                     /\ f.entries[e].type = s.entries[e].type
  <2>1. PICK i \in 1 .. Len(c) : c[i] = e
      BY <1>3
  <2>2. f.entries[e] = [seq |-> i, parent |-> s.entries[e].parent, type |-> s.entries[e].type]
      BY <1>9, <2>1 DEF EntriesCopied
  <2> QED BY <2>1, <2>2
<1>13. ASSUME NEW e \in F
       PROVE  /\ f.entries[e].parent = s.entries[e].parent
              /\ f.entries[e].type = s.entries[e].type
              /\ Branch(f, e) = Branch(s, e)
  <2>1. \A x \in F : f.entries[x].parent = s.entries[x].parent /\ f.entries[x].type = s.entries[x].type
      BY <1>12
  <2>2. F \in SUBSET DOMAIN s.entries /\ ParentClosed(s, F)
      BY <1>1
  <2>3. Branch(f, e) = Branch(s, e)
      BY <1>11, <2>1, <2>2, ForkBranches
  <2> QED BY <2>1, <2>3
<1>14. ASSUME NEW e1 \in F, NEW e2 \in F, s.entries[e1].seq < s.entries[e2].seq
       PROVE  f.entries[e1].seq < f.entries[e2].seq
  <2>1. PICK i \in 1 .. Len(c) : c[i] = e1 /\ f.entries[e1].seq = i
      BY <1>12
  <2>2. PICK j \in 1 .. Len(c) : c[j] = e2 /\ f.entries[e2].seq = j
      BY <1>12
  <2>3. i < j
      BY <1>1, <1>2, <1>3, <1>14, <2>1, <2>2, SortedOrder
  <2> QED BY <2>1, <2>2, <2>3
<1>15. f.lanes = lanes
  <2>1. /\ DOMAIN f.lanes = {MainLane} \cup {q[i] : i \in 1 .. Len(q)}
        /\ \A i \in 1 .. Len(q) : f.lanes[q[i]] = lanes[q[i]]
      BY <1>9 DEF LanesCopied
  <2>2. DOMAIN f.lanes = DOMAIN lanes
    <3>1. \A i \in 1 .. Len(q) : q[i] \in DOMAIN lanes
        BY <1>4
    <3>2. MainLane \in DOMAIN lanes
        BY <1>1
    <3>3. \A x \in DOMAIN lanes : \E i \in 1 .. Len(q) : q[i] = x
        BY <1>4
    <3>4. \A x : x \in DOMAIN f.lanes => x \in DOMAIN lanes
        BY <2>1, <3>1, <3>2
    <3>5. \A x : x \in DOMAIN lanes => x \in DOMAIN f.lanes
        BY <2>1, <3>3
    <3> QED BY <3>4, <3>5
  <2>3. ASSUME NEW x \in DOMAIN lanes PROVE f.lanes[x] = lanes[x]
    <3>1. PICK i \in 1 .. Len(q) : q[i] = x
        BY <1>4
    <3> QED BY <2>1, <3>1
  <2>4. f.lanes = [x \in DOMAIN f.lanes |-> f.lanes[x]] /\ lanes = [x \in DOMAIN lanes |-> lanes[x]]
    <3>1. f.lanes \in Map(Lane, Id \cup {None})
        BY <1>9 DEF State
    <3>2. f.lanes \in [DOMAIN f.lanes -> Id \cup {None}] /\ lanes \in [DOMAIN lanes -> Id \cup {None}]
        BY <1>1, <3>1, InMap
    <3> QED BY <3>2
  <2> QED BY <2>2, <2>3, <2>4
<1>16. f.name = s.name
    BY <1>9 DEF Names
<1>17. f.labels = [e \in DOMAIN s.labels \cap F |-> s.labels[e]]
  <2>1. /\ DOMAIN f.labels = {l[i] : i \in 1 .. Len(l)}
        /\ \A i \in 1 .. Len(l) : f.labels[l[i]] = s.labels[l[i]]
      BY <1>9 DEF LabelsCopied
  <2>2. DOMAIN f.labels = DOMAIN s.labels \cap F
    <3>1. \A i \in 1 .. Len(l) : l[i] \in DOMAIN s.labels /\ l[i] \in F
        BY <1>5
    <3> QED BY <1>5, <2>1, <3>1
  <2>3. ASSUME NEW e \in DOMAIN s.labels \cap F PROVE f.labels[e] = s.labels[e]
    <3>1. PICK i \in 1 .. Len(l) : l[i] = e
        BY <1>5
    <3> QED BY <2>1, <3>1
  <2>4. f.labels = [e \in DOMAIN f.labels |-> f.labels[e]]
    <3>1. f.labels \in Map(Id, Text)
        BY <1>9 DEF State
    <3>2. f.labels \in [DOMAIN f.labels -> Text]
        BY <3>1, InMap
    <3> QED BY <3>2
  <2> QED BY <2>2, <2>3, <2>4
<1> QED BY <1>9, <1>10, <1>11, <1>13, <1>14, <1>15, <1>16, <1>17 DEF FaithfulFork, f, ms, F, lanes

\* The messages of a session.
Messages(s) == {e \in DOMAIN s.entries : s.entries[e].type = "message"}

\* A session has finitely many entries and lanes, and counts its messages.
Counted(s) ==
    /\ IsFiniteSet(DOMAIN s.entries)
    /\ IsFiniteSet(DOMAIN s.lanes)
    /\ CountsMessages(s)

LEMMA InitCounted == Counted(InitState)
<1>1. DOMAIN InitState.entries = {} /\ DOMAIN InitState.lanes = {MainLane} /\ InitState.messages = 0
    BY DEF InitState
<1>2. {e \in DOMAIN InitState.entries : InitState.entries[e].type = "message"} = {}
    BY <1>1
<1>3. IsFiniteSet({}) /\ Cardinality({}) = 0 /\ IsFiniteSet({MainLane})
    BY FS_EmptySet, FS_Singleton
<1> QED BY <1>1, <1>2, <1>3 DEF Counted, CountsMessages

\* An entry of a new id that is a message is one more message.
LEMMA ApplyCounted ==
    ASSUME NEW s \in State, NEW m \in SessionMutation, Valid(s, m), Counted(s)
    PROVE  Counted(Apply(s, m))
<1> SUFFICES ASSUME NEW t, t = Apply(s, m) PROVE Counted(t)
    OBVIOUS
<1>1. IsFiniteSet(DOMAIN s.entries) /\ IsFiniteSet(DOMAIN s.lanes) /\ s.messages = Cardinality(Messages(s))
    BY DEF Counted, CountsMessages, Messages
<1>2. IsFiniteSet(Messages(s))
  <2>1. Messages(s) \in SUBSET DOMAIN s.entries
      BY DEF Messages
  <2> QED BY <1>1, <2>1, FS_Subset
<1>3. IsFiniteSet(DOMAIN t.lanes)
  <2>1. t.lanes \in {s.lanes, Put(s.lanes, m.lane, m.id), Put(s.lanes, m.lane, m.leaf)}
      BY KindType, Applied DEF EntryApplied, RecordApplied, OtherApplied
  <2>2. DOMAIN t.lanes \in {DOMAIN s.lanes, DOMAIN s.lanes \cup {m.lane}}
      BY <2>1 DEF Put
  <2> QED BY <1>1, <2>2, FS_AddElement
<1>4. CASE m.kind # "entry"
  <2>1. t.entries = s.entries
      BY <1>4, Applied DEF RecordApplied, OtherApplied
  <2>2. t.messages = s.messages
      BY <1>4, KindType DEF Apply, ApplyRecord, ApplyLane, ApplyName, ApplyLabel, State
  <2> QED BY <1>1, <1>3, <2>1, <2>2 DEF Counted, CountsMessages, Messages
<1>5. CASE m.kind = "entry"
  <2>1. /\ DOMAIN t.entries = DOMAIN s.entries \cup {m.id}
        /\ t.entries[m.id] = [seq |-> m.seq, parent |-> m.parent, type |-> m.type]
        /\ \A e \in DOMAIN s.entries : e # m.id => t.entries[e] = s.entries[e]
      BY <1>5, Applied, ZenonT(60) DEF EntryApplied
  <2>2. m.id \notin DOMAIN s.entries
      BY <1>5 DEF Valid, ValidEntry, UsedIds
  <2>3. t.messages = IF m.type = "message" THEN s.messages + 1 ELSE s.messages
      BY <1>5 DEF Apply, ApplyEntry, State
  <2>4. IsFiniteSet(DOMAIN t.entries)
      BY <1>1, <2>1, FS_AddElement
  <2>5. Messages(t) = IF m.type = "message" THEN Messages(s) \cup {m.id} ELSE Messages(s)
      BY <2>1, <2>2 DEF Messages
  <2>6. m.id \notin Messages(s)
      BY <2>2 DEF Messages
  <2>7. t.messages = Cardinality(Messages(t))
      BY <1>1, <1>2, <2>3, <2>5, <2>6, FS_AddElement
  <2> QED BY <1>3, <2>4, <2>7 DEF Counted, CountsMessages, Messages
<1> QED BY <1>4, <1>5

\* A fork counts its messages like any session.
LEMMA ReplayCounted ==
    ASSUME NEW ms \in Seq(SessionMutation), Replay(ms) # Invalid
    PROVE  Counted(Replay(ms))
<1> DEFINE P == {s \in State : Counted(s)}
<1>1. InitState \in P
    BY InitStateType, InitCounted
<1>2. ASSUME NEW i \in 1 .. Len(ms), NEW s \in P, Valid(s, ms[i])
      PROVE  Apply(s, ms[i]) \in P
  <2>1. ms[i] \in SessionMutation
      OBVIOUS
  <2> QED BY <1>2, <2>1, ApplyType, ApplyCounted
<1>3. Replay(ms) \in P \cup {Invalid}
  <2> HIDE DEF P
  <2> QED BY <1>1, <1>2, ReplayStays
<1> QED BY <1>3

\* What every storage is.
Sound(s) == s \in State /\ WellFormed(s) /\ Counted(s)

LEMMA InitSound == Sound(InitState)
BY InitStateType, InitWellFormed, InitCounted DEF Sound

LEMMA OperateSound ==
    ASSUME NEW s, Sound(s), NEW r \in Request, Accepts(s, r)
    PROVE  Sound(Apply(s, MutationOf(s, r)))
<1>1. s \in State /\ WellFormed(s) /\ PointersExist(s) /\ Counted(s)
    BY DEF Sound, WellFormed, Coherent
<1>2. MutationOf(s, r) \in SessionMutation
    BY <1>1, MutationOfType
<1>3. Valid(s, MutationOf(s, r)) /\ OpensAlone(s, MutationOf(s, r))
    BY <1>1, AcceptedIsValid
<1> QED BY <1>1, <1>2, <1>3, ApplyType, ApplyKeepsWellFormed, ApplyCounted DEF Sound

\* The log of a fork holds mutations.
LEMMA ForkLogType ==
    ASSUME NEW s, Sound(s), NEW o \in ForkOptions, ForkAccepts(s, o)
    PROVE  ForkMutations(s, o) \in Seq(SessionMutation)
<1> DEFINE F == ForkEntries(s, o)
           lanes == ForkLanes(s, o)
           c == OldestFirst(s, F)
           q == LaneOrder(lanes)
           l == Chosen(c, DOMAIN s.labels)
<1>1. s \in State /\ Coherent(s) /\ LogComplete(s) /\ IsFiniteSet(DOMAIN s.lanes)
    BY DEF Sound, WellFormed, Coherent, Counted
<1>2. F \in SUBSET DOMAIN s.entries /\ lanes \in Map(Lane, Id \cup {None}) /\ IsFiniteSet(DOMAIN lanes)
    BY <1>1, ForkSelects
<1>3. c \in Seq(DOMAIN s.entries)
  <2> HIDE DEF F
  <2>1. Sorted(s, F, c)
      BY <1>1, <1>2, OldestFirstSorted
  <2> HIDE DEF c
  <2>2. c \in Seq(F)
      BY <2>1 DEF Sorted
  <2> QED BY <1>2, <2>2
<1>4. q \in Seq(DOMAIN lanes)
  <2> HIDE DEF lanes
  <2> QED BY <1>2, LanesInOrder
<1>5. l \in Seq(DOMAIN s.labels)
  <2> HIDE DEF c
  <2>1. PICK p : Picks(c, DOMAIN s.labels, Len(c), l, p)
      BY <1>3, ChosenPicks
  <2> HIDE DEF l
  <2> QED BY <2>1 DEF Picks
<1>6. ForkLog(s, lanes, c, q, l, ForkMutations(s, o))
    BY <1>1, <1>2, <1>3, <1>4, <1>5, ForkMutationsAre
<1> HIDE DEF lanes, c, q, l
<1> QED BY <1>6 DEF ForkLog

LEMMA ForkSound ==
    ASSUME NEW s, Sound(s), NEW o \in ForkOptions, ForkAccepts(s, o)
    PROVE  Sound(Replay(ForkMutations(s, o)))
<1>1. FaithfulFork(s, o)
    BY ForksOfSessions DEF Sound, WellFormed, Counted
<1>2. ForkMutations(s, o) \in Seq(SessionMutation)
    BY ForkLogType
<1>3. Replay(ForkMutations(s, o)) # Invalid /\ WellFormed(Replay(ForkMutations(s, o)))
    BY <1>1 DEF FaithfulFork
<1> QED BY <1>2, <1>3, ReplaysAreCoherent, ReplayCounted DEF Sound

-----------------------------------------------------------------------------
\* The storages are sound sessions, and whatever names a storage names one there is.
Storages == 1 .. Len(heap)

Steps(S) ==
    {Idle} \cup [step : {"check", "build"}, source : S, id : SessionId]
           \cup [step : {"insert"}, id : SessionId, storage : S]

HeapInv ==
    /\ heap \in Seq(State) /\ Len(heap) <= MaxStorages
    /\ \A h \in Storages : Sound(heap[h])

MemoryInv ==
    /\ HeapInv
    /\ sessions \in Map(SessionId, Storages)
    /\ forking \in [Caller -> Steps(Storages)]

\* A storage more: the others stay, and so do their names.
LEMMA HeapGrows ==
    ASSUME MemoryInv, NEW s, Sound(s), heap' = Append(heap, s), Len(heap) < MaxStorages
    PROVE  /\ HeapInv' /\ Len(heap) + 1 \in Storages' /\ Storages \subseteq Storages'
           /\ sessions \in Map(SessionId, Storages')
           /\ forking \in [Caller -> Steps(Storages')]
<1>1. /\ heap \in Seq(State) /\ s \in State /\ Len(heap) \in Nat /\ MaxStorages \in Nat
      /\ \A h \in Storages : Sound(heap[h])
    BY MemoryAssumption DEF MemoryInv, HeapInv, Sound
<1>2. /\ heap' \in Seq(State) /\ Len(heap') = Len(heap) + 1 /\ heap'[Len(heap) + 1] = s
      /\ \A h \in 1 .. Len(heap) : heap'[h] = heap[h]
    BY <1>1
<1>3. \A h \in 1 .. Len(heap) + 1 : h \in 1 .. Len(heap) \/ h = Len(heap) + 1
    BY <1>1
<1>4. HeapInv'
    BY <1>1, <1>2, <1>3 DEF HeapInv, Storages
<1>5. Len(heap) + 1 \in Storages' /\ Storages \subseteq Storages'
    BY <1>1, <1>2 DEF Storages
<1>6. sessions \in Map(SessionId, Storages')
  <2>1. sessions \in Map(SessionId, Storages)
      BY DEF MemoryInv
  <2> QED BY <1>5, <2>1 DEF Map
<1>7. forking \in [Caller -> Steps(Storages')]
  <2>1. forking \in [Caller -> Steps(Storages)]
      BY DEF MemoryInv
  <2>2. \A x \in Steps(Storages) : x \in Steps(Storages')
      BY <1>5 DEF Steps
  <2> QED BY <2>1, <2>2
<1> QED BY <1>4, <1>5, <1>6, <1>7

LEMMA InitMemory == Init => MemoryInv
<1> SUFFICES ASSUME Init PROVE MemoryInv
    OBVIOUS
<1>1. heap = <<>> /\ sessions = [i \in {} |-> 0] /\ forking = [c \in Caller |-> Idle]
    BY DEF Init
<1>2. HeapInv
    BY <1>1, MemoryAssumption DEF HeapInv, Storages
<1>3. sessions \in Map(SessionId, Storages)
    BY <1>1 DEF Map
<1>4. forking \in [Caller -> Steps(Storages)]
    BY <1>1 DEF Steps
<1> QED BY <1>2, <1>3, <1>4 DEF MemoryInv

LEMMA NextMemory == MemoryInv /\ [Next]_vars => MemoryInv'
<1> SUFFICES ASSUME MemoryInv, [Next]_vars PROVE MemoryInv'
    OBVIOUS
<1>0. /\ heap \in Seq(State) /\ \A h \in Storages : Sound(heap[h])
      /\ DOMAIN heap = Storages
      /\ sessions \in Map(SessionId, Storages)
      /\ forking \in [Caller -> Steps(Storages)]
    BY DEF MemoryInv, HeapInv, Storages
<1>1. ASSUME NEW id \in SessionId, Create(id)
      PROVE  MemoryInv'
  <2>1. /\ heap' = Append(heap, InitState) /\ Len(heap) < MaxStorages
        /\ sessions' = Put(sessions, id, Len(heap) + 1) /\ forking' = forking
      BY <1>1 DEF Create
  <2>2. /\ HeapInv' /\ Len(heap) + 1 \in Storages'
        /\ sessions \in Map(SessionId, Storages')
        /\ forking \in [Caller -> Steps(Storages')]
      BY <2>1, InitSound, HeapGrows
  <2>3. sessions' \in Map(SessionId, Storages')
      BY <2>1, <2>2, PutMap
  <2> QED BY <2>1, <2>2, <2>3 DEF MemoryInv
<1>2. ASSUME NEW id \in SessionId, Delete(id)
      PROVE  MemoryInv'
  <2>1. sessions' = Drop(sessions, id) /\ heap' = heap /\ forking' = forking
      BY <1>2 DEF Delete
  <2>2. sessions' \in Map(SessionId, Storages)
      BY <1>0, <2>1, DropMap
  <2> QED BY <2>1, <2>2 DEF MemoryInv, HeapInv, Storages
<1>3. ASSUME NEW h \in DOMAIN heap, NEW r \in Request, Operate(h, r)
      PROVE  MemoryInv'
  <2>1. /\ Accepts(heap[h], r)
        /\ heap' = [heap EXCEPT ![h] = Apply(heap[h], MutationOf(heap[h], r))]
        /\ sessions' = sessions /\ forking' = forking
      BY <1>3 DEF Operate
  <2>2. Sound(heap[h])
      BY <1>0
  <2>3. Sound(Apply(heap[h], MutationOf(heap[h], r)))
      BY <2>1, <2>2, OperateSound
  <2> DEFINE s == Apply(heap[h], MutationOf(heap[h], r))
  <2>4. s \in State /\ Sound(s)
      BY <2>3 DEF Sound
  <2> HIDE DEF s
  <2>5. heap' = [heap EXCEPT ![h] = s]
      BY <2>1 DEF s
  <2>6. /\ heap' \in Seq(State) /\ Len(heap') = Len(heap)
        /\ \A i \in Storages : heap'[i] = IF i = h THEN s ELSE heap[i]
      BY <1>0, <2>4, <2>5 DEF Storages
  <2>7. HeapInv' /\ Storages' = Storages
      BY <1>0, <2>4, <2>6 DEF MemoryInv, HeapInv, Storages
  <2> QED BY <1>0, <2>1, <2>7 DEF MemoryInv
<1>4. ASSUME NEW c \in Caller, NEW source \in SessionId, NEW id \in SessionId, ForkFind(c, source, id)
      PROVE  MemoryInv'
  <2>1. /\ source \in DOMAIN sessions
        /\ forking' = [forking EXCEPT ![c] = [step |-> "check", source |-> sessions[source], id |-> id]]
        /\ heap' = heap /\ sessions' = sessions
      BY <1>4 DEF ForkFind
  <2>2. sessions[source] \in Storages
      BY <1>0, <2>1, InMap
  <2>3. [step |-> "check", source |-> sessions[source], id |-> id] \in Steps(Storages)
      BY <2>2 DEF Steps
  <2>4. forking' \in [Caller -> Steps(Storages)]
      BY <1>0, <2>1, <2>3
  <2> QED BY <2>1, <2>4 DEF MemoryInv, HeapInv, Storages
<1>5. ASSUME NEW c \in Caller, ForkCheck(c)
      PROVE  MemoryInv'
  <2> DEFINE x == forking[c]
  <2>1. /\ x.step = "check"
        /\ forking' = [forking EXCEPT ![c] =
             IF x.id \in DOMAIN sessions THEN Idle
             ELSE [step |-> "build", source |-> x.source, id |-> x.id]]
        /\ heap' = heap /\ sessions' = sessions
      BY <1>5 DEF ForkCheck
  <2>2. x \in Steps(Storages)
      BY <1>0
  <2>3. /\ Idle \in Steps(Storages)
        /\ [step |-> "build", source |-> x.source, id |-> x.id] \in Steps(Storages)
      BY <2>1, <2>2 DEF Steps, Idle
  <2>4. forking' \in [Caller -> Steps(Storages)]
      BY <1>0, <2>1, <2>3
  <2> QED BY <2>1, <2>4 DEF MemoryInv, HeapInv, Storages
<1>6. ASSUME NEW c \in Caller, NEW o \in ForkOptions, ForkBuild(c, o)
      PROVE  MemoryInv'
  <2> DEFINE x == forking[c]
             s == heap[x.source]
             copy == Replay(ForkMutations(s, o))
  <2>1. /\ x.step = "build" /\ Len(heap) < MaxStorages /\ sessions' = sessions
        /\ IF ForkAccepts(s, o) /\ copy # Invalid
           THEN /\ heap' = Append(heap, copy)
                /\ forking' = [forking EXCEPT ![c] =
                        [step |-> "insert", id |-> x.id, storage |-> Len(heap) + 1]]
           ELSE heap' = heap /\ forking' = [forking EXCEPT ![c] = Idle]
      BY <1>6 DEF ForkBuild
  <2>2. x \in Steps(Storages)
      BY <1>0
  <2>3. x.source \in Storages /\ x.id \in SessionId
      BY <2>1, <2>2 DEF Steps, Idle
  <2>4. Sound(s)
      BY <1>0, <2>3
  <2>5. CASE ForkAccepts(s, o) /\ copy # Invalid
    <3>1. Sound(copy)
        BY <2>4, <2>5, ForkSound
    <3>2. heap' = Append(heap, copy)
        BY <2>1, <2>5
    <3> HIDE DEF copy
    <3>3. /\ HeapInv' /\ Len(heap) + 1 \in Storages'
          /\ sessions \in Map(SessionId, Storages')
          /\ forking \in [Caller -> Steps(Storages')]
        BY <2>1, <3>1, <3>2, HeapGrows
    <3>4. forking' = [forking EXCEPT ![c] =
                        [step |-> "insert", id |-> x.id, storage |-> Len(heap) + 1]]
        BY <2>1, <2>5
    <3>5. [step |-> "insert", id |-> x.id, storage |-> Len(heap) + 1] \in Steps(Storages')
        BY <2>3, <3>3 DEF Steps
    <3>6. forking' \in [Caller -> Steps(Storages')]
        BY <3>3, <3>4, <3>5
    <3> QED BY <2>1, <3>3, <3>6 DEF MemoryInv
  <2>6. CASE ~(ForkAccepts(s, o) /\ copy # Invalid)
    <3>1. heap' = heap /\ forking' = [forking EXCEPT ![c] = Idle]
        BY <2>1, <2>6
    <3>2. Idle \in Steps(Storages)
        BY DEF Steps
    <3>3. forking' \in [Caller -> Steps(Storages)]
        BY <1>0, <3>1, <3>2
    <3> QED BY <2>1, <3>1, <3>3 DEF MemoryInv, HeapInv, Storages
  <2> QED BY <2>5, <2>6
<1>7. ASSUME NEW c \in Caller, ForkInsert(c)
      PROVE  MemoryInv'
  <2> DEFINE x == forking[c]
  <2>1. /\ x.step = "insert" /\ heap' = heap
        /\ sessions' = Put(sessions, x.id, x.storage)
        /\ forking' = [forking EXCEPT ![c] = Idle]
      BY <1>7 DEF ForkInsert
  <2>2. x \in Steps(Storages)
      BY <1>0
  <2>3. x.storage \in Storages /\ x.id \in SessionId
      BY <2>1, <2>2 DEF Steps, Idle
  <2>4. sessions' \in Map(SessionId, Storages)
      BY <1>0, <2>1, <2>3, PutMap
  <2>5. forking' \in [Caller -> Steps(Storages)]
    <3>1. Idle \in Steps(Storages)
        BY DEF Steps
    <3> QED BY <1>0, <2>1, <3>1
  <2> QED BY <2>1, <2>4, <2>5 DEF MemoryInv, HeapInv, Storages
<1>8. CASE UNCHANGED vars
    BY <1>8 DEF vars, MemoryInv, HeapInv, Storages
<1> QED BY <1>1, <1>2, <1>3, <1>4, <1>5, <1>6, <1>7, <1>8 DEF Next

LEMMA AlwaysSound == Spec => []MemoryInv
BY InitMemory, NextMemory, PTL DEF Spec

\* Whatever operations and forks built it, every storage of the repository is a well formed
\* session whose statistics count its messages.
THEOREM MemorySessionsAreWellFormed == Spec => []SessionsWellFormed
<1>1. ASSUME MemoryInv PROVE SessionsWellFormed
  <2>1. DOMAIN heap = Storages /\ \A h \in Storages : Sound(heap[h])
      BY <1>1 DEF MemoryInv, HeapInv, Storages
  <2>2. \A h \in DOMAIN heap : IsState(heap[h]) /\ WellFormed(heap[h]) /\ CountsMessages(heap[h])
      BY <2>1, StateIsState DEF Sound, Counted
  <2>3. sessions \in [DOMAIN sessions -> DOMAIN heap] /\ DOMAIN sessions \subseteq SessionId
      BY <1>1, <2>1, InMap DEF MemoryInv
  <2>4. forking \in [Caller -> ForkStep]
    <3>1. Storages \subseteq 1 .. MaxStorages
        BY <1>1, MemoryAssumption DEF MemoryInv, HeapInv, Storages
    <3>2. \A x \in Steps(Storages) : x \in ForkStep
        BY <3>1 DEF Steps, ForkStep
    <3> QED BY <1>1, <3>2 DEF MemoryInv
  <2> QED BY <2>2, <2>3, <2>4 DEF SessionsWellFormed, TypeOK
<1> QED BY <1>1, AlwaysSound, PTL

\* No storage ever refuses the mutation that one of its operations built after its checks.
THEOREM MemoryAcceptsWhatItBuilds == Spec => []AcceptedNeverRefused
<1>1. ASSUME MemoryInv PROVE AcceptedNeverRefused
  <2>1. \A h \in DOMAIN heap : heap[h] \in State /\ PointersExist(heap[h])
      BY <1>1 DEF MemoryInv, HeapInv, Storages, Sound, WellFormed, Coherent
  <2> QED BY <2>1, AcceptedIsValid DEF AcceptedNeverRefused
<1> QED BY <1>1, AlwaysSound, PTL

\* Any fork that is accepted of any storage of the repository can be built and is faithful
\* to its source.
THEOREM MemoryForksAreFaithful == Spec => []ForkFaithful
<1>1. ASSUME MemoryInv PROVE ForkFaithful
  <2>1. \A h \in DOMAIN heap : heap[h] \in State /\ Coherent(heap[h]) /\ IsFiniteSet(DOMAIN heap[h].lanes)
      BY <1>1 DEF MemoryInv, HeapInv, Storages, Sound, WellFormed, Counted
  <2> QED BY <2>1, ForksOfSessions DEF ForkFaithful
<1> QED BY <1>1, AlwaysSound, PTL

-----------------------------------------------------------------------------
MakeStages == {"new", "claimed", "free", "writing", "written", "made", "over"}

\* Makers that hold the claim of their destination, and those that have looked.
Active(m) == making[m] \in {"claimed", "free", "writing", "written"}
Looked(m) == making[m] \in {"free", "writing", "written"}

RepoTypes ==
    /\ making \in [Makers -> MakeStages]
    /\ files \in [Makers -> {"none", "empty", "header"}]

\* A claim is held by one maker at most; who has no claim has no file under way.
ClaimsHeld ==
    /\ \A m \in Makers : Active(m) => Destination(m) \in claims
    /\ \A m, n \in Makers : (Active(m) /\ Active(n) /\ Destination(m) = Destination(n)) => m = n

\* Before it starts its file a maker has none, and once it has looked nobody else has one
\* at its destination.
FilesOwned ==
    /\ \A m \in Makers : making[m] \in {"new", "claimed", "free"} => files[m] = "none"
    /\ \A m, n \in Makers :
          (Looked(m) /\ m # n /\ Destination(m) = Destination(n)) => files[n] = "none"

\* What a listing has found, or will still read.
ListingInv ==
    /\ listing.stage \in {"none", "reading", "listed", "failed"}
    /\ kept \subseteq {m \in Makers : files[m] = "header"}
    /\ listing.stage \in {"reading", "listed"} => kept \subseteq listing.found \cup listing.todo
    /\ listing.stage = "listed" => listing.todo = {}
    /\ listing = [stage |-> listing.stage, todo |-> listing.todo, found |-> listing.found]

RepoInv == RepoTypes /\ ClaimsHeld /\ FilesOwned /\ OneSession /\ ListingInv

LEMMA RepoInitInv == RepoInit => RepoInv
BY DEF RepoInit, RepoInv, RepoTypes, ClaimsHeld, FilesOwned, OneSession, ListingInv, MakeStages, Active, Looked, NoListing

LEMMA RepoNextInv == RepoInv /\ [RepoNext]_repoVars => RepoInv'
<1> SUFFICES ASSUME RepoInv, [RepoNext]_repoVars PROVE RepoInv'
    OBVIOUS
<1> USE DEF RepoInv, RepoTypes, ClaimsHeld, FilesOwned, OneSession, ListingInv, MakeStages, Active, Looked, Advance, Release
<1>1. ASSUME NEW m \in Makers, Claim(m)
      PROVE  RepoInv'
    BY <1>1 DEF Claim
<1>2. ASSUME NEW m \in Makers, CheckFree(m)
      PROVE  RepoInv'
    BY <1>2 DEF CheckFree, Exists
<1>3. ASSUME NEW m \in Makers, StartFile(m)
      PROVE  RepoInv'
    BY <1>3 DEF StartFile
<1>4. ASSUME NEW m \in Makers, FinishFile(m)
      PROVE  RepoInv'
    BY <1>4 DEF FinishFile
<1>5. ASSUME NEW m \in Makers, MakeFails(m)
      PROVE  RepoInv'
    BY <1>5 DEF MakeFails
<1>6. ASSUME NEW m \in Makers, Made(m)
      PROVE  RepoInv'
    BY <1>6 DEF Made
<1>7. ASSUME NEW m \in Makers, MakeDropped(m)
      PROVE  RepoInv'
    BY <1>7 DEF MakeDropped
<1>8. ASSUME NEW m \in Makers, DeleteSession(m)
      PROVE  RepoInv'
    BY <1>8 DEF DeleteSession
<1>9. ASSUME NEW m \in Makers, ListFile(m)
      PROVE  RepoInv'
    BY <1>9 DEF ListFile, HeaderOf, NoListing
<1>10. CASE StartListing
    BY <1>10 DEF StartListing
<1>11. CASE EndListing
    BY <1>11 DEF EndListing
<1>12. CASE Restart
    BY <1>12 DEF Restart, NoListing
<1>13. CASE UNCHANGED repoVars
    BY <1>13 DEF repoVars
<1> QED BY <1>1, <1>2, <1>3, <1>4, <1>5, <1>6, <1>7, <1>8, <1>9, <1>10, <1>11, <1>12, <1>13 DEF RepoNext

\* No two makers ever have a file at the same destination, however many of them create and
\* fork at once.
THEOREM DestinationsAreUnique == RepoSpec => []OneSession
<1>1. RepoInv => OneSession
    BY DEF RepoInv
<1> QED BY <1>1, RepoInitInv, RepoNextInv, PTL DEF RepoSpec

\* A listing that succeeds has every session that was there throughout, whatever is
\* created, forked and deleted meanwhile.
THEOREM ListingsAreComplete == RepoSpec => []ListingComplete
<1>1. RepoInv => ListingComplete
    BY DEF RepoInv, ListingInv, ListingComplete
<1> QED BY <1>1, RepoInitInv, RepoNextInv, PTL DEF RepoSpec
=============================================================================
