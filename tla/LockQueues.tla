----------------------------- MODULE LockQueues -----------------------------
(***************************************************************************)
(* Facts about the queue of an asynchronous lock (tokio's Mutex is first   *)
(* in, first out): a sequence without duplicates, whose first holds it.    *)
(***************************************************************************)
EXTENDS Naturals, Sequences, TLAPS, SequencesExt

\* Nobody waits twice; who waits or holds the lock.
Distinct(q) == \A i, j \in DOMAIN q : q[i] = q[j] => i = j
Members(q)  == {q[i] : i \in DOMAIN q}

\* Releasing the lock takes the first out of the queue.
LEMMA TailQueue ==
    ASSUME NEW S, NEW q \in Seq(S), q # <<>>, Distinct(q)
    PROVE  /\ Tail(q) \in Seq(S)
           /\ Distinct(Tail(q))
           /\ Members(Tail(q)) = Members(q) \ {Head(q)}
<1>1. /\ Tail(q) \in Seq(S)
      /\ Len(Tail(q)) = Len(q) - 1
      /\ \A i \in 1 .. Len(q) - 1 : Tail(q)[i] = q[i + 1]
      /\ Head(q) = q[1] /\ Len(q) \in Nat \ {0}
      /\ DOMAIN q = 1 .. Len(q) /\ DOMAIN Tail(q) = 1 .. Len(q) - 1
    OBVIOUS
<1>2. Distinct(Tail(q))
    BY <1>1 DEF Distinct
<1>3. ASSUME NEW x \in Members(Tail(q))
      PROVE  x # Head(q) /\ x \in Members(q)
  <2>1. PICK i \in DOMAIN Tail(q) : Tail(q)[i] = x
      BY <1>3 DEF Members
  <2>2. i + 1 \in DOMAIN q /\ q[i + 1] = x /\ i + 1 # 1 /\ 1 \in DOMAIN q
      BY <1>1, <2>1
  <2> QED BY <1>1, <2>2 DEF Members, Distinct
<1>4. ASSUME NEW x \in Members(q), x # Head(q)
      PROVE  x \in Members(Tail(q))
  <2>1. PICK i \in DOMAIN q : q[i] = x
      BY <1>4 DEF Members
  <2>2. i - 1 \in DOMAIN Tail(q) /\ Tail(q)[i - 1] = x
      BY <1>1, <1>4, <2>1
  <2> QED BY <2>2 DEF Members
<1> QED BY <1>1, <1>2, <1>3, <1>4

\* Asking for the lock puts a newcomer last.
LEMMA AppendQueue ==
    ASSUME NEW S, NEW q \in Seq(S), Distinct(q), NEW c \in S, c \notin Members(q)
    PROVE  /\ Append(q, c) \in Seq(S)
           /\ Distinct(Append(q, c))
           /\ Members(Append(q, c)) = Members(q) \cup {c}
           /\ q # <<>> => Head(Append(q, c)) = Head(q)
<1>1. /\ DOMAIN q = 1 .. Len(q) /\ DOMAIN Append(q, c) = 1 .. Len(q) + 1 /\ Len(q) \in Nat
      /\ \A i \in 1 .. Len(q) : Append(q, c)[i] = q[i]
      /\ Append(q, c)[Len(q) + 1] = c
    OBVIOUS
<1>2. Distinct(Append(q, c))
    BY <1>1 DEF Distinct, Members
<1>3. Members(Append(q, c)) = Members(q) \cup {c}
    BY <1>1 DEF Members
<1>4. q # <<>> => Head(Append(q, c)) = Head(q)
    OBVIOUS
<1> QED BY <1>2, <1>3, <1>4

\* r is q without what it has at k.
Closes(r, q, k) ==
    /\ DOMAIN r = 1 .. Len(q) - 1
    /\ \A i \in 1 .. Len(q) - 1 : i < k => r[i] = q[i]
    /\ \A i \in 1 .. Len(q) - 1 : i >= k => r[i] = q[i + 1]

\* RemoveAt closes the gap it leaves.
LEMMA Removed ==
    ASSUME NEW S, NEW q \in Seq(S), NEW k \in 1 .. Len(q)
    PROVE  RemoveAt(q, k) \in Seq(S) /\ Closes(RemoveAt(q, k), q, k)
<1>1. /\ SubSeq(q, 1, k - 1) \in Seq(S) /\ Len(SubSeq(q, 1, k - 1)) = k - 1
      /\ \A i \in 1 .. k - 1 : SubSeq(q, 1, k - 1)[i] = q[i]
    OBVIOUS
<1>2. /\ SubSeq(q, k + 1, Len(q)) \in Seq(S) /\ Len(SubSeq(q, k + 1, Len(q))) = Len(q) - k
      /\ \A i \in 1 .. Len(q) - k : SubSeq(q, k + 1, Len(q))[i] = q[k + i]
    OBVIOUS
<1>3. PICK a \in Seq(S), b \in Seq(S) :
        /\ RemoveAt(q, k) = a \o b
        /\ Len(a) = k - 1 /\ \A i \in 1 .. k - 1 : a[i] = q[i]
        /\ Len(b) = Len(q) - k /\ \A i \in 1 .. Len(q) - k : b[i] = q[k + i]
    BY <1>1, <1>2 DEF RemoveAt
<1>4. /\ a \o b \in Seq(S) /\ Len(a \o b) = Len(a) + Len(b)
      /\ \A i \in 1 .. Len(a) : (a \o b)[i] = a[i]
      /\ \A i \in 1 .. Len(b) : (a \o b)[Len(a) + i] = b[i]
    OBVIOUS
<1>5. ASSUME NEW i \in 1 .. Len(q) - 1, i >= k
      PROVE  (a \o b)[i] = q[i + 1]
  <2>1. i - (k - 1) \in 1 .. Len(b) /\ k + (i - (k - 1)) = i + 1 /\ Len(a) + (i - (k - 1)) = i
      BY <1>3, <1>5
  <2>2. (a \o b)[i] = b[i - (k - 1)]
      BY <1>4, <2>1
  <2> QED BY <1>3, <2>1, <2>2
<1>6. \A i \in 1 .. Len(q) - 1 : i < k => (a \o b)[i] = q[i]
    BY <1>3, <1>4
<1>7. DOMAIN (a \o b) = 1 .. Len(q) - 1
    BY <1>3, <1>4
<1> QED BY <1>3, <1>4, <1>5, <1>6, <1>7 DEF Closes

\* A queue that closed a gap.
LEMMA ClosedQueue ==
    ASSUME NEW S, NEW q \in Seq(S), Distinct(q), NEW k \in 1 .. Len(q),
           NEW r \in Seq(S), Closes(r, q, k)
    PROVE  /\ Distinct(r)
           /\ Members(r) = Members(q) \ {q[k]}
           /\ k # 1 => Head(r) = Head(q)
<1>1. DOMAIN q = 1 .. Len(q) /\ Len(q) \in Nat /\ DOMAIN r = 1 .. Len(r) /\ Len(r) = Len(q) - 1
    BY DEF Closes
<1>2. \A i \in 1 .. Len(q) - 1 : \E j \in 1 .. Len(q) :
         /\ j = IF i < k THEN i ELSE i + 1
         /\ r[i] = q[j]
    BY <1>1 DEF Closes
<1>3. Distinct(r)
  <2> SUFFICES ASSUME NEW i \in 1 .. Len(q) - 1, NEW j \in 1 .. Len(q) - 1, r[i] = r[j]
               PROVE  i = j
      BY <1>1 DEF Distinct
  <2>1. PICK i1 \in 1 .. Len(q) : i1 = (IF i < k THEN i ELSE i + 1) /\ r[i] = q[i1]
      BY <1>2
  <2>2. PICK j1 \in 1 .. Len(q) : j1 = (IF j < k THEN j ELSE j + 1) /\ r[j] = q[j1]
      BY <1>2
  <2>3. i1 = j1
      BY <1>1, <2>1, <2>2 DEF Distinct
  <2> QED BY <2>1, <2>2, <2>3
<1>4. ASSUME NEW x \in Members(r)
      PROVE  x \in Members(q) /\ x # q[k]
  <2>1. PICK i \in 1 .. Len(q) - 1 : r[i] = x
      BY <1>1, <1>4 DEF Members
  <2>2. PICK i1 \in 1 .. Len(q) : i1 = (IF i < k THEN i ELSE i + 1) /\ r[i] = q[i1]
      BY <1>2
  <2>3. i1 # k
      BY <2>2
  <2> QED BY <1>1, <2>1, <2>2, <2>3 DEF Members, Distinct
<1>5. ASSUME NEW x \in Members(q), x # q[k]
      PROVE  x \in Members(r)
  <2>1. PICK j \in 1 .. Len(q) : q[j] = x /\ j # k
      BY <1>1, <1>5 DEF Members
  <2>2. CASE j < k
    <3>1. j \in 1 .. Len(q) - 1 /\ r[j] = q[j]
        BY <1>1, <2>2 DEF Closes
    <3> QED BY <1>1, <2>1, <3>1 DEF Members
  <2>3. CASE j > k
    <3>1. j - 1 \in 1 .. Len(q) - 1 /\ r[j - 1] = q[j]
        BY <1>1, <2>3 DEF Closes
    <3> QED BY <1>1, <2>1, <3>1 DEF Members
  <2> QED BY <2>1, <2>2, <2>3
<1>6. k # 1 => Head(r) = Head(q)
    BY <1>1 DEF Closes
<1> QED BY <1>3, <1>4, <1>5, <1>6

\* Giving up waiting, or dropping the guard, leaves the others in their order.
LEMMA RemoveQueue ==
    ASSUME NEW S, NEW q \in Seq(S), Distinct(q), NEW k \in DOMAIN q
    PROVE  /\ RemoveAt(q, k) \in Seq(S)
           /\ Distinct(RemoveAt(q, k))
           /\ Members(RemoveAt(q, k)) = Members(q) \ {q[k]}
           /\ k # 1 => Head(RemoveAt(q, k)) = Head(q)
<1>1. k \in 1 .. Len(q)
    OBVIOUS
<1> QED BY <1>1, Removed, ClosedQueue
=============================================================================
