---------------------------- MODULE StreamProofs ----------------------------
(***************************************************************************)
(* Two streams, each with its inductive invariant.                         *)
(*                                                                         *)
(* A response that is forwarded loses no wake-up and gives everyone who    *)
(* asks the message of the terminal event, for any number of events and of *)
(* polls in vain, truncated responses included: ResultInv follows the      *)
(* terminal event through both streams, WakeInv says which tasks may       *)
(* sleep, and why.                                                         *)
(*                                                                         *)
(* The events that run_stream pushes nest, in every protocol that indexes  *)
(* its blocks, and a stream is Done only if the provider finished its      *)
(* answer.  StreamInv relates the decoder's record to what the provider    *)
(* said: a block is live exactly while the provider may go on with it.     *)
(* Each operation of a decoder keeps Nested; each protocol, what its own   *)
(* bookkeeping says of the live blocks (Keyed, Placed, AllLive, Current).  *)
(***************************************************************************)
EXTENDS LazyStream, ProviderStreams, SequenceTheorems, FiniteSetTheorems, WellFoundedInduction, TLAPS

(***************************************************************************)
(* The response that is forwarded.                                         *)
(***************************************************************************)

\* The provider has pushed, or begun to push, its terminal event.
Settled == sent # <<>> /\ Newest.terminal

\* A result is the terminal event's; what the forwarder carries of a terminal
\* event is that event.
Faithful(r) == r # NoResult /\ r.terminal => Settled /\ r = Newest

ResultOf(s) == s.result # NoResult => Settled /\ s.result = Newest

\* Where the provider is, and what it has pushed.
ProviderInv ==
    /\ \A i \in DOMAIN sent : sent[i].terminal => i = Len(sent)
    /\ pc["provider"] = "push" => ~Settled
    /\ pc["provider"] = "enqueue" => sent # <<>>
    /\ pc["provider"] \in {"late", "end"} => Settled
    /\ Settled /\ pc["provider"] # "off" => IF Direct THEN outer.done ELSE inner.done

\* Where the forwarder is, and what it carries.
ForwarderInv ==
    /\ pc["forwarder"] = "setup" => sent = <<>>
    /\ pc["forwarder"] = "setup" => pc["provider"] = "off"
    /\ pc["provider"] = "off" => pc["forwarder"] \in {"setup", "mark", "enqueue", "end", "done"}
    /\ pc["forwarder"] \in {"mark", "enqueue"} =>
          carried # NoResult /\ (pc["provider"] = "off" => carried.terminal)
    /\ pc["forwarder"] = "end" => carried # NoResult /\ carried.terminal
    /\ Faithful(carried)

ResultInv ==
    /\ ProviderInv
    /\ ForwarderInv
    /\ ResultOf(inner) /\ ResultOf(outer)
    /\ ResultIsTerminal

\* Only a task that waits for a stream sleeps.
WakeInv ==
    /\ NoLostWakeup
    /\ \A t \in Tasks : t \notin awake => pc[t] \in {"next", "result"}

LazyInv == TypeOK /\ ResultInv /\ WakeInv

\* s holds the events of t that come after the first k.
InPlace(s, k, t) == \A i \in 1 .. Len(s) : s[i] = t[k + i]

\* The events that wait in the two streams.
Unforwarded == inner.queue
Unread      == outer.queue

\* The events that the outer stream has had, the one that the forwarder carries, and the one
\* that the provider is about to queue.
Passed  == Len(received) + Len(Unread)
Carries == IF pc["forwarder"] \in {"mark", "enqueue"} THEN 1 ELSE 0
Pushes  == IF pc["provider"] = "enqueue" THEN 1 ELSE 0

\* Every event is in one place, in the order of the places, until the forwarder or the reader
\* has seen the end of its stream: then at most the last one is left behind.
CountInv ==
    /\ pc["forwarder"] \in {"absent", "setup", "next", "mark", "enqueue", "result", "end", "done"}
    /\ Direct => Passed + Pushes = Len(sent)
    /\ pc["forwarder"] \in {"setup", "next", "mark", "enqueue"} =>
          Passed + Carries + Len(Unforwarded) + Pushes = Len(sent)
    /\ pc["forwarder"] \in {"result", "end", "done"} =>
          Settled /\ (Passed = Len(sent) - 1 \/ Passed = Len(sent))
    /\ inner.done /\ ~Direct => Settled
    /\ outer.done =>
          /\ Settled
          /\ pc["forwarder"] # "mark"
          /\ pc["forwarder"] = "next" => Passed = Len(sent)
          /\ pc["forwarder"] = "enqueue" => Passed + 1 = Len(sent)
    /\ pc["reader"] \in {"result", "done"} => Settled /\ Len(received) >= Len(sent) - 1

PlacesInv ==
    /\ InPlace(received, 0, sent) /\ InPlace(Unread, Len(received), sent)
    /\ Carries = 1 => carried = sent[Passed + 1]
    /\ pc["forwarder"] \in {"setup", "next", "mark", "enqueue"} =>
          InPlace(Unforwarded, Passed + Carries, sent)

OrderInv == CountInv /\ PlacesInv

LEMMA EventFacts ==
    /\ NoResult \notin Events
    /\ \A e \in Events : e.terminal \in BOOLEAN
    /\ \A n \in Nat, b \in BOOLEAN : Event(n, b) \in Events /\ Event(n, b).terminal = b
BY StreamAssumption DEF Events, Event

-----------------------------------------------------------------------------
LEMMA InitType == Init => TypeOK
<1> SUFFICES ASSUME Init PROVE TypeOK
    OBVIOUS
<1>1. inner \in StreamType({"forwarder"}, {"forwarder"})
    BY DEF Init, In!Empty, StreamType
<1>2. outer \in StreamType({"reader"}, {"reader", "asker"})
    BY DEF Init, Out!Empty, StreamType
<1>3. pc \in [Tasks -> Points]
    BY DEF Init, Tasks, Points
<1>4. answer \in [{"reader", "asker"} -> Events \cup {NoResult}]
    BY DEF Init
<1> QED
    BY <1>1, <1>2, <1>3, <1>4 DEF Init, TypeOK

\* What a push, an end or a poll makes of a stream ...
Marked(s, e)   == [s EXCEPT !.done = TRUE, !.result = e, !.resultWakers = {}]
Enqueued(s, e) == [s EXCEPT !.queue = Append(@, e),
                            !.nextWakers = IF @ = <<>> THEN <<>> ELSE Tail(@)]
LazyEnded(s, r)    == [s EXCEPT !.done = TRUE, !.result = IF @ = NoResult THEN r ELSE @,
                            !.nextWakers = <<>>, !.resultWakers = {}]
Taken(s)       == [s EXCEPT !.queue = Tail(@)]
Awaited(s, t)  == [s EXCEPT !.nextWakers = Append(@, t)]
Asked(s, t)    == [s EXCEPT !.resultWakers = @ \cup {t}]

\* ... is one.
LEMMA MarkShape ==
    ASSUME NEW R, NEW A, NEW s \in StreamType(R, A), NEW e \in Events
    PROVE  Marked(s, e) \in StreamType(R, A)
BY DEF StreamType, Marked

LEMMA EnqueueShape ==
    ASSUME NEW R, NEW A, NEW s \in StreamType(R, A), NEW e \in Events
    PROVE  Enqueued(s, e) \in StreamType(R, A)
<1>1. Append(s.queue, e) \in Seq(Events)
    BY DEF StreamType
<1>2. (IF s.nextWakers = <<>> THEN <<>> ELSE Tail(s.nextWakers)) \in Seq(R)
    BY DEF StreamType
<1> QED
    BY <1>1, <1>2 DEF StreamType, Enqueued

LEMMA EndShape ==
    ASSUME NEW R, NEW A, NEW s \in StreamType(R, A), NEW r \in Events \cup {NoResult}
    PROVE  LazyEnded(s, r) \in StreamType(R, A)
<1>1. (IF s.result = NoResult THEN r ELSE s.result) \in Events \cup {NoResult}
    BY DEF StreamType
<1>2. <<>> \in Seq(R)
    OBVIOUS
<1> QED
    BY <1>1, <1>2 DEF StreamType, LazyEnded

LEMMA PollShape ==
    ASSUME NEW R, NEW A, NEW s \in StreamType(R, A)
    PROVE  /\ s.queue # <<>> => Taken(s) \in StreamType(R, A)
           /\ \A t \in R : Awaited(s, t) \in StreamType(R, A)
           /\ \A t \in A : Asked(s, t) \in StreamType(R, A)
<1>1. s.queue # <<>> => Tail(s.queue) \in Seq(Events)
    BY DEF StreamType
<1>2. s.queue # <<>> => Taken(s) \in StreamType(R, A)
    BY <1>1 DEF StreamType, Taken
<1>3. ASSUME NEW t \in R PROVE Awaited(s, t) \in StreamType(R, A)
    <2>1. Append(s.nextWakers, t) \in Seq(R)
        BY DEF StreamType
    <2> QED
        BY <2>1 DEF StreamType, Awaited
<1>4. ASSUME NEW t \in A PROVE Asked(s, t) \in StreamType(R, A)
    BY DEF StreamType, Asked
<1> QED
    BY <1>2, <1>3, <1>4

\* Whoever a stream wakes may wait for it.
LEMMA Wakers ==
    ASSUME NEW R, NEW A, NEW s \in StreamType(R, A)
    PROVE  /\ s.nextWakers # <<>> => Head(s.nextWakers) \in R
           /\ {s.nextWakers[i] : i \in DOMAIN s.nextWakers} \subseteq R
           /\ s.resultWakers \subseteq A
BY DEF StreamType

InType  == StreamType({"forwarder"}, {"forwarder"})
OutType == StreamType({"reader"}, {"reader", "asker"})

\* The values that a stream takes on in a step, and who is woken.
LEMMA MarkType ==
    ASSUME TypeOK, NEW e \in Events
    PROVE  /\ In!Mark(e) => inner' \in InType /\ awake' \subseteq Tasks
           /\ Out!Mark(e) => outer' \in OutType /\ awake' \subseteq Tasks
<1>1. inner \in InType /\ outer \in OutType /\ awake \subseteq Tasks
    BY DEF TypeOK, InType, OutType
<1>2. In!Mark(e) => inner' \in InType
    <2>1. In!Mark(e) => inner' = inner \/ inner' = Marked(inner, e)
        BY DEF In!Mark, Marked
    <2> QED
        BY <1>1, <2>1, MarkShape DEF InType
<1>3. Out!Mark(e) => outer' \in OutType
    <2>1. Out!Mark(e) => outer' = outer \/ outer' = Marked(outer, e)
        BY DEF Out!Mark, Marked
    <2> QED
        BY <1>1, <2>1, MarkShape DEF OutType
<1>4. inner.resultWakers \subseteq Tasks /\ outer.resultWakers \subseteq Tasks
    BY <1>1, Wakers DEF InType, OutType, Tasks
<1> QED
    BY <1>1, <1>2, <1>3, <1>4 DEF In!Mark, Out!Mark

LEMMA EnqueueType ==
    ASSUME TypeOK, NEW e \in Events
    PROVE  /\ In!Enqueue(e) => inner' \in InType /\ awake' \subseteq Tasks
           /\ Out!Enqueue(e) => outer' \in OutType /\ awake' \subseteq Tasks
<1>1. inner \in InType /\ outer \in OutType /\ awake \subseteq Tasks
    BY DEF TypeOK, InType, OutType
<1>2. In!Enqueue(e) => inner' \in InType
    <2>1. In!Enqueue(e) => inner' = Enqueued(inner, e)
        BY DEF In!Enqueue, Enqueued
    <2> QED
        BY <1>1, <2>1, EnqueueShape DEF InType
<1>3. Out!Enqueue(e) => outer' \in OutType
    <2>1. Out!Enqueue(e) => outer' = Enqueued(outer, e)
        BY DEF Out!Enqueue, Enqueued
    <2> QED
        BY <1>1, <2>1, EnqueueShape DEF OutType
<1>4. In!FirstWaker \subseteq Tasks /\ Out!FirstWaker \subseteq Tasks
    BY <1>1, Wakers DEF InType, OutType, Tasks, In!FirstWaker, Out!FirstWaker
<1> QED
    BY <1>1, <1>2, <1>3, <1>4 DEF In!Enqueue, Out!Enqueue

LEMMA EndType ==
    ASSUME TypeOK, NEW r \in Events \cup {NoResult}
    PROVE  /\ In!End(r) => inner' \in InType /\ awake' \subseteq Tasks
           /\ Out!End(r) => outer' \in OutType /\ awake' \subseteq Tasks
<1>1. inner \in InType /\ outer \in OutType /\ awake \subseteq Tasks
    BY DEF TypeOK, InType, OutType
<1>2. In!End(r) => inner' \in InType
    <2>1. In!End(r) => inner' = LazyEnded(inner, r)
        BY DEF In!End, LazyEnded
    <2> QED
        BY <1>1, <2>1, EndShape DEF InType
<1>3. Out!End(r) => outer' \in OutType
    <2>1. Out!End(r) => outer' = LazyEnded(outer, r)
        BY DEF Out!End, LazyEnded
    <2> QED
        BY <1>1, <2>1, EndShape DEF OutType
<1>4. /\ inner.resultWakers \subseteq Tasks /\ outer.resultWakers \subseteq Tasks
      /\ {inner.nextWakers[i] : i \in DOMAIN inner.nextWakers} \subseteq Tasks
      /\ {outer.nextWakers[i] : i \in DOMAIN outer.nextWakers} \subseteq Tasks
    <2>1. /\ inner.resultWakers \subseteq {"forwarder"}
          /\ {inner.nextWakers[i] : i \in DOMAIN inner.nextWakers} \subseteq {"forwarder"}
        BY <1>1, Wakers DEF InType
    <2>2. /\ outer.resultWakers \subseteq {"reader", "asker"}
          /\ {outer.nextWakers[i] : i \in DOMAIN outer.nextWakers} \subseteq {"reader"}
        BY <1>1, Wakers DEF OutType
    <2> QED
        BY <2>1, <2>2 DEF Tasks
<1> QED
    BY <1>1, <1>2, <1>3, <1>4 DEF In!End, Out!End

LEMMA PollType ==
    ASSUME TypeOK
    PROVE  /\ \A e : In!Take("forwarder", e) => inner' \in InType /\ awake' \subseteq Tasks
           /\ \A e : Out!Take("reader", e) => outer' \in OutType /\ awake' \subseteq Tasks
           /\ In!AwaitNext("forwarder") => inner' \in InType /\ awake' \subseteq Tasks
           /\ Out!AwaitNext("reader") => outer' \in OutType /\ awake' \subseteq Tasks
           /\ In!AwaitResult("forwarder") => inner' \in InType /\ awake' \subseteq Tasks
           /\ \A t \in {"reader", "asker"} :
                Out!AwaitResult(t) => outer' \in OutType /\ awake' \subseteq Tasks
<1>1. inner \in InType /\ outer \in OutType /\ awake \subseteq Tasks
    BY DEF TypeOK, InType, OutType
<1>2. ASSUME NEW e, In!Take("forwarder", e) PROVE inner' \in InType /\ awake' \subseteq Tasks
    <2>1. inner' = Taken(inner) /\ inner.queue # <<>> /\ awake' = awake
        BY <1>2 DEF In!Take, Taken
    <2> QED
        BY <1>1, <2>1, PollShape DEF InType
<1>3. ASSUME NEW e, Out!Take("reader", e) PROVE outer' \in OutType /\ awake' \subseteq Tasks
    <2>1. outer' = Taken(outer) /\ outer.queue # <<>> /\ awake' = awake
        BY <1>3 DEF Out!Take, Taken
    <2> QED
        BY <1>1, <2>1, PollShape DEF OutType
<1>4. ASSUME In!AwaitNext("forwarder") PROVE inner' \in InType /\ awake' \subseteq Tasks
    <2>1. inner' = Awaited(inner, "forwarder") /\ awake' \subseteq awake
        BY <1>4 DEF In!AwaitNext, Awaited
    <2> QED
        BY <1>1, <2>1, PollShape DEF InType
<1>5. ASSUME Out!AwaitNext("reader") PROVE outer' \in OutType /\ awake' \subseteq Tasks
    <2>1. outer' = Awaited(outer, "reader") /\ awake' \subseteq awake
        BY <1>5 DEF Out!AwaitNext, Awaited
    <2> QED
        BY <1>1, <2>1, PollShape DEF OutType
<1>6. ASSUME In!AwaitResult("forwarder") PROVE inner' \in InType /\ awake' \subseteq Tasks
    <2>1. inner' = Asked(inner, "forwarder") /\ awake' \subseteq awake
        BY <1>6 DEF In!AwaitResult, Asked
    <2> QED
        BY <1>1, <2>1, PollShape DEF InType
<1>7. ASSUME NEW t \in {"reader", "asker"}, Out!AwaitResult(t)
      PROVE  outer' \in OutType /\ awake' \subseteq Tasks
    <2>1. outer' = Asked(outer, t) /\ awake' \subseteq awake
        BY <1>7 DEF Out!AwaitResult, Asked
    <2> QED
        BY <1>1, <2>1, PollShape DEF OutType
<1> QED
    BY <1>2, <1>3, <1>4, <1>5, <1>6, <1>7

LEMMA TypeStep == TypeOK /\ ResultInv /\ [Next]_vars => TypeOK'
<1> SUFFICES ASSUME TypeOK, ResultInv, [Next]_vars PROVE TypeOK'
    OBVIOUS
<1>1. /\ inner \in InType /\ outer \in OutType /\ awake \subseteq Tasks
      /\ pc \in [Tasks -> Points]
      /\ sent \in Seq(Events) /\ received \in Seq(Events)
      /\ carried \in Events \cup {NoResult}
      /\ answer \in [{"reader", "asker"} -> Events \cup {NoResult}]
    BY DEF TypeOK, InType, OutType
<1>2. ASSUME NEW t \in Tasks, NEW point \in Points, Go(t, point)
      PROVE  pc' \in [Tasks -> Points]
    BY <1>1, <1>2 DEF Go
<1>3. {"push", "mark", "enqueue", "late", "end", "done", "next", "result"} \subseteq Points
    BY DEF Points
<1>4. /\ \A b \in BOOLEAN : Event(Len(sent) + 1, b) \in Events
      /\ Event(Len(sent) + 1, TRUE) \in Events /\ Event(1, TRUE) \in Events
    BY <1>1 DEF Event, Events
<1>5. sent # <<>> => Newest \in Events
    BY <1>1 DEF Newest
<1>6. "provider" \in Tasks /\ "forwarder" \in Tasks /\ "reader" \in Tasks /\ "asker" \in Tasks
    BY DEF Tasks
<1>7. \A e \in {sent[i] : i \in DOMAIN sent} : e \in Events
    BY <1>1
<1>8. inner.result \in Events \cup {NoResult} /\ outer.result \in Events \cup {NoResult}
    BY <1>1 DEF InType, OutType, StreamType
<1>11. CASE ProviderMark
    <2>1. PICK b \in BOOLEAN : Feed("mark", Event(Len(sent) + 1, b)) /\ sent' = Append(sent, Event(Len(sent) + 1, b))
        BY <1>11 DEF ProviderMark
    <2>2. Event(Len(sent) + 1, b) \in Events
        BY <1>4
    <2>3. inner' \in InType /\ outer' \in OutType /\ awake' \subseteq Tasks
        BY <2>1, <2>2, <1>1, MarkType DEF Feed
    <2>4. sent' \in Seq(Events)
        BY <2>1, <2>2, <1>1
    <2>5. pc' \in [Tasks -> Points]
        BY <1>2, <1>3, <1>6, <1>11 DEF ProviderMark
    <2> QED
        BY <1>1, <1>11, <2>3, <2>4, <2>5 DEF ProviderMark, TypeOK, InType, OutType
<1>12. CASE ProviderEnqueue
    <2>1. PICK point \in {"late", "end", "push"} : Go("provider", point)
        BY <1>12 DEF ProviderEnqueue
    <2>2. Newest \in Events
        BY <1>5, <1>12 DEF ProviderEnqueue, ResultInv, ProviderInv
    <2>3. inner' \in InType /\ outer' \in OutType /\ awake' \subseteq Tasks
        BY <1>12, <2>2, <1>1, EnqueueType DEF ProviderEnqueue, Feed
    <2>4. pc' \in [Tasks -> Points]
        BY <1>2, <1>3, <1>6, <2>1
    <2> QED
        BY <1>1, <1>12, <2>3, <2>4 DEF ProviderEnqueue, TypeOK, InType, OutType
<1>13. CASE ProviderLate
    <2>1. inner' \in InType /\ outer' \in OutType /\ awake' \subseteq Tasks
        BY <1>13, <1>4, <1>1, MarkType DEF ProviderLate, Feed
    <2>2. pc' \in [Tasks -> Points]
        BY <1>2, <1>3, <1>6, <1>13 DEF ProviderLate
    <2> QED
        BY <1>1, <1>13, <2>1, <2>2 DEF ProviderLate, TypeOK, InType, OutType
<1>14. CASE ProviderEnd
    <2>1. PICK r \in {NoResult} \cup IF pc["provider"] = "end" THEN {Newest} ELSE {} :
             IF Direct THEN Out!End(r) /\ UNCHANGED inner ELSE In!End(r) /\ UNCHANGED outer
        BY <1>14 DEF ProviderEnd
    <2>2. r \in Events \cup {NoResult}
        <3>1. pc["provider"] = "end" => Newest \in Events
            BY <1>5 DEF ResultInv, ProviderInv, Settled
        <3> QED
            BY <2>1, <3>1
    <2>3. inner' \in InType /\ outer' \in OutType /\ awake' \subseteq Tasks
        BY <2>1, <2>2, <1>1, EndType
    <2>4. pc' \in [Tasks -> Points]
        BY <1>2, <1>3, <1>6, <1>14 DEF ProviderEnd
    <2> QED
        BY <1>1, <1>14, <2>3, <2>4 DEF ProviderEnd, TypeOK, InType, OutType
<1>15. CASE Setup
    <2>1. pc' \in [Tasks -> Points]
        BY <1>1, <1>2, <1>3, <1>6, <1>15 DEF Setup
    <2>2. sent' \in Seq(Events) /\ carried' \in Events \cup {NoResult}
        <3>1. Event(1, TRUE) \in Events
            BY <1>4
        <3>2. <<Event(1, TRUE)>> \in Seq(Events)
            <4>1. \A S, e : e \in S => <<e>> \in Seq(S)
                OBVIOUS
            <4> QED
                BY <3>1, <4>1
        <3> QED
            BY <1>1, <3>1, <3>2, <1>15 DEF Setup
    <2> QED
        BY <1>1, <1>15, <2>1, <2>2 DEF Setup, TypeOK, InType, OutType
<1>16. CASE ForwarderNext
    <2>1. inner' \in InType /\ awake' \subseteq Tasks
        BY <1>16, <1>1, PollType DEF ForwarderNext, In!Over
    <2>2. pc' \in [Tasks -> Points]
        BY <1>1, <1>2, <1>3, <1>6, <1>16 DEF ForwarderNext
    <2>3. carried' \in Events \cup {NoResult}
        BY <1>1, <1>7, <1>16 DEF ForwarderNext
    <2> QED
        BY <1>1, <1>16, <2>1, <2>2, <2>3 DEF ForwarderNext, TypeOK, InType, OutType
<1>17. CASE ForwarderMark
    <2>1. carried \in Events
        BY <1>1, <1>17 DEF ForwarderMark, ResultInv, ForwarderInv
    <2>2. outer' \in OutType /\ awake' \subseteq Tasks
        BY <1>17, <2>1, MarkType DEF ForwarderMark
    <2>3. pc' \in [Tasks -> Points]
        BY <1>2, <1>3, <1>6, <1>17 DEF ForwarderMark, Forwarded
    <2> QED
        BY <1>1, <1>17, <2>2, <2>3 DEF ForwarderMark, TypeOK, InType, OutType
<1>18. CASE ForwarderEnqueue
    <2>1. carried \in Events
        BY <1>1, <1>18 DEF ForwarderEnqueue, ResultInv, ForwarderInv
    <2>2. outer' \in OutType /\ awake' \subseteq Tasks
        BY <1>18, <2>1, EnqueueType DEF ForwarderEnqueue
    <2>3. pc' \in [Tasks -> Points]
        BY <1>2, <1>3, <1>6, <1>18 DEF ForwarderEnqueue, Forwarded
    <2> QED
        BY <1>1, <1>18, <2>2, <2>3 DEF ForwarderEnqueue, TypeOK, InType, OutType
<1>19. CASE ForwarderResult
    <2>1. inner' \in InType /\ awake' \subseteq Tasks
        BY <1>19, <1>1, PollType DEF ForwarderResult, In!Resolved
    <2>2. pc' \in [Tasks -> Points]
        BY <1>1, <1>2, <1>3, <1>6, <1>19 DEF ForwarderResult
    <2>3. carried' \in Events \cup {NoResult}
        BY <1>1, <1>8, <1>19 DEF ForwarderResult
    <2> QED
        BY <1>1, <1>19, <2>1, <2>2, <2>3 DEF ForwarderResult, TypeOK, InType, OutType
<1>20. CASE ForwarderEnd
    <2>1. outer' \in OutType /\ awake' \subseteq Tasks
        BY <1>20, <1>1, EndType DEF ForwarderEnd
    <2>2. pc' \in [Tasks -> Points]
        BY <1>2, <1>3, <1>6, <1>20 DEF ForwarderEnd
    <2> QED
        BY <1>1, <1>20, <2>1, <2>2 DEF ForwarderEnd, TypeOK, InType, OutType
<1>21. CASE ReaderNext
    <2>1. outer' \in OutType /\ awake' \subseteq Tasks
        BY <1>21, <1>1, PollType DEF ReaderNext, Out!Over
    <2>2. pc' \in [Tasks -> Points]
        BY <1>1, <1>2, <1>3, <1>6, <1>21 DEF ReaderNext
    <2>3. received' \in Seq(Events)
        BY <1>1, <1>7, <1>21 DEF ReaderNext
    <2> QED
        BY <1>1, <1>21, <2>1, <2>2, <2>3 DEF ReaderNext, TypeOK, InType, OutType
<1>22. ASSUME NEW t \in {"reader", "asker"}, AskResult(t) PROVE TypeOK'
    <2>1. outer' \in OutType /\ awake' \subseteq Tasks
        BY <1>22, <1>1, PollType DEF AskResult, Out!Resolved
    <2>2. pc' \in [Tasks -> Points]
        BY <1>1, <1>2, <1>3, <1>6, <1>22 DEF AskResult
    <2>3. answer' \in [{"reader", "asker"} -> Events \cup {NoResult}]
        BY <1>1, <1>8, <1>22 DEF AskResult
    <2> QED
        BY <1>1, <1>22, <2>1, <2>2, <2>3 DEF AskResult, TypeOK, InType, OutType
<1>23. ASSUME NEW t \in Tasks, PollInVain(t) PROVE TypeOK'
    BY <1>23 DEF PollInVain, TypeOK
<1>24. CASE UNCHANGED vars
    BY <1>24 DEF vars, TypeOK
<1> QED
    BY <1>11, <1>12, <1>13, <1>14, <1>15, <1>16, <1>17, <1>18, <1>19, <1>20,
       <1>21, <1>22, <1>23, <1>24 DEF Next, ProviderStep, ForwarderStep, ReaderStep

-----------------------------------------------------------------------------
LEMMA InitResult == Init => ResultInv
<1> SUFFICES ASSUME Init PROVE ResultInv
    OBVIOUS
<1>1. sent = <<>> /\ carried = NoResult /\ inner.result = NoResult /\ outer.result = NoResult
    BY DEF Init, In!Empty, Out!Empty
<1>2. \/ pc["provider"] = "off" /\ pc["forwarder"] = "setup"
      \/ pc["provider"] = "push" /\ pc["forwarder"] = "absent"
    BY DEF Init
<1>3. pc["reader"] = "next" /\ pc["asker"] = "result"
    BY DEF Init
<1> QED
    BY <1>1, <1>2, <1>3 DEF ResultInv, ProviderInv, ForwarderInv, Faithful, ResultOf,
       ResultIsTerminal, Settled

\* One case per action: what it does to the places of the terminal event.
LEMMA StepResult == TypeOK /\ ResultInv /\ [Next]_vars => ResultInv'
<1> SUFFICES ASSUME TypeOK, ResultInv, [Next]_vars PROVE ResultInv'
    OBVIOUS
<1> USE DEF ResultInv
<1>1. /\ inner \in InType /\ outer \in OutType
      /\ pc \in [Tasks -> Points] /\ sent \in Seq(Events)
      /\ carried \in Events \cup {NoResult}
      /\ answer \in [{"reader", "asker"} -> Events \cup {NoResult}]
    BY DEF TypeOK, InType, OutType
<1>2. ASSUME NEW t \in Tasks, NEW point \in Points, Go(t, point)
      PROVE  pc'[t] = point /\ \A u \in Tasks : u # t => pc'[u] = pc[u]
    BY <1>1, <1>2 DEF Go
<1>3. {"push", "mark", "enqueue", "late", "end", "done", "next", "result"} \subseteq Points
    BY DEF Points
<1>4. "provider" \in Tasks /\ "forwarder" \in Tasks /\ "reader" \in Tasks /\ "asker" \in Tasks
    BY DEF Tasks
<1>5. UNCHANGED sent => UNCHANGED <<Settled, Newest>>
    BY DEF Settled, Newest
<1>6. \A e \in Events : /\ In!Mark(e) => \/ UNCHANGED inner /\ (e.terminal => inner.done)
                                         \/ e.terminal /\ inner'.result = e /\ inner'.done
                        /\ Out!Mark(e) => \/ UNCHANGED outer /\ (e.terminal => outer.done)
                                          \/ e.terminal /\ outer'.result = e /\ outer'.done
    BY <1>1, EventFacts DEF InType, OutType, StreamType, In!Mark, Out!Mark
<1>7. \A e \in Events : /\ In!Enqueue(e) => inner'.result = inner.result /\ inner'.done = inner.done
                        /\ Out!Enqueue(e) => outer'.result = outer.result /\ outer'.done = outer.done
    BY <1>1 DEF InType, OutType, StreamType, In!Enqueue, Out!Enqueue
<1>8. \A r : /\ In!End(r) => inner'.done /\ inner'.result = (IF inner.result = NoResult THEN r ELSE inner.result)
             /\ Out!End(r) => outer'.done /\ outer'.result = (IF outer.result = NoResult THEN r ELSE outer.result)
    BY <1>1 DEF InType, OutType, StreamType, In!End, Out!End
<1>11. CASE ProviderMark
    <2>1. PICK b \in BOOLEAN : /\ Feed("mark", Event(Len(sent) + 1, b))
                               /\ sent' = Append(sent, Event(Len(sent) + 1, b))
        BY <1>11 DEF ProviderMark
    <2> DEFINE e == Event(Len(sent) + 1, b)
    <2>2. e \in Events /\ e.terminal = b
        BY <1>1, EventFacts
    <2> HIDE DEF e
    <2>3. sent' # <<>> /\ Newest' = e /\ Settled' = b
        BY <1>1, <2>1, <2>2 DEF Newest, Settled, e
    <2>4. pc["provider"] = "push" /\ ~Settled
        BY <1>11 DEF ProviderMark, ProviderInv
    <2>5. /\ pc'["provider"] = "enqueue" /\ pc'["forwarder"] = pc["forwarder"]
          /\ pc'["reader"] = pc["reader"] /\ pc'["asker"] = pc["asker"]
        BY <1>2, <1>3, <1>4, <1>11 DEF ProviderMark
    <2>6. UNCHANGED <<carried, answer>>
        BY <1>11 DEF ProviderMark
    <2>7. inner.result = NoResult /\ outer.result = NoResult
        BY <2>4 DEF ResultOf
    <2>8. /\ inner'.result \in {NoResult, e} /\ outer'.result \in {NoResult, e}
          /\ inner'.result = e => b
          /\ outer'.result = e => b
          /\ b => IF Direct THEN outer'.done ELSE inner'.done
        BY <2>1, <2>2, <2>7, <1>6, EventFacts DEF Feed, e
    <2>9. ProviderInv'
        <3>1. \A i \in DOMAIN sent : ~sent[i].terminal
            BY <1>1, <2>4 DEF ProviderInv, Settled, Newest
        <3>2. \A i \in DOMAIN sent' : sent'[i].terminal => i = Len(sent')
            BY <1>1, <2>1, <2>2, <3>1 DEF e
        <3> QED
            BY <2>3, <2>5, <2>8, <3>2 DEF ProviderInv, Direct
    <2>10. ForwarderInv'
        BY <2>3, <2>4, <2>5, <2>6 DEF ForwarderInv, Faithful
    <2>11. ResultOf(inner)' /\ ResultOf(outer)'
        BY <2>2, <2>3, <2>8, EventFacts DEF ResultOf
    <2>12. ResultIsTerminal'
        BY <2>4, <2>5 DEF ResultIsTerminal, Settled, ProviderInv
    <2> QED
        BY <2>9, <2>10, <2>11, <2>12
<1>12. CASE ProviderEnqueue
    <2>1. PICK point \in IF Newest.terminal THEN {"late", "end"} ELSE {"push"} : Go("provider", point)
        BY <1>12 DEF ProviderEnqueue
    <2>2. /\ pc'["provider"] = point /\ pc'["forwarder"] = pc["forwarder"]
          /\ pc'["reader"] = pc["reader"] /\ pc'["asker"] = pc["asker"]
        BY <1>2, <1>3, <1>4, <2>1
    <2>3. pc["provider"] = "enqueue" /\ sent # <<>> /\ UNCHANGED <<sent, carried, answer>>
        BY <1>12 DEF ProviderEnqueue, ProviderInv
    <2>4. Newest \in Events
        BY <1>1, <2>3 DEF Newest
    <2>5. /\ inner'.result = inner.result /\ inner'.done = inner.done
          /\ outer'.result = outer.result /\ outer'.done = outer.done
        BY <2>4, <1>7, <1>12 DEF ProviderEnqueue, Feed
    <2>6. ProviderInv'
        BY <1>5, <2>1, <2>2, <2>3, <2>5 DEF ProviderInv, Settled, Newest, Direct
    <2>7. ForwarderInv'
        BY <1>5, <2>1, <2>2, <2>3 DEF ForwarderInv, Faithful
    <2> QED
        BY <1>5, <2>2, <2>3, <2>5, <2>6, <2>7 DEF ResultOf, ResultIsTerminal
<1>13. CASE ProviderLate
    <2>1. /\ pc["provider"] = "late"
          /\ pc'["provider"] = "end" /\ pc'["forwarder"] = pc["forwarder"]
          /\ pc'["reader"] = pc["reader"] /\ pc'["asker"] = pc["asker"]
        BY <1>2, <1>3, <1>4, <1>13 DEF ProviderLate
    <2>2. UNCHANGED <<sent, carried, answer>>
        BY <1>13 DEF ProviderLate
    <2>3. UNCHANGED <<inner, outer>>
        BY <1>13, <2>1 DEF ProviderLate, ProviderInv, Feed, In!Mark, Out!Mark
    <2> QED
        BY <1>5, <2>1, <2>2, <2>3 DEF ProviderInv, ForwarderInv, Faithful, ResultOf,
           ResultIsTerminal, Direct
<1>14. CASE ProviderEnd
    <2>1. /\ pc["provider"] \in {"end", "push"}
          /\ pc'["provider"] = "done" /\ pc'["forwarder"] = pc["forwarder"]
          /\ pc'["reader"] = pc["reader"] /\ pc'["asker"] = pc["asker"]
        BY <1>2, <1>3, <1>4, <1>14 DEF ProviderEnd
    <2>2. UNCHANGED <<sent, carried, answer>>
        BY <1>14 DEF ProviderEnd
    <2>3. PICK r \in {NoResult} \cup IF pc["provider"] = "end" THEN {Newest} ELSE {} :
             IF Direct THEN Out!End(r) /\ UNCHANGED inner ELSE In!End(r) /\ UNCHANGED outer
        BY <1>14 DEF ProviderEnd
    <2>4. r # NoResult => Settled /\ r = Newest
        BY <2>3 DEF ProviderInv
    <2>5. /\ inner'.result \in {inner.result, r} /\ outer'.result \in {outer.result, r}
          /\ IF Direct THEN outer'.done ELSE inner'.done
        BY <2>3, <1>8
    <2>6. ProviderInv' /\ ForwarderInv'
        BY <1>5, <2>1, <2>2, <2>5 DEF ProviderInv, ForwarderInv, Faithful, Direct
    <2>7. ResultOf(inner)' /\ ResultOf(outer)'
        BY <1>5, <2>2, <2>4, <2>5 DEF ResultOf
    <2> QED
        BY <1>5, <2>1, <2>2, <2>6, <2>7 DEF ResultIsTerminal
<1>15. CASE Setup
    <2>1. /\ pc["forwarder"] = "setup" /\ sent = <<>> /\ pc["provider"] = "off" /\ ~Settled
          /\ UNCHANGED <<inner, outer, answer>>
        BY <1>15 DEF Setup, ForwarderInv, Settled
    <2>2. inner.result = NoResult /\ outer.result = NoResult
        BY <2>1 DEF ResultOf
    <2>3. pc["reader"] # "done" /\ pc["asker"] # "done"
        BY <2>1 DEF ResultIsTerminal
    <2>4. CASE pc' = [pc EXCEPT !["forwarder"] = "next", !["provider"] = "push"] /\ UNCHANGED <<sent, carried>>
        <3>1. /\ pc'["forwarder"] = "next" /\ pc'["provider"] = "push"
              /\ pc'["reader"] = pc["reader"] /\ pc'["asker"] = pc["asker"]
            BY <1>1, <1>4, <2>4
        <3> QED
            BY <1>5, <2>1, <2>2, <2>3, <2>4, <3>1 DEF ProviderInv, ForwarderInv, Faithful,
               ResultOf, ResultIsTerminal
    <2>5. CASE Go("forwarder", "mark") /\ carried' = Event(1, TRUE) /\ sent' = <<Event(1, TRUE)>>
        <3>1. /\ pc'["forwarder"] = "mark" /\ pc'["provider"] = "off"
              /\ pc'["reader"] = pc["reader"] /\ pc'["asker"] = pc["asker"]
            BY <1>2, <1>3, <1>4, <2>1, <2>5
        <3>2. /\ Event(1, TRUE) # NoResult /\ Event(1, TRUE).terminal
              /\ Newest' = Event(1, TRUE) /\ sent' # <<>> /\ Settled'
            BY <2>5, EventFacts DEF Newest, Settled, Event, Events
        <3>3. \A i \in DOMAIN sent' : i = Len(sent')
            BY <2>5
        <3> QED
            BY <2>1, <2>2, <2>3, <2>5, <3>1, <3>2, <3>3 DEF ProviderInv, ForwarderInv, Faithful,
               ResultOf, ResultIsTerminal
    <2> QED
        BY <1>15, <2>4, <2>5 DEF Setup
<1>16. CASE ForwarderNext
    <2>1. /\ pc["forwarder"] = "next" /\ pc["provider"] # "off"
          /\ UNCHANGED <<outer, sent, answer>>
        BY <1>16 DEF ForwarderNext, ForwarderInv
    <2>2. inner'.result = inner.result /\ inner'.done = inner.done
        BY <1>1, <1>16 DEF ForwarderNext, In!Take, In!Over, In!AwaitNext, InType, StreamType
    <2>3. \/ UNCHANGED pc
          \/ /\ pc'["forwarder"] \in {"mark", "result"} /\ pc'["provider"] = pc["provider"]
             /\ pc'["reader"] = pc["reader"] /\ pc'["asker"] = pc["asker"]
        BY <1>2, <1>3, <1>4, <1>16 DEF ForwarderNext
    <2>4. \/ UNCHANGED carried /\ pc'["forwarder"] # "mark"
          \/ \E i \in DOMAIN sent : carried' = sent[i]
        BY <1>2, <1>3, <1>4, <1>16 DEF ForwarderNext
    <2>5. Faithful(carried)'
        <3>1. ASSUME NEW i \in DOMAIN sent, carried' = sent[i], carried'.terminal
              PROVE  Settled /\ carried' = Newest
            BY <1>1, <3>1 DEF ProviderInv, Settled, Newest
        <3> QED
            BY <1>5, <2>1, <2>4, <3>1 DEF Faithful, ForwarderInv
    <2>6. pc'["forwarder"] = "mark" => carried' # NoResult
        BY <1>1, <2>4, EventFacts
    <2> QED
        BY <1>5, <2>1, <2>2, <2>3, <2>5, <2>6 DEF ProviderInv, ForwarderInv, ResultOf,
           ResultIsTerminal, Direct
<1>17. CASE ForwarderMark
    <2>1. pc["forwarder"] = "mark" /\ UNCHANGED <<inner, sent, carried, answer>>
        BY <1>17 DEF ForwarderMark
    <2>2. /\ pc'["forwarder"] \in {"enqueue", IF pc["provider"] = "off" THEN "end" ELSE "next"}
          /\ pc'["provider"] = pc["provider"]
          /\ pc'["reader"] = pc["reader"] /\ pc'["asker"] = pc["asker"]
        BY <1>2, <1>3, <1>4, <1>17 DEF ForwarderMark, Forwarded
    <2>3. carried \in Events
        BY <1>1, <2>1 DEF ForwarderInv
    <2>4. UNCHANGED outer \/ (carried.terminal /\ outer'.result = carried /\ outer'.done)
        BY <1>1, <2>3, <1>17, EventFacts DEF ForwarderMark, Out!Mark, OutType, StreamType
    <2> QED
        BY <1>5, <2>1, <2>2, <2>3, <2>4, EventFacts DEF ProviderInv, ForwarderInv, Faithful,
           ResultOf, ResultIsTerminal, Direct
<1>18. CASE ForwarderEnqueue
    <2>1. pc["forwarder"] = "enqueue" /\ UNCHANGED <<inner, sent, carried, answer>>
        BY <1>18 DEF ForwarderEnqueue
    <2>2. /\ pc'["forwarder"] = (IF pc["provider"] = "off" THEN "end" ELSE "next")
          /\ pc'["provider"] = pc["provider"]
          /\ pc'["reader"] = pc["reader"] /\ pc'["asker"] = pc["asker"]
        BY <1>2, <1>3, <1>4, <1>18 DEF ForwarderEnqueue, Forwarded
    <2>3. outer'.result = outer.result /\ outer'.done = outer.done
        BY <1>1, <2>1, <1>7, <1>18 DEF ForwarderEnqueue, ForwarderInv
    <2> QED
        BY <1>5, <2>1, <2>2, <2>3 DEF ProviderInv, ForwarderInv, Faithful, ResultOf,
           ResultIsTerminal, Direct
<1>19. CASE ForwarderResult
    <2>1. pc["forwarder"] = "result" /\ UNCHANGED <<outer, sent, answer>>
        BY <1>19 DEF ForwarderResult
    <2>2. inner'.result = inner.result /\ inner'.done = inner.done
        BY <1>1, <1>19 DEF ForwarderResult, In!Resolved, In!AwaitResult, InType, StreamType
    <2>3. \/ UNCHANGED <<pc, carried>>
          \/ /\ pc'["forwarder"] = "end" /\ pc'["provider"] = pc["provider"]
             /\ pc'["reader"] = pc["reader"] /\ pc'["asker"] = pc["asker"]
             /\ carried' = inner.result /\ inner.result # NoResult
        BY <1>2, <1>3, <1>4, <1>19 DEF ForwarderResult, In!Resolved
    <2> QED
        BY <1>5, <2>1, <2>2, <2>3 DEF ProviderInv, ForwarderInv, Faithful, ResultOf,
           ResultIsTerminal, Settled, Direct
<1>20. CASE ForwarderEnd
    <2>1. pc["forwarder"] = "end" /\ UNCHANGED <<inner, sent, carried, answer>>
        BY <1>20 DEF ForwarderEnd
    <2>2. /\ pc'["forwarder"] = "done" /\ pc'["provider"] = pc["provider"]
          /\ pc'["reader"] = pc["reader"] /\ pc'["asker"] = pc["asker"]
        BY <1>2, <1>3, <1>4, <1>20 DEF ForwarderEnd
    <2>3. outer'.done /\ outer'.result \in {outer.result, carried}
        BY <1>8, <1>20 DEF ForwarderEnd
    <2> QED
        BY <1>5, <2>1, <2>2, <2>3 DEF ProviderInv, ForwarderInv, Faithful, ResultOf,
           ResultIsTerminal, Direct
<1>21. CASE ReaderNext
    <2>1. pc["reader"] = "next" /\ UNCHANGED <<inner, sent, carried, answer>>
        BY <1>21 DEF ReaderNext
    <2>2. \/ UNCHANGED pc
          \/ /\ pc'["reader"] \in {"next", "result"} /\ pc'["provider"] = pc["provider"]
             /\ pc'["forwarder"] = pc["forwarder"] /\ pc'["asker"] = pc["asker"]
        BY <1>2, <1>3, <1>4, <1>21 DEF ReaderNext
    <2>3. outer'.result = outer.result /\ outer'.done = outer.done
        BY <1>1, <1>21 DEF ReaderNext, Out!Take, Out!Over, Out!AwaitNext, OutType, StreamType
    <2> QED
        BY <1>5, <2>1, <2>2, <2>3 DEF ProviderInv, ForwarderInv, Faithful, ResultOf,
           ResultIsTerminal, Direct
<1>22. ASSUME NEW t \in {"reader", "asker"}, AskResult(t) PROVE ResultInv'
    <2>1. pc[t] = "result" /\ UNCHANGED <<inner, sent, carried>>
        BY <1>22 DEF AskResult
    <2>2. \/ UNCHANGED <<pc, answer>>
          \/ /\ pc'["provider"] = pc["provider"] /\ pc'["forwarder"] = pc["forwarder"]
             /\ \A u \in {"reader", "asker"} \ {t} : pc'[u] = pc[u] /\ answer'[u] = answer[u]
             /\ outer.result # NoResult /\ answer'[t] = outer.result
        BY <1>1, <1>2, <1>3, <1>4, <1>22 DEF AskResult, Out!Resolved
    <2>3. outer'.result = outer.result /\ outer'.done = outer.done
        BY <1>1, <1>22 DEF AskResult, Out!Resolved, Out!AwaitResult, OutType, StreamType
    <2>4. ResultIsTerminal'
        BY <1>5, <2>1, <2>2 DEF ResultOf, ResultIsTerminal, Settled, Newest
    <2> QED
        BY <1>5, <2>1, <2>2, <2>3, <2>4 DEF ProviderInv, ForwarderInv, Faithful, ResultOf, Direct
<1>23. CASE UNCHANGED <<inner, outer, pc, sent, carried, answer>>
    BY <1>5, <1>23 DEF ProviderInv, ForwarderInv, Faithful, ResultOf, ResultIsTerminal, Direct
<1>24. ASSUME NEW t \in Tasks, PollInVain(t) PROVE ResultInv'
    BY <1>23, <1>24 DEF PollInVain
<1>25. CASE UNCHANGED vars
    BY <1>23, <1>25 DEF vars
<1> QED
    BY <1>11, <1>12, <1>13, <1>14, <1>15, <1>16, <1>17, <1>18, <1>19, <1>20,
       <1>21, <1>22, <1>24, <1>25 DEF Next, ProviderStep, ForwarderStep, ReaderStep

-----------------------------------------------------------------------------
LEMMA InitWake == Init => WakeInv
BY DEF Init, WakeInv, NoLostWakeup, Tasks

\* One case per action: a task that sleeps after it slept before or has just
\* left its waker.
LEMMA StepWake == TypeOK /\ ResultInv /\ WakeInv /\ [Next]_vars => WakeInv'
<1> SUFFICES ASSUME TypeOK, ResultInv, WakeInv, [Next]_vars PROVE WakeInv'
    OBVIOUS
<1> USE DEF WakeInv
<1>1. /\ inner \in InType /\ outer \in OutType
      /\ pc \in [Tasks -> Points] /\ sent \in Seq(Events)
      /\ carried \in Events \cup {NoResult}
    BY DEF TypeOK, InType, OutType
<1>2. ASSUME NEW t \in Tasks, NEW point \in Points, Go(t, point)
      PROVE  pc'[t] = point /\ \A u \in Tasks : u # t => pc'[u] = pc[u]
    BY <1>1, <1>2 DEF Go
<1>3. {"push", "mark", "enqueue", "late", "end", "done", "next", "result"} \subseteq Points
    BY DEF Points
<1>4. Tasks = {"provider", "forwarder", "reader", "asker"}
    BY DEF Tasks
<1>5. ASSUME NEW e \in Events
      PROVE  /\ In!Mark(e) =>
                  \/ UNCHANGED <<inner, awake>>
                  \/ /\ inner'.queue = inner.queue /\ inner'.nextWakers = inner.nextWakers
                     /\ awake' = awake \cup inner.resultWakers /\ ~inner.done
             /\ Out!Mark(e) =>
                  \/ UNCHANGED <<outer, awake>>
                  \/ /\ outer'.queue = outer.queue /\ outer'.nextWakers = outer.nextWakers
                     /\ awake' = awake \cup outer.resultWakers /\ ~outer.done
    BY <1>1 DEF InType, OutType, StreamType, In!Mark, Out!Mark
<1>6. ASSUME NEW e \in Events
      PROVE  /\ In!Enqueue(e) =>
                  /\ awake \subseteq awake'
                  /\ inner.nextWakers # <<>> => "forwarder" \in awake'
                  /\ inner'.result = inner.result /\ inner'.resultWakers = inner.resultWakers
             /\ Out!Enqueue(e) =>
                  /\ awake \subseteq awake'
                  /\ outer.nextWakers # <<>> => "reader" \in awake'
                  /\ outer'.result = outer.result /\ outer'.resultWakers = outer.resultWakers
    <2>1. /\ inner.nextWakers # <<>> => Head(inner.nextWakers) = "forwarder"
          /\ outer.nextWakers # <<>> => Head(outer.nextWakers) = "reader"
        BY <1>1, Wakers DEF InType, OutType
    <2> QED
        BY <1>1, <2>1 DEF InType, OutType, StreamType, In!Enqueue, Out!Enqueue,
           In!FirstWaker, Out!FirstWaker
<1>7. ASSUME NEW r
      PROVE  /\ In!End(r) =>
                  /\ awake \cup inner.resultWakers \subseteq awake'
                  /\ \A i \in DOMAIN inner.nextWakers : inner.nextWakers[i] \in awake'
             /\ Out!End(r) =>
                  /\ awake \cup outer.resultWakers \subseteq awake'
                  /\ \A i \in DOMAIN outer.nextWakers : outer.nextWakers[i] \in awake'
    BY DEF In!End, Out!End
<1>8. sent # <<>> => Newest \in Events
    BY <1>1 DEF Newest
<1>11. CASE ProviderMark
    <2>1. PICK b \in BOOLEAN : Feed("mark", Event(Len(sent) + 1, b))
        BY <1>11 DEF ProviderMark
    <2>2. Event(Len(sent) + 1, b) \in Events
        BY <1>1, EventFacts
    <2>3. pc'["provider"] = "enqueue" /\ \A u \in Tasks \ {"provider"} : pc'[u] = pc[u]
        BY <1>2, <1>3, <1>4, <1>11 DEF ProviderMark
    <2>4. pc["provider"] = "push"
        BY <1>11 DEF ProviderMark
    <2> QED
        BY <1>4, <1>5, <2>1, <2>2, <2>3, <2>4 DEF Feed, NoLostWakeup, Sleeps, Feeder, Direct
<1>12. CASE ProviderEnqueue
    <2>1. /\ \A u \in Tasks \ {"provider"} : pc'[u] = pc[u]
          /\ pc["provider"] = "enqueue" /\ Newest \in Events
        BY <1>2, <1>3, <1>4, <1>8, <1>12 DEF ProviderEnqueue, ResultInv, ProviderInv
    <2>2. Feed("enqueue", Newest)
        BY <1>12 DEF ProviderEnqueue
    <2> QED
        BY <1>4, <1>6, <2>1, <2>2 DEF Feed, NoLostWakeup, Sleeps, Feeder, Direct
<1>13. CASE ProviderLate
    <2>1. /\ \A u \in Tasks \ {"provider"} : pc'[u] = pc[u]
          /\ pc["provider"] = "late" /\ pc'["provider"] = "end"
        BY <1>2, <1>3, <1>4, <1>13 DEF ProviderLate
    <2>2. UNCHANGED <<inner, outer, awake>>
        BY <1>13, <2>1 DEF ProviderLate, ResultInv, ProviderInv, Feed, In!Mark, Out!Mark
    <2>3. IF Direct THEN outer.done ELSE inner.done
        BY <2>1 DEF ResultInv, ProviderInv
    <2> QED
        BY <1>4, <2>1, <2>2, <2>3 DEF NoLostWakeup, Sleeps, Feeder, Direct
<1>14. CASE ProviderEnd
    <2>1. /\ \A u \in Tasks \ {"provider"} : pc'[u] = pc[u]
          /\ pc["provider"] \in {"end", "push"}
        BY <1>2, <1>3, <1>4, <1>14 DEF ProviderEnd
    <2>2. PICK r : IF Direct THEN Out!End(r) /\ UNCHANGED inner ELSE In!End(r) /\ UNCHANGED outer
        BY <1>14 DEF ProviderEnd
    <2>3. CASE Direct
        <3>1. /\ awake \cup outer.resultWakers \subseteq awake' /\ UNCHANGED inner
              /\ \A i \in DOMAIN outer.nextWakers : outer.nextWakers[i] \in awake'
            BY <2>2, <2>3 DEF Out!End
        <3> QED
            BY <1>4, <2>1, <2>3, <3>1 DEF NoLostWakeup, Sleeps, Feeder, Direct
    <2>4. CASE ~Direct
        <3>1. /\ awake \cup inner.resultWakers \subseteq awake' /\ UNCHANGED outer
              /\ \A i \in DOMAIN inner.nextWakers : inner.nextWakers[i] \in awake'
            BY <2>2, <2>4 DEF In!End
        <3> QED
            BY <1>4, <2>1, <2>4, <3>1 DEF NoLostWakeup, Sleeps, Feeder, Direct
    <2> QED
        BY <2>3, <2>4
<1>15. CASE Setup
    <2>1. /\ \A u \in {"reader", "asker"} : pc'[u] = pc[u]
          /\ "provider" \in awake /\ "forwarder" \in awake
          /\ UNCHANGED <<inner, outer, awake>>
          /\ ~Direct /\ ~Direct'
        <3>1. pc["forwarder"] = "setup" /\ pc["provider"] = "off" /\ UNCHANGED <<inner, outer, awake>>
            BY <1>15 DEF Setup, ResultInv, ForwarderInv
        <3>2. "provider" \in awake /\ "forwarder" \in awake
            BY <1>4, <3>1
        <3>3. \/ pc' = [pc EXCEPT !["forwarder"] = "next", !["provider"] = "push"]
              \/ Go("forwarder", "mark")
            BY <1>15 DEF Setup
        <3>4. \A u \in {"reader", "asker"} : pc'[u] = pc[u]
            BY <1>1, <1>4, <3>3 DEF Go
        <3>5. pc'["forwarder"] \in {"next", "mark"}
            BY <1>1, <1>4, <3>3 DEF Go
        <3> QED
            BY <3>1, <3>2, <3>4, <3>5 DEF Direct
    <2>2. pc["forwarder"] = "setup"
        BY <1>15 DEF Setup
    <2> QED
        BY <1>4, <2>1, <2>2 DEF NoLostWakeup, Sleeps, Feeder
<1>16. CASE ForwarderNext
    <2>1. pc["forwarder"] = "next" /\ ~Direct /\ UNCHANGED outer
        BY <1>16 DEF ForwarderNext, Direct
    <2>2. CASE In!AwaitNext("forwarder") /\ UNCHANGED pc
        <3>1. /\ inner'.nextWakers = Append(inner.nextWakers, "forwarder")
              /\ inner'.queue = <<>> /\ ~inner'.done
              /\ awake' = awake \ {"forwarder"}
            BY <1>1, <2>2 DEF In!AwaitNext, InType, StreamType
        <3>2. \E i \in DOMAIN inner'.nextWakers : inner'.nextWakers[i] = "forwarder"
            <4>1. inner.nextWakers \in Seq({"forwarder"})
                BY <1>1 DEF InType, StreamType
            <4>2. Len(inner.nextWakers) + 1 \in DOMAIN inner'.nextWakers
                BY <3>1, <4>1
            <4> QED
                BY <3>1, <4>1, <4>2
        <3> QED
            BY <1>4, <2>1, <2>2, <3>1, <3>2 DEF NoLostWakeup, Sleeps, Feeder, Direct
    <2>3. CASE "forwarder" \in awake /\ UNCHANGED awake /\ \E point \in {"mark", "result"} : Go("forwarder", point)
        <3>1. /\ \A u \in Tasks \ {"forwarder"} : pc'[u] = pc[u]
              /\ pc'["forwarder"] \in {"mark", "result"}
            BY <1>2, <1>3, <1>4, <2>3
        <3> QED
            BY <1>4, <2>1, <2>3, <3>1 DEF NoLostWakeup, Sleeps, Feeder, Direct
    <2> QED
        BY <1>16, <2>2, <2>3 DEF ForwarderNext, In!Take, In!Over
<1>17. CASE ForwarderMark
    <2>1. /\ \A u \in Tasks \ {"forwarder"} : pc'[u] = pc[u]
          /\ pc["forwarder"] = "mark" /\ (~outer.done => pc'["forwarder"] = "enqueue")
          /\ pc'["forwarder"] # "absent" /\ UNCHANGED inner
        BY <1>2, <1>3, <1>4, <1>17 DEF ForwarderMark, Forwarded
    <2>2. carried \in Events
        BY <1>1, <2>1 DEF ResultInv, ForwarderInv
    <2>3. Out!Mark(carried)
        BY <1>17 DEF ForwarderMark
    <2>4. "forwarder" \in awake
        BY <1>4, <2>1
    <2> QED
        BY <1>4, <1>5, <2>1, <2>2, <2>3, <2>4 DEF NoLostWakeup, Sleeps, Feeder, Direct
<1>18. CASE ForwarderEnqueue
    <2>1. /\ \A u \in Tasks \ {"forwarder"} : pc'[u] = pc[u]
          /\ pc["forwarder"] = "enqueue" /\ UNCHANGED inner
        BY <1>2, <1>3, <1>4, <1>18 DEF ForwarderEnqueue, Forwarded
    <2>2. carried \in Events
        BY <1>1, <2>1 DEF ResultInv, ForwarderInv
    <2>3. Out!Enqueue(carried)
        BY <1>18 DEF ForwarderEnqueue
    <2>4. "forwarder" \in awake
        BY <1>4, <2>1
    <2> QED
        BY <1>4, <1>6, <2>1, <2>2, <2>3, <2>4 DEF NoLostWakeup, Sleeps
<1>19. CASE ForwarderResult
    <2>1. pc["forwarder"] = "result" /\ ~Direct /\ UNCHANGED outer
        BY <1>19 DEF ForwarderResult, Direct
    <2>2. CASE In!AwaitResult("forwarder") /\ UNCHANGED pc
        <3>1. /\ "forwarder" \in inner'.resultWakers /\ inner'.result = NoResult
              /\ awake' = awake \ {"forwarder"}
            BY <1>1, <2>2 DEF In!AwaitResult, InType, StreamType
        <3> QED
            BY <1>4, <2>1, <2>2, <3>1 DEF NoLostWakeup, Sleeps, Feeder, Direct
    <2>3. CASE In!Resolved("forwarder") /\ Go("forwarder", "end")
        <3>1. /\ \A u \in Tasks \ {"forwarder"} : pc'[u] = pc[u]
              /\ pc'["forwarder"] = "end" /\ "forwarder" \in awake /\ UNCHANGED awake
            BY <1>2, <1>3, <1>4, <2>3 DEF In!Resolved
        <3> QED
            BY <1>4, <2>1, <3>1 DEF NoLostWakeup, Sleeps, Feeder, Direct
    <2> QED
        BY <1>19, <2>2, <2>3 DEF ForwarderResult
<1>20. CASE ForwarderEnd
    <2>1. /\ \A u \in Tasks \ {"forwarder"} : pc'[u] = pc[u]
          /\ pc["forwarder"] = "end" /\ pc'["forwarder"] = "done" /\ UNCHANGED inner
        BY <1>2, <1>3, <1>4, <1>20 DEF ForwarderEnd
    <2>2. Out!End(carried)
        BY <1>20 DEF ForwarderEnd
    <2>3. "forwarder" \in awake
        BY <1>4, <2>1
    <2> QED
        BY <1>4, <1>7, <2>1, <2>2, <2>3 DEF NoLostWakeup, Sleeps
<1>21. CASE ReaderNext
    <2>1. pc["reader"] = "next" /\ UNCHANGED inner
        BY <1>21 DEF ReaderNext
    <2>2. CASE Out!AwaitNext("reader") /\ UNCHANGED pc
        <3>1. /\ outer'.nextWakers = Append(outer.nextWakers, "reader")
              /\ outer'.queue = <<>> /\ ~outer'.done
              /\ outer'.result = outer.result /\ outer'.resultWakers = outer.resultWakers
              /\ awake' = awake \ {"reader"}
            BY <1>1, <2>2 DEF Out!AwaitNext, OutType, StreamType
        <3>2. \E i \in DOMAIN outer'.nextWakers : outer'.nextWakers[i] = "reader"
            <4>1. outer.nextWakers \in Seq({"reader"})
                BY <1>1 DEF OutType, StreamType
            <4>2. Len(outer.nextWakers) + 1 \in DOMAIN outer'.nextWakers
                BY <3>1, <4>1
            <4> QED
                BY <3>1, <4>1, <4>2
        <3> QED
            BY <1>4, <2>1, <2>2, <3>1, <3>2 DEF NoLostWakeup, Sleeps, Feeder, Direct
    <2>3. CASE /\ Out!Over("reader") \/ \E e : Out!Take("reader", e)
               /\ \E point \in {"next", "result"} : Go("reader", point)
        <3>1. /\ outer'.result = outer.result /\ outer'.resultWakers = outer.resultWakers
              /\ "reader" \in awake /\ UNCHANGED awake
            BY <1>1, <2>3 DEF Out!Take, Out!Over, OutType, StreamType
        <3>2. \A u \in Tasks \ {"reader"} : pc'[u] = pc[u]
            BY <1>2, <1>3, <1>4, <2>3
        <3> QED
            BY <1>4, <2>1, <3>1, <3>2 DEF NoLostWakeup, Sleeps, Feeder, Direct
    <2> QED
        BY <1>21, <2>2, <2>3 DEF ReaderNext
<1>22. ASSUME NEW t \in {"reader", "asker"}, AskResult(t) PROVE WakeInv'
    <2>1. pc[t] = "result" /\ UNCHANGED inner
        BY <1>22 DEF AskResult
    <2>2. CASE Out!AwaitResult(t) /\ UNCHANGED pc
        <3>1. /\ outer'.resultWakers = outer.resultWakers \cup {t}
              /\ outer'.queue = outer.queue /\ outer'.nextWakers = outer.nextWakers
              /\ outer'.done = outer.done /\ outer.result = NoResult /\ outer'.result = NoResult
              /\ awake' = awake \ {t}
            BY <1>1, <2>2 DEF Out!AwaitResult, OutType, StreamType
        <3> QED
            BY <1>4, <2>1, <2>2, <3>1 DEF NoLostWakeup, Sleeps, Feeder, Direct
    <2>3. CASE Out!Resolved(t) /\ Go(t, "done")
        <3>1. /\ \A u \in Tasks \ {t} : pc'[u] = pc[u]
              /\ t \in awake /\ UNCHANGED <<outer, awake>>
            BY <1>2, <1>3, <1>4, <2>3 DEF Out!Resolved
        <3>2. pc'[t] = "done"
            BY <1>2, <1>3, <1>4, <2>3
        <3> QED
            BY <1>4, <2>1, <3>1, <3>2 DEF NoLostWakeup, Sleeps, Feeder, Direct
    <2> QED
        BY <1>22, <2>2, <2>3 DEF AskResult
<1>23. ASSUME NEW t \in Tasks, PollInVain(t) PROVE WakeInv'
    BY <1>23 DEF PollInVain, NoLostWakeup, Sleeps, Feeder, Direct
<1>24. CASE UNCHANGED vars
    BY <1>24 DEF vars, NoLostWakeup, Sleeps, Feeder, Direct
<1> QED
    BY <1>11, <1>12, <1>13, <1>14, <1>15, <1>16, <1>17, <1>18, <1>19, <1>20,
       <1>21, <1>22, <1>23, <1>24 DEF Next, ProviderStep, ForwarderStep, ReaderStep

-----------------------------------------------------------------------------
LEMMA LazyInvariant == Spec => []LazyInv
<1>1. Init => LazyInv
    BY InitType, InitResult, InitWake DEF LazyInv
<1>2. LazyInv /\ [Next]_vars => LazyInv'
    BY TypeStep, StepResult, StepWake DEF LazyInv
<1> QED
    BY <1>1, <1>2, PTL DEF Spec

\* Streams, tasks and messages keep their types: only the forwarder waits for
\* the provider's stream, and only the reader reads the one handed out.
THEOREM StreamsAreTyped == Spec => []TypeOK
<1>1. LazyInv => TypeOK
    BY DEF LazyInv
<1> QED
    BY <1>1, LazyInvariant, PTL

\* However many events there are, however often a task is polled in vain, and
\* even if the response is cut short, nobody sleeps who could go on.
THEOREM NobodySleepsOver == Spec => []NoLostWakeup
<1>1. LazyInv => NoLostWakeup
    BY DEF LazyInv, WakeInv
<1> QED
    BY <1>1, LazyInvariant, PTL

\* The result that the loop and every other user gets is the message of the
\* provider's terminal event, through one stream or through two.
THEOREM ResultsAreTerminal == Spec => []ResultIsTerminal
<1>1. LazyInv => ResultIsTerminal
    BY DEF LazyInv, ResultInv
<1> QED
    BY <1>1, LazyInvariant, PTL

-----------------------------------------------------------------------------
\* The first event of a stream, and those behind it.
LEMMA PlacedTail ==
    ASSUME NEW q \in Seq(Events), NEW k \in Nat, NEW t, q # <<>>, InPlace(q, k, t)
    PROVE  /\ Head(q) = t[k + 1] /\ Tail(q) \in Seq(Events) /\ Len(Tail(q)) = Len(q) - 1
           /\ Len(q) >= 1 /\ InPlace(Tail(q), k + 1, t)
<1>1. Len(q) \in Nat /\ Len(q) >= 1 /\ Tail(q) \in Seq(Events) /\ Len(Tail(q)) = Len(q) - 1
    OBVIOUS
<1>2. \A i \in 1 .. Len(Tail(q)) : Tail(q)[i] = q[i + 1] /\ i + 1 \in 1 .. Len(q)
    BY <1>1
<1>3. \A i \in Nat : k + (i + 1) = (k + 1) + i
    OBVIOUS
<1>4. InPlace(Tail(q), k + 1, t)
    BY <1>1, <1>2, <1>3 DEF InPlace
<1>5. Head(q) = q[1]
    BY <1>1
<1> QED
    BY <1>1, <1>4, <1>5 DEF InPlace

\* The next event joins a stream.
LEMMA PlacedAppend ==
    ASSUME NEW q \in Seq(Events), NEW k \in Nat, NEW t, NEW e \in Events, InPlace(q, k, t),
           e = t[k + Len(q) + 1]
    PROVE  /\ Append(q, e) \in Seq(Events) /\ Len(Append(q, e)) = Len(q) + 1
           /\ InPlace(Append(q, e), k, t)
<1>1. Append(q, e) \in Seq(Events) /\ Len(Append(q, e)) = Len(q) + 1 /\ Len(q) \in Nat
    OBVIOUS
<1>2. \A i \in 1 .. Len(q) + 1 : i \in 1 .. Len(q) \/ i = Len(q) + 1
    BY <1>1
<1>3. k + (Len(q) + 1) = k + Len(q) + 1
    BY <1>1
<1>4. Append(q, e)[Len(q) + 1] = e /\ \A i \in 1 .. Len(q) : Append(q, e)[i] = q[i]
    OBVIOUS
<1> QED
    BY <1>1, <1>2, <1>3, <1>4 DEF InPlace

\* A new event disturbs none that is on its way.
LEMMA PlacedGrow ==
    ASSUME NEW q \in Seq(Events), NEW k \in Nat, NEW t \in Seq(Events), NEW e \in Events,
           InPlace(q, k, t), k + Len(q) <= Len(t)
    PROVE  InPlace(q, k, Append(t, e))
<1>1. \A i \in 1 .. Len(q) : k + i \in 1 .. Len(t)
    OBVIOUS
<1>2. \A j \in 1 .. Len(t) : Append(t, e)[j] = t[j]
    OBVIOUS
<1> QED
    BY <1>1, <1>2 DEF InPlace

LEMMA PlacedEmpty ==
    ASSUME NEW q \in Seq(Events), Len(q) = 0, NEW k, NEW t
    PROVE  q = <<>> /\ InPlace(q, k, t)
BY DEF InPlace

LEMMA InitOrder == Init => OrderInv
<1> SUFFICES ASSUME Init PROVE OrderInv
    OBVIOUS
<1>1. /\ sent = <<>> /\ received = <<>> /\ Unforwarded = <<>> /\ Unread = <<>>
      /\ ~inner.done /\ ~outer.done
    BY DEF Init, In!Empty, Out!Empty, Unforwarded, Unread
<1>2. \/ pc["provider"] = "off" /\ pc["forwarder"] = "setup"
      \/ pc["provider"] = "push" /\ pc["forwarder"] = "absent"
    BY DEF Init
<1>3. pc["reader"] = "next"
    BY DEF Init
<1> QED
    BY <1>1, <1>2, <1>3 DEF OrderInv, CountInv, PlacesInv, InPlace, Passed, Carries, Pushes, Direct

\* What the steps do to the two streams, as far as the order of events goes.
LEMMA LazySteps ==
    ASSUME TypeOK
    PROVE  /\ \A e \in Events :
                /\ In!Mark(e) => Unforwarded' = Unforwarded /\ inner'.done = (inner.done \/ e.terminal)
                /\ Out!Mark(e) => Unread' = Unread /\ outer'.done = (outer.done \/ e.terminal)
                /\ In!Enqueue(e) => Unforwarded' = Append(Unforwarded, e) /\ inner'.done = inner.done
                /\ Out!Enqueue(e) => Unread' = Append(Unread, e) /\ outer'.done = outer.done
           /\ \A r : /\ In!End(r) => Unforwarded' = Unforwarded /\ inner'.done
                     /\ Out!End(r) => Unread' = Unread /\ outer'.done
           /\ \A t, e : /\ In!Take(t, e) => /\ Unforwarded # <<>> /\ e = Head(Unforwarded)
                                            /\ Unforwarded' = Tail(Unforwarded) /\ inner'.done = inner.done
                        /\ Out!Take(t, e) => /\ Unread # <<>> /\ e = Head(Unread)
                                             /\ Unread' = Tail(Unread) /\ outer'.done = outer.done
           /\ \A t : /\ In!AwaitNext(t) \/ In!AwaitResult(t) => Unforwarded' = Unforwarded /\ inner'.done = inner.done
                     /\ Out!AwaitNext(t) \/ Out!AwaitResult(t) => Unread' = Unread /\ outer'.done = outer.done
<1>1. inner \in InType /\ outer \in OutType
    BY DEF TypeOK, InType, OutType
<1>2. \A e \in Events :
         /\ In!Mark(e) => Unforwarded' = Unforwarded /\ inner'.done = (inner.done \/ e.terminal)
         /\ Out!Mark(e) => Unread' = Unread /\ outer'.done = (outer.done \/ e.terminal)
    BY <1>1, EventFacts DEF InType, OutType, StreamType, In!Mark, Out!Mark, Unforwarded, Unread
<1>3. \A e \in Events :
         /\ In!Enqueue(e) => Unforwarded' = Append(Unforwarded, e) /\ inner'.done = inner.done
         /\ Out!Enqueue(e) => Unread' = Append(Unread, e) /\ outer'.done = outer.done
    BY <1>1 DEF InType, OutType, StreamType, In!Enqueue, Out!Enqueue, Unforwarded, Unread
<1>4. \A r : /\ In!End(r) => Unforwarded' = Unforwarded /\ inner'.done
             /\ Out!End(r) => Unread' = Unread /\ outer'.done
    BY <1>1 DEF InType, OutType, StreamType, In!End, Out!End, Unforwarded, Unread
<1>5. \A t, e : /\ In!Take(t, e) => /\ Unforwarded # <<>> /\ e = Head(Unforwarded)
                                    /\ Unforwarded' = Tail(Unforwarded) /\ inner'.done = inner.done
                /\ Out!Take(t, e) => /\ Unread # <<>> /\ e = Head(Unread)
                                     /\ Unread' = Tail(Unread) /\ outer'.done = outer.done
    BY <1>1 DEF InType, OutType, StreamType, In!Take, Out!Take, Unforwarded, Unread
<1>6. \A t : /\ In!AwaitNext(t) \/ In!AwaitResult(t) => Unforwarded' = Unforwarded /\ inner'.done = inner.done
             /\ Out!AwaitNext(t) \/ Out!AwaitResult(t) => Unread' = Unread /\ outer'.done = outer.done
    BY <1>1 DEF InType, OutType, StreamType, In!AwaitNext, In!AwaitResult, Out!AwaitNext, Out!AwaitResult, Unforwarded, Unread
<1> QED
    BY <1>2, <1>3, <1>4, <1>5, <1>6

\* One case per action: where it moves an event.
LEMMA StepOrder ==
    ASSUME ~Truncates
    PROVE  TypeOK /\ ResultInv /\ OrderInv /\ [Next]_vars => OrderInv'
<1> SUFFICES ASSUME TypeOK, ResultInv, OrderInv, [Next]_vars PROVE OrderInv'
    OBVIOUS
<1>1. /\ Unforwarded \in Seq(Events) /\ Unread \in Seq(Events)
      /\ inner.done \in BOOLEAN /\ outer.done \in BOOLEAN
      /\ pc \in [Tasks -> Points] /\ sent \in Seq(Events) /\ received \in Seq(Events)
      /\ carried \in Events \cup {NoResult}
    BY DEF TypeOK, StreamType, Unforwarded, Unread
<1>2. ASSUME NEW t \in Tasks, NEW point \in Points, Go(t, point)
      PROVE  pc'[t] = point /\ \A u \in Tasks : u # t => pc'[u] = pc[u]
    BY <1>1, <1>2 DEF Go
<1>3. {"push", "mark", "enqueue", "late", "end", "done", "next", "result"} \subseteq Points
    BY DEF Points
<1>4. "provider" \in Tasks /\ "forwarder" \in Tasks /\ "reader" \in Tasks /\ "asker" \in Tasks
    BY DEF Tasks
<1>5. UNCHANGED sent => UNCHANGED <<Settled, Newest>>
    BY DEF Settled, Newest
<1>6. /\ Len(sent) \in Nat /\ Len(received) \in Nat /\ Len(Unforwarded) \in Nat /\ Len(Unread) \in Nat
      /\ Passed \in Nat /\ Carries \in {0, 1} /\ Pushes \in {0, 1} /\ Carries \in Nat /\ Pushes \in Nat
    BY <1>1 DEF Passed, Carries, Pushes
<1>61. /\ \A k, c, q, p, n \in Nat : k + c + q + p = n =>
              k <= n /\ k + c \in Nat /\ k + c + q <= n /\ (c = 1 => k + 1 \in 1 .. n)
       /\ \A k, p, n \in Nat : k + p = n => k <= n
       /\ \A k, n \in Nat : k = n - 1 \/ k = n => k <= n
    OBVIOUS
<1>62. /\ Direct => Passed + Pushes = Len(sent)
       /\ pc["forwarder"] \in {"setup", "next", "mark", "enqueue"} =>
             Passed + Carries + Len(Unforwarded) + Pushes = Len(sent)
       /\ pc["forwarder"] \in {"result", "end", "done"} => Passed = Len(sent) - 1 \/ Passed = Len(sent)
       /\ Direct \/ pc["forwarder"] \in {"setup", "next", "mark", "enqueue"}
                 \/ pc["forwarder"] \in {"result", "end", "done"}
       /\ Carries = 1 => pc["forwarder"] \in {"mark", "enqueue"}
    BY DEF OrderInv, CountInv, Direct, Carries
<1>63. /\ InPlace(received, 0, sent) /\ InPlace(Unread, Len(received), sent)
       /\ Carries = 1 => carried = sent[Passed + 1]
       /\ pc["forwarder"] \in {"setup", "next", "mark", "enqueue"} =>
             InPlace(Unforwarded, Passed + Carries, sent)
    BY DEF OrderInv, PlacesInv
<1>7. Passed <= Len(sent) /\ (Carries = 1 => Passed + 1 \in 1 .. Len(sent))
  <2>1. CASE Direct
      BY <1>6, <1>61, <1>62, <2>1 DEF Carries, Direct
  <2>2. CASE pc["forwarder"] \in {"setup", "next", "mark", "enqueue"}
      BY <1>6, <1>61, <1>62, <2>2
  <2>3. CASE pc["forwarder"] \in {"result", "end", "done"}
      BY <1>6, <1>61, <1>62, <2>3
  <2> QED
      BY <1>62, <2>1, <2>2, <2>3
<1>8. sent # <<>> => Newest \in Events /\ Newest = sent[Len(sent)] /\ Len(sent) >= 1
    BY <1>1 DEF Newest
<1>9. ASSUME NEW i \in 1 .. Len(sent), sent[i].terminal
      PROVE  i = Len(sent) /\ Settled
    BY <1>1, <1>9 DEF ResultInv, ProviderInv, Settled, Newest
<1>10. /\ UNCHANGED <<received, outer>> => UNCHANGED Passed
       /\ (UNCHANGED inner => UNCHANGED Unforwarded) /\ (UNCHANGED outer => UNCHANGED Unread)
       /\ pc'["forwarder"] = pc["forwarder"] => UNCHANGED <<Carries, Direct>>
       /\ pc'["provider"] = pc["provider"] => UNCHANGED Pushes
    BY DEF Passed, Carries, Pushes, Direct, Unforwarded, Unread
<1>11. CASE ProviderMark
    <2>1. PICK b \in BOOLEAN : /\ Feed("mark", Event(Len(sent) + 1, b))
                               /\ sent' = Append(sent, Event(Len(sent) + 1, b))
        BY <1>11 DEF ProviderMark
    <2> DEFINE e == Event(Len(sent) + 1, b)
    <2>2. e \in Events /\ e.terminal = b
        <3>1. Len(sent) + 1 \in Nat
            BY <1>6
        <3> QED
            BY <3>1, EventFacts
    <2> HIDE DEF e
    <2>3. sent' \in Seq(Events) /\ Len(sent') = Len(sent) + 1 /\ sent' # <<>> /\ Settled' = b
        BY <1>1, <2>1, <2>2 DEF Newest, Settled, e
    <2>4. pc["provider"] = "push" /\ ~Settled
        BY <1>11 DEF ProviderMark, ResultInv, ProviderInv
    <2>5. /\ pc'["provider"] = "enqueue" /\ pc'["forwarder"] = pc["forwarder"]
          /\ pc'["reader"] = pc["reader"] /\ UNCHANGED <<carried, received>>
        BY <1>2, <1>3, <1>4, <1>11 DEF ProviderMark
    <2>6. ~outer.done /\ (~Direct => ~inner.done)
        BY <2>4 DEF OrderInv, CountInv, PlacesInv
    <2>7. /\ Unforwarded' = Unforwarded /\ Unread' = Unread
          /\ Direct => outer'.done = b
          /\ ~Direct => ~outer'.done /\ inner'.done = b
        BY <1>10, <2>1, <2>2, <2>6, LazySteps DEF Feed, e
    <2>8. UNCHANGED <<Passed, Carries, Direct>> /\ Pushes = 0 /\ Pushes' = 1
        BY <2>4, <2>5, <2>7 DEF Passed, Carries, Pushes, Direct
    <2>9. /\ InPlace(received, 0, sent) => InPlace(received, 0, sent')
          /\ InPlace(Unread, Len(received), sent) => InPlace(Unread, Len(received), sent')
        BY <1>1, <1>6, <1>7, <2>1, <2>2, PlacedGrow DEF Passed, e
    <2>10. ASSUME pc["forwarder"] \in {"setup", "next", "mark", "enqueue"}
           PROVE  InPlace(Unforwarded, Passed + Carries, sent')
        <3>1. Passed + Carries + Len(Unforwarded) <= Len(sent) /\ Passed + Carries \in Nat
            BY <1>6, <1>61, <1>62, <2>10
        <3> QED
            BY <1>1, <2>1, <2>2, <2>10, <3>1, PlacedGrow DEF OrderInv, CountInv, PlacesInv, e
    <2>11. Carries = 1 => carried = sent'[Passed + 1]
        <3>1. Carries = 1 => Passed + 1 \in 1 .. Len(sent)
            BY <1>7
        <3>2. \A i \in 1 .. Len(sent) : sent'[i] = sent[i]
            BY <1>1, <2>1, <2>2 DEF e
        <3> QED
            BY <3>1, <3>2 DEF OrderInv, CountInv, PlacesInv
    <2> QED
        <3>1. /\ \A k, c, q, p, n, r, m \in Nat :
                    k + c + q + p = n /\ p = 0 /\ r = 1 /\ m = n + 1 => k + c + q + r = m
              /\ \A k, p, n, r, m \in Nat : k + p = n /\ p = 0 /\ r = 1 /\ m = n + 1 => k + r = m
            OBVIOUS
        <3>2. /\ Direct => Passed' + Pushes' = Len(sent')
              /\ pc["forwarder"] \in {"setup", "next", "mark", "enqueue"} =>
                    Passed' + Carries' + Len(Unforwarded') + Pushes' = Len(sent')
          <4>1. Pushes' \in Nat /\ Len(sent') \in Nat
            BY <1>6, <2>3, <2>8
          <4> QED
            BY <1>6, <1>62, <2>3, <2>7, <2>8, <3>1, <4>1
        <3>3. /\ pc["forwarder"] \notin {"result", "end", "done"}
              /\ pc["reader"] \notin {"result", "done"}
            BY <2>4 DEF OrderInv, CountInv
        <3>4. CountInv'
            BY <2>3, <2>5, <2>6, <2>7, <2>8, <3>2, <3>3 DEF OrderInv, CountInv, Direct
        <3>5. PlacesInv'
            BY <2>5, <2>7, <2>8, <2>9, <2>10, <2>11 DEF OrderInv, PlacesInv
        <3> QED
            BY <3>4, <3>5 DEF OrderInv
<1>12. CASE ProviderEnqueue
    <2>1. /\ pc["provider"] = "enqueue" /\ sent # <<>> /\ UNCHANGED <<sent, carried, received>>
          /\ Feed("enqueue", Newest)
        BY <1>12 DEF ProviderEnqueue, ResultInv, ProviderInv
    <2>2. /\ pc'["provider"] # "enqueue" /\ pc'["forwarder"] = pc["forwarder"]
          /\ pc'["reader"] = pc["reader"]
        BY <1>2, <1>3, <1>4, <1>12 DEF ProviderEnqueue
    <2>3. Pushes = 1 /\ Pushes' = 0 /\ UNCHANGED <<Carries, Direct>>
        BY <2>1, <2>2 DEF Pushes, Carries, Direct
    <2>4. CASE Direct
        <3>1. /\ Unread' = Append(Unread, Newest) /\ outer'.done = outer.done
              /\ UNCHANGED inner
            BY <1>8, <2>1, <2>4, LazySteps DEF Feed
        <3>2. Newest = sent[Len(received) + Len(Unread) + 1]
            BY <1>6, <1>8, <2>1, <2>3, <2>4 DEF OrderInv, CountInv, PlacesInv, Passed
        <3>3. InPlace(Unread', Len(received), sent) /\ Len(Unread') = Len(Unread) + 1
            BY <1>1, <1>6, <1>8, <1>63, <2>1, <3>1, <3>2, PlacedAppend
        <3>4. Passed' = Passed + 1
            BY <1>6, <2>1, <3>3 DEF Passed
        <3>5. pc["forwarder"] = "absent" /\ Carries = 0 /\ Carries' = 0 /\ Direct'
            BY <2>3, <2>4 DEF Direct, Carries
        <3>6. Passed' + Pushes' = Len(sent')
            BY <1>6, <1>62, <2>1, <2>3, <2>4, <3>4
        <3>7. CountInv'
            BY <1>5, <2>1, <2>2, <3>1, <3>5, <3>6 DEF OrderInv, CountInv
        <3>8. PlacesInv'
            BY <1>63, <2>1, <2>2, <3>3, <3>5 DEF PlacesInv
        <3> QED
            BY <3>7, <3>8 DEF OrderInv
    <2>5. CASE ~Direct
        <3>1. /\ Unforwarded' = Append(Unforwarded, Newest) /\ inner'.done = inner.done
              /\ UNCHANGED outer
            BY <1>8, <2>1, <2>5, LazySteps DEF Feed
        <3>2. UNCHANGED Passed
            BY <1>10, <2>1, <3>1
        <3>3. ASSUME pc["forwarder"] \in {"setup", "next", "mark", "enqueue"}
              PROVE  /\ InPlace(Unforwarded', Passed + Carries, sent)
                     /\ Len(Unforwarded') = Len(Unforwarded) + 1
            <4>1. Passed + Carries + Len(Unforwarded) + 1 = Len(sent) /\ Passed + Carries \in Nat
                BY <1>6, <1>61, <1>62, <2>3, <3>3
            <4>2. Newest = sent[Passed + Carries + Len(Unforwarded) + 1] /\ Newest \in Events
                BY <1>8, <2>1, <4>1
            <4>3. InPlace(Unforwarded, Passed + Carries, sent)
                BY <1>63, <3>3
            <4> QED
                BY <1>1, <3>1, <4>1, <4>2, <4>3, PlacedAppend
        <3>4. pc["forwarder"] \in {"setup", "next", "mark", "enqueue"} =>
                 Passed + Carries + Len(Unforwarded') + 0 = Len(sent)
            <4>1. \A k, c, q, p, r, n \in Nat : k + c + q + p = n /\ p = 1 /\ r = q + 1 => k + c + r + 0 = n
                OBVIOUS
            <4>2. pc["forwarder"] \in {"setup", "next", "mark", "enqueue"} => Len(Unforwarded') \in Nat
                BY <1>6, <3>3
            <4> QED
                BY <1>6, <1>62, <2>3, <3>3, <4>1, <4>2
        <3>5. CountInv'
            BY <1>5, <2>1, <2>2, <2>3, <2>5, <3>1, <3>2, <3>4 DEF OrderInv, CountInv
        <3>6. PlacesInv'
            BY <1>10, <1>63, <2>1, <2>2, <2>3, <3>1, <3>2, <3>3 DEF PlacesInv
        <3> QED
            BY <3>5, <3>6 DEF OrderInv
    <2> QED
        BY <2>4, <2>5
<1>13. CASE ProviderLate
    <2>1. /\ pc["provider"] = "late"
          /\ pc'["provider"] = "end" /\ pc'["forwarder"] = pc["forwarder"]
          /\ pc'["reader"] = pc["reader"]
        BY <1>2, <1>3, <1>4, <1>13 DEF ProviderLate
    <2>2. UNCHANGED <<sent, carried, received>>
        BY <1>13 DEF ProviderLate
    <2>3. UNCHANGED <<inner, outer>>
        BY <1>13, <2>1 DEF ProviderLate, ResultInv, ProviderInv, Feed, In!Mark, Out!Mark
    <2>4. UNCHANGED <<Passed, Carries, Pushes, Direct>>
        BY <1>10, <2>1, <2>2, <2>3 DEF Passed, Carries, Pushes, Direct
    <2> QED
        BY <1>10, <1>5, <2>1, <2>2, <2>3, <2>4 DEF OrderInv, CountInv, PlacesInv
<1>14. CASE ProviderEnd
    <2>1. /\ pc["provider"] = "end" /\ Settled
          /\ pc'["provider"] = "done" /\ pc'["forwarder"] = pc["forwarder"]
          /\ pc'["reader"] = pc["reader"]
        BY <1>2, <1>3, <1>4, <1>14 DEF ProviderEnd, ResultInv, ProviderInv
    <2>2. UNCHANGED <<sent, carried, received>>
        BY <1>14 DEF ProviderEnd
    <2>3. PICK r : IF Direct THEN Out!End(r) /\ UNCHANGED inner ELSE In!End(r) /\ UNCHANGED outer
        BY <1>14 DEF ProviderEnd
    <2>4. /\ Unforwarded' = Unforwarded /\ Unread' = Unread
          /\ ~Direct => outer'.done = outer.done
        BY <1>10, <2>3, LazySteps
    <2>5. UNCHANGED <<Passed, Carries, Pushes, Direct>>
        BY <2>1, <2>2, <2>4 DEF Passed, Carries, Pushes, Direct
    <2>6. Direct => pc["forwarder"] = "absent"
        BY DEF Direct
    <2> QED
        BY <1>5, <2>1, <2>2, <2>4, <2>5, <2>6 DEF OrderInv, CountInv, PlacesInv
<1>15. CASE Setup
    <2>1. /\ pc["forwarder"] = "setup" /\ sent = <<>> /\ pc["provider"] = "off" /\ ~Settled
          /\ UNCHANGED <<inner, outer, received>>
        BY <1>15 DEF Setup, ResultInv, ForwarderInv, Settled
    <2>2. ~outer.done /\ ~inner.done /\ pc["reader"] \notin {"result", "done"}
        BY <2>1 DEF OrderInv, CountInv, PlacesInv, Direct
    <2>3. Len(received) = 0 /\ Len(Unread) = 0 /\ Len(Unforwarded) = 0 /\ Passed' = 0
        <3>1. Passed + Carries + Len(Unforwarded) + Pushes = 0
            BY <1>62, <2>1
        <3>2. \A r, o, k, c, q, p \in Nat : k = r + o /\ k + c + q + p = 0 => r = 0 /\ o = 0 /\ q = 0 /\ k = 0
            OBVIOUS
        <3>3. Passed = Len(received) + Len(Unread) /\ UNCHANGED Passed
            BY <1>10, <2>1 DEF Passed
        <3> QED
            BY <1>6, <3>1, <3>2, <3>3
    <2>4. \A t, k : /\ InPlace(received, k, t) /\ InPlace(Unread, k, t)
                    /\ InPlace(Unforwarded, k, t)
        BY <1>1, <2>3, PlacedEmpty
    <2>5. CASE pc' = [pc EXCEPT !["forwarder"] = "next", !["provider"] = "push"] /\ UNCHANGED <<sent, carried>>
        <3>1. /\ pc'["forwarder"] = "next" /\ pc'["provider"] = "push"
              /\ pc'["reader"] = pc["reader"]
            BY <1>1, <1>4, <2>5
        <3>2. Carries' = 0 /\ Pushes' = 0 /\ ~Direct'
            BY <3>1 DEF Carries, Pushes, Direct
        <3> QED
            BY <1>10, <2>1, <2>2, <2>3, <2>4, <2>5, <3>1, <3>2 DEF OrderInv, CountInv, PlacesInv
    <2>6. CASE Go("forwarder", "mark") /\ carried' = Event(1, TRUE) /\ sent' = <<Event(1, TRUE)>>
        <3>1. /\ pc'["forwarder"] = "mark" /\ pc'["provider"] = "off"
              /\ pc'["reader"] = pc["reader"]
            BY <1>2, <1>3, <1>4, <2>1, <2>6
        <3>2. Carries' = 1 /\ Pushes' = 0 /\ ~Direct'
            BY <3>1 DEF Carries, Pushes, Direct
        <3>3. Len(sent') = 1 /\ sent'[1] = carried'
            BY <2>6
        <3> QED
            BY <1>10, <2>1, <2>2, <2>3, <2>4, <2>6, <3>1, <3>2, <3>3 DEF OrderInv, CountInv, PlacesInv
    <2> QED
        BY <1>15, <2>5, <2>6 DEF Setup
<1>16. CASE ForwarderNext
    <2>1. pc["forwarder"] = "next" /\ UNCHANGED <<outer, sent, received>>
        BY <1>16 DEF ForwarderNext
    <2>2. Carries = 0 /\ ~Direct /\ UNCHANGED Passed
        BY <1>10, <2>1 DEF Carries, Direct
    <2>3. CASE \E e : In!Take("forwarder", e) /\ carried' = e /\ Go("forwarder", "mark")
        <3>1. PICK e : In!Take("forwarder", e) /\ carried' = e /\ Go("forwarder", "mark")
            BY <2>3
        <3>2. /\ Unforwarded # <<>> /\ carried' = Head(Unforwarded)
              /\ Unforwarded' = Tail(Unforwarded) /\ inner'.done = inner.done
            BY <3>1, LazySteps
        <3>3. /\ pc'["forwarder"] = "mark" /\ pc'["provider"] = pc["provider"]
              /\ pc'["reader"] = pc["reader"]
            BY <1>2, <1>3, <1>4, <3>1
        <3>4. Carries' = 1 /\ ~Direct' /\ UNCHANGED Pushes
            BY <1>10, <3>3 DEF Carries, Direct
        <3>5. /\ carried' = sent[Passed + 1] /\ InPlace(Unforwarded', Passed + 1, sent)
              /\ Len(Unforwarded') = Len(Unforwarded) - 1 /\ Len(Unforwarded) >= 1
            <4>1. InPlace(Unforwarded, Passed, sent)
                BY <1>6, <2>1, <2>2 DEF OrderInv, CountInv, PlacesInv
            <4> HIDE DEF Passed
            <4> QED
                BY <1>1, <1>6, <3>2, <4>1, PlacedTail
        <3>6. ~outer.done
            BY <1>6, <2>1, <2>2, <3>5 DEF OrderInv, CountInv, PlacesInv
        <3> QED
            <4>1. Carries' = Carries + 1 /\ Len(Unforwarded') = Len(Unforwarded) - 1
                BY <2>2, <3>4, <3>5
            <4>2. \A k, c, q, p, n \in Nat : k + c + q + p = n => k + (c + 1) + (q - 1) + p = n
                OBVIOUS
            <4>3. Passed' + Carries' + Len(Unforwarded') + Pushes' = Len(sent')
                BY <1>6, <1>62, <2>1, <2>2, <3>4, <4>1, <4>2
            <4>4. CountInv'
                BY <1>5, <2>1, <2>2, <3>2, <3>3, <3>4, <3>6, <4>3 DEF OrderInv, CountInv
            <4>5. PlacesInv'
                BY <1>10, <1>63, <2>1, <2>2, <3>3, <3>4, <3>5 DEF PlacesInv
            <4> QED
                BY <4>4, <4>5 DEF OrderInv
    <2>4. CASE In!Over("forwarder") /\ Go("forwarder", "result") /\ UNCHANGED carried
        <3>1. Unforwarded = <<>> /\ inner.done /\ UNCHANGED inner
            BY <2>4 DEF In!Over, Unforwarded, Unread
        <3>2. /\ pc'["forwarder"] = "result" /\ pc'["provider"] = pc["provider"]
              /\ pc'["reader"] = pc["reader"]
            BY <1>2, <1>3, <1>4, <2>4
        <3>3. Carries' = 0 /\ ~Direct' /\ UNCHANGED Pushes
            BY <1>10, <3>2 DEF Carries, Direct
        <3>4. Settled /\ (Passed = Len(sent) - 1 \/ Passed = Len(sent))
            BY <1>6, <2>1, <2>2, <3>1 DEF OrderInv, CountInv, PlacesInv
        <3> QED
            BY <1>10, <1>5, <1>6, <2>1, <2>2, <2>4, <3>1, <3>2, <3>3, <3>4 DEF OrderInv, CountInv, PlacesInv
    <2>5. CASE In!AwaitNext("forwarder") /\ UNCHANGED <<carried, pc>>
        <3>1. Unforwarded' = Unforwarded /\ inner'.done = inner.done
            BY <2>5, LazySteps
        <3> QED
            BY <1>5, <1>10, <2>1, <2>2, <2>5, <3>1 DEF OrderInv, CountInv, PlacesInv
    <2> QED
        BY <1>16, <2>3, <2>4, <2>5 DEF ForwarderNext
<1>17. CASE ForwarderMark
    <2>1. pc["forwarder"] = "mark" /\ UNCHANGED <<inner, sent, carried, received>> /\ ~outer.done
        BY <1>17 DEF ForwarderMark, OrderInv, CountInv, PlacesInv
    <2>2. /\ pc'["forwarder"] = "enqueue" /\ pc'["provider"] = pc["provider"]
          /\ pc'["reader"] = pc["reader"]
        BY <1>2, <1>3, <1>4, <1>17, <2>1 DEF ForwarderMark
    <2>3. carried \in Events
        BY <1>1, <2>1 DEF ResultInv, ForwarderInv
    <2>4. Unread' = Unread /\ outer'.done = carried.terminal
        BY <1>17, <2>1, <2>3, LazySteps, EventFacts DEF ForwarderMark
    <2>5. UNCHANGED <<Passed, Pushes>> /\ Carries = 1 /\ Carries' = 1 /\ ~Direct /\ ~Direct'
        BY <2>1, <2>2, <2>4 DEF Passed, Pushes, Carries, Direct
    <2>6. carried = sent[Passed + 1] /\ Passed + 1 \in 1 .. Len(sent)
        BY <1>6, <2>1, <2>5 DEF OrderInv, CountInv, PlacesInv
    <2>7. carried.terminal => Settled /\ Passed + 1 = Len(sent)
        BY <1>9, <2>6
    <2> QED
        BY <1>10, <1>5, <1>6, <2>1, <2>2, <2>4, <2>5, <2>7 DEF OrderInv, CountInv, PlacesInv
<1>18. CASE ForwarderEnqueue
    <2>1. pc["forwarder"] = "enqueue" /\ UNCHANGED <<inner, sent, carried, received>>
        BY <1>18 DEF ForwarderEnqueue
    <2>2. /\ pc'["forwarder"] = (IF pc["provider"] = "off" THEN "end" ELSE "next")
          /\ pc'["provider"] = pc["provider"] /\ pc'["reader"] = pc["reader"]
        BY <1>2, <1>3, <1>4, <1>18 DEF ForwarderEnqueue, Forwarded
    <2>3. carried \in Events
        BY <1>1, <2>1 DEF ResultInv, ForwarderInv
    <2>4. Unread' = Append(Unread, carried) /\ outer'.done = outer.done
        BY <1>18, <2>3, LazySteps DEF ForwarderEnqueue
    <2>5. UNCHANGED Pushes /\ Carries = 1 /\ Carries' = 0 /\ ~Direct /\ ~Direct'
        BY <1>10, <2>1, <2>2 DEF Carries, Direct
    <2>6. carried = sent[Passed + 1] /\ Passed + 1 \in 1 .. Len(sent)
        BY <1>6, <2>1, <2>5 DEF OrderInv, CountInv, PlacesInv
    <2>7. InPlace(Unread', Len(received), sent) /\ Len(Unread') = Len(Unread) + 1
        <3>1. carried = sent[Len(received) + Len(Unread) + 1]
            BY <2>6 DEF Passed
        <3> QED
            BY <1>1, <1>6, <1>63, <2>3, <2>4, <3>1, PlacedAppend
    <2>8. Passed' = Passed + 1
        BY <1>6, <2>1, <2>7 DEF Passed
    <2>9. pc["provider"] = "off" => Settled /\ Passed + 1 = Len(sent)
        BY <1>9, <2>1, <2>6 DEF ResultInv, ForwarderInv
    <2> QED
        <3>1. \A k, c, q, p, n \in Nat : k + c + q + p = n /\ c = 1 => (k + 1) + 0 + q + p = n
            OBVIOUS
        <3>2. Passed' + Carries' + Len(Unforwarded') + Pushes' = Len(sent')
            BY <1>10, <1>6, <1>62, <2>1, <2>5, <2>8, <3>1
        <3>3. CountInv'
            BY <1>5, <2>1, <2>2, <2>4, <2>5, <2>8, <2>9, <3>2 DEF OrderInv, CountInv
        <3>4. Passed' + Carries' = Passed + Carries
            BY <1>6, <2>5, <2>8
        <3>5. PlacesInv'
            BY <1>10, <1>63, <2>1, <2>2, <2>5, <2>7, <3>4 DEF PlacesInv
        <3> QED
            BY <3>3, <3>5 DEF OrderInv
<1>19. CASE ForwarderResult
    <2>1. pc["forwarder"] = "result" /\ UNCHANGED <<outer, sent, received>>
        BY <1>19 DEF ForwarderResult
    <2>2. inner'.done = inner.done
        BY <1>19, LazySteps DEF ForwarderResult, In!Resolved
    <2>3. /\ pc'["forwarder"] \in {"result", "end"} /\ pc'["provider"] = pc["provider"]
          /\ pc'["reader"] = pc["reader"]
        BY <1>2, <1>3, <1>4, <1>19 DEF ForwarderResult
    <2>4. UNCHANGED <<Passed, Pushes>> /\ Carries' = 0 /\ ~Direct /\ ~Direct'
        BY <1>10, <2>1, <2>3 DEF Carries, Direct
    <2> QED
        BY <1>10, <1>5, <2>1, <2>2, <2>3, <2>4 DEF OrderInv, CountInv, PlacesInv
<1>20. CASE ForwarderEnd
    <2>1. pc["forwarder"] = "end" /\ UNCHANGED <<inner, sent, carried, received>>
        BY <1>20 DEF ForwarderEnd
    <2>2. /\ pc'["forwarder"] = "done" /\ pc'["provider"] = pc["provider"]
          /\ pc'["reader"] = pc["reader"]
        BY <1>2, <1>3, <1>4, <1>20 DEF ForwarderEnd
    <2>3. Unread' = Unread
        BY <1>20, LazySteps DEF ForwarderEnd
    <2>4. UNCHANGED <<Passed, Pushes>> /\ Carries' = 0 /\ ~Direct /\ ~Direct'
        BY <2>1, <2>2, <2>3 DEF Passed, Pushes, Carries, Direct
    <2> QED
        BY <1>5, <2>1, <2>2, <2>3, <2>4 DEF OrderInv, CountInv, PlacesInv
<1>21. CASE ReaderNext
    <2>1. pc["reader"] = "next" /\ UNCHANGED <<inner, sent, carried>>
        BY <1>21 DEF ReaderNext
    <2>2. pc'["forwarder"] = pc["forwarder"] /\ pc'["provider"] = pc["provider"]
        BY <1>2, <1>3, <1>4, <1>21 DEF ReaderNext
    <2>3. UNCHANGED <<Carries, Pushes, Direct>>
        BY <1>10, <2>2
    <2>4. CASE \E e : /\ Out!Take("reader", e) /\ received' = Append(received, e)
                      /\ Go("reader", IF e.terminal THEN "result" ELSE "next")
        <3>1. PICK e : /\ Out!Take("reader", e) /\ received' = Append(received, e)
                       /\ Go("reader", IF e.terminal THEN "result" ELSE "next")
            BY <2>4
        <3>2. /\ Unread # <<>> /\ e = Head(Unread)
              /\ Unread' = Tail(Unread) /\ outer'.done = outer.done
            BY <3>1, LazySteps
        <3>3. /\ e = sent[Len(received) + 1] /\ InPlace(Unread', Len(received) + 1, sent)
              /\ Len(Unread') = Len(Unread) - 1 /\ Len(Unread) >= 1 /\ e \in Events
            BY <1>1, <1>6, <3>2, PlacedTail DEF OrderInv, CountInv, PlacesInv
        <3>4. 0 + Len(received) + 1 = Len(received) + 1
            BY <1>6
        <3>5. InPlace(received', 0, sent) /\ Len(received') = Len(received) + 1
            BY <1>1, <3>1, <3>3, <3>4, PlacedAppend DEF OrderInv, CountInv, PlacesInv
        <3>6. UNCHANGED Passed
            <4>1. \A r, q \in Nat : q >= 1 => (r + 1) + (q - 1) = r + q
                OBVIOUS
            <4> QED
                BY <1>6, <3>3, <3>5, <4>1 DEF Passed
        <3>7. Len(received) + 1 \in 1 .. Len(sent)
            BY <1>6, <1>7, <3>3 DEF Passed
        <3>8. e.terminal => Settled /\ Len(received) + 1 = Len(sent)
            BY <1>9, <3>3, <3>7
        <3>9. pc'["reader"] = IF e.terminal THEN "result" ELSE "next"
            BY <1>2, <1>3, <1>4, <3>1
        <3> QED
            <4>1. e.terminal => Len(received') >= Len(sent') - 1
                BY <1>6, <2>1, <3>5, <3>8
            <4>2. CountInv'
                BY <1>10, <1>5, <2>1, <2>2, <2>3, <3>2, <3>6, <3>8, <3>9, <4>1 DEF OrderInv, CountInv
            <4>3. PlacesInv'
                BY <1>10, <1>63, <2>1, <2>2, <2>3, <3>3, <3>5, <3>6 DEF PlacesInv
            <4> QED
                BY <4>2, <4>3 DEF OrderInv
    <2>5. CASE Out!Over("reader") /\ Go("reader", "result") /\ UNCHANGED received
        <3>1. Unread = <<>> /\ outer.done /\ UNCHANGED outer
            BY <2>5 DEF Out!Over, Unforwarded, Unread
        <3>2. Settled /\ pc["forwarder"] \notin {"setup", "mark"}
            BY <3>1 DEF OrderInv, CountInv, PlacesInv, ResultInv, ForwarderInv, Settled
        <3>3. Passed >= Len(sent) - 1
            BY <1>6, <3>1, <3>2 DEF OrderInv, CountInv, PlacesInv, Direct
        <3>4. Passed = Len(received)
            BY <1>6, <3>1 DEF Passed
        <3>5. UNCHANGED Passed
            BY <1>10, <2>5, <3>1
        <3> QED
            BY <1>10, <1>5, <1>6, <2>1, <2>2, <2>3, <2>5, <3>1, <3>2, <3>3, <3>4, <3>5 DEF OrderInv, CountInv, PlacesInv
    <2>6. CASE Out!AwaitNext("reader") /\ UNCHANGED <<received, pc>>
        <3>1. Unread' = Unread /\ outer'.done = outer.done
            BY <2>6, LazySteps
        <3>2. UNCHANGED Passed
            BY <2>6, <3>1 DEF Passed
        <3> QED
            BY <1>5, <1>10, <2>1, <2>3, <2>6, <3>1, <3>2 DEF OrderInv, CountInv, PlacesInv
    <2> QED
        BY <1>21, <2>4, <2>5, <2>6 DEF ReaderNext
<1>22. ASSUME NEW t \in {"reader", "asker"}, AskResult(t) PROVE OrderInv'
    <2>1. pc[t] = "result" /\ UNCHANGED <<inner, sent, carried, received>>
        BY <1>22 DEF AskResult
    <2>2. /\ pc'["provider"] = pc["provider"] /\ pc'["forwarder"] = pc["forwarder"]
          /\ pc'["reader"] \in {"result", "done"} => pc["reader"] \in {"result", "done"}
        BY <1>1, <1>2, <1>3, <1>4, <1>22 DEF AskResult
    <2>3. Unread' = Unread /\ outer'.done = outer.done
        BY <1>10, <1>22, LazySteps DEF AskResult, Out!Resolved
    <2>4. UNCHANGED <<Passed, Carries, Pushes, Direct>>
        BY <2>1, <2>2, <2>3 DEF Passed, Carries, Pushes, Direct
    <2> QED
        BY <1>10, <1>5, <2>1, <2>2, <2>3, <2>4 DEF OrderInv, CountInv, PlacesInv
<1>23. CASE UNCHANGED <<inner, outer, pc, sent, carried, received>>
    BY <1>5, <1>10, <1>23 DEF OrderInv, CountInv, PlacesInv
<1>24. ASSUME NEW t \in Tasks, PollInVain(t) PROVE OrderInv'
    BY <1>23, <1>24 DEF PollInVain
<1>25. CASE UNCHANGED vars
    BY <1>23, <1>25 DEF vars
<1> QED
    BY <1>11, <1>12, <1>13, <1>14, <1>15, <1>16, <1>17, <1>18, <1>19, <1>20,
       <1>21, <1>22, <1>24, <1>25 DEF Next, ProviderStep, ForwarderStep, ReaderStep

\* The reader sees the provider's events once each and in order, through one stream or two,
\* and stops with all of them but for a terminal one, if no response is cut short.
THEOREM ReadsInOrder ==
    ASSUME ~Truncates
    PROVE  Spec => []ReadInOrder
<1>1. Init => OrderInv
    BY InitOrder
<1>2. LazyInv /\ OrderInv /\ [Next]_vars => OrderInv'
    BY StepOrder DEF LazyInv
<1>3. LazyInv /\ OrderInv => ReadInOrder
    <2> SUFFICES ASSUME LazyInv, OrderInv PROVE ReadInOrder
        OBVIOUS
    <2>1. received \in Seq(Events) /\ sent \in Seq(Events)
        BY DEF LazyInv, TypeOK
    <2>2. Len(received) \in Nat /\ Len(received) <= Len(sent)
        BY <2>1 DEF LazyInv, TypeOK, StreamType, Unread, Unforwarded, OrderInv, CountInv, PlacesInv, Passed, Direct, Carries, Pushes
    <2>3. /\ SubSeq(sent, 1, Len(received)) \in Seq(Events)
          /\ Len(SubSeq(sent, 1, Len(received))) = Len(received)
          /\ \A i \in 1 .. Len(received) : SubSeq(sent, 1, Len(received))[i] = sent[i]
        BY <2>1, <2>2
    <2>4. \A i \in 1 .. Len(received) : received[i] = sent[i]
        BY <2>2 DEF OrderInv, CountInv, PlacesInv, InPlace
    <2>5. received = SubSeq(sent, 1, Len(received))
        BY <2>1, <2>3, <2>4, SeqEqual
    <2>6. Settled => Len(sent) > 0 /\ Newest.terminal
        BY <2>1 DEF Settled
    <2> QED
        BY <2>5, <2>6 DEF OrderInv, CountInv, PlacesInv, ReadInOrder
<1> QED
    BY <1>1, <1>2, <1>3, LazyInvariant, PTL DEF Spec

-----------------------------------------------------------------------------
(*************************** The decoders' records *************************)

\* What a decoder may hold: blocks of deltas, and the events of them.
BlockKinds == {"text", "thinking", "call"}
Deltas     == Seq(Nat)
Block      == [kind : BlockKinds, text : Deltas]
Told       == [type : {"start", "delta", "end"}, kind : BlockKinds \cup {"message"}, index : Nat,
               text : Deltas, names : BlockKinds \cup {"nothing"}]
Stops      == Reasons \cup {"Pending", "Stop", "ToolUse", "Error"}
Currents   == {"none", "text", "thinking"}
Scratch    == [keys : Seq(Nat)]
              \cup [keys : Seq(Nat), sawStart : BOOLEAN, sawStop : BOOLEAN]
              \cup [keys : Seq(Nat), finished : BOOLEAN]
              \cup [keys : Seq(Nat), terminal : BOOLEAN]
              \cup [keys : Seq(Nat), current : Currents, copy : Deltas]
Decoder    == [content : Seq(Block), stop : Stops, failed : BOOLEAN, scratch : Scratch,
               events : Seq(Told)]

\* The blocks that have not ended.
Live(d, i) == ~HasEnded(d.events, i)

\* The events say what the message holds, as far as it goes.
Nested(d) ==
    /\ d \in Decoder
    /\ Len(d.scratch.keys) = Len(d.content)
    /\ d.events = <<>> => d.content = <<>>
    /\ \A k \in DOMAIN d.events :
          LET e == d.events[k] IN
          /\ IF k = 1 THEN e.kind = "message" ELSE e.kind # "message" /\ e.names = e.kind
          /\ e.index \in 0 .. Len(d.content)
    /\ \A i \in DOMAIN d.content : Mentions(d.events, i) /\ Nests(d.events, i)

-----------------------------------------------------------------------------
\* One more element.
LEMMA AppendFacts ==
    ASSUME NEW S, NEW l \in Seq(S), NEW x \in S
    PROVE  /\ Append(l, x) \in Seq(S) /\ Len(Append(l, x)) = Len(l) + 1
           /\ Append(l, x)[Len(l) + 1] = x
           /\ \A i \in 1 .. Len(l) : Append(l, x)[i] = l[i]
           /\ DOMAIN Append(l, x) = 1 .. (Len(l) + 1)
BY AppendProperties, LenProperties

\* An event in front of which a record is shaped as it was, apart from its events.
LEMMA PushShape ==
    ASSUME NEW d \in Decoder, NEW type \in {"start", "delta", "end"},
           NEW kind \in BlockKinds \cup {"message"}, NEW i \in Nat, NEW text \in Deltas
    PROVE  LET e  == Push(d, type, kind, i, text)
               ev == [type |-> type, kind |-> kind, index |-> i, text |-> text,
                      names |-> IF i \in 1 .. Len(d.content) THEN d.content[i].kind ELSE "nothing"]
           IN  /\ e \in Decoder /\ ev \in Told
               /\ e.events = Append(d.events, ev)
               /\ e.content = d.content /\ e.scratch = d.scratch
               /\ e.stop = d.stop /\ e.failed = d.failed
<1> DEFINE ev == [type |-> type, kind |-> kind, index |-> i, text |-> text,
                  names |-> IF i \in 1 .. Len(d.content) THEN d.content[i].kind ELSE "nothing"]
<1>1. MessageEvent(d, type, kind, i, text) = ev
  <2>1. DOMAIN d.content = 1 .. Len(d.content)
      BY DEF Decoder
  <2> QED BY <2>1 DEF MessageEvent
<1>2. ev \in Told
  <2>1. i \in 1 .. Len(d.content) => d.content[i].kind \in BlockKinds
    <3>1. d.content \in Seq(Block)
        BY DEF Decoder
    <3>2. \A j \in 1 .. Len(d.content) : d.content[j] \in Block
        BY <3>1
    <3> QED BY <3>2 DEF Block
  <2> QED BY <2>1 DEF Told
<1>3. Push(d, type, kind, i, text) = [d EXCEPT !.events = Append(@, ev)]
    BY <1>1 DEF Push
<1> HIDE DEF ev
<1>4. Append(d.events, ev) \in Seq(Told)
    BY <1>2 DEF Decoder
<1> QED BY <1>2, <1>3, <1>4 DEF Decoder, ev

\* Other keys leave the rest of what a protocol keeps alone.
LEMMA KeysShape ==
    ASSUME NEW s \in Scratch, NEW q \in Seq(Nat)
    PROVE  LET t == [s EXCEPT !.keys = q] IN t \in Scratch /\ t.keys = q
BY DEF Scratch

LEMMA KeysType == \A s \in Scratch : s.keys \in Seq(Nat)
BY DEF Scratch

\* What the operations of AssistantStream do to a record.
LEMMA OpenedShape ==
    ASSUME NEW d \in Decoder, NEW key \in Nat, NEW kind \in BlockKinds
    PROVE  LET e  == Opened(d, key, kind)
               n  == Len(d.content) + 1
               ev == [type |-> "start", kind |-> kind, index |-> n, text |-> <<>>, names |-> kind]
           IN  /\ e \in Decoder /\ ev \in Told
               /\ e.events = Append(d.events, ev)
               /\ e.content = Append(d.content, [kind |-> kind, text |-> <<>>])
               /\ e.scratch = [d.scratch EXCEPT !.keys = Append(@, key)]
               /\ e.scratch.keys = Append(d.scratch.keys, key)
               /\ e.stop = d.stop /\ e.failed = d.failed
<1> DEFINE b == [kind |-> kind, text |-> <<>>]
           s == [d.scratch EXCEPT !.keys = Append(@, key)]
           g == [d EXCEPT !.content = Append(@, b), !.scratch.keys = Append(@, key)]
           n == Len(d.content) + 1
<1>1. b \in Block /\ <<>> \in Deltas /\ b.kind = kind
    BY DEF Block, Deltas
<1>2. /\ d.content \in Seq(Block) /\ d.scratch \in Scratch /\ d.scratch.keys \in Seq(Nat)
    BY KeysType DEF Decoder
<1>3. /\ Append(d.content, b) \in Seq(Block) /\ Len(Append(d.content, b)) = n /\ n \in Nat
      /\ Append(d.content, b)[n] = b
    BY <1>1, <1>2, AppendProperties, LenProperties
<1>4. Append(d.scratch.keys, key) \in Seq(Nat)
    BY <1>2
<1>5. s \in Scratch /\ s.keys = Append(d.scratch.keys, key)
    BY <1>2, <1>4, KeysShape
<1>6. /\ g = [d EXCEPT !.content = Append(@, b), !.scratch = s]
      /\ Opened(d, key, kind) = Push(g, "start", kind, Len(g.content), <<>>)
    BY DEF Opened
<1> HIDE DEF b, s, g
<1>7. /\ g \in Decoder /\ g.content = Append(d.content, b) /\ g.scratch = s
      /\ g.stop = d.stop /\ g.failed = d.failed /\ g.events = d.events
    BY <1>3, <1>5, <1>6 DEF Decoder
<1>8. n \in 1 .. Len(g.content) /\ g.content[n].kind = kind /\ Len(g.content) = n
    BY <1>1, <1>3, <1>7
<1> HIDE DEF n
<1>9. Opened(d, key, kind) = Push(g, "start", kind, n, <<>>)
    BY <1>6, <1>8
<1>10. LET ev == [type |-> "start", kind |-> kind, index |-> n, text |-> <<>>,
                  names |-> IF n \in 1 .. Len(g.content) THEN g.content[n].kind ELSE "nothing"]
           e == Opened(d, key, kind)
       IN  /\ e \in Decoder /\ ev \in Told
           /\ e.events = Append(g.events, ev)
           /\ e.content = g.content /\ e.scratch = g.scratch
           /\ e.stop = g.stop /\ e.failed = g.failed
  <2>1. /\ g \in Decoder /\ "start" \in {"start", "delta", "end"} /\ n \in Nat
        /\ kind \in BlockKinds \cup {"message"} /\ <<>> \in Deltas
      BY <1>1, <1>3, <1>7
  <2> QED BY ONLY <2>1, <1>9, PushShape
<1> QED BY <1>5, <1>7, <1>8, <1>10 DEF b, s, n

LEMMA GrownShape ==
    ASSUME NEW d \in Decoder, NEW i \in 1 .. Len(d.content), NEW text \in Deltas
    PROVE  LET e  == Grown(d, d.content[i].kind, i, text)
               ev == [type |-> "delta", kind |-> d.content[i].kind, index |-> i, text |-> text,
                      names |-> d.content[i].kind]
           IN  /\ e \in Decoder /\ ev \in Told
               /\ e.events = Append(d.events, ev)
               /\ e.content = [d.content EXCEPT ![i].text = @ \o text]
               /\ e.scratch = d.scratch
               /\ e.stop = d.stop /\ e.failed = d.failed
<1> DEFINE c == [d.content EXCEPT ![i].text = @ \o text]
           g == [d EXCEPT !.content = c]
           kind == d.content[i].kind
<1>1. d.content \in Seq(Block) /\ d.content[i] \in Block
  <2>1. d.content \in Seq(Block)
      BY DEF Decoder
  <2> QED BY <2>1
<1>2. kind \in BlockKinds /\ d.content[i].text \o text \in Deltas
  <2>1. d.content[i].text \in Deltas /\ kind \in BlockKinds
      BY <1>1 DEF Block
  <2> QED BY <2>1, ConcatProperties DEF Deltas
<1>3. c \in Seq(Block) /\ Len(c) = Len(d.content) /\ c[i].kind = kind
  <2>1. [d.content[i] EXCEPT !.text = @ \o text] \in Block
      BY <1>1, <1>2 DEF Block
  <2>2. c = [d.content EXCEPT ![i] = [d.content[i] EXCEPT !.text = @ \o text]]
      OBVIOUS
  <2>3. [d.content[i] EXCEPT !.text = @ \o text].kind = kind
      BY <1>1 DEF Block
  <2> HIDE DEF c
  <2> QED BY <1>1, <2>1, <2>2, <2>3, ExceptSeq
<1> HIDE DEF c
<1>4. /\ g \in Decoder /\ g.content = c /\ g.scratch = d.scratch
      /\ g.stop = d.stop /\ g.failed = d.failed /\ g.events = d.events
    BY <1>3 DEF Decoder
<1>5. Grown(d, kind, i, text) = Push(g, "delta", kind, i, text)
    BY DEF Grown, c
<1> HIDE DEF g, kind
<1>6. i \in Nat /\ i \in 1 .. Len(g.content) /\ g.content[i].kind = kind
    BY <1>1, <1>3, <1>4
<1>7. LET ev == [type |-> "delta", kind |-> kind, index |-> i, text |-> text,
                 names |-> IF i \in 1 .. Len(g.content) THEN g.content[i].kind ELSE "nothing"]
          e == Grown(d, kind, i, text)
      IN  /\ e \in Decoder /\ ev \in Told
          /\ e.events = Append(g.events, ev)
          /\ e.content = g.content /\ e.scratch = g.scratch
          /\ e.stop = g.stop /\ e.failed = g.failed
    BY <1>2, <1>4, <1>5, <1>6, PushShape
<1> QED BY <1>4, <1>6, <1>7 DEF c, kind

LEMMA ClosedShape ==
    ASSUME NEW d \in Decoder, NEW i \in 1 .. Len(d.content)
    PROVE  LET e  == Closed(d, i)
               ev == [type |-> "end", kind |-> d.content[i].kind, index |-> i,
                      text |-> d.content[i].text, names |-> d.content[i].kind]
           IN  /\ e \in Decoder /\ ev \in Told
               /\ e.events = Append(d.events, ev)
               /\ e.content = d.content /\ e.scratch = d.scratch
               /\ e.stop = d.stop /\ e.failed = d.failed
<1>1. d.content[i].kind \in BlockKinds /\ d.content[i].text \in Deltas
  <2>1. d.content \in Seq(Block)
      BY DEF Decoder
  <2>2. d.content[i] \in Block
      BY <2>1
  <2> QED BY <2>2 DEF Block
<1>2. i \in Nat
    BY DEF Decoder
<1>3. Closed(d, i) = Push(d, "end", d.content[i].kind, i, d.content[i].text)
    BY DEF Closed
<1>4. LET ev == [type |-> "end", kind |-> d.content[i].kind, index |-> i, text |-> d.content[i].text,
                 names |-> IF i \in 1 .. Len(d.content) THEN d.content[i].kind ELSE "nothing"]
          e == Closed(d, i)
      IN  /\ e \in Decoder /\ ev \in Told
          /\ e.events = Append(d.events, ev)
          /\ e.content = d.content /\ e.scratch = d.scratch
          /\ e.stop = d.stop /\ e.failed = d.failed
    BY <1>1, <1>2, <1>3, PushShape
<1> QED BY <1>4

LEMMA ForgottenShape ==
    ASSUME NEW d \in Decoder, NEW i \in 1 .. Len(d.scratch.keys)
    PROVE  LET e == Forgotten(d, i) IN
           /\ e \in Decoder /\ e.events = d.events /\ e.content = d.content
           /\ e.scratch.keys = [d.scratch.keys EXCEPT ![i] = 0]
           /\ e.stop = d.stop /\ e.failed = d.failed
<1>1. d.scratch \in Scratch /\ d.scratch.keys \in Seq(Nat)
    BY KeysType DEF Decoder
<1> DEFINE q == [d.scratch.keys EXCEPT ![i] = 0]
           s == [d.scratch EXCEPT !.keys = q]
<1>2. q \in Seq(Nat)
    BY <1>1
<1>3. Forgotten(d, i) = [d EXCEPT !.scratch = s]
    BY DEF Forgotten
<1> HIDE DEF q
<1>4. s \in Scratch /\ s.keys = q
    BY <1>1, <1>2, KeysShape
<1> HIDE DEF s
<1> QED BY <1>3, <1>4 DEF Decoder, q

-----------------------------------------------------------------------------
\* One more event, as far as a block is concerned.
LEMMA OneMore ==
    ASSUME NEW events \in Seq(Told), NEW ev \in Told, NEW i
    PROVE  LET more == Append(events, ev) IN
           /\ Mentions(more, i) <=> Mentions(events, i) \/ ev.index = i
           /\ HasEnded(more, i) <=> HasEnded(events, i) \/ (ev.index = i /\ ev.type = "end")
           /\ ev.index # i /\ Nests(events, i) => Nests(more, i)
           /\ /\ ev.index = i /\ Nests(events, i) /\ ~HasEnded(events, i)
              /\ ev.type = "start" <=> ~Mentions(events, i)
              => Nests(more, i)
<1> DEFINE more == Append(events, ev)
           n == Len(events)
<1>1. /\ n \in Nat /\ DOMAIN events = 1 .. n /\ DOMAIN more = 1 .. (n + 1)
      /\ more[n + 1] = ev /\ \A k \in 1 .. n : more[k] = events[k]
    OBVIOUS
<1> HIDE DEF more, n
<1>2. Mentions(more, i) <=> Mentions(events, i) \/ ev.index = i
  <2>1. \A k \in 1 .. (n + 1) : k = n + 1 \/ k \in 1 .. n
      BY <1>1
  <2>2. n + 1 \in 1 .. (n + 1) /\ 1 .. n \subseteq 1 .. (n + 1)
      BY <1>1
  <2> QED BY <1>1, <2>1, <2>2 DEF Mentions
<1>3. HasEnded(more, i) <=> HasEnded(events, i) \/ (ev.index = i /\ ev.type = "end")
  <2>1. \A k \in 1 .. (n + 1) : k = n + 1 \/ k \in 1 .. n
      BY <1>1
  <2>2. n + 1 \in 1 .. (n + 1) /\ 1 .. n \subseteq 1 .. (n + 1)
      BY <1>1
  <2> QED BY <1>1, <2>1, <2>2 DEF HasEnded
<1>4. ASSUME Nests(events, i),
             ev.index # i \/ (~HasEnded(events, i) /\ (ev.type = "start" <=> ~Mentions(events, i)))
      PROVE  Nests(more, i)
  <2> SUFFICES ASSUME NEW k \in 1 .. (n + 1), more[k].index = i
               PROVE  /\ more[k].type \in {"start", "delta", "end"}
                      /\ more[k].type = "start" <=> \A j \in 1 .. (k - 1) : more[j].index # i
                      /\ \A j \in 1 .. (k - 1) : more[j].index = i => more[j].type # "end"
      BY <1>1 DEF Nests
  <2>1. CASE k \in 1 .. n
    <3>1. \A j \in 1 .. (k - 1) : j \in 1 .. n
        BY <1>1, <2>1
    <3> QED BY <1>1, <1>4, <2>1, <3>1 DEF Nests
  <2>2. CASE k = n + 1
    <3>1. k - 1 = n /\ more[k] = ev
        BY <1>1, <2>2
    <3>2. ev.index = i /\ ev.type \in {"start", "delta", "end"}
        BY <3>1 DEF Told
    <3>3. Mentions(events, i) <=> \E j \in 1 .. n : more[j].index = i
        BY <1>1 DEF Mentions
    <3>4. HasEnded(events, i) <=> \E j \in 1 .. n : more[j].index = i /\ more[j].type = "end"
        BY <1>1 DEF HasEnded
    <3> QED BY <1>4, <3>1, <3>2, <3>3, <3>4
  <2> QED BY <1>1, <2>1, <2>2
<1> QED BY <1>2, <1>3, <1>4 DEF more

\* What is known of a block stays so.
Keeps(d, e, i) ==
    /\ e.content[i].kind = d.content[i].kind
    /\ e.scratch.keys[i] = d.scratch.keys[i]
    /\ Live(e, i) <=> Live(d, i)

\* A record after one of its operations: it says no more and no less of how the answer ended.
Goes(d, e) == Nested(e) /\ e.stop = d.stop /\ e.failed = d.failed

LEMMA NestedFacts ==
    ASSUME NEW d, Nested(d)
    PROVE  /\ d \in Decoder /\ d.events \in Seq(Told) /\ d.content \in Seq(Block)
           /\ d.scratch \in Scratch /\ d.scratch.keys \in Seq(Nat)
           /\ Len(d.scratch.keys) = Len(d.content) /\ Len(d.content) \in Nat
           /\ DOMAIN d.content = 1 .. Len(d.content) /\ DOMAIN d.scratch.keys = 1 .. Len(d.content)
           /\ DOMAIN d.events = 1 .. Len(d.events) /\ Len(d.events) \in Nat
           /\ \A i \in 1 .. Len(d.content) :
                d.content[i] \in Block /\ d.content[i].kind \in BlockKinds /\ d.scratch.keys[i] \in Nat
<1>1. /\ d \in Decoder /\ d.events \in Seq(Told) /\ d.content \in Seq(Block)
      /\ d.scratch \in Scratch /\ d.scratch.keys \in Seq(Nat)
      /\ Len(d.scratch.keys) = Len(d.content)
    BY KeysType DEF Nested, Decoder
<1>2. \A i \in 1 .. Len(d.content) : d.content[i] \in Block /\ d.scratch.keys[i] \in Nat
    BY <1>1
<1> QED BY <1>1, <1>2 DEF Block

\* The first event of a stream.
LEMMA StartNested ==
    ASSUME NEW d \in Decoder, d.events = <<>>, d.content = <<>>, d.scratch.keys = <<>>
    PROVE  LET e == PushStart(d) IN
           /\ Goes(d, e) /\ e.events # <<>> /\ e.content = <<>> /\ e.scratch = d.scratch
<1>1. <<>> \in Deltas /\ 0 \in Nat
    BY DEF Deltas
<1> DEFINE ev == [type |-> "start", kind |-> "message", index |-> 0, text |-> <<>>,
                  names |-> IF 0 \in 1 .. Len(d.content) THEN d.content[0].kind ELSE "nothing"]
           e == PushStart(d)
<1>2. /\ e \in Decoder /\ ev \in Told
      /\ e.events = Append(d.events, ev)
      /\ e.content = d.content /\ e.scratch = d.scratch
      /\ e.stop = d.stop /\ e.failed = d.failed
  <2>1. MessageEvent(d, "start", "message", 0, <<>>) = ev
    <3>1. DOMAIN d.content = 1 .. Len(d.content)
        BY DEF Decoder
    <3> QED BY <3>1 DEF MessageEvent
  <2>2. ev \in Told
    <3>1. 0 \notin 1 .. Len(d.content)
        OBVIOUS
    <3> QED BY <1>1, <3>1 DEF Told
  <2>3. e = [d EXCEPT !.events = Append(@, ev)]
      BY <2>1 DEF PushStart, Push
  <2> HIDE DEF ev
  <2>4. Append(d.events, ev) \in Seq(Told)
      BY <2>2 DEF Decoder
  <2> QED BY <2>2, <2>3, <2>4 DEF Decoder
<1>3. ev.kind = "message" /\ ev.index = 0
    OBVIOUS
<1> HIDE DEF ev, e
<1>4. Len(e.events) = 1 /\ e.events[1] = ev /\ e.events # <<>> /\ DOMAIN e.events = 1 .. 1
    BY <1>2
<1>5. Nested(e)
    BY <1>2, <1>3, <1>4 DEF Nested
<1> QED BY <1>2, <1>4, <1>5 DEF Goes, e

\* What a protocol keeps, with the key of one more block.
WithKey(scratch, key) == [scratch EXCEPT !.keys = Append(@, key)]

\* A block that opens.
LEMMA OpenedNested ==
    ASSUME NEW d, Nested(d), d.events # <<>>, NEW key \in Nat, NEW kind \in BlockKinds
    PROVE  LET e == Opened(d, key, kind)
               n == Len(d.content) + 1
           IN  /\ Goes(d, e) /\ e.events # <<>>
               /\ Len(e.content) = n /\ e.content[n].kind = kind /\ e.scratch.keys[n] = key /\ Live(e, n)
               /\ \A i \in 1 .. Len(d.content) : Keeps(d, e, i)
               /\ e.scratch = WithKey(d.scratch, key)
<1> DEFINE e  == Opened(d, key, kind)
           n  == Len(d.content) + 1
           b  == [kind |-> kind, text |-> <<>>]
           ev == [type |-> "start", kind |-> kind, index |-> n, text |-> <<>>, names |-> kind]
<1>1. /\ d \in Decoder /\ d.events \in Seq(Told) /\ d.content \in Seq(Block)
      /\ d.scratch.keys \in Seq(Nat) /\ Len(d.scratch.keys) = Len(d.content)
      /\ Len(d.content) \in Nat
      /\ DOMAIN d.content = 1 .. Len(d.content) /\ DOMAIN d.events = 1 .. Len(d.events)
      /\ Len(d.events) \in Nat
    BY NestedFacts
<1>2. /\ e \in Decoder /\ ev \in Told
      /\ e.events = Append(d.events, ev)
      /\ e.content = Append(d.content, b)
      /\ e.scratch = WithKey(d.scratch, key)
      /\ e.scratch.keys = Append(d.scratch.keys, key)
      /\ e.stop = d.stop /\ e.failed = d.failed
    BY <1>1, OpenedShape DEF WithKey
<1>3. /\ ev.kind = kind /\ ev.names = kind /\ ev.index = n /\ ev.type = "start" /\ b.kind = kind
      /\ kind # "message" /\ ev.type # "end"
    BY DEF BlockKinds
<1> HIDE DEF e, ev, b
<1>4. /\ Len(e.content) = n /\ e.content[n] = b /\ \A i \in 1 .. Len(d.content) : e.content[i] = d.content[i]
      /\ Len(e.scratch.keys) = n /\ e.scratch.keys[n] = key
      /\ \A i \in 1 .. Len(d.content) : e.scratch.keys[i] = d.scratch.keys[i]
      /\ DOMAIN e.content = 1 .. n
  <2>1. /\ Len(e.content) = n /\ e.content[n] = b /\ \A i \in 1 .. Len(d.content) : e.content[i] = d.content[i]
        /\ DOMAIN e.content = 1 .. n
    <3> DEFINE l == d.content
    <3>1. l \in Seq(Block) /\ b \in Block /\ e.content = Append(l, b)
        BY <1>1, <1>2 DEF Block, Deltas, b
    <3> HIDE DEF l
    <3>2. /\ Len(e.content) = Len(l) + 1 /\ e.content[Len(l) + 1] = b
          /\ \A i \in 1 .. Len(l) : e.content[i] = l[i]
        BY <3>1, AppendFacts
    <3>3. DOMAIN e.content = 1 .. (Len(l) + 1)
        BY <3>1, AppendFacts
    <3> QED BY <3>2, <3>3 DEF l
  <2>2. /\ Len(e.scratch.keys) = n /\ e.scratch.keys[n] = key
        /\ \A i \in 1 .. Len(d.content) : e.scratch.keys[i] = d.scratch.keys[i]
    <3> DEFINE l == d.scratch.keys
    <3>1. l \in Seq(Nat) /\ e.scratch.keys = Append(l, key) /\ Len(l) = Len(d.content)
        BY <1>1, <1>2
    <3> HIDE DEF l
    <3>2. /\ Len(e.scratch.keys) = Len(l) + 1 /\ e.scratch.keys[Len(l) + 1] = key
          /\ \A i \in 1 .. Len(l) : e.scratch.keys[i] = l[i]
        BY <3>1, AppendFacts
    <3> QED BY <3>1, <3>2 DEF l
  <2> QED BY <2>1, <2>2
<1>5. /\ Len(e.events) = Len(d.events) + 1 /\ e.events[Len(d.events) + 1] = ev
      /\ \A k \in 1 .. Len(d.events) : e.events[k] = d.events[k]
      /\ DOMAIN e.events = 1 .. (Len(d.events) + 1) /\ e.events # <<>>
  <2> DEFINE l == d.events
  <2>1. l \in Seq(Told) /\ e.events = Append(l, ev) /\ ev \in Told
      BY <1>1, <1>2
  <2> HIDE DEF l
  <2>2. /\ Len(e.events) = Len(l) + 1 /\ e.events[Len(l) + 1] = ev
        /\ \A k \in 1 .. Len(l) : e.events[k] = l[k]
        /\ DOMAIN e.events = 1 .. (Len(l) + 1) /\ Len(l) \in Nat
      BY ONLY <2>1, AppendProperties, LenProperties
  <2>3. e.events # <<>>
      BY <2>1, AppendProperties
  <2> QED BY <2>2, <2>3 DEF l
<1>6. Len(d.events) # 0
    BY <1>1
<1>7. ~Mentions(d.events, n) /\ ~HasEnded(d.events, n) /\ Nests(d.events, n)
  <2>1. \A k \in DOMAIN d.events : d.events[k].index # n
      BY <1>1 DEF Nested
  <2> QED BY <2>1 DEF Mentions, HasEnded, Nests
<1>8. /\ Mentions(e.events, n) /\ Nests(e.events, n) /\ ~HasEnded(e.events, n)
    BY <1>1, <1>2, <1>3, <1>7, OneMore
<1>9. ASSUME NEW i \in 1 .. Len(d.content)
      PROVE  /\ Mentions(e.events, i) /\ Nests(e.events, i)
             /\ HasEnded(e.events, i) <=> HasEnded(d.events, i)
  <2>1. Mentions(d.events, i) /\ Nests(d.events, i) /\ i # n
      BY <1>1 DEF Nested
  <2> QED BY <1>1, <1>2, <1>3, <2>1, OneMore
<1>10. Nested(e)
  <2>1. ASSUME NEW k \in DOMAIN e.events
        PROVE  /\ IF k = 1 THEN e.events[k].kind = "message"
                  ELSE e.events[k].kind # "message" /\ e.events[k].names = e.events[k].kind
               /\ e.events[k].index \in 0 .. Len(e.content)
    <3>1. CASE k \in 1 .. Len(d.events)
      <4>1. /\ IF k = 1 THEN d.events[k].kind = "message"
               ELSE d.events[k].kind # "message" /\ d.events[k].names = d.events[k].kind
            /\ d.events[k].index \in 0 .. Len(d.content)
          BY <1>1, <3>1 DEF Nested
      <4> QED BY <1>1, <1>4, <1>5, <3>1, <4>1
    <3>2. CASE k = Len(d.events) + 1
        BY <1>1, <1>3, <1>4, <1>5, <1>6, <3>2
    <3> QED BY <1>1, <1>5, <3>1, <3>2
  <2>2. \A i \in DOMAIN e.content : Mentions(e.events, i) /\ Nests(e.events, i)
      BY <1>1, <1>4, <1>8, <1>9
  <2> QED BY <1>2, <1>4, <1>5, <2>1, <2>2 DEF Nested
<1>11. \A i \in 1 .. Len(d.content) : Keeps(d, e, i)
    BY <1>4, <1>9 DEF Keeps, Live
<1>12. e.content[n].kind = kind /\ Live(e, n)
    BY <1>3, <1>4, <1>8 DEF Live
<1> QED BY <1>2, <1>4, <1>5, <1>10, <1>11, <1>12 DEF Goes, e

SameKinds(d, e) ==
    Len(e.content) = Len(d.content) /\ \A j \in 1 .. Len(d.content) : e.content[j].kind = d.content[j].kind

\* A delta or the end of a block that has not ended.
LEMMA EventNested ==
    ASSUME NEW d, Nested(d), NEW i \in 1 .. Len(d.content), Live(d, i),
           NEW ev \in Told, ev.type \in {"delta", "end"}, ev.index = i,
           ev.kind \in BlockKinds, ev.names = ev.kind,
           NEW e \in Decoder, e.events = Append(d.events, ev),
           e.scratch.keys = d.scratch.keys, SameKinds(d, e),
           e.stop = d.stop, e.failed = d.failed
    PROVE  /\ Goes(d, e) /\ e.events # <<>>
           /\ \A j \in 1 .. Len(d.content) : j # i => Keeps(d, e, j)
           /\ Live(e, i) <=> ev.type = "delta"
<1>1. /\ d.events \in Seq(Told) /\ Len(d.content) \in Nat /\ Len(d.scratch.keys) = Len(d.content)
      /\ DOMAIN d.content = 1 .. Len(d.content) /\ DOMAIN d.events = 1 .. Len(d.events)
      /\ Len(d.events) \in Nat /\ ev.kind # "message"
    BY NestedFacts DEF BlockKinds
<1>2. DOMAIN e.content = 1 .. Len(d.content) /\ Len(e.content) = Len(d.content)
  <2>1. e.content \in Seq(Block)
      BY DEF Decoder
  <2> QED BY <2>1, LenProperties DEF SameKinds
<1>3. /\ Len(e.events) = Len(d.events) + 1 /\ e.events[Len(d.events) + 1] = ev
      /\ \A k \in 1 .. Len(d.events) : e.events[k] = d.events[k]
      /\ DOMAIN e.events = 1 .. (Len(d.events) + 1) /\ e.events # <<>>
  <2> DEFINE l == d.events
  <2>1. l \in Seq(Told) /\ e.events = Append(l, ev) /\ ev \in Told
      BY <1>1
  <2> HIDE DEF l
  <2>2. /\ Len(e.events) = Len(l) + 1 /\ e.events[Len(l) + 1] = ev
        /\ \A k \in 1 .. Len(l) : e.events[k] = l[k]
        /\ DOMAIN e.events = 1 .. (Len(l) + 1) /\ Len(l) \in Nat
      BY ONLY <2>1, AppendProperties, LenProperties
  <2>3. e.events # <<>>
      BY <2>1, AppendProperties
  <2> QED BY <2>2, <2>3 DEF l
<1>4. Mentions(d.events, i) /\ Nests(d.events, i) /\ ~HasEnded(d.events, i)
    BY <1>1 DEF Nested, Live
<1>5. Len(d.events) # 0
  <2>1. PICK k \in DOMAIN d.events : d.events[k].index = i
      BY <1>4 DEF Mentions
  <2> QED BY <1>1, <2>1
<1>6. /\ Mentions(e.events, i) /\ Nests(e.events, i)
      /\ HasEnded(e.events, i) <=> ev.type = "end"
    BY <1>1, <1>4, OneMore
<1>7. ASSUME NEW j \in 1 .. Len(d.content), j # i
      PROVE  /\ Mentions(e.events, j) /\ Nests(e.events, j)
             /\ HasEnded(e.events, j) <=> HasEnded(d.events, j)
  <2>1. Mentions(d.events, j) /\ Nests(d.events, j)
      BY <1>1 DEF Nested
  <2> QED BY <1>1, <1>7, <2>1, OneMore
<1>8. Nested(e)
  <2>1. ASSUME NEW k \in DOMAIN e.events
        PROVE  /\ IF k = 1 THEN e.events[k].kind = "message"
                  ELSE e.events[k].kind # "message" /\ e.events[k].names = e.events[k].kind
               /\ e.events[k].index \in 0 .. Len(e.content)
    <3>1. CASE k \in 1 .. Len(d.events)
      <4>1. /\ IF k = 1 THEN d.events[k].kind = "message"
               ELSE d.events[k].kind # "message" /\ d.events[k].names = d.events[k].kind
            /\ d.events[k].index \in 0 .. Len(d.content)
          BY <1>1, <3>1 DEF Nested
      <4> QED BY <1>1, <1>2, <1>3, <3>1, <4>1
    <3>2. CASE k = Len(d.events) + 1
        BY <1>1, <1>2, <1>3, <1>5, <3>2
    <3> QED BY <1>1, <1>3, <3>1, <3>2
  <2>2. ASSUME NEW j \in DOMAIN e.content PROVE Mentions(e.events, j) /\ Nests(e.events, j)
    <3>1. j \in 1 .. Len(d.content)
        BY <1>2
    <3> QED BY <3>1, <1>6, <1>7
  <2> QED BY <1>1, <1>2, <1>3, <2>1, <2>2 DEF Nested
<1>9. \A j \in 1 .. Len(d.content) : j # i => Keeps(d, e, j)
  <2> SUFFICES ASSUME NEW j \in 1 .. Len(d.content), j # i PROVE Keeps(d, e, j)
      OBVIOUS
  <2>1. e.content[j].kind = d.content[j].kind /\ e.scratch.keys[j] = d.scratch.keys[j]
      BY DEF SameKinds
  <2>2. HasEnded(e.events, j) <=> HasEnded(d.events, j)
      BY <1>7
  <2> QED BY <2>1, <2>2 DEF Keeps, Live
<1> QED BY <1>3, <1>6, <1>8, <1>9 DEF Goes, Live

LEMMA GrownNested ==
    ASSUME NEW d, Nested(d), NEW i \in 1 .. Len(d.content), Live(d, i), NEW text \in Deltas,
           NEW kind, kind = d.content[i].kind
    PROVE  LET e == Grown(d, kind, i, text) IN
           /\ Goes(d, e) /\ e.events # <<>> /\ Len(e.content) = Len(d.content)
           /\ \A j \in 1 .. Len(d.content) : Keeps(d, e, j)
           /\ e.scratch = d.scratch
<1> DEFINE e  == Grown(d, d.content[i].kind, i, text)
           ev == [type |-> "delta", kind |-> d.content[i].kind, index |-> i, text |-> text,
                  names |-> d.content[i].kind]
<1>1. d \in Decoder /\ d.content \in Seq(Block) /\ d.content[i].kind \in BlockKinds
    BY NestedFacts
<1>2. /\ e \in Decoder /\ ev \in Told
      /\ e.events = Append(d.events, ev)
      /\ e.content = [d.content EXCEPT ![i].text = @ \o text]
      /\ e.scratch = d.scratch
      /\ e.stop = d.stop /\ e.failed = d.failed
    BY <1>1, GrownShape
<1>3. SameKinds(d, e)
  <2>1. \A j \in 1 .. Len(d.content) : d.content[j] \in Block
      BY <1>1
  <2>2. e.content \in Seq(Block) /\ DOMAIN e.content = DOMAIN d.content
      BY <1>2 DEF Decoder
  <2> HIDE DEF e
  <2>3. Len(e.content) = Len(d.content)
      BY <1>1, <2>2
  <2>4. \A j \in 1 .. Len(d.content) : e.content[j].kind = d.content[j].kind
      BY <1>1, <1>2, <2>1 DEF Block
  <2> QED BY <2>3, <2>4 DEF SameKinds
<1>4. /\ ev.type = "delta" /\ ev.index = i /\ ev.kind = d.content[i].kind /\ ev.names = ev.kind
    OBVIOUS
<1> HIDE DEF e, ev
<1>5. /\ Goes(d, e) /\ e.events # <<>>
      /\ \A j \in 1 .. Len(d.content) : j # i => Keeps(d, e, j)
      /\ Live(e, i) <=> ev.type = "delta"
  <2>1. ev.kind \in BlockKinds /\ ev.type \in {"delta", "end"} /\ e.scratch.keys = d.scratch.keys
      BY <1>1, <1>2, <1>4
  <2> QED BY ONLY Nested(d), i \in 1 .. Len(d.content), Live(d, i), <1>2, <1>3, <1>4, <2>1, EventNested
<1>6. Keeps(d, e, i)
    BY <1>2, <1>3, <1>4, <1>5 DEF Keeps, SameKinds
<1> QED BY <1>2, <1>3, <1>5, <1>6 DEF e, SameKinds

LEMMA ClosedNested ==
    ASSUME NEW d, Nested(d), NEW i \in 1 .. Len(d.content), Live(d, i)
    PROVE  LET e == Closed(d, i) IN
           /\ Goes(d, e) /\ e.events # <<>> /\ e.content = d.content /\ e.scratch = d.scratch
           /\ ~Live(e, i) /\ \A j \in 1 .. Len(d.content) : j # i => (Live(e, j) <=> Live(d, j))
<1> DEFINE e  == Closed(d, i)
           ev == [type |-> "end", kind |-> d.content[i].kind, index |-> i,
                  text |-> d.content[i].text, names |-> d.content[i].kind]
<1>1. d \in Decoder /\ d.content[i].kind \in BlockKinds
    BY NestedFacts
<1>2. /\ e \in Decoder /\ ev \in Told
      /\ e.events = Append(d.events, ev)
      /\ e.content = d.content /\ e.scratch = d.scratch
      /\ e.stop = d.stop /\ e.failed = d.failed
    BY <1>1, ClosedShape
<1>4. /\ ev.type = "end" /\ ev.index = i /\ ev.kind = d.content[i].kind /\ ev.names = ev.kind
    OBVIOUS
<1> HIDE DEF e, ev
<1>5. /\ Goes(d, e) /\ e.events # <<>>
      /\ \A j \in 1 .. Len(d.content) : j # i => Keeps(d, e, j)
      /\ Live(e, i) <=> ev.type = "delta"
  <2>1. SameKinds(d, e)
      BY <1>2 DEF SameKinds
  <2> QED BY <1>1, <1>2, <1>4, <2>1, EventNested
<1> QED BY <1>2, <1>4, <1>5 DEF e, Keeps

\* A record of which only the message's texts, the provider's keys or the reason to stop change.
LEMMA SameEvents ==
    ASSUME NEW d, Nested(d), NEW e \in Decoder, e.events = d.events,
           Len(e.content) = Len(d.content), Len(e.scratch.keys) = Len(d.scratch.keys)
    PROVE  Nested(e) /\ \A i \in 1 .. Len(d.content) : Live(e, i) <=> Live(d, i)
<1>1. DOMAIN e.content = DOMAIN d.content /\ (d.content = <<>> <=> e.content = <<>>)
  <2>1. e.content \in Seq(Block) /\ d.content \in Seq(Block)
      BY NestedFacts DEF Decoder
  <2> QED BY <2>1
<1> QED BY <1>1 DEF Nested, Live

LEMMA ForgottenNested ==
    ASSUME NEW d, Nested(d), NEW i \in 1 .. Len(d.content)
    PROVE  LET e == Forgotten(d, i) IN
           /\ Goes(d, e) /\ e.events = d.events /\ e.content = d.content
           /\ e.scratch.keys = [d.scratch.keys EXCEPT ![i] = 0]
           /\ \A j \in 1 .. Len(d.content) : Live(e, j) <=> Live(d, j)
<1>1. /\ d \in Decoder /\ d.scratch.keys \in Seq(Nat) /\ Len(d.scratch.keys) = Len(d.content)
    BY NestedFacts
<1> DEFINE e == Forgotten(d, i)
<1>2. /\ e \in Decoder /\ e.events = d.events /\ e.content = d.content
      /\ e.scratch.keys = [d.scratch.keys EXCEPT ![i] = 0]
      /\ e.stop = d.stop /\ e.failed = d.failed
    BY <1>1, ForgottenShape
<1>3. Len(e.scratch.keys) = Len(d.scratch.keys)
  <2>1. [d.scratch.keys EXCEPT ![i] = 0] \in Seq(Nat)
      BY <1>1
  <2> HIDE DEF e
  <2> QED BY <1>1, <1>2, <2>1
<1> HIDE DEF e
<1>4. Nested(e) /\ \A j \in 1 .. Len(d.content) : Live(e, j) <=> Live(d, j)
    BY <1>2, <1>3, SameEvents
<1> QED BY <1>2, <1>4 DEF Goes, e

-----------------------------------------------------------------------------
\* Induction over the natural numbers, for a set of them: the finite intervals 1 .. n are
\* well founded under strict inclusion.
LEMMA EveryNumber ==
    ASSUME NEW N, 0 \in N, \A n \in Nat : n \in N => n + 1 \in N
    PROVE  Nat \subseteq N
<1> SUFFICES ASSUME NEW n0 \in Nat, n0 \notin N PROVE FALSE
    OBVIOUS
<1> DEFINE R == StrictSubsetOrdering(Nat)
           T == {1 .. n : n \in {k \in Nat : k \notin N}}
<1>1. IsWellFoundedOn(R, FiniteSubsetsOf(Nat))
    BY FS_StrictSubsetOrderingWellFounded
<1>2. T \subseteq FiniteSubsetsOf(Nat)
  <2> SUFFICES ASSUME NEW n \in Nat PROVE 1 .. n \in FiniteSubsetsOf(Nat)
      OBVIOUS
  <2>1. n \in Int /\ 1 \in Int
      OBVIOUS
  <2> QED BY <2>1, FS_Interval DEF FiniteSubsetsOf
<1>3. T # {}
    BY DEF T
<1> HIDE DEF R
<1>4. PICK t \in T : \A u \in T : <<u, t>> \notin R
  <2> HIDE DEF T
  <2> QED BY <1>1, <1>2, <1>3, WFMin
<1>5. PICK n \in Nat : n \notin N /\ t = 1 .. n
    OBVIOUS
<1>6. n # 0
    BY <1>5
<1>7. n - 1 \in Nat /\ n - 1 \notin N
    BY <1>5, <1>6
<1>8. <<1 .. (n - 1), 1 .. n>> \in R
  <2>1. n \in 1 .. n /\ n \notin 1 .. (n - 1)
      BY <1>6
  <2>2. 1 .. (n - 1) \subseteq 1 .. n /\ 1 .. n \subseteq Nat
      OBVIOUS
  <2>3. <<1 .. (n - 1), 1 .. n>> \in (SUBSET Nat) \X (SUBSET Nat)
      BY <2>2
  <2> QED BY <2>1, <2>2, <2>3 DEF R, StrictSubsetOrdering
<1> QED BY <1>4, <1>5, <1>7, <1>8

\* A search finds a block that is there.
LEMMA FirstOfFound ==
    ASSUME NEW S, S \subseteq Nat, S # {}
    PROVE  FirstOf(S) \in S
<1> DEFINE Has(i) == i \in S /\ \A j \in S : i <= j
           N == {n \in Nat : (\E m \in 0 .. n : m \in S) => \E i \in S : Has(i)}
<1>1. 0 \in N
    OBVIOUS
<1>2. ASSUME NEW n \in Nat, n \in N PROVE n + 1 \in N
  <2> SUFFICES ASSUME NEW m \in 0 .. (n + 1), m \in S, ~\E i \in S : Has(i) PROVE FALSE
      OBVIOUS
  <2>1. \A j \in 0 .. n : j \notin S
      BY <1>2
  <2>2. m = n + 1
      BY <2>1
  <2>3. \A j \in S : m <= j
      BY <2>1, <2>2
  <2> QED BY <2>3
<1>3. Nat \subseteq N
  <2> HIDE DEF N
  <2> QED BY <1>1, <1>2, EveryNumber
<1>4. PICK m \in S : m \in Nat
    OBVIOUS
<1>5. m \in N /\ m \in 0 .. m
    BY <1>3, <1>4
<1>6. \E i \in S : Has(i)
    BY <1>4, <1>5
<1> QED BY <1>6 DEF FirstOf

LEMMA FirstOfOne ==
    ASSUME NEW S, NEW i \in S, S \subseteq Nat, \A j \in S : j = i
    PROVE  FirstOf(S) = i
BY FirstOfFound

(************************* Blocks that end together ************************)

\* g holds the records on the way, when the blocks of S end up to the m-th.
Closes(d, S, m, g) ==
    g = [n \in 0 .. m |-> IF n = 0 THEN d ELSE IF n \in S THEN Closed(g[n - 1], n) ELSE g[n - 1]]

LEMMA ClosesStep ==
    ASSUME NEW d, NEW S, NEW m \in Nat, NEW g, Closes(d, S, m, g)
    PROVE  /\ g[0] = d
           /\ \A n \in 1 .. m : g[n] = IF n \in S THEN Closed(g[n - 1], n) ELSE g[n - 1]
<1>1. 0 \in 0 .. m /\ \A n \in 1 .. m : n \in 0 .. m /\ n # 0
    OBVIOUS
<1>2. \A n \in 0 .. m : g[n] = IF n = 0 THEN d ELSE IF n \in S THEN Closed(g[n - 1], n) ELSE g[n - 1]
    BY DEF Closes
<1> QED BY <1>1, <1>2

LEMMA ClosesExist ==
    ASSUME NEW d, NEW S, NEW m \in Nat
    PROVE  \E g : Closes(d, S, m, g)
<1> DEFINE N == {k \in Nat : \E g : Closes(d, S, k, g)}
<1>1. 0 \in N
  <2> DEFINE g == [i \in 0 .. 0 |-> d]
  <2>1. \A i \in 0 .. 0 : i = 0
      OBVIOUS
  <2>2. Closes(d, S, 0, g)
      BY <2>1 DEF Closes
  <2> HIDE DEF g
  <2> QED BY <2>2
<1>2. ASSUME NEW k \in Nat, k \in N PROVE k + 1 \in N
  <2>1. PICK g : Closes(d, S, k, g)
      BY <1>2
  <2> DEFINE last == IF k + 1 \in S THEN Closed(g[k], k + 1) ELSE g[k]
             h == [i \in 0 .. k + 1 |-> IF i = k + 1 THEN last ELSE g[i]]
  <2>2. g[0] = d /\ \A i \in 1 .. k : g[i] = IF i \in S THEN Closed(g[i - 1], i) ELSE g[i - 1]
      BY <2>1, ClosesStep
  <2> HIDE DEF last
  <2>3. \A i \in 0 .. k : h[i] = g[i]
      OBVIOUS
  <2>4. h[k + 1] = last
      OBVIOUS
  <2>5. h = [i \in 0 .. k + 1 |-> h[i]]
      OBVIOUS
  <2> HIDE DEF h
  <2>6. ASSUME NEW i \in 0 .. k + 1
        PROVE  h[i] = IF i = 0 THEN d ELSE IF i \in S THEN Closed(h[i - 1], i) ELSE h[i - 1]
    <3>1. CASE i = 0
        BY <3>1, <2>2, <2>3
    <3>2. CASE i = k + 1
      <4>1. i - 1 = k /\ k \in 0 .. k /\ i # 0
          BY <3>2
      <4>2. h[i - 1] = g[k]
          BY <4>1, <2>3
      <4> QED BY <4>1, <4>2, <3>2, <2>4 DEF last
    <3>3. CASE i \in 1 .. k
      <4>1. i \in 0 .. k /\ i - 1 \in 0 .. k /\ i # 0
          BY <3>3
      <4>2. h[i] = g[i] /\ h[i - 1] = g[i - 1]
          BY <4>1, <2>3
      <4> QED BY <4>1, <4>2, <3>3, <2>2
    <3> QED BY <3>1, <3>2, <3>3
  <2>7. Closes(d, S, k + 1, h)
      BY <2>5, <2>6 DEF Closes
  <2> QED BY <2>7
<1>3. Nat \subseteq N
  <2> HIDE DEF N
  <2> QED BY <1>1, <1>2, EveryNumber
<1> QED BY <1>3

\* Each of them ends once, and nothing else happens.
LEMMA ClosedAllNested ==
    ASSUME NEW d, Nested(d), d.events # <<>>,
           NEW S, S \subseteq 1 .. Len(d.content), \A i \in S : Live(d, i)
    PROVE  LET e == ClosedAll(d, S) IN
           /\ Goes(d, e) /\ e.events # <<>> /\ e.content = d.content /\ e.scratch = d.scratch
           /\ \A i \in 1 .. Len(d.content) : Live(e, i) <=> Live(d, i) /\ i \notin S
<1> DEFINE m == Len(d.content)
           f == CHOOSE g : Closes(d, S, m, g)
<1>1. m \in Nat
    BY NestedFacts
<1>2. ClosedAll(d, S) = f[m]
    BY DEF ClosedAll, Closes
<1>3. Closes(d, S, m, f)
    BY <1>1, ClosesExist
<1> HIDE DEF f
<1>4. f[0] = d /\ \A n \in 1 .. m : f[n] = IF n \in S THEN Closed(f[n - 1], n) ELSE f[n - 1]
    BY <1>1, <1>3, ClosesStep
<1> DEFINE After(n, e) ==
               /\ Goes(d, e) /\ e.events # <<>> /\ e.content = d.content /\ e.scratch = d.scratch
               /\ \A i \in 1 .. m : Live(e, i) <=> Live(d, i) /\ ~(i \in S /\ i <= n)
           N == {n \in Nat : n <= m => After(n, f[n])}
<1>5. 0 \in N
    BY <1>4 DEF Goes
<1>6. ASSUME NEW n \in Nat, n \in N PROVE n + 1 \in N
  <2> SUFFICES ASSUME n + 1 <= m PROVE After(n + 1, f[n + 1])
      OBVIOUS
  <2>1. After(n, f[n]) /\ n + 1 \in 1 .. m /\ (n + 1) - 1 = n
      BY <1>1, <1>6
  <2>2. f[n + 1] = IF n + 1 \in S THEN Closed(f[n], n + 1) ELSE f[n]
      BY <1>4, <2>1
  <2> DEFINE a == f[n]
             e == f[n + 1]
  <2>3. Nested(a) /\ a.content = d.content /\ \A i \in 1 .. m : i <= n + 1 /\ i # n + 1 <=> i <= n
      BY <1>1, <2>1 DEF Goes
  <2> HIDE DEF a, e, m
  <2>4. CASE n + 1 \in S
    <3>1. Live(a, n + 1)
        BY <2>1, <2>4 DEF a
    <3>2. n + 1 \in 1 .. Len(a.content)
        BY <2>1, <2>3 DEF m
    <3>3. /\ Goes(a, e) /\ e.events # <<>> /\ e.content = a.content /\ e.scratch = a.scratch
          /\ ~Live(e, n + 1) /\ \A j \in 1 .. Len(a.content) : j # n + 1 => (Live(e, j) <=> Live(a, j))
        BY <2>2, <2>3, <2>4, <3>1, <3>2, ClosedNested DEF a, e
    <3>4. \A i \in 1 .. m : Live(e, i) <=> Live(d, i) /\ ~(i \in S /\ i <= n + 1)
      <4> SUFFICES ASSUME NEW i \in 1 .. m
                   PROVE  Live(e, i) <=> Live(d, i) /\ ~(i \in S /\ i <= n + 1)
          OBVIOUS
      <4>1. CASE i = n + 1
          BY <2>4, <3>3, <4>1
      <4>2. CASE i # n + 1
        <5>1. Live(e, i) <=> Live(a, i)
            BY <2>3, <3>3, <4>2 DEF m
        <5>2. Live(a, i) <=> Live(d, i) /\ ~(i \in S /\ i <= n)
            BY <2>1 DEF a
        <5> QED BY <2>3, <4>2, <5>1, <5>2
      <4> QED BY <4>1, <4>2
    <3>5. Goes(d, e)
        BY <2>1, <3>3 DEF Goes, a
    <3> QED BY <2>1, <3>3, <3>4, <3>5 DEF a, e
  <2>5. CASE n + 1 \notin S
    <3>1. \A i \in 1 .. m : (i \in S /\ i <= n + 1) <=> (i \in S /\ i <= n)
        BY <1>1, <2>5
    <3> QED BY <2>1, <2>2, <2>5, <3>1
  <2> QED BY <2>4, <2>5
<1>7. m \in N
  <2> HIDE DEF N
  <2> QED BY <1>1, <1>5, <1>6, EveryNumber
<1>8. After(m, f[m]) /\ \A i \in 1 .. m : i <= m
    BY <1>1, <1>7
<1> QED BY <1>2, <1>8

-----------------------------------------------------------------------------
(************************ Blocks known by their keys ***********************)

\* What a provider has said: its blocks.
Spoken == [kind : BlockKinds \cup {"other"}, text : Deltas, open : BOOLEAN]

\* The key of a block is the place of a block that the provider said, of its kind; no two
\* blocks have the same one; and the block has ended if the provider ended that one, or
\* will not name it again.
Keyed(d, s) ==
    /\ Nested(d)
    /\ \A i \in 1 .. Len(d.content) : d.scratch.keys[i] # 0 =>
          /\ d.scratch.keys[i] \in 1 .. Len(s)
          /\ s[d.scratch.keys[i]].kind = d.content[i].kind
    /\ \A i, j \in 1 .. Len(d.content) :
          d.scratch.keys[i] = d.scratch.keys[j] /\ d.scratch.keys[i] # 0 => i = j
    /\ \A i \in 1 .. Len(d.content) :
          Live(d, i) <=> d.scratch.keys[i] # 0 /\ s[d.scratch.keys[i]].open

\* The provider says more of blocks that it has said, or begins one.
Continues(s, t) ==
    /\ Len(s) <= Len(t)
    /\ \A b \in 1 .. Len(s) : t[b].kind = s[b].kind /\ t[b].open = s[b].open

LEMMA KeyedContinues ==
    ASSUME NEW d, NEW s \in Seq(Spoken), NEW t \in Seq(Spoken), Keyed(d, s), Continues(s, t)
    PROVE  Keyed(d, t)
<1>1. Len(s) \in Nat /\ Len(t) \in Nat
    OBVIOUS
<1>2. \A b \in 1 .. Len(s) : b \in 1 .. Len(t) /\ t[b].kind = s[b].kind /\ t[b].open = s[b].open
    BY <1>1 DEF Continues
<1> QED BY <1>2 DEF Keyed

LEMMA KnownIs ==
    ASSUME NEW d, Nested(d), NEW key
    PROVE  /\ Known(d, key) = {i \in 1 .. Len(d.content) : d.scratch.keys[i] = key}
           /\ Known(d, key) \subseteq Nat
           /\ \A kind : OfKind(d, kind) = {i \in 1 .. Len(d.content) : d.content[i].kind = kind}
           /\ \A kind : OfKind(d, kind) \subseteq Nat
<1>1. DOMAIN d.content = 1 .. Len(d.content) /\ 1 .. Len(d.content) \subseteq Nat
    BY NestedFacts
<1> QED BY <1>1 DEF Known, OfKind

\* The block of a key is the only one.
LEMMA KeyedFound ==
    ASSUME NEW d, NEW s, Keyed(d, s), NEW b \in 1 .. Len(s), Len(s) \in Nat
    PROVE  /\ \A i \in Known(d, b) :
                /\ i \in 1 .. Len(d.content) /\ d.scratch.keys[i] = b /\ d.content[i].kind = s[b].kind
                /\ FirstOf(Known(d, b)) = i
                /\ Live(d, i) <=> s[b].open
           /\ Known(d, b) \cap OfKind(d, s[b].kind) = Known(d, b)
           /\ \A kind : kind # s[b].kind => Known(d, b) \cap OfKind(d, kind) = {}
<1>1. b # 0 /\ Nested(d)
    BY DEF Keyed
<1>2. /\ Known(d, b) = {i \in 1 .. Len(d.content) : d.scratch.keys[i] = b} /\ Known(d, b) \subseteq Nat
      /\ \A kind : OfKind(d, kind) = {i \in 1 .. Len(d.content) : d.content[i].kind = kind}
    BY <1>1, KnownIs
<1>3. ASSUME NEW i \in Known(d, b)
      PROVE  /\ i \in 1 .. Len(d.content) /\ d.scratch.keys[i] = b /\ d.content[i].kind = s[b].kind
             /\ FirstOf(Known(d, b)) = i
             /\ Live(d, i) <=> s[b].open
  <2>1. i \in 1 .. Len(d.content) /\ d.scratch.keys[i] = b
      BY <1>2
  <2>2. d.content[i].kind = s[b].kind
      BY <1>1, <2>1 DEF Keyed
  <2>3. \A j \in Known(d, b) : j = i
      BY <1>1, <1>2, <2>1 DEF Keyed
  <2>4. FirstOf(Known(d, b)) = i
      BY <1>2, <2>3, FirstOfOne
  <2>5. Live(d, i) <=> s[b].open
      BY <1>1, <2>1 DEF Keyed
  <2> QED BY <2>1, <2>2, <2>4, <2>5
<1>4. ASSUME NEW i \in Known(d, b)
      PROVE  i \in OfKind(d, s[b].kind) /\ \A kind : kind # s[b].kind => i \notin OfKind(d, kind)
  <2>1. i \in 1 .. Len(d.content) /\ d.content[i].kind = s[b].kind
      BY <1>3
  <2> QED BY <1>2, <2>1
<1>5. Known(d, b) \cap OfKind(d, s[b].kind) = Known(d, b)
    BY <1>4
<1>6. \A kind : kind # s[b].kind => Known(d, b) \cap OfKind(d, kind) = {}
    BY <1>4
<1> QED BY <1>3, <1>5, <1>6

\* A block of the message for one that the provider has begun.
LEMMA KeyedOpened ==
    ASSUME NEW d, NEW s \in Seq(Spoken), Keyed(d, s), d.events # <<>>,
           NEW b \in 1 .. Len(s), s[b].open, NEW kind \in BlockKinds, s[b].kind = kind, Known(d, b) = {}
    PROVE  LET e == Opened(d, b, kind)
               n == Len(d.content) + 1
           IN  /\ Keyed(e, s) /\ Goes(d, e) /\ e.events # <<>> /\ Known(e, b) = {n}
               /\ Len(e.content) = n
               /\ e.scratch = WithKey(d.scratch, b)
<1> DEFINE e == Opened(d, b, kind)
           n == Len(d.content) + 1
<1>1. Nested(d) /\ b \in Nat /\ b # 0 /\ Len(s) \in Nat /\ Len(d.content) \in Nat
    BY NestedFacts DEF Keyed
<1>2. /\ Goes(d, e) /\ e.events # <<>>
      /\ Len(e.content) = n /\ e.content[n].kind = kind /\ e.scratch.keys[n] = b /\ Live(e, n)
      /\ \A i \in 1 .. Len(d.content) : Keeps(d, e, i)
      /\ e.scratch = WithKey(d.scratch, b)
    BY <1>1, OpenedNested
<1> HIDE DEF e
<1>3. \A i \in 1 .. Len(d.content) : d.scratch.keys[i] # b
    BY <1>1, KnownIs
<1>4. \A i \in 1 .. Len(e.content) : i = n \/ (i \in 1 .. Len(d.content) /\ i # n)
    BY <1>1, <1>2
<1> HIDE DEF n
<1>5. \A i \in 1 .. Len(e.content) : e.scratch.keys[i] # 0 =>
          /\ e.scratch.keys[i] \in 1 .. Len(s)
          /\ s[e.scratch.keys[i]].kind = e.content[i].kind
  <2> SUFFICES ASSUME NEW i \in 1 .. Len(e.content), e.scratch.keys[i] # 0
               PROVE  /\ e.scratch.keys[i] \in 1 .. Len(s)
                      /\ s[e.scratch.keys[i]].kind = e.content[i].kind
      OBVIOUS
  <2>1. CASE i = n
      BY <1>2, <2>1
  <2>2. CASE i \in 1 .. Len(d.content)
    <3>1. e.content[i].kind = d.content[i].kind /\ e.scratch.keys[i] = d.scratch.keys[i]
        BY <1>2, <2>2 DEF Keeps
    <3> QED BY <2>2, <3>1 DEF Keyed
  <2> QED BY <1>4, <2>1, <2>2
<1>6. \A i, j \in 1 .. Len(e.content) :
          e.scratch.keys[i] = e.scratch.keys[j] /\ e.scratch.keys[i] # 0 => i = j
  <2>1. \A i \in 1 .. Len(d.content) : e.scratch.keys[i] = d.scratch.keys[i] /\ e.scratch.keys[i] # b
      BY <1>2, <1>3 DEF Keeps
  <2>2. \A i, j \in 1 .. Len(d.content) :
            e.scratch.keys[i] = e.scratch.keys[j] /\ e.scratch.keys[i] # 0 => i = j
      BY <2>1 DEF Keyed
  <2>3. e.scratch.keys[n] = b
      BY <1>2
  <2> QED BY ONLY <1>4, <2>1, <2>2, <2>3
<1>7. \A i \in 1 .. Len(e.content) :
          Live(e, i) <=> e.scratch.keys[i] # 0 /\ s[e.scratch.keys[i]].open
  <2> SUFFICES ASSUME NEW i \in 1 .. Len(e.content)
               PROVE  Live(e, i) <=> e.scratch.keys[i] # 0 /\ s[e.scratch.keys[i]].open
      OBVIOUS
  <2>1. CASE i = n
      BY <1>1, <1>2, <2>1
  <2>2. CASE i \in 1 .. Len(d.content)
      BY <1>2, <2>2 DEF Keyed, Keeps
  <2> QED BY <1>4, <2>1, <2>2
<1>8. Nested(e) /\ Keyed(e, s)
    BY <1>2, <1>5, <1>6, <1>7 DEF Keyed, Goes
<1>9. Known(e, b) = {n}
  <2>1. Known(e, b) = {i \in 1 .. Len(e.content) : e.scratch.keys[i] = b}
      BY <1>8, KnownIs
  <2>2. n \in 1 .. Len(e.content)
      BY <1>1, <1>2 DEF n
  <2>3. \A i \in 1 .. Len(d.content) : e.scratch.keys[i] # b
      BY <1>2, <1>3 DEF Keeps
  <2>4. e.scratch.keys[n] = b
      BY <1>2
  <2> QED BY ONLY <1>4, <2>1, <2>2, <2>3, <2>4
<1> QED BY <1>2, <1>8, <1>9 DEF e, n

LEMMA KeyedGrown ==
    ASSUME NEW d, NEW s \in Seq(Spoken), Keyed(d, s), NEW i \in 1 .. Len(d.content), Live(d, i),
           NEW text \in Deltas, NEW kind, kind = d.content[i].kind
    PROVE  LET e == Grown(d, kind, i, text) IN
           Keyed(e, s) /\ Goes(d, e) /\ e.events # <<>> /\ e.scratch = d.scratch
           /\ Len(e.content) = Len(d.content)
<1> DEFINE e == Grown(d, kind, i, text)
<1>1. Nested(d)
    BY DEF Keyed
<1>2. /\ Goes(d, e) /\ e.events # <<>> /\ Len(e.content) = Len(d.content)
      /\ \A j \in 1 .. Len(d.content) : Keeps(d, e, j)
      /\ e.scratch = d.scratch
    BY <1>1, GrownNested
<1> HIDE DEF e
<1>3. Keyed(e, s)
  <2>1. Nested(e)
      BY <1>2 DEF Goes
  <2>2. \A j \in 1 .. Len(d.content) : Live(e, j) <=> d.scratch.keys[j] # 0 /\ s[d.scratch.keys[j]].open
      BY <1>2 DEF Keeps, Keyed
  <2>3. \A j \in 1 .. Len(d.content) : e.content[j].kind = d.content[j].kind
      BY <1>2 DEF Keeps
  <2> QED BY <1>2, <2>1, <2>2, <2>3 DEF Keyed
<1> QED BY <1>2, <1>3 DEF e

\* t is what was said when the provider has ended its block b.
Ends(s, t, b) ==
    /\ Len(t) = Len(s) /\ ~t[b].open
    /\ \A a \in 1 .. Len(s) : t[a].kind = s[a].kind /\ (a # b => t[a].open = s[a].open)

\* An end of a block that has none in the message.
LEMMA KeyedUnheard ==
    ASSUME NEW d, NEW s \in Seq(Spoken), NEW t \in Seq(Spoken), Keyed(d, s),
           NEW b \in 1 .. Len(s), Ends(s, t, b), Known(d, b) = {}
    PROVE  Keyed(d, t)
<1>1. Nested(d)
    BY DEF Keyed
<1>2. \A i \in 1 .. Len(d.content) : d.scratch.keys[i] # b
    BY <1>1, KnownIs
<1> QED BY <1>2 DEF Keyed, Ends

LEMMA KeyedClosed ==
    ASSUME NEW d, NEW s \in Seq(Spoken), NEW t \in Seq(Spoken), Keyed(d, s),
           NEW b \in 1 .. Len(s), s[b].open, Ends(s, t, b), NEW i \in Known(d, b)
    PROVE  LET e == Closed(d, i) IN
           Keyed(e, t) /\ Goes(d, e) /\ e.events # <<>> /\ e.content = d.content /\ e.scratch = d.scratch
<1> DEFINE e == Closed(d, i)
<1>1. Nested(d) /\ Len(s) \in Nat /\ b # 0
    BY DEF Keyed
<1>2. i \in 1 .. Len(d.content) /\ d.scratch.keys[i] = b /\ Live(d, i)
    BY <1>1, KeyedFound
<1>3. /\ Goes(d, e) /\ e.events # <<>> /\ e.content = d.content /\ e.scratch = d.scratch
      /\ ~Live(e, i) /\ \A j \in 1 .. Len(d.content) : j # i => (Live(e, j) <=> Live(d, j))
    BY <1>1, <1>2, ClosedNested
<1> HIDE DEF e
<1>4. \A j \in 1 .. Len(d.content) : Live(e, j) <=> d.scratch.keys[j] # 0 /\ t[d.scratch.keys[j]].open
  <2> SUFFICES ASSUME NEW j \in 1 .. Len(d.content)
               PROVE  Live(e, j) <=> d.scratch.keys[j] # 0 /\ t[d.scratch.keys[j]].open
      OBVIOUS
  <2>1. CASE j = i
      BY <1>2, <1>3, <2>1 DEF Ends
  <2>2. CASE j # i
    <3>1. d.scratch.keys[j] # b
        BY <1>1, <1>2, <2>2 DEF Keyed
    <3>2. d.scratch.keys[j] # 0 => t[d.scratch.keys[j]].open = s[d.scratch.keys[j]].open
        BY <3>1 DEF Keyed, Ends
    <3> QED BY <1>3, <2>2, <3>2 DEF Keyed
  <2> QED BY <2>1, <2>2
<1>5. Keyed(e, t)
  <2>1. \A j \in 1 .. Len(d.content) : d.scratch.keys[j] # 0 =>
            d.scratch.keys[j] \in 1 .. Len(t) /\ t[d.scratch.keys[j]].kind = d.content[j].kind
      BY DEF Keyed, Ends
  <2>2. \A j, k \in 1 .. Len(d.content) :
            d.scratch.keys[j] = d.scratch.keys[k] /\ d.scratch.keys[j] # 0 => j = k
      BY DEF Keyed
  <2>3. Nested(e) /\ e.content = d.content /\ e.scratch = d.scratch
      BY <1>3 DEF Goes
  <2> QED BY ONLY <1>4, <2>1, <2>2, <2>3 DEF Keyed
<1> QED BY <1>3, <1>5 DEF e

\* The end of a block that the provider will not name again.
LEMMA KeyedForgotten ==
    ASSUME NEW d, NEW s \in Seq(Spoken), Keyed(d, s), d.events # <<>>,
           NEW i \in 1 .. Len(d.content), ~Live(d, i)
    PROVE  LET e == Forgotten(d, i) IN Keyed(e, s) /\ Goes(d, e) /\ e.events # <<>>
<1> DEFINE e == Forgotten(d, i)
<1>1. Nested(d)
    BY DEF Keyed
<1>2. /\ Goes(d, e) /\ e.events = d.events /\ e.content = d.content
      /\ e.scratch.keys = [d.scratch.keys EXCEPT ![i] = 0]
      /\ \A j \in 1 .. Len(d.content) : Live(e, j) <=> Live(d, j)
    BY <1>1, ForgottenNested
<1> HIDE DEF e
<1>3. /\ e.scratch.keys[i] = 0
      /\ \A j \in 1 .. Len(d.content) : j # i => e.scratch.keys[j] = d.scratch.keys[j]
  <2>1. DOMAIN d.scratch.keys = 1 .. Len(d.content)
      BY <1>1, NestedFacts
  <2> QED BY <1>2, <2>1
<1>4. Keyed(e, s)
  <2>1. /\ \A j \in 1 .. Len(d.content) : d.scratch.keys[j] # 0 =>
              d.scratch.keys[j] \in 1 .. Len(s) /\ s[d.scratch.keys[j]].kind = d.content[j].kind
        /\ \A j, k \in 1 .. Len(d.content) :
              d.scratch.keys[j] = d.scratch.keys[k] /\ d.scratch.keys[j] # 0 => j = k
        /\ \A j \in 1 .. Len(d.content) :
              Live(d, j) <=> d.scratch.keys[j] # 0 /\ s[d.scratch.keys[j]].open
      BY DEF Keyed
  <2>2. \A j \in 1 .. Len(e.content) : e.scratch.keys[j] # 0 =>
              e.scratch.keys[j] \in 1 .. Len(s) /\ s[e.scratch.keys[j]].kind = e.content[j].kind
      BY <1>2, <1>3, <2>1
  <2>3. \A j, k \in 1 .. Len(e.content) :
              e.scratch.keys[j] = e.scratch.keys[k] /\ e.scratch.keys[j] # 0 => j = k
      BY <1>2, <1>3, <2>1
  <2>4. ASSUME NEW j \in 1 .. Len(e.content)
        PROVE  Live(e, j) <=> e.scratch.keys[j] # 0 /\ s[e.scratch.keys[j]].open
    <3>1. j \in 1 .. Len(d.content) /\ (Live(e, j) <=> Live(d, j))
        BY <1>2
    <3>2. CASE j = i
        BY <1>3, <3>1, <3>2
    <3>3. CASE j # i
        BY <1>3, <2>1, <3>1, <3>3
    <3> QED BY <3>2, <3>3
  <2>5. Nested(e)
      BY <1>2 DEF Goes
  <2> QED BY <2>2, <2>3, <2>4, <2>5 DEF Keyed
<1> QED BY <1>2, <1>4 DEF e

\* A record of which only texts, flags or the reason to stop change.
LEMMA KeyedSame ==
    ASSUME NEW d, NEW s, Keyed(d, s), NEW e \in Decoder, e.events = d.events,
           SameKinds(d, e), e.scratch.keys = d.scratch.keys
    PROVE  Keyed(e, s)
<1>1. Nested(d)
    BY DEF Keyed
<1>2. Len(e.content) = Len(d.content) /\ \A i \in 1 .. Len(d.content) : e.content[i].kind = d.content[i].kind
    BY DEF SameKinds
<1>3. Nested(e) /\ \A i \in 1 .. Len(d.content) : Live(e, i) <=> Live(d, i)
    BY <1>1, <1>2, SameEvents
<1> QED BY <1>2, <1>3 DEF Keyed

LEMMA KeyedFresh ==
    ASSUME NEW d, NEW s \in Seq(Spoken), Keyed(d, s)
    PROVE  Known(d, Len(s) + 1) = {}
<1>1. Nested(d) /\ Len(s) \in Nat
    BY DEF Keyed
<1>2. \A i \in 1 .. Len(d.content) : d.scratch.keys[i] # Len(s) + 1
    BY <1>1 DEF Keyed
<1> QED BY <1>1, <1>2, KnownIs

(************************** What a provider says ***************************)

\* The provider begins a block, goes on with one, ends one, or sends one whole: s is
\* what it said before, t what it has said then.
Begins(s, w, t) ==
    /\ w.type = "begin" /\ w.index = Len(s) + 1 /\ w.kind \in BlockKinds \cup {"other"}
    /\ w.text = <<>>
    /\ t = Append(s, [kind |-> w.kind, text |-> <<>>, open |-> TRUE])

GoesOn(s, w, t) ==
    /\ w.type = "delta" /\ w.index \in 1 .. Len(s) /\ s[w.index].open
    /\ w.kind = s[w.index].kind /\ w.text \in Deltas
    /\ Len(t) = Len(s) /\ Continues(s, t)

Finishes(s, w, t) ==
    /\ w.type = "end" /\ w.index \in 1 .. Len(s) /\ s[w.index].open
    /\ w.kind = s[w.index].kind /\ w.text \in Deltas
    /\ Ends(s, t, w.index)

SendsWhole(s, w, t) ==
    /\ w.type = "whole" /\ w.index = Len(s) + 1 /\ w.kind = "text" /\ w.text \in Deltas
    /\ t = Append(s, [kind |-> w.kind, text |-> w.text, open |-> FALSE])

\* The message of e says what the one of d does, of what the provider said then, t.
Follows(d, e, t) ==
    /\ Keyed(e, t) /\ e.events # <<>>
    /\ e.stop = d.stop /\ e.failed = d.failed

\* The same, when what the protocol keeps is as it was.
Stays(d, e, t) == Follows(d, e, t) /\ e.scratch = d.scratch

LEMMA Begun ==
    ASSUME NEW s \in Seq(Spoken), NEW t \in Seq(Spoken), NEW w, Begins(s, w, t), NEW d, Keyed(d, s)
    PROVE  /\ w.index \in 1 .. Len(t) /\ t[w.index].open /\ t[w.index].kind = w.kind
           /\ Keyed(d, t) /\ Known(d, w.index) = {}
<1>1. Len(s) \in Nat /\ Len(t) = Len(s) + 1 /\ w.index = Len(s) + 1
      /\ t[Len(s) + 1] = [kind |-> w.kind, text |-> <<>>, open |-> TRUE]
      /\ \A b \in 1 .. Len(s) : t[b] = s[b]
  <2> DEFINE b == [kind |-> w.kind, text |-> <<>>, open |-> TRUE]
  <2>1. b \in Spoken
      BY DEF Begins, Spoken, Deltas
  <2>2. t = Append(s, b) /\ w.index = Len(s) + 1
      BY DEF Begins
  <2> HIDE DEF b
  <2> QED BY <2>1, <2>2, AppendProperties, LenProperties DEF b
<1>2. Continues(s, t)
    BY <1>1 DEF Continues
<1>3. Keyed(d, t)
    BY <1>2, KeyedContinues
<1>4. Known(d, w.index) = {}
    BY <1>1, KeyedFresh
<1> QED BY <1>1, <1>3, <1>4

\* A delta goes to the block that its key and kind find.
LEMMA KeyedGoesOn ==
    ASSUME NEW s \in Seq(Spoken), NEW t \in Seq(Spoken), NEW w, GoesOn(s, w, t),
           NEW d, Keyed(d, s), d.events # <<>>
    PROVE  LET found == Known(d, w.index) \cap OfKind(d, w.kind)
               e     == Grown(d, w.kind, FirstOf(found), w.text)
           IN  /\ found = Known(d, w.index)
               /\ found = {} => Stays(d, d, t)
               /\ found # {} => Stays(d, e, t)
<1>1. /\ w.index \in 1 .. Len(s) /\ s[w.index].open /\ w.kind = s[w.index].kind /\ w.text \in Deltas
      /\ Keyed(d, t) /\ Len(t) = Len(s) /\ t[w.index].kind = w.kind /\ t[w.index].open /\ Len(t) \in Nat
    BY KeyedContinues DEF GoesOn, Continues
<1> DEFINE found == Known(d, w.index) \cap OfKind(d, w.kind)
<1>2. found = Known(d, w.index)
    BY <1>1, KeyedFound
<1> HIDE DEF found
<1>3. CASE found = {}
    BY <1>1, <1>2, <1>3 DEF Stays, Follows, found
<1>4. CASE found # {}
  <2>1. PICK i : i \in found
      BY <1>4
  <2>2. /\ i \in 1 .. Len(d.content) /\ d.content[i].kind = w.kind /\ FirstOf(found) = i /\ Live(d, i)
    <3>1. i \in Known(d, w.index)
        BY <1>2, <2>1
    <3> QED BY <1>1, <1>2, <3>1, KeyedFound
  <2> DEFINE e == Grown(d, w.kind, i, w.text)
  <2>3. Keyed(e, t) /\ Goes(d, e) /\ e.events # <<>> /\ e.scratch = d.scratch
      BY <1>1, <2>2, KeyedGrown
  <2> HIDE DEF e
  <2>4. Stays(d, e, t)
      BY <2>3 DEF Stays, Follows, Goes
  <2> QED BY <1>2, <1>4, <2>2, <2>4 DEF found, e
<1> QED BY <1>3, <1>4

\* An end ends the block that its key finds.
LEMMA KeyedFinishes ==
    ASSUME NEW s \in Seq(Spoken), NEW t \in Seq(Spoken), NEW b \in 1 .. Len(s), s[b].open, Ends(s, t, b),
           NEW d, Keyed(d, s), d.events # <<>>
    PROVE  LET i == FirstOf(Known(d, b))
               e == Closed(d, i)
           IN  /\ Known(d, b) = {} => Follows(d, d, t)
               /\ Known(d, b) # {} =>
                    /\ Follows(d, e, t) /\ e.scratch = d.scratch /\ e.content = d.content
                    /\ i \in 1 .. Len(d.content) /\ ~Live(e, i)
<1>1. Len(s) \in Nat /\ Len(t) = Len(s) /\ ~t[b].open /\ b # 0
    BY DEF Ends
<1>2. CASE Known(d, b) = {}
  <2>1. Keyed(d, t)
      BY <1>2, KeyedUnheard
  <2> QED BY <1>2, <2>1 DEF Follows
<1>3. CASE Known(d, b) # {}
  <2>1. PICK i : i \in Known(d, b)
      BY <1>3
  <2>2. FirstOf(Known(d, b)) = i /\ i \in 1 .. Len(d.content) /\ d.scratch.keys[i] = b
      BY <1>1, <2>1, KeyedFound
  <2> DEFINE e == Closed(d, i)
  <2>3. Keyed(e, t) /\ Goes(d, e) /\ e.events # <<>> /\ e.scratch = d.scratch /\ e.content = d.content
      BY <2>1, KeyedClosed
  <2> HIDE DEF e
  <2>4. ~Live(e, i)
      BY <1>1, <2>2, <2>3 DEF Keyed
  <2>5. Follows(d, e, t)
      BY <2>3 DEF Follows, Goes
  <2> QED BY <1>3, <2>2, <2>3, <2>4, <2>5 DEF e
<1> QED BY <1>2, <1>3

(******************************** Anthropic ********************************)

LEMMA AnthropicBegins ==
    ASSUME NEW s \in Seq(Spoken), NEW t \in Seq(Spoken), NEW w, Begins(s, w, t),
           NEW d, Keyed(d, s), d.events # <<>>
    PROVE  LET e == AnthropicBegin(d, w) IN
           /\ Follows(d, e, t)
           /\ e.scratch \in {d.scratch, WithKey(d.scratch, w.index)}
<1>1. /\ w.index \in 1 .. Len(t) /\ t[w.index].open /\ t[w.index].kind = w.kind
      /\ Keyed(d, t) /\ Known(d, w.index) = {}
    BY Begun
<1>2. CASE w.kind = "other"
    BY <1>1, <1>2 DEF AnthropicBegin, Follows
<1>3. CASE w.kind # "other"
  <2>1. w.kind \in BlockKinds
      BY <1>3 DEF Begins
  <2> DEFINE b == w.index
             kind == w.kind
             e == Opened(d, b, kind)
  <2>2. Keyed(e, t) /\ Goes(d, e) /\ e.events # <<>> /\ e.scratch = WithKey(d.scratch, b)
    <3> HIDE DEF b, kind
    <3>1. Keyed(d, t) /\ b \in 1 .. Len(t) /\ t[b].open /\ kind \in BlockKinds /\ t[b].kind = kind
          /\ Known(d, b) = {}
        BY <1>1, <2>1 DEF b, kind
    <3> QED BY <3>1, KeyedOpened
  <2>3. AnthropicBegin(d, w) = e
      BY <1>3 DEF AnthropicBegin
  <2> HIDE DEF e
  <2> QED BY <2>2, <2>3 DEF Follows, Goes
<1> QED BY <1>2, <1>3

LEMMA AnthropicGoesOn ==
    ASSUME NEW s \in Seq(Spoken), NEW t \in Seq(Spoken), NEW w, GoesOn(s, w, t),
           NEW d, Keyed(d, s), d.events # <<>>
    PROVE  Stays(d, AnthropicDelta(d, w), t)
BY KeyedGoesOn DEF AnthropicDelta

LEMMA AnthropicFinishes ==
    ASSUME NEW s \in Seq(Spoken), NEW t \in Seq(Spoken), NEW w, Finishes(s, w, t),
           NEW d, Keyed(d, s), d.events # <<>>
    PROVE  LET e == AnthropicEnd(d, w) IN Follows(d, e, t) /\ e.scratch = d.scratch
<1>1. w.index \in 1 .. Len(s) /\ s[w.index].open /\ Ends(s, t, w.index)
    BY DEF Finishes
<1> DEFINE b == w.index
<1>2. AnthropicEnd(d, w) = IF Known(d, b) = {} THEN d ELSE Closed(d, FirstOf(Known(d, b)))
    BY DEF AnthropicEnd
<1> HIDE DEF b
<1> QED BY <1>1, <1>2, KeyedFinishes DEF b

(******************************** Responses ********************************)

\* A key that no block has is not taken from one.
LEMMA SlotIsNew ==
    ASSUME NEW d, Nested(d), NEW w, Known(d, w.index) = {}, w.kind # "other"
    PROVE  CreateSlot(d, w) = Opened(d, w.index, w.kind)
<1> DEFINE q == d.scratch.keys
           r == [i \in DOMAIN q |-> IF q[i] = w.index THEN 0 ELSE q[i]]
<1>1. /\ d \in Decoder /\ d.scratch \in Scratch /\ q \in Seq(Nat) /\ DOMAIN q = 1 .. Len(d.content)
    BY NestedFacts
<1>2. \A i \in DOMAIN q : q[i] # w.index
    BY <1>1, KnownIs
<1>3. r = q
  <2>1. q = [i \in DOMAIN q |-> q[i]]
      BY <1>1
  <2> HIDE DEF q
  <2>2. \A i \in DOMAIN q : (IF q[i] = w.index THEN 0 ELSE q[i]) = q[i]
      BY <1>2
  <2> QED BY <2>1, <2>2
<1>4. CreateSlot(d, w) = Opened([d EXCEPT !.scratch = [d.scratch EXCEPT !.keys = r]], w.index, w.kind)
    BY DEF CreateSlot
<1>5. [d.scratch EXCEPT !.keys = q] = d.scratch
    BY <1>1 DEF Scratch
<1>6. [d EXCEPT !.scratch = d.scratch] = d
    BY <1>1 DEF Decoder
<1> QED BY <1>3, <1>4, <1>5, <1>6

\* The whole content of an item takes the place of what was streamed, and its block ends.
LEMMA ItemCloses ==
    ASSUME NEW s \in Seq(Spoken), NEW t \in Seq(Spoken), NEW b \in 1 .. Len(s), s[b].open, Ends(s, t, b),
           NEW d, Keyed(d, s), d.events # <<>>, NEW i \in Known(d, b), NEW text \in Deltas
    PROVE  LET e == Closed([d EXCEPT !.content[i].text = text], i) IN
           Follows(d, e, t) /\ Follows(d, Forgotten(e, i), t) /\ Len(e.content) = Len(d.content)
           /\ e.scratch = d.scratch
<1> DEFINE c == [d.content EXCEPT ![i] = [d.content[i] EXCEPT !.text = text]]
           f == [d EXCEPT !.content = c]
           e == Closed(f, i)
<1>1. /\ Nested(d) /\ Len(s) \in Nat /\ b # 0 /\ d \in Decoder /\ d.content \in Seq(Block)
    BY NestedFacts DEF Keyed
<1>2. i \in 1 .. Len(d.content) /\ d.scratch.keys[i] = b
    BY <1>1, KeyedFound
<1>3. c \in Seq(Block) /\ Len(c) = Len(d.content) /\ \A j \in 1 .. Len(d.content) : c[j].kind = d.content[j].kind
  <2>1. d.content[i] \in Block
      BY <1>1, <1>2
  <2> DEFINE x == [d.content[i] EXCEPT !.text = text]
  <2>2. x \in Block /\ x.kind = d.content[i].kind
      BY <2>1 DEF Block
  <2> HIDE DEF x
  <2>3. [d.content EXCEPT ![i] = x] \in Seq(Block) /\ Len([d.content EXCEPT ![i] = x]) = Len(d.content)
      BY <1>1, <1>2, <2>2, ExceptSeq
  <2>4. \A j \in 1 .. Len(d.content) : [d.content EXCEPT ![i] = x][j] = IF j = i THEN x ELSE d.content[j]
      BY <1>1
  <2> QED BY <2>2, <2>3, <2>4 DEF x
<1> HIDE DEF c
<1>4. /\ f \in Decoder /\ f.content = c /\ f.events = d.events /\ f.scratch = d.scratch
      /\ f.stop = d.stop /\ f.failed = d.failed
    BY <1>1, <1>3 DEF Decoder
<1>5. f = [d EXCEPT !.content[i].text = text]
    BY DEF c
<1> HIDE DEF f
<1>6. SameKinds(d, f)
    BY <1>3, <1>4 DEF SameKinds
<1>7. Keyed(f, s)
    BY <1>4, <1>6, KeyedSame
<1>8. i \in Known(f, b) /\ i \in 1 .. Len(f.content)
  <2>1. Nested(f)
      BY <1>7 DEF Keyed
  <2>2. Known(f, b) = {j \in 1 .. Len(f.content) : f.scratch.keys[j] = b}
      BY <2>1, KnownIs
  <2>3. Len(f.content) = Len(d.content) /\ f.scratch.keys[i] = b
      BY <1>2, <1>3, <1>4
  <2> QED BY <1>2, <2>2, <2>3
<1>9. Keyed(e, t) /\ Goes(f, e) /\ e.events # <<>> /\ e.content = f.content /\ e.scratch = f.scratch
    BY <1>7, <1>8, KeyedClosed
<1> HIDE DEF e
<1>10. ~Live(e, i)
    BY <1>2, <1>4, <1>8, <1>9 DEF Keyed, Ends
<1> DEFINE g == Forgotten(e, i)
<1>11. Keyed(g, t) /\ Goes(e, g) /\ g.events # <<>>
    BY <1>8, <1>9, <1>10, KeyedForgotten
<1> HIDE DEF g
<1> QED BY <1>3, <1>4, <1>5, <1>9, <1>11 DEF Follows, Goes, e, g

\* An item that is done, whether it was added before or not.
LEMMA ItemDone ==
    ASSUME NEW s \in Seq(Spoken), NEW t \in Seq(Spoken), NEW w,
           w.index \in 1 .. Len(s), s[w.index].open, s[w.index].kind = w.kind, Ends(s, t, w.index),
           w.text \in Deltas, NEW d, Keyed(d, s), d.events # <<>>
    PROVE  Follows(d, ResponsesItemDone(d, w), t)
<1> DEFINE b == w.index
           made == Slot(d, w) = {} /\ w.kind \in {"text", "thinking"}
           e == IF made THEN CreateSlot(d, w) ELSE d
           done(i) == Forgotten(Closed([e EXCEPT !.content[i].text = w.text], i), i)
<1>1. /\ Nested(d) /\ Len(s) \in Nat /\ b \in 1 .. Len(s) /\ b # 0
    BY DEF Keyed
<1>2. Slot(d, w) = Known(d, b)
    BY <1>1, KeyedFound DEF Slot
<1>3. Keyed(e, s) /\ Goes(d, e) /\ e.events # <<>>
  <2>1. CASE made
    <3>1. w.kind \in BlockKinds /\ w.kind # "other" /\ Known(d, b) = {}
        BY <1>2, <2>1 DEF BlockKinds
    <3>2. e = Opened(d, b, w.kind)
        BY <1>1, <2>1, <3>1, SlotIsNew
    <3> DEFINE kind == w.kind
    <3>3. Keyed(Opened(d, b, kind), s) /\ Goes(d, Opened(d, b, kind)) /\ Opened(d, b, kind).events # <<>>
      <4> HIDE DEF b, kind
      <4>1. b \in 1 .. Len(s) /\ s[b].open /\ kind \in BlockKinds /\ s[b].kind = kind /\ Known(d, b) = {}
          BY <1>1, <3>1 DEF b, kind
      <4> QED BY <4>1, KeyedOpened
    <3> QED BY <3>2, <3>3
  <2>2. CASE ~made
      BY <1>1, <2>2 DEF Goes
  <2> QED BY <2>1, <2>2
<1>4. ResponsesItemDone(d, w) = IF Slot(e, w) = {} THEN e ELSE done(FirstOf(Slot(e, w)))
    BY DEF ResponsesItemDone
<1> HIDE DEF e
<1>5. Slot(e, w) = Known(e, b)
    BY <1>1, <1>3, KeyedFound DEF Slot
<1>6. CASE Slot(e, w) = {}
  <2>1. Keyed(e, t)
      BY <1>1, <1>3, <1>5, <1>6, KeyedUnheard
  <2> QED BY <1>3, <1>4, <1>6, <2>1 DEF Follows, Goes
<1>7. CASE Slot(e, w) # {}
  <2>1. PICK i : i \in Known(e, b)
      BY <1>5, <1>7
  <2>2. FirstOf(Known(e, b)) = i
      BY <1>1, <1>3, <2>1, KeyedFound
  <2>3. Follows(e, done(i), t)
      BY <1>1, <1>3, <2>1, ItemCloses
  <2> HIDE DEF done
  <2> QED BY <1>3, <1>4, <1>5, <1>7, <2>2, <2>3 DEF Follows, Goes
<1> QED BY <1>6, <1>7

\* What the Responses protocols make of an item.
LEMMA ResponsesSays ==
    ASSUME NEW s \in Seq(Spoken), NEW t \in Seq(Spoken), NEW w,
           Begins(s, w, t) \/ GoesOn(s, w, t) \/ Finishes(s, w, t) \/ SendsWhole(s, w, t),
           NEW d, Keyed(d, s), d.events # <<>>
    PROVE  Follows(d, ResponsesEvent(d, w), t)
<1>1. CASE Begins(s, w, t)
  <2>1. /\ w.index \in 1 .. Len(t) /\ t[w.index].open /\ t[w.index].kind = w.kind
        /\ Keyed(d, t) /\ Known(d, w.index) = {} /\ Nested(d)
    <3>1. Nested(d)
        BY DEF Keyed
    <3> QED BY <1>1, <3>1, Begun
  <2>2. ResponsesEvent(d, w) = CreateSlot(d, w)
      BY <1>1 DEF ResponsesEvent, Begins
  <2>3. CASE w.kind = "other"
      BY <2>1, <2>2, <2>3 DEF CreateSlot, Follows
  <2>4. CASE w.kind # "other"
    <3>1. w.kind \in BlockKinds /\ CreateSlot(d, w) = Opened(d, w.index, w.kind)
        BY <1>1, <2>1, <2>4, SlotIsNew DEF Begins
    <3> DEFINE b == w.index
               kind == w.kind
               e == Opened(d, b, kind)
    <3>2. Keyed(e, t) /\ Goes(d, e) /\ e.events # <<>>
      <4> HIDE DEF b, kind
      <4>1. /\ Keyed(d, t) /\ b \in 1 .. Len(t) /\ t[b].open /\ kind \in BlockKinds /\ t[b].kind = kind
            /\ Known(d, b) = {}
          BY <2>1, <3>1 DEF b, kind
      <4> QED BY <4>1, KeyedOpened
    <3>3. ResponsesEvent(d, w) = e
        BY <2>2, <3>1
    <3> HIDE DEF e
    <3> QED BY <3>2, <3>3 DEF Follows, Goes
  <2> QED BY <2>3, <2>4
<1>2. CASE GoesOn(s, w, t)
  <2>1. ResponsesEvent(d, w) = ResponsesDelta(d, w)
      BY <1>2 DEF ResponsesEvent, GoesOn
  <2>2. Stays(d, ResponsesDelta(d, w), t)
      BY <1>2, KeyedGoesOn DEF ResponsesDelta, Slot
  <2> QED BY <2>1, <2>2 DEF Stays
<1>3. CASE Finishes(s, w, t)
  <2>1. ResponsesEvent(d, w) = ResponsesItemDone(d, w)
      BY <1>3 DEF ResponsesEvent, Finishes
  <2> QED BY <1>3, <2>1, ItemDone DEF Finishes
<1>4. CASE SendsWhole(s, w, t)
  <2> DEFINE x == [kind |-> w.kind, text |-> <<>>, open |-> TRUE]
             y == [kind |-> w.kind, text |-> w.text, open |-> FALSE]
             u == [w EXCEPT !.type = "begin", !.text = <<>>]
             r == Append(s, x)
             n == Len(s) + 1
  <2>1. x \in Spoken /\ y \in Spoken /\ w.kind = "text" /\ w.index = n /\ t = Append(s, y) /\ w.text \in Deltas
      BY <1>4 DEF SendsWhole, Spoken, BlockKinds, Deltas
  <2>2. x.kind = "text" /\ x.open /\ y.kind = "text" /\ ~y.open
      BY <2>1
  <2> HIDE DEF x, y
  <2>3. /\ r \in Seq(Spoken) /\ Len(r) = n /\ r[n] = x /\ \A a \in 1 .. Len(s) : r[a] = s[a]
        /\ Len(t) = n /\ t[n] = y /\ \A a \in 1 .. Len(s) : t[a] = s[a] /\ n \in Nat
        /\ Len(s) \in Nat
      BY <2>1, AppendProperties, LenProperties
  <2> HIDE DEF r
  <2>4. Continues(s, r) /\ n \in 1 .. Len(r) /\ \A a \in 1 .. Len(r) : a = n \/ a \in 1 .. Len(s)
      BY <2>3 DEF Continues
  <2>5. Keyed(d, r)
      BY <2>3, <2>4, KeyedContinues
  <2>6. Ends(r, t, n)
      BY <2>2, <2>3, <2>4 DEF Ends
  <2>7. ResponsesEvent(d, w) = ResponsesItemDone(d, w)
      BY <1>4 DEF ResponsesEvent, SendsWhole
  <2>8. w.index \in 1 .. Len(r) /\ r[w.index].open /\ r[w.index].kind = w.kind /\ Ends(r, t, w.index)
      BY <2>1, <2>2, <2>3, <2>4, <2>6
  <2>9. r \in Seq(Spoken) /\ t \in Seq(Spoken) /\ w.text \in Deltas /\ Keyed(d, r) /\ d.events # <<>>
      BY <2>1, <2>3, <2>5
  <2>10. Follows(d, ResponsesItemDone(d, w), t)
      BY ONLY <2>8, <2>9, ItemDone
  <2> QED BY <2>7, <2>10
<1> QED BY <1>1, <1>2, <1>3, <1>4

(********************************* Bedrock *********************************)

\* What bedrock makes of an item that is none of its frame.
LEMMA BedrockSays ==
    ASSUME NEW s \in Seq(Spoken), NEW t \in Seq(Spoken), NEW w,
           Begins(s, w, t) \/ GoesOn(s, w, t) \/ Finishes(s, w, t),
           NEW d, Keyed(d, s), d.events # <<>>, ~d.failed
    PROVE  Follows(d, BedrockEvent(d, w), t)
<1>1. CASE Begins(s, w, t)
  <2>1. /\ w.index \in 1 .. Len(t) /\ t[w.index].open /\ t[w.index].kind = w.kind
        /\ Keyed(d, t) /\ Known(d, w.index) = {}
      BY <1>1, Begun
  <2>2. BedrockEvent(d, w) = BedrockBegin(d, w)
      BY <1>1 DEF BedrockEvent, Begins
  <2>3. CASE w.kind # "call"
      BY <2>1, <2>2, <2>3 DEF BedrockBegin, Follows
  <2>4. CASE w.kind = "call"
    <3> DEFINE b == w.index
               e == Opened(d, b, "call")
    <3>1. Keyed(e, t) /\ Goes(d, e) /\ e.events # <<>>
      <4> HIDE DEF b
      <4>1. /\ Keyed(d, t) /\ b \in 1 .. Len(t) /\ t[b].open /\ "call" \in BlockKinds /\ t[b].kind = "call"
            /\ Known(d, b) = {}
          BY <2>1, <2>4 DEF b, BlockKinds
      <4> QED BY <4>1, KeyedOpened
    <3>2. BedrockEvent(d, w) = e
        BY <2>2, <2>4 DEF BedrockBegin
    <3> HIDE DEF e
    <3> QED BY <3>1, <3>2 DEF Follows, Goes
  <2> QED BY <2>3, <2>4
<1>2. CASE GoesOn(s, w, t)
  <2> DEFINE b == w.index
             e == BedrockAt(d, w)
             found == Known(e, b) \cap OfKind(e, w.kind)
  <2>1. BedrockEvent(d, w) = BedrockDelta(d, w)
      BY <1>2 DEF BedrockEvent, GoesOn
  <2>2. BedrockDelta(d, w) = IF found = {} \/ w.kind = "other" THEN d
                             ELSE Grown(e, w.kind, FirstOf(found), w.text)
      BY DEF BedrockDelta
  <2>3. /\ b \in 1 .. Len(s) /\ s[b].open /\ w.kind = s[b].kind /\ s[b] \in Spoken /\ Keyed(d, t)
      BY <1>2, KeyedContinues DEF GoesOn
  <2>4. CASE w.kind = "other"
      BY <2>1, <2>2, <2>3, <2>4 DEF Follows
  <2>5. CASE w.kind # "other"
    <3>1. w.kind \in BlockKinds
        BY <2>3, <2>5 DEF Spoken
    <3>2. Keyed(e, s) /\ Goes(d, e) /\ e.events # <<>> /\ (Known(d, b) # {} \/ w.kind = "call" => e = d)
      <4>1. CASE Known(d, b) = {} /\ w.kind # "call"
        <5> DEFINE kind == w.kind
                   f == Opened(d, b, kind)
        <5>1. Keyed(f, s) /\ Goes(d, f) /\ f.events # <<>>
          <6> HIDE DEF b, kind
          <6>1. b \in 1 .. Len(s) /\ s[b].open /\ kind \in BlockKinds /\ s[b].kind = kind /\ Known(d, b) = {}
              BY <2>3, <3>1, <4>1 DEF b, kind
          <6> QED BY <6>1, KeyedOpened
        <5>2. e = f
            BY <4>1 DEF BedrockAt
        <5> HIDE DEF e, f
        <5> QED BY <4>1, <5>1, <5>2
      <4>2. CASE ~(Known(d, b) = {} /\ w.kind # "call")
        <5>1. e = d
            BY <4>2 DEF BedrockAt
        <5>2. Nested(d)
            BY DEF Keyed
        <5> HIDE DEF e
        <5> QED BY <5>1, <5>2 DEF Goes
      <4> QED BY <4>1, <4>2
    <3> HIDE DEF e
    <3>3. /\ found = {} => Stays(e, e, t)
          /\ found # {} => Stays(e, Grown(e, w.kind, FirstOf(found), w.text), t)
        BY <1>2, <3>2, KeyedGoesOn
    <3> DEFINE g == Grown(e, w.kind, FirstOf(found), w.text)
    <3> HIDE DEF found, g
    <3>4. CASE found = {}
        BY <2>1, <2>2, <2>3, <3>4 DEF Follows
    <3>5. CASE found # {}
      <4>1. BedrockEvent(d, w) = g /\ Stays(e, g, t)
          BY <2>1, <2>2, <2>5, <3>3, <3>5 DEF g
      <4> QED BY <3>2, <4>1 DEF Stays, Follows, Goes
    <3> QED BY <3>4, <3>5
  <2> QED BY <2>4, <2>5
<1>3. CASE Finishes(s, w, t)
  <2> DEFINE b == w.index
             i == FirstOf(Known(d, b))
             e == Closed(d, i)
  <2>1. b \in 1 .. Len(s) /\ s[b].open /\ Ends(s, t, b)
      BY <1>3 DEF Finishes
  <2>2. BedrockEvent(d, w) = IF Known(d, b) = {} THEN d ELSE Forgotten(e, i)
      BY <1>3 DEF BedrockEvent, Finishes, BedrockEnd
  <2> HIDE DEF b
  <2>3. /\ Known(d, b) = {} => Follows(d, d, t)
        /\ Known(d, b) # {} =>
             /\ Follows(d, e, t) /\ e.scratch = d.scratch /\ e.content = d.content
             /\ i \in 1 .. Len(d.content) /\ ~Live(e, i)
      BY <2>1, KeyedFinishes
  <2> HIDE DEF i, e
  <2>4. CASE Known(d, b) = {}
      BY <2>2, <2>3, <2>4
  <2>5. CASE Known(d, b) # {}
    <3> DEFINE f == Forgotten(e, i)
    <3>1. Keyed(f, t) /\ Goes(e, f) /\ f.events # <<>>
        BY <2>3, <2>5, KeyedForgotten DEF Follows
    <3>2. BedrockEvent(d, w) = f
        BY <2>2, <2>5
    <3> HIDE DEF f
    <3> QED BY <2>3, <2>5, <3>1, <3>2 DEF Follows, Goes
  <2> QED BY <2>4, <2>5
<1> QED BY <1>1, <1>2, <1>3

(******************************* Pi messages *******************************)

\* A block has the place that the other instance gives it.
Placed(d, s) ==
    /\ Keyed(d, s) /\ Len(d.content) = Len(s)
    /\ \A i \in 1 .. Len(s) : d.scratch.keys[i] = i

LEMMA PiSays ==
    ASSUME NEW s \in Seq(Spoken), NEW t \in Seq(Spoken), NEW w, w.kind \in BlockKinds,
           Begins(s, w, t) \/ GoesOn(s, w, t) \/ Finishes(s, w, t),
           NEW d, Placed(d, s), d.events # <<>>
    PROVE  Follows(d, PiEvent(d, w), t) /\ Placed(PiEvent(d, w), t)
<1> DEFINE b == w.index
           e == PiEvent(d, w)
<1>1. /\ Keyed(d, s) /\ Len(d.content) = Len(s) /\ Len(s) \in Nat
      /\ \A i \in 1 .. Len(s) : d.scratch.keys[i] = i
    BY DEF Placed
<1>2. Nested(d)
    BY <1>1 DEF Keyed
<1>3. CASE Begins(s, w, t)
  <2>1. /\ b \in 1 .. Len(t) /\ t[b].open /\ t[b].kind = w.kind /\ Keyed(d, t) /\ Known(d, b) = {}
        /\ b = Len(d.content) + 1
    <3>1. b = Len(d.content) + 1
        BY <1>1, <1>3 DEF Begins
    <3> HIDE DEF e
    <3> QED BY <1>1, <1>3, <3>1, Begun
  <2>2. e = Opened(d, b, w.kind)
      BY <1>3, <2>1 DEF PiEvent, PiBegin, Begins
  <2> HIDE DEF e
  <2> DEFINE kind == w.kind
             f == Opened(d, b, kind)
  <2>3. Keyed(f, t) /\ Goes(d, f) /\ f.events # <<>> /\ Len(f.content) = Len(d.content) + 1
    <3> HIDE DEF b, kind
    <3>1. /\ Keyed(d, t) /\ b \in 1 .. Len(t) /\ t[b].open /\ kind \in BlockKinds /\ t[b].kind = kind
          /\ Known(d, b) = {}
        BY <2>1 DEF b, kind
    <3> QED BY <3>1, KeyedOpened
  <2>4. /\ \A i \in 1 .. Len(d.content) : Keeps(d, f, i)
        /\ f.scratch.keys[Len(d.content) + 1] = b
    <3>1. b \in Nat /\ kind \in BlockKinds
        BY <1>1, <2>1
    <3> QED BY <1>2, <3>1, OpenedNested
  <2>5. Len(t) = Len(s) + 1
    <3>1. [kind |-> w.kind, text |-> <<>>, open |-> TRUE] \in Spoken
        BY DEF Spoken, Deltas
    <3> QED BY <1>3, <3>1, AppendProperties, LenProperties DEF Begins
  <2> HIDE DEF f
  <2>6. \A i \in 1 .. Len(t) : f.scratch.keys[i] = i
    <3> SUFFICES ASSUME NEW i \in 1 .. Len(t) PROVE f.scratch.keys[i] = i
        OBVIOUS
    <3>1. CASE i = Len(s) + 1
        BY <1>1, <2>1, <2>4, <3>1
    <3>2. CASE i \in 1 .. Len(s)
        BY <1>1, <2>4, <3>2 DEF Keeps
    <3> QED BY <1>1, <2>5, <3>1, <3>2
  <2>7. e = f
      BY <2>2 DEF f
  <2> QED BY <1>1, <2>3, <2>5, <2>6, <2>7 DEF Placed, Follows, Goes, e
<1>4. ASSUME NEW i \in 1 .. Len(s), w.index = i, s[i].open, s[i].kind = w.kind
      PROVE  /\ Known(d, i) = {i} /\ i \in OfKind(d, w.kind) /\ Live(d, i) /\ d.content[i].kind = w.kind
             /\ i \in 1 .. Len(d.content)
  <2>1. Known(d, i) = {j \in 1 .. Len(d.content) : d.scratch.keys[j] = i}
      BY <1>2, KnownIs
  <2>2. i \in Known(d, i)
      BY <1>1, <2>1
  <2>3. i \in 1 .. Len(d.content) /\ d.content[i].kind = w.kind /\ Live(d, i)
      BY <1>1, <1>4, <2>2, KeyedFound
  <2>4. i \in OfKind(d, w.kind)
      BY <1>2, <2>3, KnownIs
  <2> QED BY <1>1, <2>1, <2>3, <2>4
<1>5. CASE GoesOn(s, w, t)
  <2>1. /\ b \in 1 .. Len(s) /\ s[b].open /\ s[b].kind = w.kind /\ w.text \in Deltas
        /\ Keyed(d, t) /\ Len(t) = Len(s)
      BY <1>1, <1>5, KeyedContinues DEF GoesOn
  <2>2. e = Grown(d, w.kind, b, w.text)
      BY <1>4, <1>5, <2>1 DEF PiEvent, PiDelta, GoesOn
  <2>3. b \in 1 .. Len(d.content) /\ Live(d, b) /\ d.content[b].kind = w.kind
      BY <1>4, <2>1
  <2> DEFINE f == Grown(d, w.kind, b, w.text)
  <2>4. Keyed(f, t) /\ Goes(d, f) /\ f.events # <<>> /\ f.scratch = d.scratch /\ Len(f.content) = Len(d.content)
      BY <2>1, <2>3, KeyedGrown
  <2>5. e = f
      BY <2>2
  <2> HIDE DEF e, f
  <2> QED BY <1>1, <2>1, <2>4, <2>5 DEF Placed, Follows, Goes, e
<1>6. CASE Finishes(s, w, t)
  <2>1. /\ b \in 1 .. Len(s) /\ s[b].open /\ s[b].kind = w.kind /\ w.text \in Deltas /\ Ends(s, t, b)
        /\ Len(t) = Len(s)
      BY <1>6 DEF Finishes, Ends
  <2> DEFINE f == Closed([d EXCEPT !.content[b].text = w.text], b)
  <2>2. e = f
      BY <1>4, <1>6, <2>1 DEF PiEvent, PiEnd, Finishes
  <2>3. b \in Known(d, b)
      BY <1>4, <2>1
  <2> HIDE DEF e
  <2>4. Follows(d, f, t) /\ Len(f.content) = Len(d.content) /\ f.scratch = d.scratch
    <3> DEFINE text == w.text
    <3> HIDE DEF b, text
    <3>1. b \in 1 .. Len(s) /\ s[b].open /\ Ends(s, t, b) /\ b \in Known(d, b) /\ text \in Deltas
        BY <2>1, <2>3 DEF text
    <3>2. LET g == Closed([d EXCEPT !.content[b].text = text], b) IN
          Follows(d, g, t) /\ Len(g.content) = Len(d.content) /\ g.scratch = d.scratch
        BY <1>1, <3>1, ItemCloses
    <3> QED BY <3>2 DEF text
  <2> HIDE DEF f
  <2>5. Keyed(f, t)
      BY <2>4 DEF Follows
  <2> QED BY <1>1, <2>1, <2>2, <2>4, <2>5 DEF Placed, e
<1> QED BY <1>3, <1>5, <1>6

(******************************* Completions *******************************)

\* No block ends before the body does.
AllLive(d) == Nested(d) /\ d.events # <<>> /\ \A i \in 1 .. Len(d.content) : Live(d, i)

LEMMA CompletionsSays ==
    ASSUME NEW d, AllLive(d), NEW w, w.kind \in BlockKinds, w.index \in Nat, w.text \in Deltas
    PROVE  LET e == CompletionsDelta(d, w) IN AllLive(e) /\ Goes(d, e)
<1> DEFINE kind == w.kind
           e == Ensured(d, w)
           S == CompletionsAt(e, w)
           f == Grown(e, kind, FirstOf(S), w.text)
<1>1. Nested(d) /\ d.events # <<>> /\ kind \in BlockKinds
    BY DEF AllLive
<1>2. /\ AllLive(e) /\ Goes(d, e) /\ S # {}
  <2>1. CASE CompletionsAt(d, w) # {}
      BY <1>1, <2>1 DEF Ensured, Goes
  <2>2. CASE CompletionsAt(d, w) = {}
    <3> DEFINE g == Opened(d, w.index, kind)
               n == Len(d.content) + 1
    <3>1. /\ Goes(d, g) /\ g.events # <<>>
          /\ Len(g.content) = n /\ g.content[n].kind = kind /\ g.scratch.keys[n] = w.index /\ Live(g, n)
          /\ \A i \in 1 .. Len(d.content) : Keeps(d, g, i)
        BY <1>1, OpenedNested
    <3>2. e = g
        BY <2>2 DEF Ensured
    <3> HIDE DEF e, g
    <3>3. Nested(g) /\ Len(d.content) \in Nat
        BY <1>1, <3>1, NestedFacts DEF Goes
    <3>4. n \in 1 .. Len(g.content) /\ \A i \in 1 .. Len(g.content) : i = n \/ i \in 1 .. Len(d.content)
        BY <3>1, <3>3
    <3>5. n \in OfKind(g, kind) /\ n \in Known(g, w.index)
        BY <3>1, <3>3, <3>4, KnownIs
    <3>6. n \in CompletionsAt(g, w)
        BY <3>5 DEF CompletionsAt
    <3>7. \A i \in 1 .. Len(g.content) : Live(g, i)
        BY <3>1, <3>4 DEF Keeps, AllLive
    <3> QED BY <3>1, <3>2, <3>3, <3>6, <3>7 DEF AllLive
  <2> QED BY <2>1, <2>2
<1>3. CompletionsDelta(d, w) = f
    BY DEF CompletionsDelta
<1> HIDE DEF e
<1>4. FirstOf(S) \in 1 .. Len(e.content) /\ e.content[FirstOf(S)].kind = kind
  <2>1. Nested(e)
      BY <1>2 DEF AllLive
  <2>2. S \subseteq OfKind(e, kind)
      BY DEF CompletionsAt
  <2>3. S \subseteq Nat /\ OfKind(e, kind) = {i \in 1 .. Len(e.content) : e.content[i].kind = kind}
      BY <2>1, <2>2, KnownIs
  <2>4. FirstOf(S) \in S
      BY <1>2, <2>3, FirstOfFound
  <2> HIDE DEF S
  <2> QED BY <2>2, <2>3, <2>4
<1>5. /\ Goes(e, f) /\ f.events # <<>> /\ Len(f.content) = Len(e.content)
      /\ \A j \in 1 .. Len(e.content) : Keeps(e, f, j)
  <2> DEFINE i == FirstOf(S)
             text == w.text
  <2> HIDE DEF S, i, kind, text
  <2>1. /\ Nested(e) /\ i \in 1 .. Len(e.content) /\ Live(e, i) /\ text \in Deltas
        /\ kind = e.content[i].kind
      BY <1>2, <1>4 DEF AllLive, i, text
  <2> QED BY <2>1, GrownNested DEF i, text
<1> HIDE DEF f
<1> QED BY <1>2, <1>3, <1>5 DEF AllLive, Goes, Keeps

\* All blocks of a record end.
LEMMA AllClosed ==
    ASSUME NEW d, AllLive(d)
    PROVE  LET e == ClosedAll(d, DOMAIN d.content) IN
           Goes(d, e) /\ e.events # <<>> /\ \A i \in 1 .. Len(e.content) : ~Live(e, i)
<1> DEFINE S == DOMAIN d.content
           e == ClosedAll(d, S)
<1>1. Nested(d) /\ d.events # <<>>
    BY DEF AllLive
<1>2. S = 1 .. Len(d.content)
    BY <1>1, NestedFacts
<1>3. S \subseteq 1 .. Len(d.content) /\ \A i \in S : Live(d, i)
    BY <1>2 DEF AllLive
<1> HIDE DEF S
<1>4. /\ Goes(d, e) /\ e.events # <<>> /\ e.content = d.content
      /\ \A i \in 1 .. Len(d.content) : Live(e, i) <=> Live(d, i) /\ i \notin S
    BY <1>1, <1>3, ClosedAllNested
<1> HIDE DEF e
<1> QED BY <1>2, <1>4 DEF e, S

(********************************* Mistral *********************************)

\* What mistral keeps.
WithCurrent == [keys : Seq(Nat), current : Currents, copy : Deltas]

\* Calls end when the events do; of the other blocks at most the last one has not ended,
\* and it is the current one.
Current(d) ==
    /\ Nested(d) /\ d.events # <<>>
    /\ d.scratch \in WithCurrent
    /\ d.scratch.current # "none" =>
          d.content # <<>> /\ d.content[Len(d.content)].kind = d.scratch.current
    /\ \A i \in 1 .. Len(d.content) :
          Live(d, i) <=> \/ d.content[i].kind = "call"
                         \/ i = Len(d.content) /\ d.scratch.current # "none"
    /\ \A i \in 1 .. Len(d.content) : d.scratch.keys[i] # 0 => d.content[i].kind = "call"

\* The current block ends: then only the calls have not.
LEMMA FinishedCurrent ==
    ASSUME NEW d, Current(d)
    PROVE  LET e == FinishCurrent(d) IN
           /\ Goes(d, e) /\ e.events # <<>> /\ e.content = d.content /\ e.scratch = d.scratch
           /\ \A i \in 1 .. Len(d.content) : Live(e, i) <=> d.content[i].kind = "call"
<1> DEFINE e == FinishCurrent(d)
           n == Len(d.content)
           kind == d.scratch.current
           text == d.scratch.copy
<1>1. /\ Nested(d) /\ d.events # <<>> /\ d \in Decoder /\ d.content \in Seq(Block) /\ n \in Nat
      /\ kind \in Currents /\ text \in Deltas
    BY NestedFacts DEF Current, WithCurrent
<1>2. CASE kind = "none"
  <2>1. e = d
      BY <1>2 DEF FinishCurrent
  <2> HIDE DEF e
  <2> QED BY <1>1, <1>2, <2>1 DEF Current, Goes, e
<1>3. CASE kind # "none"
  <2>1. n \in 1 .. n /\ d.content[n].kind = kind /\ kind \in BlockKinds /\ Live(d, n) /\ kind # "call"
      BY <1>1, <1>3 DEF Current, Currents, BlockKinds
  <2> DEFINE ev == [type |-> "end", kind |-> kind, index |-> n, text |-> text, names |-> kind]
  <2>2. e = Push(d, "end", kind, n, text)
      BY <1>3 DEF FinishCurrent
  <2>3. /\ e \in Decoder /\ ev \in Told /\ e.events = Append(d.events, ev)
        /\ e.content = d.content /\ e.scratch = d.scratch
        /\ e.stop = d.stop /\ e.failed = d.failed
    <3> HIDE DEF e, n, kind, text
    <3>1. d \in Decoder /\ "end" \in {"start", "delta", "end"} /\ kind \in BlockKinds \cup {"message"}
          /\ n \in Nat /\ text \in Deltas
        BY <1>1, <2>1
    <3>2. LET x == [type |-> "end", kind |-> kind, index |-> n, text |-> text,
                    names |-> IF n \in 1 .. Len(d.content) THEN d.content[n].kind ELSE "nothing"]
          IN  /\ e \in Decoder /\ x \in Told /\ e.events = Append(d.events, x)
              /\ e.content = d.content /\ e.scratch = d.scratch
              /\ e.stop = d.stop /\ e.failed = d.failed
        BY ONLY <2>2, <3>1, PushShape
    <3>3. n \in 1 .. Len(d.content) /\ d.content[n].kind = kind
        BY <2>1 DEF n
    <3> QED BY ONLY <3>2, <3>3
  <2>4. ev.type = "end" /\ ev.index = n /\ ev.kind = kind /\ ev.names = kind
      OBVIOUS
  <2> HIDE DEF e, ev
  <2>5. SameKinds(d, e)
      BY <2>3 DEF SameKinds
  <2>6. /\ Goes(d, e) /\ e.events # <<>>
        /\ \A j \in 1 .. Len(d.content) : j # n => Keeps(d, e, j)
        /\ Live(e, n) <=> ev.type = "delta"
      BY <1>1, <2>1, <2>3, <2>4, <2>5, EventNested
  <2>7. \A i \in 1 .. n : Live(e, i) <=> d.content[i].kind = "call"
    <3> SUFFICES ASSUME NEW i \in 1 .. n PROVE Live(e, i) <=> d.content[i].kind = "call"
        OBVIOUS
    <3>1. CASE i = n
        BY <2>1, <2>4, <2>6, <3>1
    <3>2. CASE i # n
        BY <2>6, <3>2 DEF Keeps, Current
    <3> QED BY <3>1, <3>2
  <2> QED BY <2>3, <2>6, <2>7 DEF e
<1> QED BY <1>2, <1>3

LEMMA KeyedCurrent ==
    ASSUME NEW sc \in WithCurrent, NEW key \in Nat
    PROVE  WithKey(sc, key) \in WithCurrent /\ WithKey(sc, key).current = sc.current
<1>1. sc.keys \in Seq(Nat)
    BY DEF WithCurrent
<1>2. Append(sc.keys, key) \in Seq(Nat)
    BY <1>1
<1> QED BY <1>1, <1>2 DEF WithCurrent, WithKey

\* A record whose texts and flags change says what it did.
LEMMA Flagged ==
    ASSUME NEW d, Nested(d), NEW sc \in WithCurrent, sc.keys = d.scratch.keys
    PROVE  LET e == [d EXCEPT !.scratch = sc] IN
           /\ Goes(d, e) /\ e.content = d.content /\ e.events = d.events /\ e.scratch = sc
           /\ \A i \in 1 .. Len(d.content) : Live(e, i) <=> Live(d, i)
<1> DEFINE e == [d EXCEPT !.scratch = sc]
<1>1. d \in Decoder /\ sc \in Scratch
    BY NestedFacts DEF Scratch, WithCurrent
<1>2. /\ e \in Decoder /\ e.content = d.content /\ e.events = d.events /\ e.scratch = sc
      /\ e.stop = d.stop /\ e.failed = d.failed
    BY <1>1 DEF Decoder
<1> HIDE DEF e
<1>3. Nested(e) /\ \A i \in 1 .. Len(d.content) : Live(e, i) <=> Live(d, i)
    BY <1>2, SameEvents
<1> QED BY <1>2, <1>3 DEF Goes, e

\* A block opens behind the ones that have ended, calls apart.
LEMMA OpenedBehind ==
    ASSUME NEW d, Nested(d), d.events # <<>>, d.scratch \in WithCurrent,
           \A i \in 1 .. Len(d.content) : Live(d, i) <=> d.content[i].kind = "call",
           \A i \in 1 .. Len(d.content) : d.scratch.keys[i] # 0 => d.content[i].kind = "call",
           NEW key \in Nat, NEW kind \in BlockKinds, key # 0 => kind = "call"
    PROVE  LET e == Opened(d, key, kind)
               n == Len(d.content) + 1
           IN  /\ Goes(d, e) /\ e.events # <<>> /\ Len(e.content) = n
               /\ e.content[n].kind = kind /\ e.scratch.keys[n] = key
               /\ e.scratch = WithKey(d.scratch, key)
               /\ \A i \in 1 .. n : Live(e, i) <=> e.content[i].kind = "call" \/ i = n
               /\ \A i \in 1 .. n : e.scratch.keys[i] # 0 => e.content[i].kind = "call"
<1> DEFINE e == Opened(d, key, kind)
           n == Len(d.content) + 1
<1>1. /\ Goes(d, e) /\ e.events # <<>>
      /\ Len(e.content) = n /\ e.content[n].kind = kind /\ e.scratch.keys[n] = key /\ Live(e, n)
      /\ \A i \in 1 .. Len(d.content) : Keeps(d, e, i)
      /\ e.scratch = WithKey(d.scratch, key)
    BY OpenedNested
<1> HIDE DEF e
<1>2. Len(d.content) \in Nat
    BY NestedFacts
<1>3. \A i \in 1 .. n : i = n \/ (i \in 1 .. Len(d.content) /\ i # n)
    BY <1>2
<1> HIDE DEF n
<1>4. ASSUME NEW i \in 1 .. n
      PROVE  /\ Live(e, i) <=> e.content[i].kind = "call" \/ i = n
             /\ e.scratch.keys[i] # 0 => e.content[i].kind = "call"
  <2>1. CASE i = n
      BY <1>1, <2>1
  <2>2. CASE i \in 1 .. Len(d.content) /\ i # n
    <3>1. /\ e.content[i].kind = d.content[i].kind /\ e.scratch.keys[i] = d.scratch.keys[i]
          /\ Live(e, i) <=> Live(d, i)
        BY <1>1, <2>2 DEF Keeps
    <3> QED BY <2>2, <3>1
  <2> QED BY <1>3, <2>1, <2>2
<1> QED BY <1>1, <1>4 DEF e, n

LEMMA SwitchedCurrent ==
    ASSUME NEW d, Current(d), NEW kind \in {"text", "thinking"}
    PROVE  LET e == Switched(d, kind) IN
           Current(e) /\ Goes(d, e) /\ e.scratch.current = kind
<1> DEFINE e == Switched(d, kind)
           f == FinishCurrent(d)
           g == Opened(f, 0, kind)
           n == Len(d.content) + 1
<1>1. CASE d.scratch.current = kind
    BY <1>1 DEF Switched, Goes, Current
<1>2. CASE d.scratch.current # kind
  <2>1. /\ Goes(d, f) /\ f.events # <<>> /\ f.content = d.content /\ f.scratch = d.scratch
        /\ \A i \in 1 .. Len(d.content) : Live(f, i) <=> d.content[i].kind = "call"
      BY FinishedCurrent
  <2>2. d.scratch \in WithCurrent /\ \A i \in 1 .. Len(d.content) : d.scratch.keys[i] # 0 => d.content[i].kind = "call"
      BY DEF Current
  <2>3. e = [g EXCEPT !.scratch.current = kind, !.scratch.copy = <<>>]
      BY <1>2 DEF Switched
  <2> HIDE DEF f, e
  <2>4. /\ Nested(f) /\ Len(f.content) \in Nat /\ kind \in BlockKinds /\ 0 \in Nat
        /\ kind # "call" /\ kind # "none" /\ kind \in Currents /\ <<>> \in Deltas
    <3>1. Nested(f)
        BY <2>1 DEF Goes
    <3> QED BY <3>1, NestedFacts DEF BlockKinds, Currents, Deltas
  <2>5. /\ Goes(f, g) /\ g.events # <<>> /\ Len(g.content) = n
        /\ g.content[n].kind = kind /\ g.scratch = WithKey(d.scratch, 0)
        /\ \A i \in 1 .. n : Live(g, i) <=> g.content[i].kind = "call" \/ i = n
        /\ \A i \in 1 .. n : g.scratch.keys[i] # 0 => g.content[i].kind = "call"
      BY <2>1, <2>2, <2>4, OpenedBehind
  <2> HIDE DEF g
  <2> DEFINE sc == [g.scratch EXCEPT !.current = kind, !.copy = <<>>]
  <2>6. sc \in WithCurrent /\ sc.current = kind /\ sc.keys = g.scratch.keys
    <3>1. g.scratch \in WithCurrent
        BY <2>2, <2>4, <2>5, KeyedCurrent
    <3> QED BY <2>4, <3>1 DEF WithCurrent
  <2>7. e = [g EXCEPT !.scratch = sc]
    <3>1. g \in Decoder
        BY <2>5 DEF Goes, Nested
    <3> QED BY <2>3, <3>1 DEF Decoder
  <2> HIDE DEF sc
  <2>8. Nested(g) /\ g.stop = d.stop /\ g.failed = d.failed
      BY <2>1, <2>5 DEF Goes
  <2>9. /\ Goes(g, e) /\ e.content = g.content /\ e.events = g.events /\ e.scratch = sc
        /\ \A i \in 1 .. Len(g.content) : Live(e, i) <=> Live(g, i)
      BY <2>6, <2>7, <2>8, Flagged
  <2>10. Len(e.content) = n /\ n # 0 /\ e.content # <<>>
    <3>1. n # 0 /\ e.content \in Seq(Block)
        BY <2>1, <2>4, <2>9, NestedFacts DEF Goes
    <3> QED BY <2>5, <2>9, <3>1
  <2>11. Current(e)
      BY <2>4, <2>5, <2>6, <2>9, <2>10 DEF Current, Goes
  <2> QED BY <2>6, <2>8, <2>9, <2>11 DEF Goes, e
<1> QED BY <1>1, <1>2

\* Text goes on at the end of the current block.
LEMMA CurrentGoesOn ==
    ASSUME NEW d, Current(d), NEW kind \in {"text", "thinking"}, d.scratch.current = kind, NEW text \in Deltas
    PROVE  LET f == SyncCurrent([d EXCEPT !.scratch.copy = @ \o text])
               e == Push(f, "delta", kind, Len(f.content), text)
           IN  Current(e) /\ Goes(d, e)
<1> DEFINE n == Len(d.content)
           copy == d.scratch.copy \o text
           sc == [d.scratch EXCEPT !.copy = copy]
           c == [d.content EXCEPT ![n].text = copy]
           f == SyncCurrent([d EXCEPT !.scratch.copy = @ \o text])
           e == Push(f, "delta", kind, Len(f.content), text)
           ev == [type |-> "delta", kind |-> kind, index |-> n, text |-> text, names |-> kind]
<1>1. /\ Nested(d) /\ d.events # <<>> /\ d \in Decoder /\ d.content \in Seq(Block) /\ n \in Nat
      /\ d.scratch \in WithCurrent /\ kind \in BlockKinds /\ kind # "none" /\ kind # "call"
      /\ n \in 1 .. n /\ d.content[n].kind = kind /\ Live(d, n) /\ d.content # <<>>
  <2>1. Nested(d) /\ d.content # <<>> /\ kind # "none" /\ kind # "call" /\ kind \in BlockKinds
      BY DEF Current, BlockKinds
  <2>2. d.content \in Seq(Block) /\ n \in Nat /\ d \in Decoder
      BY <2>1, NestedFacts
  <2>3. n \in 1 .. n
      BY <2>1, <2>2
  <2> QED BY <2>1, <2>2, <2>3 DEF Current
<1>2. copy \in Deltas
    BY <1>1, ConcatProperties DEF WithCurrent, Deltas
<1>3. sc \in WithCurrent /\ sc.current = kind /\ sc.keys = d.scratch.keys /\ sc.copy = copy
  <2> HIDE DEF copy
  <2> QED BY <1>1, <1>2 DEF WithCurrent
<1> HIDE DEF copy
<1>4. c \in Seq(Block) /\ Len(c) = n /\ \A j \in 1 .. n : c[j].kind = d.content[j].kind
  <2>1. d.content[n] \in Block
      BY <1>1
  <2> DEFINE x == [d.content[n] EXCEPT !.text = copy]
  <2>2. x \in Block /\ x.kind = d.content[n].kind
      BY <1>2, <2>1 DEF Block
  <2>3. c = [d.content EXCEPT ![n] = x]
      OBVIOUS
  <2> HIDE DEF x, n, c
  <2>4. [d.content EXCEPT ![n] = x] \in Seq(Block) /\ Len([d.content EXCEPT ![n] = x]) = n
      BY <1>1, <2>2, ExceptSeq DEF n
  <2>5. \A j \in 1 .. n : [d.content EXCEPT ![n] = x][j] = IF j = n THEN x ELSE d.content[j]
      BY <1>1 DEF n
  <2> QED BY <2>2, <2>3, <2>4, <2>5
<1> HIDE DEF sc
<1> DEFINE g == [d EXCEPT !.scratch = sc]
<1>5. [d EXCEPT !.scratch.copy = @ \o text] = g
    BY DEF sc, copy
<1>6. g \in Decoder /\ g.scratch = sc /\ g.content = d.content /\ g.events = d.events
      /\ g.stop = d.stop /\ g.failed = d.failed
  <2>1. sc \in Scratch
      BY <1>3 DEF Scratch, WithCurrent
  <2> QED BY <1>1, <2>1 DEF Decoder
<1> HIDE DEF g
<1>7. f = [g EXCEPT !.content = c]
    BY <1>3, <1>5, <1>6 DEF SyncCurrent
<1> HIDE DEF c, f
<1>8. /\ f \in Decoder /\ f.scratch = sc /\ f.content = c /\ f.events = d.events
      /\ f.stop = d.stop /\ f.failed = d.failed /\ Len(f.content) = n
    BY <1>4, <1>6, <1>7 DEF Decoder
<1> HIDE DEF n
<1>9. /\ e \in Decoder /\ ev \in Told /\ e.events = Append(d.events, ev)
      /\ e.content = c /\ e.scratch = sc /\ e.stop = d.stop /\ e.failed = d.failed
  <2>1. f \in Decoder /\ "delta" \in {"start", "delta", "end"} /\ kind \in BlockKinds \cup {"message"}
        /\ n \in Nat /\ text \in Deltas
      BY <1>1, <1>8
  <2>2. LET x == [type |-> "delta", kind |-> kind, index |-> n, text |-> text,
                  names |-> IF n \in 1 .. Len(f.content) THEN f.content[n].kind ELSE "nothing"]
            q == Push(f, "delta", kind, n, text)
        IN  /\ q \in Decoder /\ x \in Told /\ q.events = Append(f.events, x)
            /\ q.content = f.content /\ q.scratch = f.scratch
            /\ q.stop = f.stop /\ q.failed = f.failed
      BY ONLY <2>1, PushShape
  <2>3. n \in 1 .. Len(f.content) /\ f.content[n].kind = kind
      BY <1>1, <1>4, <1>8
  <2> QED BY ONLY <2>2, <2>3, <1>8
<1>10. ev.type = "delta" /\ ev.index = n /\ ev.kind = kind /\ ev.names = kind
    OBVIOUS
<1> HIDE DEF e, ev
<1>11. SameKinds(d, e) /\ Len(e.content) = n /\ e.content # <<>>
  <2>1. c # <<>>
      BY <1>1, <1>4
  <2> QED BY <1>4, <1>9, <2>1 DEF SameKinds, n
<1>12. /\ Goes(d, e) /\ e.events # <<>>
       /\ \A j \in 1 .. Len(d.content) : j # n => Keeps(d, e, j)
       /\ Live(e, n) <=> ev.type = "delta"
  <2>1. n \in 1 .. Len(d.content) /\ e.scratch.keys = d.scratch.keys
      BY <1>1, <1>3, <1>9 DEF n
  <2> QED BY <1>1, <1>9, <1>10, <1>11, <2>1, EventNested
<1>13. \A i \in 1 .. n : Live(e, i) <=> Live(d, i)
    BY <1>1, <1>10, <1>12 DEF Keeps, n
<1>14. Current(e)
  <2>1. \A i \in 1 .. n : Live(e, i) <=> \/ e.content[i].kind = "call"
                                         \/ i = n /\ e.scratch.current # "none"
      BY <1>1, <1>3, <1>4, <1>9, <1>13 DEF Current, n
  <2>2. \A i \in 1 .. n : e.scratch.keys[i] # 0 => e.content[i].kind = "call"
      BY <1>3, <1>4, <1>9 DEF Current, n
  <2>3. e.content[n].kind = e.scratch.current /\ e.scratch \in WithCurrent
      BY <1>1, <1>3, <1>4, <1>9
  <2> QED BY <1>11, <1>12, <2>1, <2>2, <2>3 DEF Current, Goes
<1> QED BY <1>12, <1>14 DEF e, f, n

LEMMA MistralSays ==
    ASSUME NEW d, Current(d), NEW w, w.kind \in {"text", "thinking"}, w.text \in Deltas
    PROVE  LET e == MistralContent(d, w) IN Current(e) /\ Goes(d, e)
<1> DEFINE e == Switched(d, w.kind)
           kind == w.kind
           text == w.text
           f == SyncCurrent([e EXCEPT !.scratch.copy = @ \o text])
           g == Push(f, "delta", kind, Len(f.content), text)
<1>1. Current(e) /\ Goes(d, e) /\ e.scratch.current = kind
    BY SwitchedCurrent
<1>2. MistralContent(d, w) = g
    BY DEF MistralContent
<1>3. Current(g) /\ Goes(e, g)
  <2> HIDE DEF e, kind, text
  <2>1. Current(e) /\ kind \in {"text", "thinking"} /\ e.scratch.current = kind /\ text \in Deltas
      BY <1>1 DEF kind, text
  <2> QED BY ONLY <2>1, CurrentGoesOn
<1> QED BY <1>1, <1>2, <1>3 DEF Goes

\* A call goes on in the block of its key, or in a new one; no other block has not ended.
LEMMA MistralCalls ==
    ASSUME NEW d, Current(d), NEW w, w.index \in Nat \ {0}, w.text \in Deltas
    PROVE  LET e == MistralCall(d, w) IN Current(e) /\ Goes(d, e)
<1> DEFINE key == w.index
           text == w.text
           a == FinishCurrent(d)
           e == [a EXCEPT !.scratch.current = "none"]
           f == IF Known(e, key) = {} THEN Opened(e, key, "call") ELSE e
           i == FirstOf(Known(f, key))
           g == Grown(f, "call", i, text)
           sc == [d.scratch EXCEPT !.current = "none"]
<1>1. /\ Goes(d, a) /\ a.events # <<>> /\ a.content = d.content /\ a.scratch = d.scratch
      /\ \A j \in 1 .. Len(d.content) : Live(a, j) <=> d.content[j].kind = "call"
    BY FinishedCurrent
<1>2. /\ d.scratch \in WithCurrent
      /\ \A j \in 1 .. Len(d.content) : d.scratch.keys[j] # 0 => d.content[j].kind = "call"
    BY DEF Current
<1>3. sc \in WithCurrent /\ sc.current = "none" /\ sc.keys = d.scratch.keys
    BY <1>2 DEF WithCurrent, Currents
<1>4. MistralCall(d, w) = g
    BY DEF MistralCall
<1> HIDE DEF a, sc
<1>5. e = [a EXCEPT !.scratch = sc]
    BY <1>1 DEF sc
<1> HIDE DEF e
<1>6. /\ Goes(a, e) /\ e.content = d.content /\ e.events = a.events /\ e.scratch = sc
      /\ \A j \in 1 .. Len(d.content) : Live(e, j) <=> d.content[j].kind = "call"
  <2>1. Nested(a) /\ sc.keys = a.scratch.keys
      BY <1>1, <1>3 DEF Goes
  <2>2. /\ Goes(a, e) /\ e.content = a.content /\ e.events = a.events /\ e.scratch = sc
        /\ \A j \in 1 .. Len(a.content) : Live(e, j) <=> Live(a, j)
      BY <1>3, <1>5, <2>1, Flagged
  <2> QED BY <1>1, <2>2
<1> DEFINE Calls(x) ==
               /\ Nested(x) /\ x.events # <<>> /\ x.scratch \in WithCurrent /\ x.scratch.current = "none"
               /\ \A j \in 1 .. Len(x.content) : Live(x, j) <=> x.content[j].kind = "call"
               /\ \A j \in 1 .. Len(x.content) : x.scratch.keys[j] # 0 => x.content[j].kind = "call"
<1>7. Calls(e)
    BY <1>1, <1>2, <1>3, <1>6 DEF Goes
<1>8. Calls(f) /\ Goes(e, f) /\ Known(f, key) # {}
  <2>1. CASE Known(e, key) # {}
      BY <1>7, <2>1 DEF Goes
  <2>2. CASE Known(e, key) = {}
    <3> DEFINE x == Opened(e, key, "call")
               n == Len(e.content) + 1
    <3> HIDE DEF key
    <3>1. key \in Nat /\ "call" \in BlockKinds /\ Len(e.content) \in Nat
        BY <1>7, NestedFacts DEF key, BlockKinds
    <3>2. /\ Goes(e, x) /\ x.events # <<>> /\ Len(x.content) = n
          /\ x.content[n].kind = "call" /\ x.scratch.keys[n] = key
          /\ x.scratch = WithKey(e.scratch, key)
          /\ \A j \in 1 .. n : Live(x, j) <=> x.content[j].kind = "call" \/ j = n
          /\ \A j \in 1 .. n : x.scratch.keys[j] # 0 => x.content[j].kind = "call"
      <4>1. /\ Nested(e) /\ e.events # <<>> /\ e.scratch \in WithCurrent
            /\ \A j \in 1 .. Len(e.content) : Live(e, j) <=> e.content[j].kind = "call"
            /\ \A j \in 1 .. Len(e.content) : e.scratch.keys[j] # 0 => e.content[j].kind = "call"
          BY <1>7
      <4> QED BY ONLY <3>1, <4>1, OpenedBehind
    <3>3. f = x
        BY <2>2
    <3> HIDE DEF f, x
    <3>4. x.scratch \in WithCurrent /\ x.scratch.current = "none"
        BY <1>7, <3>1, <3>2, KeyedCurrent
    <3>5. Nested(x) /\ n \in 1 .. n
        BY <3>1, <3>2 DEF Goes
    <3>6. n \in Known(x, key)
        BY <3>2, <3>5, KnownIs
    <3> QED BY <3>2, <3>3, <3>4, <3>5, <3>6
  <2> QED BY <2>1, <2>2
<1> HIDE DEF f
<1>9. i \in 1 .. Len(f.content) /\ f.content[i].kind = "call" /\ Live(f, i)
  <2>1. /\ Known(f, key) = {j \in 1 .. Len(f.content) : f.scratch.keys[j] = key} /\ Known(f, key) \subseteq Nat
      BY <1>8, KnownIs
  <2>2. i \in Known(f, key)
      BY <1>8, <2>1, FirstOfFound
  <2> HIDE DEF i
  <2> QED BY <1>8, <2>1, <2>2
<1>10. /\ Goes(f, g) /\ g.events # <<>> /\ Len(g.content) = Len(f.content)
       /\ \A j \in 1 .. Len(f.content) : Keeps(f, g, j)
       /\ g.scratch = f.scratch
  <2> HIDE DEF i, text
  <2>1. Nested(f) /\ i \in 1 .. Len(f.content) /\ Live(f, i) /\ text \in Deltas /\ "call" = f.content[i].kind
      BY <1>8, <1>9 DEF text
  <2> QED BY <2>1, GrownNested
<1> HIDE DEF g
<1>11. Current(g)
    BY <1>8, <1>10 DEF Current, Keeps, Goes
<1>12. Goes(d, g)
    BY <1>1, <1>6, <1>8, <1>10 DEF Goes
<1> QED BY <1>4, <1>11, <1>12

\* When the events are over, all blocks have ended.
LEMMA MistralEnds ==
    ASSUME NEW d, Current(d)
    PROVE  LET e == MistralOver(d) IN
           Goes(d, e) /\ e.events # <<>> /\ \A i \in 1 .. Len(e.content) : ~Live(e, i)
<1> DEFINE a == FinishCurrent(d)
           S == OfKind(d, "call")
           e == ClosedAll(a, S)
<1>1. /\ Goes(d, a) /\ a.events # <<>> /\ a.content = d.content /\ a.scratch = d.scratch
      /\ \A j \in 1 .. Len(d.content) : Live(a, j) <=> d.content[j].kind = "call"
    BY FinishedCurrent
<1>2. MistralOver(d) = e
    BY DEF MistralOver
<1>3. S = {i \in 1 .. Len(d.content) : d.content[i].kind = "call"}
    BY KnownIs DEF Current
<1>4. Nested(a)
    BY <1>1 DEF Goes
<1> HIDE DEF a, S
<1>5. S \subseteq 1 .. Len(a.content) /\ \A j \in S : Live(a, j)
    BY <1>1, <1>3
<1>6. /\ Goes(a, e) /\ e.events # <<>> /\ e.content = a.content
      /\ \A i \in 1 .. Len(a.content) : Live(e, i) <=> Live(a, i) /\ i \notin S
    BY <1>1, <1>4, <1>5, ClosedAllNested
<1> HIDE DEF e
<1> QED BY <1>1, <1>2, <1>3, <1>6 DEF Goes

(********************************** Google *********************************)

\* A record with the fields of a decoder's.
Shaped(d) ==
    d = [content |-> d.content, stop |-> d.stop, failed |-> d.failed, scratch |-> d.scratch,
         events |-> d.events]

\* Nothing was said of how the answer ends.
Silently(d, e) == Shaped(e) /\ e.stop = d.stop /\ e.failed = d.failed

LEMMA ShapeKept ==
    ASSUME NEW d, Shaped(d), NEW x
    PROVE  /\ Silently(d, [d EXCEPT !.content = x])
           /\ Silently(d, [d EXCEPT !.scratch = x])
           /\ Silently(d, [d EXCEPT !.events = x])
BY DEF Shaped, Silently

LEMMA ShapeKeptTwice ==
    ASSUME NEW d, Shaped(d), NEW x, NEW y
    PROVE  Silently(d, [d EXCEPT !.content = x, !.scratch = y])
<1> DEFINE e == [d EXCEPT !.content = x]
<1>1. Silently(d, e)
    BY ShapeKept
<1>2. [d EXCEPT !.content = x, !.scratch = y] = [e EXCEPT !.scratch = y]
    OBVIOUS
<1> HIDE DEF e
<1>3. Silently(e, [e EXCEPT !.scratch = y])
    BY <1>1, ShapeKept DEF Silently
<1> QED BY <1>1, <1>2, <1>3 DEF Silently

LEMMA PushSilent ==
    ASSUME NEW d, Shaped(d), NEW type, NEW kind, NEW i, NEW text
    PROVE  Silently(d, Push(d, type, kind, i, text))
BY DEF Push, Shaped, Silently

LEMMA OpenedSilent ==
    ASSUME NEW d, Shaped(d), NEW key, NEW kind
    PROVE  Silently(d, Opened(d, key, kind))
<1> DEFINE c == Append(d.content, [kind |-> kind, text |-> <<>>])
           sc == [d.scratch EXCEPT !.keys = Append(@, key)]
           g == [d EXCEPT !.content = c, !.scratch = sc]
<1>1. [d EXCEPT !.content = Append(@, [kind |-> kind, text |-> <<>>]), !.scratch.keys = Append(@, key)] = g
    OBVIOUS
<1>2. Opened(d, key, kind) = Push(g, "start", kind, Len(g.content), <<>>)
    BY <1>1 DEF Opened
<1> HIDE DEF c, sc
<1>3. Silently(d, g)
    BY ShapeKeptTwice
<1> HIDE DEF g
<1>4. Silently(g, Push(g, "start", kind, Len(g.content), <<>>))
    BY <1>3, PushSilent DEF Silently
<1> QED BY <1>2, <1>3, <1>4 DEF Silently

LEMMA GoogleFinishSilent ==
    ASSUME NEW d, Shaped(d)
    PROVE  Silently(d, GoogleFinish(d))
<1>1. CASE d.scratch.current = "none"
    BY <1>1 DEF GoogleFinish, Silently
<1>2. CASE d.scratch.current # "none"
  <2> DEFINE e == Push(d, "end", d.scratch.current, LastIndex(d), d.scratch.copy)
             sc == [e.scratch EXCEPT !.current = "none"]
  <2>1. Silently(d, e)
      BY PushSilent
  <2>2. GoogleFinish(d) = [e EXCEPT !.scratch = sc]
      BY <1>2 DEF GoogleFinish
  <2> HIDE DEF e, sc
  <2>3. Silently(e, [e EXCEPT !.scratch = sc])
      BY <2>1, ShapeKept DEF Silently
  <2> QED BY <2>1, <2>2, <2>3 DEF Silently
<1> QED BY <1>1, <1>2

LEMMA GoogleTextSilent ==
    ASSUME NEW d, Shaped(d), NEW w
    PROVE  Silently(d, GoogleText(d, w))
<1> DEFINE kind == w.kind
           e == GoogleSwitched(d, kind)
           sc == [e.scratch EXCEPT !.copy = @ \o w.text]
           f == [e EXCEPT !.scratch = sc]
           g == Push(f, "delta", kind, LastIndex(e), w.text)
<1>1. GoogleText(d, w) = g
    BY DEF GoogleText
<1>2. Silently(d, e)
  <2>1. CASE d.scratch.current = kind
      BY <2>1 DEF GoogleSwitched, Silently
  <2>2. CASE d.scratch.current # kind
    <3> DEFINE a == GoogleFinish(d)
               b == Opened(a, 0, kind)
               c == [b.scratch EXCEPT !.current = kind, !.copy = <<>>]
    <3>1. Silently(d, a)
        BY GoogleFinishSilent
    <3> HIDE DEF a
    <3>2. Silently(a, b)
        BY <3>1, OpenedSilent DEF Silently
    <3> HIDE DEF b
    <3>3. Silently(b, [b EXCEPT !.scratch = c])
      <4> HIDE DEF c
      <4> QED BY <3>2, ShapeKept DEF Silently
    <3>4. e = [b EXCEPT !.scratch = c]
      <4>1. e = [b EXCEPT !.scratch.current = kind, !.scratch.copy = <<>>]
          BY <2>2 DEF GoogleSwitched, a, b
      <4>2. b = [content |-> b.content, stop |-> b.stop, failed |-> b.failed, scratch |-> b.scratch,
                 events |-> b.events]
          BY <3>2 DEF Silently, Shaped
      <4> HIDE DEF e
      <4> QED BY <4>1, <4>2
    <3> HIDE DEF c, e
    <3> QED BY <3>1, <3>2, <3>3, <3>4 DEF Silently
  <2> QED BY <2>1, <2>2
<1> HIDE DEF e, sc
<1>3. Silently(e, f)
    BY <1>2, ShapeKept DEF Silently
<1> HIDE DEF f
<1>4. Silently(f, g)
    BY <1>3, PushSilent DEF Silently
<1> HIDE DEF g
<1> QED BY <1>1, <1>2, <1>3, <1>4 DEF Silently

LEMMA GoogleCallSilent ==
    ASSUME NEW d, Shaped(d), NEW w
    PROVE  Silently(d, GoogleCall(d, w))
<1> DEFINE e == GoogleFinish(d)
           a == Push(e, "start", "call", LastIndex(e), <<>>)
           f == Push(a, "delta", "call", LastIndex(e), w.text)
           c == Append(f.content, [kind |-> "call", text |-> w.text])
           sc == [f.scratch EXCEPT !.keys = Append(@, w.index)]
           g == [f EXCEPT !.content = c, !.scratch = sc]
           h == Closed(g, Len(g.content))
<1>1. GoogleCall(d, w) = h
    BY DEF GoogleCall
<1>2. Silently(d, e)
    BY GoogleFinishSilent
<1> HIDE DEF e
<1>3. Silently(e, a)
    BY <1>2, PushSilent DEF Silently
<1> HIDE DEF a
<1>4. Silently(a, f)
    BY <1>3, PushSilent DEF Silently
<1> HIDE DEF f, c, sc
<1>5. Silently(f, g)
    BY <1>4, ShapeKeptTwice DEF Silently
<1> HIDE DEF g
<1>6. Silently(g, h)
    BY <1>5, PushSilent DEF Silently, Closed
<1> HIDE DEF h
<1> QED BY <1>1, <1>2, <1>3, <1>4, <1>5, <1>6 DEF Silently

-----------------------------------------------------------------------------
(**************************** What a decoder owes **************************)

Names   == {"anthropic", "completions", "compat", "responses", "azure", "codex", "mistral",
            "google", "vertex", "bedrock", "pi"}
Unnamed == {"google", "vertex"}          \* their events do not index blocks
Slotted == {"anthropic", "responses", "azure", "codex"}

Framing == [hello : BOOLEAN, stop : Reasons \cup {"none", "Error"}, last : BOOLEAN, deltas : Nat]

Flags == [keys : Seq(Nat), sawStart : BOOLEAN, sawStop : BOOLEAN]

\* A message that is not refused: s is all that the provider says, f how it framed it.
Accepts(d) == ~d.failed /\ d.stop \notin {"Pending", "Error", "Aborted"}
Complete(d, s, f) ==
    Accepts(d) => f.stop \in Reasons \ {"Error"} /\ \A i \in 1 .. Len(s) : ~s[i].open

\* What the events of a message say, of protocols that index blocks.
EventsSay(d) ==
    /\ \A k \in DOMAIN d.events :
          LET e == d.events[k] IN
          IF k = 1 THEN e.kind = "message" ELSE e.kind # "message" /\ e.names = e.kind
    /\ \A i \in DOMAIN d.content : Mentions(d.events, i) /\ Nests(d.events, i)

\* A decoder d of protocol p that reads, when s was said and framed with f.
Reading(p, d, s, f) ==
    IF d.failed THEN p \notin Unnamed => Nested(d)
    ELSE
    /\ Complete(d, s, f)
    /\ ~f.hello => f.stop = "none" /\ ~f.last /\ s = <<>>
    /\ p \in Slotted => Keyed(d, s) /\ d.events # <<>>
    /\ p = "anthropic" => d.scratch \in Flags /\ d.scratch.sawStart = f.hello /\ d.scratch.sawStop = f.last
    /\ p \in {"completions", "compat"} => AllLive(d)
    /\ p = "mistral" => Current(d)
    /\ p \in Unnamed => Shaped(d)
    /\ p = "bedrock" => Keyed(d, s) /\ (f.hello <=> d.events # <<>>)
    /\ p = "pi" => Placed(d, s) /\ (f.hello <=> d.events # <<>>)

\* What p may be sent: w, when s was said and framed with f; t and g are what was said, and
\* how it was framed, then.
SendsBlock(p, s, w, t) ==
    \/ Begins(s, w, t) /\ (p \in Unnamed => w.kind # "call")
    \/ GoesOn(s, w, t)
    \/ Finishes(s, w, t)
    \/ SendsWhole(s, w, t) /\ p \in {"responses", "azure", "codex"}
    \/ w.type = "whole" /\ w.kind = "call" /\ w.index \in Nat /\ w.text \in Deltas /\ p \in Unnamed

Sends(p, s, w, t, f, g) ==
    \/ /\ w.type = "hello" /\ t = s
       /\ ~f.hello /\ g.hello /\ g.stop = f.stop /\ g.last = f.last
    \/ /\ SendsBlock(p, s, w, t)
       /\ (w.kind \in BlockKinds \/ p \in Slotted \cup {"bedrock"})
       /\ f.hello /\ f.stop = "none" /\ g.hello = f.hello /\ g.stop = f.stop /\ g.last = f.last
    \/ /\ w.type = "stop" /\ t = s /\ w.kind \in Reasons /\ \A i \in 1 .. Len(s) : ~s[i].open
       /\ f.hello /\ f.stop = "none" /\ g.hello = f.hello /\ g.stop = w.kind /\ g.last = f.last
    \/ /\ w.type = "over" /\ t = s /\ p # "pi"
       /\ f.hello /\ f.stop # "none" /\ g.hello = f.hello /\ g.stop = f.stop /\ g.last
    \/ /\ w.type = "error" /\ t = s
       /\ f.hello /\ f.stop = "none" /\ g.hello = f.hello /\ g.stop = "Error" /\ g.last

\* Nothing was said of how the answer ends, and it has not ended.
LEMMA StaysRefused ==
    ASSUME NEW d, NEW s, NEW f, Complete(d, s, f), f.stop = "none", "none" \notin Reasons,
           NEW e, e.stop = d.stop, e.failed = d.failed, NEW t, NEW g
    PROVE  ~Accepts(d) /\ ~Accepts(e) /\ Complete(e, t, g)
BY DEF Complete, Accepts

LEMMA FailNested ==
    ASSUME NEW d, Nested(d)
    PROVE  Fail(d).failed /\ Nested(Fail(d)) /\ Fail(d).content = d.content /\ Fail(d).events = d.events
<1>1. /\ Fail(d) \in Decoder /\ Fail(d).failed /\ Fail(d).content = d.content /\ Fail(d).events = d.events
      /\ Fail(d).scratch = d.scratch
    BY DEF Fail, Nested, Decoder
<1> QED BY <1>1, SameEvents

\* A record of which only the reason to stop changes.
LEMMA StopShape ==
    ASSUME NEW d \in Decoder, NEW why \in Stops
    PROVE  LET e == [d EXCEPT !.stop = why] IN
           /\ e \in Decoder /\ e.stop = why /\ e.failed = d.failed /\ e.content = d.content
           /\ e.scratch = d.scratch /\ e.events = d.events
BY DEF Decoder

\* A flag beside the keys.
LEMMA ScratchShape ==
    ASSUME NEW d \in Decoder, NEW sc \in Scratch
    PROVE  LET e == [d EXCEPT !.scratch = sc] IN
           /\ e \in Decoder /\ e.stop = d.stop /\ e.failed = d.failed /\ e.content = d.content
           /\ e.scratch = sc /\ e.events = d.events
BY DEF Decoder

LEMMA KeyedFlags ==
    ASSUME NEW sc \in Flags, NEW key \in Nat
    PROVE  LET t == WithKey(sc, key) IN
           t \in Flags /\ t.sawStart = sc.sawStart /\ t.sawStop = sc.sawStop
<1>1. sc.keys \in Seq(Nat)
    BY DEF Flags
<1>2. Append(sc.keys, key) \in Seq(Nat)
    BY <1>1
<1> QED BY <1>1, <1>2 DEF Flags, WithKey

(******************************** Anthropic ********************************)

LEMMA AnthropicReads ==
    ASSUME "none" \notin Reasons,
           NEW s \in Seq(Spoken), NEW t \in Seq(Spoken), NEW f \in Framing, NEW g \in Framing, NEW w,
           Sends("anthropic", s, w, t, f, g), NEW d, ~d.failed, Reading("anthropic", d, s, f)
    PROVE  Reading("anthropic", AnthropicEvent(d, w), t, g)
<1> DEFINE e == AnthropicEvent(d, w)
<1> SUFFICES Reading("anthropic", e, t, g)
    OBVIOUS
<1>1. /\ Complete(d, s, f) /\ Keyed(d, s) /\ d.events # <<>> /\ (~f.hello => f.stop = "none" /\ ~f.last /\ s = <<>>)
      /\ d.scratch \in Flags /\ d.scratch.sawStart = f.hello /\ d.scratch.sawStop = f.last
    BY DEF Reading, Slotted
<1>2. Nested(d) /\ d \in Decoder
    BY <1>1 DEF Keyed, Nested
<1>0. /\ "anthropic" \in Slotted /\ "anthropic" \notin Unnamed
    BY DEF Slotted, Unnamed
<1>3. ASSUME Keyed(e, t), e.events # <<>>, e.failed => FALSE, Complete(e, t, g), g.hello,
             e.scratch \in Flags, e.scratch.sawStart = g.hello, e.scratch.sawStop = g.last
      PROVE  Reading("anthropic", e, t, g)
    BY <1>0, <1>3 DEF Reading, Unnamed
<1>4. CASE w.type = "hello"
  <2> DEFINE sc == [d.scratch EXCEPT !.sawStart = TRUE]
  <2>1. e = [d EXCEPT !.scratch = sc]
      BY <1>4 DEF AnthropicEvent, AnthropicHello
  <2>2. t = s /\ g.hello /\ g.stop = f.stop /\ g.last = f.last /\ f.stop = "none"
      BY <1>1, <1>4 DEF Sends, SendsBlock, Begins, GoesOn, Finishes, SendsWhole
  <2>3. sc \in Flags /\ sc \in Scratch /\ sc.sawStart /\ sc.sawStop = d.scratch.sawStop /\ sc.keys = d.scratch.keys
      BY <1>1 DEF Flags, Scratch
  <2> HIDE DEF e, sc
  <2>4. /\ e \in Decoder /\ e.stop = d.stop /\ e.failed = d.failed /\ e.content = d.content
        /\ e.scratch = sc /\ e.events = d.events
      BY <1>2, <2>1, <2>3, ScratchShape
  <2>5. Keyed(e, s)
      BY <1>1, <2>3, <2>4, KeyedSame DEF SameKinds
  <2>6. Complete(e, t, g)
      BY <1>1, <2>2, <2>4, StaysRefused
  <2> QED BY <1>1, <1>3, <2>2, <2>3, <2>4, <2>5, <2>6
<1>5. CASE w.type \in {"begin", "delta", "end", "whole"}
  <2>1. /\ Begins(s, w, t) \/ GoesOn(s, w, t) \/ Finishes(s, w, t)
        /\ f.hello /\ f.stop = "none" /\ g.hello = f.hello /\ g.stop = f.stop /\ g.last = f.last
      BY <1>5 DEF Sends, SendsBlock, Unnamed
  <2>2. Follows(d, e, t) /\ e.scratch \in {d.scratch, WithKey(d.scratch, w.index)} /\ w.index \in Nat
    <3>0. Len(s) \in Nat
        OBVIOUS
    <3>1. CASE Begins(s, w, t)
      <4>1. e = AnthropicBegin(d, w)
          BY <3>1 DEF AnthropicEvent, Begins
      <4> HIDE DEF e
      <4>2. w.index \in Nat
          BY <3>0, <3>1 DEF Begins
      <4> QED BY <1>1, <3>1, <4>1, <4>2, AnthropicBegins
    <3>2. CASE GoesOn(s, w, t)
      <4>1. e = AnthropicDelta(d, w)
          BY <3>2 DEF AnthropicEvent, GoesOn
      <4> HIDE DEF e
      <4>2. w.index \in Nat
          BY <3>0, <3>2 DEF GoesOn
      <4> QED BY <1>1, <3>2, <4>1, <4>2, AnthropicGoesOn DEF Stays
    <3>3. CASE Finishes(s, w, t)
      <4>1. e = AnthropicEnd(d, w)
          BY <3>3 DEF AnthropicEvent, Finishes
      <4> HIDE DEF e
      <4>2. w.index \in Nat
          BY <3>0, <3>3 DEF Finishes
      <4> QED BY <1>1, <3>3, <4>1, <4>2, AnthropicFinishes
    <3> QED BY <2>1, <3>1, <3>2, <3>3
  <2> HIDE DEF e
  <2>3. e.scratch \in Flags /\ e.scratch.sawStart = g.hello /\ e.scratch.sawStop = g.last
    <3>1. CASE e.scratch = d.scratch
        BY <1>1, <2>1, <3>1
    <3>2. CASE e.scratch = WithKey(d.scratch, w.index)
        BY <1>1, <2>1, <2>2, <3>2, KeyedFlags
    <3> QED BY <2>2, <3>1, <3>2
  <2>4. Complete(e, t, g)
    <3>1. e.stop = d.stop /\ e.failed = d.failed
        BY <2>2 DEF Follows
    <3> QED BY <1>1, <2>1, <3>1, StaysRefused
  <2> QED BY <1>3, <2>1, <2>2, <2>3, <2>4 DEF Follows
<1>6. CASE w.type = "stop"
  <2>1. /\ t = s /\ w.kind \in Reasons /\ \A i \in 1 .. Len(s) : ~s[i].open
        /\ f.hello /\ f.stop = "none" /\ g.hello = f.hello /\ g.stop = w.kind /\ g.last = f.last
      BY <1>6 DEF Sends, SendsBlock, Begins, GoesOn, Finishes, SendsWhole
  <2>2. e = IF w.kind = "unhandled" THEN Fail(d) ELSE [d EXCEPT !.stop = w.kind]
      BY <1>6 DEF AnthropicEvent, AnthropicStopReason
  <2> HIDE DEF e
  <2>3. CASE w.kind = "unhandled"
      BY <1>2, <2>2, <2>3, FailNested DEF Reading
  <2>4. CASE w.kind # "unhandled"
    <3> DEFINE why == w.kind
    <3>1. e = [d EXCEPT !.stop = why] /\ why \in Stops
        BY <2>1, <2>2, <2>4 DEF Stops
    <3> HIDE DEF why
    <3>2. /\ e \in Decoder /\ e.stop = why /\ e.failed = d.failed /\ e.content = d.content
          /\ e.scratch = d.scratch /\ e.events = d.events
        BY <1>2, <3>1, StopShape
    <3>3. Keyed(e, s)
        BY <1>1, <3>2, KeyedSame DEF SameKinds
    <3>4. Complete(e, t, g)
        BY <2>1, <3>2 DEF Complete, Accepts, why
    <3> QED BY <1>1, <1>3, <2>1, <3>2, <3>3, <3>4
  <2> QED BY <2>3, <2>4
<1>7. CASE w.type = "over"
  <2> DEFINE sc == [d.scratch EXCEPT !.sawStop = TRUE]
  <2>1. e = [d EXCEPT !.scratch = sc]
      BY <1>7 DEF AnthropicEvent
  <2>2. t = s /\ f.hello /\ g.hello = f.hello /\ g.stop = f.stop /\ g.last
      BY <1>7 DEF Sends, SendsBlock, Begins, GoesOn, Finishes, SendsWhole
  <2>3. sc \in Flags /\ sc \in Scratch /\ sc.sawStop /\ sc.sawStart = d.scratch.sawStart /\ sc.keys = d.scratch.keys
      BY <1>1 DEF Flags, Scratch
  <2> HIDE DEF e, sc
  <2>4. /\ e \in Decoder /\ e.stop = d.stop /\ e.failed = d.failed /\ e.content = d.content
        /\ e.scratch = sc /\ e.events = d.events
      BY <1>2, <2>1, <2>3, ScratchShape
  <2>5. Keyed(e, s)
      BY <1>1, <2>3, <2>4, KeyedSame DEF SameKinds
  <2>6. Complete(e, t, g)
      BY <1>1, <2>2, <2>4 DEF Complete, Accepts
  <2> QED BY <1>1, <1>3, <2>2, <2>3, <2>4, <2>5, <2>6
<1>8. CASE w.type = "error"
  <2>1. e = Fail(d)
      BY <1>8 DEF AnthropicEvent
  <2> HIDE DEF e
  <2> QED BY <1>2, <2>1, FailNested DEF Reading
<1>9. w.type \in {"hello", "begin", "delta", "end", "whole", "stop", "over", "error"}
    BY DEF Sends, SendsBlock, Begins, GoesOn, Finishes, SendsWhole
<1> QED BY <1>4, <1>5, <1>6, <1>7, <1>8, <1>9

(**************************** What is sent, in turn ************************)

\* What goes with each type of item.
LEMMA SendsParts ==
    ASSUME NEW p, NEW s, NEW w, NEW t, NEW f, NEW g, Sends(p, s, w, t, f, g)
    PROVE  /\ w.type \in {"hello", "begin", "delta", "end", "whole", "stop", "over", "error"}
           /\ w.type = "hello" => t = s /\ ~f.hello /\ g.hello /\ g.stop = f.stop /\ g.last = f.last
           /\ w.type \in {"begin", "delta", "end", "whole"} =>
                 /\ SendsBlock(p, s, w, t)
                 /\ (w.kind \in BlockKinds \/ p \in Slotted \cup {"bedrock"})
                 /\ f.hello /\ f.stop = "none" /\ g.hello = f.hello /\ g.stop = f.stop /\ g.last = f.last
           /\ w.type = "stop" =>
                 /\ t = s /\ w.kind \in Reasons /\ \A i \in 1 .. Len(s) : ~s[i].open
                 /\ f.hello /\ f.stop = "none" /\ g.hello = f.hello /\ g.stop = w.kind /\ g.last = f.last
           /\ w.type = "over" =>
                 /\ t = s /\ p # "pi"
                 /\ f.hello /\ f.stop # "none" /\ g.hello = f.hello /\ g.stop = f.stop /\ g.last
           /\ w.type = "error" =>
                 t = s /\ f.hello /\ f.stop = "none" /\ g.hello = f.hello /\ g.stop = "Error" /\ g.last
<1>1. SendsBlock(p, s, w, t) => w.type \in {"begin", "delta", "end", "whole"}
    BY DEF SendsBlock, Begins, GoesOn, Finishes, SendsWhole
<1> QED BY <1>1 DEF Sends

\* A block, and what it is made of.
LEMMA BlockParts ==
    ASSUME NEW p, NEW s \in Seq(Spoken), NEW w, NEW t, SendsBlock(p, s, w, t)
    PROVE  w.index \in Nat /\ w.text \in Deltas /\ (w.type # "whole" => w.index # 0)
<1>1. Len(s) \in Nat /\ <<>> \in Deltas
    BY DEF Deltas
<1> QED BY <1>1 DEF SendsBlock, Begins, GoesOn, Finishes, SendsWhole

\* The reason that the message gives is the provider's, or follows from it.
LEMMA StopForOf ==
    ASSUME NEW d, NEW why
    PROVE  /\ StopFor(d, why) \in {why, "ToolUse"}
           /\ why # "Stop" => StopFor(d, why) = why
BY DEF StopFor

LEMMA StopGiven ==
    ASSUME NEW e, NEW t, NEW g, NEW why \in Reasons, g.stop = why,
           \A i \in 1 .. Len(t) : ~t[i].open,
           e.stop \in {"Error"} \/ why # "Error"
    PROVE  Complete(e, t, g)
BY DEF Complete, Accepts

\* A flag that the protocol may keep.
LEMMA FlagShape ==
    ASSUME NEW sc \in Scratch
    PROVE  /\ [sc EXCEPT !.terminal = TRUE] \in Scratch
           /\ [sc EXCEPT !.terminal = TRUE].keys = sc.keys
           /\ [sc EXCEPT !.finished = TRUE] \in Scratch
           /\ [sc EXCEPT !.finished = TRUE].keys = sc.keys
<1>1. CASE sc \in [keys : Seq(Nat)]
    BY <1>1 DEF Scratch
<1>2. CASE sc \in [keys : Seq(Nat), sawStart : BOOLEAN, sawStop : BOOLEAN]
    BY <1>2 DEF Scratch
<1>3. CASE sc \in [keys : Seq(Nat), finished : BOOLEAN]
    BY <1>3 DEF Scratch
<1>4. CASE sc \in [keys : Seq(Nat), terminal : BOOLEAN]
    BY <1>4 DEF Scratch
<1>5. CASE sc \in [keys : Seq(Nat), current : Currents, copy : Deltas]
    BY <1>5 DEF Scratch
<1> QED BY <1>1, <1>2, <1>3, <1>4, <1>5 DEF Scratch

(******************************** Responses ********************************)

\* A message that is refused, or of which nothing was said of how it ends, keeps its place.
LEMMA KeepsReading ==
    ASSUME "none" \notin Reasons, NEW d, NEW e, NEW s, NEW t, NEW f, NEW g,
           Complete(d, s, f), f.stop = "none", e.stop = d.stop, e.failed = d.failed
    PROVE  Complete(e, t, g)
BY StaysRefused

\* The end that the provider gives: the stop, and a flag.
LEMMA FinalizeReads ==
    ASSUME NEW d, NEW s, Keyed(d, s), d.events # <<>>, ~d.failed, NEW why \in Reasons \cup {"Stop"},
           why # "unhandled"
    PROVE  LET e == FinalizeResponse(d, why) IN
           /\ Keyed(e, s) /\ e.events # <<>> /\ ~e.failed /\ e.stop \in {why, "ToolUse"}
           /\ why # "Stop" => e.stop = why
<1> DEFINE e   == FinalizeResponse(d, why)
           end == StopFor(d, why)
           sc  == [d.scratch EXCEPT !.terminal = TRUE]
           h   == [d EXCEPT !.stop = end]
<1>1. Nested(d) /\ d \in Decoder /\ d.scratch \in Scratch
    BY NestedFacts DEF Keyed
<1>2. end \in {why, "ToolUse"} /\ (why # "Stop" => end = why)
    BY StopForOf
<1>3. end \in Stops
    BY <1>2 DEF Stops
<1>4. sc \in Scratch /\ sc.keys = d.scratch.keys
    BY <1>1, FlagShape
<1>5. e = [h EXCEPT !.scratch = sc]
  <2>1. d.scratch = h.scratch
      BY <1>1 DEF Decoder
  <2> QED BY <2>1, <1>1 DEF FinalizeResponse, Decoder
<1> HIDE DEF e, end, sc
<1>6. /\ h \in Decoder /\ h.stop = end /\ h.failed = d.failed /\ h.content = d.content
      /\ h.scratch = d.scratch /\ h.events = d.events
    BY <1>1, <1>3, StopShape
<1> HIDE DEF h
<1>7. /\ e \in Decoder /\ e.stop = end /\ e.failed = d.failed /\ e.content = d.content
      /\ e.scratch = sc /\ e.events = d.events
    BY <1>4, <1>5, <1>6, ScratchShape
<1>8. Keyed(e, s)
    BY <1>4, <1>7, KeyedSame DEF SameKinds
<1> QED BY <1>2, <1>7, <1>8 DEF e

LEMMA ResponsesReads ==
    ASSUME "none" \notin Reasons, NEW p \in {"responses", "azure", "codex"},
           NEW s \in Seq(Spoken), NEW t \in Seq(Spoken), NEW f \in Framing, NEW g \in Framing, NEW w,
           Sends(p, s, w, t, f, g), NEW d, ~d.failed, Reading(p, d, s, f)
    PROVE  /\ w.type # "stop" => Reading(p, ResponsesEvent(d, w), t, g)
           /\ w.type = "stop" =>
                 \A why \in {w.kind, IF w.kind = "unhandled" THEN "Stop" ELSE w.kind} :
                     Reading(p, FinalizeResponse(d, why), t, g)
<1> DEFINE e == ResponsesEvent(d, w)
<1>0. p \in Slotted /\ p \notin Unnamed
    BY DEF Slotted, Unnamed
<1>1. /\ Complete(d, s, f) /\ Keyed(d, s) /\ d.events # <<>>
    BY <1>0 DEF Reading
<1>2. Nested(d) /\ d \in Decoder
    BY <1>1, NestedFacts DEF Keyed
<1>3. ASSUME NEW e1, Keyed(e1, t), e1.events # <<>>, Complete(e1, t, g), g.hello
      PROVE  Reading(p, e1, t, g)
    BY <1>0, <1>3 DEF Reading, Unnamed, Keyed
<1>4. CASE w.type = "hello"
  <2>1. e = d
      BY <1>4 DEF ResponsesEvent
  <2>2. t = s /\ ~f.hello /\ g.hello /\ g.stop = f.stop
      BY <1>4, SendsParts
  <2>3. f.stop = "none"
      BY <2>2 DEF Reading
  <2>4. Complete(d, t, g)
      BY <1>1, <2>3, KeepsReading
  <2> HIDE DEF e
  <2> QED BY <1>1, <1>3, <1>4, <2>1, <2>2, <2>4 DEF e
<1>5. CASE w.type \in {"begin", "delta", "end", "whole"}
  <2>1. SendsBlock(p, s, w, t) /\ f.hello /\ f.stop = "none" /\ g.hello = f.hello
      BY <1>5, SendsParts
  <2>2. Begins(s, w, t) \/ GoesOn(s, w, t) \/ Finishes(s, w, t) \/ SendsWhole(s, w, t)
      BY <1>0, <2>1 DEF SendsBlock
  <2>3. Follows(d, e, t)
      BY <1>1, <2>2, ResponsesSays
  <2> HIDE DEF e
  <2>4. Complete(e, t, g)
      BY <1>1, <2>1, <2>3, KeepsReading DEF Follows
  <2> QED BY <1>3, <1>5, <2>1, <2>3, <2>4 DEF Follows, e
<1>6. CASE w.type = "stop"
  <2>1. /\ t = s /\ w.kind \in Reasons /\ \A i \in 1 .. Len(s) : ~s[i].open
        /\ g.hello /\ g.stop = w.kind
      BY <1>6, SendsParts
  <2>2. ASSUME NEW why \in {w.kind, IF w.kind = "unhandled" THEN "Stop" ELSE w.kind}
        PROVE  Reading(p, FinalizeResponse(d, why), t, g)
    <3> DEFINE h == FinalizeResponse(d, why)
    <3>1. CASE why = "unhandled"
      <4>1. h = Fail(d)
          BY <3>1 DEF FinalizeResponse
      <4> HIDE DEF h
      <4> QED BY <1>2, <4>1, FailNested DEF Reading, h
    <3>2. CASE why # "unhandled"
      <4>1. why \in Reasons \cup {"Stop"}
          BY <2>1, <2>2
      <4>2. /\ Keyed(h, s) /\ h.events # <<>> /\ ~h.failed /\ h.stop \in {why, "ToolUse"}
            /\ why # "Stop" => h.stop = why
          BY <1>1, <3>2, <4>1, FinalizeReads
      <4> HIDE DEF h
      <4>3. h.stop = "Error" \/ w.kind # "Error"
          BY <2>2, <4>2
      <4>4. Complete(h, t, g)
          BY <2>1, <4>3, StopGiven
      <4> QED BY <1>3, <2>1, <4>2, <4>4 DEF h
    <3> QED BY <3>1, <3>2
  <2> QED BY <1>6, <2>2
<1>7. CASE w.type = "over"
  <2>1. e = d
      BY <1>7 DEF ResponsesEvent
  <2>2. t = s /\ g.hello /\ g.stop = f.stop
      BY <1>7, SendsParts
  <2>3. Complete(d, t, g)
      BY <1>1, <2>2 DEF Complete
  <2> HIDE DEF e
  <2> QED BY <1>1, <1>3, <1>7, <2>1, <2>2, <2>3 DEF e
<1>8. CASE w.type = "error"
  <2>1. e = Fail(d)
      BY <1>8 DEF ResponsesEvent
  <2> HIDE DEF e
  <2> QED BY <1>2, <1>8, <2>1, FailNested DEF Reading, e
<1>9. w.type \in {"hello", "begin", "delta", "end", "whole", "stop", "over", "error"}
    BY SendsParts
<1> QED BY <1>4, <1>5, <1>6, <1>7, <1>8, <1>9

\* Each of the three.
LEMMA SharedReads ==
    ASSUME "none" \notin Reasons, NEW p \in {"responses", "azure", "codex"},
           NEW s \in Seq(Spoken), NEW t \in Seq(Spoken), NEW f \in Framing, NEW g \in Framing, NEW w,
           Sends(p, s, w, t, f, g), NEW d, ~d.failed, Reading(p, d, s, f)
    PROVE  Reading(p, ResponsesEvent(d, w), t, g) /\ Reading(p, CodexEvent(d, w), t, g)
<1> DEFINE why == IF w.kind = "unhandled" THEN "Stop" ELSE w.kind
<1>1. CASE w.type # "stop"
  <2>1. CodexEvent(d, w) = ResponsesEvent(d, w)
      BY <1>1 DEF CodexEvent
  <2>2. Reading(p, ResponsesEvent(d, w), t, g)
      BY <1>1, ResponsesReads
  <2> QED BY <2>1, <2>2
<1>2. CASE w.type = "stop"
  <2>1. ResponsesEvent(d, w) = FinalizeResponse(d, w.kind)
      BY <1>2 DEF ResponsesEvent
  <2>2. CodexEvent(d, w) = FinalizeResponse(d, why)
      BY <1>2, <2>1 DEF CodexEvent
  <2>3. \A y \in {w.kind, why} : Reading(p, FinalizeResponse(d, y), t, g)
      BY <1>2, ResponsesReads
  <2> QED BY <2>1, <2>2, <2>3
<1> QED BY <1>1, <1>2

\* An item that is not a stop says nothing of how the answer ends.
LEMMA CompleteKept ==
    ASSUME "none" \notin Reasons, NEW p, NEW s, NEW t, NEW f, NEW g, NEW w,
           Sends(p, s, w, t, f, g), w.type # "stop",
           NEW d, ~d.failed, Reading(p, d, s, f), NEW e, e.stop = d.stop, e.failed = d.failed
    PROVE  Complete(e, t, g) /\ g.hello
<1>1. Complete(d, s, f) /\ (~f.hello => f.stop = "none")
    BY DEF Reading
<1>2. CASE w.type = "over"
  <2>1. t = s /\ g.hello /\ g.stop = f.stop
      BY <1>2, SendsParts
  <2> QED BY <1>1, <2>1 DEF Complete, Accepts
<1>3. CASE w.type # "over"
  <2>1. f.stop = "none" /\ g.hello
      BY <1>1, <1>3, SendsParts
  <2> QED BY <1>1, <2>1, KeepsReading
<1> QED BY <1>2, <1>3

\* A stop after which the message is another one.
LEMMA StopKept ==
    ASSUME NEW p, NEW s, NEW t, NEW f, NEW g, NEW w,
           Sends(p, s, w, t, f, g), w.type = "stop",
           NEW e, e.stop = "Error" \/ w.kind # "Error"
    PROVE  Complete(e, t, g) /\ g.hello /\ t = s /\ w.kind \in Reasons
<1>1. t = s /\ w.kind \in Reasons /\ (\A i \in 1 .. Len(s) : ~s[i].open) /\ g.hello /\ g.stop = w.kind
    BY SendsParts
<1>2. w.kind = "Error" => e.stop = "Error"
    OBVIOUS
<1> QED BY <1>1, <1>2 DEF Complete, Accepts

(******************************* Completions *******************************)

LEMMA CompletionsReads ==
    ASSUME "none" \notin Reasons, NEW p \in {"completions", "compat"},
           NEW s \in Seq(Spoken), NEW t \in Seq(Spoken), NEW f \in Framing, NEW g \in Framing, NEW w,
           Sends(p, s, w, t, f, g), NEW d, ~d.failed, Reading(p, d, s, f)
    PROVE  Reading(p, CompletionsEvent(d, w), t, g)
<1> DEFINE e == CompletionsEvent(d, w)
<1> SUFFICES Reading(p, e, t, g)
    OBVIOUS
<1>0. p \notin Slotted /\ p \notin Unnamed
    BY DEF Slotted, Unnamed
<1>1. AllLive(d) /\ Nested(d) /\ d \in Decoder /\ d.scratch \in Scratch
    BY NestedFacts DEF Reading, AllLive
<1>2. ASSUME AllLive(e), Complete(e, t, g), g.hello
      PROVE  Reading(p, e, t, g)
    BY <1>0, <1>2 DEF Reading, AllLive
<1>3. CASE w.type = "stop"
  <2> DEFINE why == IF w.kind = "unhandled" THEN "Error" ELSE w.kind
             sc  == [d.scratch EXCEPT !.finished = TRUE]
             h   == [d EXCEPT !.stop = why]
  <2>1. why \in Stops /\ (why = "Error" \/ w.kind # "Error")
    <3>1. w.kind \in Reasons
        BY <1>3, SendsParts
    <3> QED BY <3>1 DEF Stops
  <2>2. e = [h EXCEPT !.scratch = sc]
      BY <1>1, <1>3 DEF CompletionsEvent, CompletionsStopReason, Decoder
  <2>3. sc \in Scratch /\ sc.keys = d.scratch.keys
      BY <1>1, FlagShape
  <2> HIDE DEF e, why, sc
  <2>4. /\ h \in Decoder /\ h.stop = why /\ h.failed = d.failed /\ h.content = d.content
        /\ h.scratch = d.scratch /\ h.events = d.events
      BY <1>1, <2>1, StopShape
  <2> HIDE DEF h
  <2>5. /\ e \in Decoder /\ e.stop = why /\ e.failed = d.failed /\ e.content = d.content
        /\ e.scratch = sc /\ e.events = d.events
      BY <2>2, <2>3, <2>4, ScratchShape
  <2>6. AllLive(e)
      BY <1>1, <2>3, <2>5, SameEvents DEF AllLive
  <2>7. Complete(e, t, g) /\ g.hello
      BY <1>3, <2>1, <2>5, StopKept
  <2> QED BY <1>2, <2>6, <2>7
<1>4. CASE w.type # "stop" /\ (w.type = "delta" \/ (w.type = "begin" /\ w.kind = "call"))
  <2>1. SendsBlock(p, s, w, t) /\ w.kind \in BlockKinds
    <3>1. p # "bedrock"
        OBVIOUS
    <3> QED BY <1>0, <1>4, <3>1, SendsParts
  <2>2. w.index \in Nat /\ w.text \in Deltas
      BY <2>1, BlockParts
  <2>3. e = CompletionsDelta(d, w)
      BY <1>4 DEF CompletionsEvent
  <2> HIDE DEF e
  <2>4. AllLive(e) /\ Goes(d, e)
      BY <1>1, <2>1, <2>2, <2>3, CompletionsSays
  <2>5. Complete(e, t, g) /\ g.hello
      BY <1>4, <2>4, CompleteKept DEF Goes
  <2> QED BY <1>2, <2>4, <2>5
<1>5. CASE w.type # "stop" /\ ~(w.type = "delta" \/ (w.type = "begin" /\ w.kind = "call"))
  <2>1. e = d
      BY <1>5 DEF CompletionsEvent
  <2> HIDE DEF e
  <2>2. Complete(e, t, g) /\ g.hello
      BY <1>5, <2>1, CompleteKept
  <2> QED BY <1>1, <1>2, <2>1, <2>2
<1> QED BY <1>3, <1>4, <1>5

(********************************* Mistral *********************************)

\* Another reason to stop.
LEMMA CurrentSame ==
    ASSUME NEW d, Current(d), NEW e \in Decoder, e.events = d.events, e.content = d.content,
           e.scratch = d.scratch
    PROVE  Current(e)
<1>1. Nested(d)
    BY DEF Current
<1>2. Nested(e) /\ \A i \in 1 .. Len(d.content) : Live(e, i) <=> Live(d, i)
    BY <1>1, SameEvents
<1> QED BY <1>2 DEF Current

LEMMA MistralReads ==
    ASSUME "none" \notin Reasons,
           NEW s \in Seq(Spoken), NEW t \in Seq(Spoken), NEW f \in Framing, NEW g \in Framing, NEW w,
           Sends("mistral", s, w, t, f, g), NEW d, ~d.failed, Reading("mistral", d, s, f)
    PROVE  Reading("mistral", MistralEvent(d, w), t, g)
<1> DEFINE e == MistralEvent(d, w)
           p == "mistral"
<1> SUFFICES Reading(p, e, t, g)
    OBVIOUS
<1>0. p \notin Slotted /\ p \notin Unnamed
    BY DEF Slotted, Unnamed
<1>1. Current(d) /\ Nested(d) /\ d \in Decoder
    BY NestedFacts DEF Reading, Current
<1>2. ASSUME Current(e), Complete(e, t, g), g.hello
      PROVE  Reading(p, e, t, g)
    BY <1>0, <1>2 DEF Reading, Current
<1>3. CASE w.type = "stop"
  <2> DEFINE why == IF w.kind = "unhandled" THEN "Error" ELSE w.kind
  <2>1. why \in Stops /\ (why = "Error" \/ w.kind # "Error")
    <3>1. w.kind \in Reasons
        BY <1>3, SendsParts
    <3> QED BY <3>1 DEF Stops
  <2>2. e = [d EXCEPT !.stop = why]
      BY <1>3 DEF MistralEvent
  <2> HIDE DEF e, why
  <2>3. /\ e \in Decoder /\ e.stop = why /\ e.failed = d.failed /\ e.content = d.content
        /\ e.scratch = d.scratch /\ e.events = d.events
      BY <1>1, <2>1, <2>2, StopShape
  <2>4. Current(e)
      BY <1>1, <2>3, CurrentSame
  <2>5. Complete(e, t, g) /\ g.hello
      BY <1>3, <2>1, <2>3, StopKept
  <2> QED BY <1>2, <2>4, <2>5
<1>4. CASE w.type \in {"begin", "delta"} /\ (w.type = "delta" \/ w.kind = "call")
  <2>1. SendsBlock(p, s, w, t) /\ w.kind \in BlockKinds
    <3>1. p # "bedrock"
        OBVIOUS
    <3> QED BY <1>0, <1>4, <3>1, SendsParts
  <2>2. w.index \in Nat \ {0} /\ w.text \in Deltas
      BY <1>4, <2>1, BlockParts
  <2>3. e = IF w.kind = "call" THEN MistralCall(d, w) ELSE MistralContent(d, w)
      BY <1>4 DEF MistralEvent
  <2> HIDE DEF e
  <2>4. Current(e) /\ Goes(d, e)
    <3>1. CASE w.kind = "call"
        BY <1>1, <2>2, <2>3, <3>1, MistralCalls
    <3>2. CASE w.kind # "call"
      <4>1. w.kind \in {"text", "thinking"}
          BY <2>1, <3>2 DEF BlockKinds
      <4> QED BY <1>1, <2>2, <2>3, <3>2, <4>1, MistralSays
    <3> QED BY <3>1, <3>2
  <2>5. Complete(e, t, g) /\ g.hello
      BY <1>4, <2>4, CompleteKept DEF Goes
  <2> QED BY <1>2, <2>4, <2>5
<1>5. CASE w.type # "stop" /\ ~(w.type \in {"begin", "delta"} /\ (w.type = "delta" \/ w.kind = "call"))
  <2>1. e = d
      BY <1>5 DEF MistralEvent
  <2> HIDE DEF e
  <2>2. Complete(e, t, g) /\ g.hello
      BY <1>5, <2>1, CompleteKept
  <2> QED BY <1>1, <1>2, <2>1, <2>2
<1> QED BY <1>3, <1>4, <1>5

(********************************** Google *********************************)

LEMMA GoogleReads ==
    ASSUME "none" \notin Reasons, NEW p \in {"google", "vertex"},
           NEW s, NEW t, NEW f, NEW g, NEW w,
           Sends(p, s, w, t, f, g), NEW d, ~d.failed, Reading(p, d, s, f)
    PROVE  Reading(p, GoogleEvent(d, w), t, g) /\ Reading(p, VertexEvent(d, w), t, g)
<1> DEFINE e == GoogleEvent(d, w)
<1>0. VertexEvent(d, w) = GoogleEvent(d, w)
    BY DEF VertexEvent, GoogleEvent, VertexText, VertexCall
<1> SUFFICES Reading(p, e, t, g)
    BY <1>0
<1>1. Shaped(d) /\ p \in Unnamed
    BY DEF Reading, Unnamed
<1>2. ASSUME Shaped(e), Complete(e, t, g), g.hello
      PROVE  Reading(p, e, t, g)
    BY <1>1, <1>2 DEF Reading, Slotted
<1>3. CASE w.type = "stop"
  <2> DEFINE why == IF w.kind = "unhandled" THEN "Error" ELSE StopFor(d, w.kind)
  <2>1. why = "Error" \/ w.kind # "Error"
    <3>1. w.kind = "Error" => StopFor(d, w.kind) = "Error"
        BY DEF StopFor
    <3> QED BY <3>1
  <2>2. e = [d EXCEPT !.stop = why]
      BY <1>3 DEF GoogleEvent, GoogleStopReason
  <2> HIDE DEF e, why
  <2>3. Shaped(e) /\ e.stop = why
      BY <1>1, <2>2 DEF Shaped
  <2>4. Complete(e, t, g) /\ g.hello
      BY <1>3, <2>1, <2>3, StopKept
  <2> QED BY <1>2, <2>3, <2>4
<1>4. CASE w.type # "stop"
  <2>1. Silently(d, e)
    <3>1. CASE w.type = "delta" /\ w.kind \in {"text", "thinking"}
      <4>1. e = GoogleText(d, w)
          BY <3>1 DEF GoogleEvent
      <4> QED BY <1>1, <4>1, GoogleTextSilent
    <3>2. CASE w.type = "whole" /\ w.kind = "call"
      <4>1. e = GoogleCall(d, w)
          BY <3>2 DEF GoogleEvent
      <4> QED BY <1>1, <4>1, GoogleCallSilent
    <3>3. CASE ~(w.type = "delta" /\ w.kind \in {"text", "thinking"}) /\ ~(w.type = "whole" /\ w.kind = "call")
      <4>1. e = d
          BY <1>4, <3>3 DEF GoogleEvent
      <4> HIDE DEF e
      <4> QED BY <1>1, <4>1 DEF Silently
    <3> QED BY <3>1, <3>2, <3>3
  <2> HIDE DEF e
  <2>2. Complete(e, t, g) /\ g.hello
      BY <1>4, <2>1, CompleteKept DEF Silently
  <2> QED BY <1>2, <2>1, <2>2 DEF Silently
<1> QED BY <1>3, <1>4

(***************************** Bedrock and pi ******************************)

\* The stream starts with the first item.
LEMMA KeyedStart ==
    ASSUME NEW d, NEW s, Keyed(d, s), d.events = <<>>
    PROVE  LET e == PushStart(d) IN
           /\ Keyed(e, s) /\ e.events # <<>> /\ e.content = <<>> /\ e.stop = d.stop /\ e.failed = d.failed
           /\ d.content = <<>>
<1> DEFINE e == PushStart(d)
<1>1. Nested(d) /\ d.content = <<>> /\ d \in Decoder /\ d.scratch.keys = <<>>
  <2>1. Nested(d)
      BY DEF Keyed
  <2>2. d.content = <<>> /\ Len(d.content) = 0 /\ d.scratch.keys \in Seq(Nat) /\ Len(d.scratch.keys) = 0
      BY <2>1, NestedFacts DEF Nested
  <2> QED BY <2>1, <2>2, NestedFacts
<1>2. Goes(d, e) /\ e.events # <<>> /\ e.content = <<>> /\ e.scratch = d.scratch
    BY <1>1, StartNested
<1> HIDE DEF e
<1>3. Keyed(e, s)
    BY <1>1, <1>2 DEF Keyed, Goes
<1> QED BY <1>1, <1>2, <1>3 DEF Goes, e

LEMMA BedrockReads ==
    ASSUME "none" \notin Reasons,
           NEW s \in Seq(Spoken), NEW t \in Seq(Spoken), NEW f \in Framing, NEW g \in Framing, NEW w,
           Sends("bedrock", s, w, t, f, g), NEW d, Reading("bedrock", d, s, f)
    PROVE  Reading("bedrock", BedrockEvent(d, w), t, g)
<1> DEFINE e == BedrockEvent(d, w)
           p == "bedrock"
<1> SUFFICES Reading(p, e, t, g)
    OBVIOUS
<1>0. p \notin Slotted /\ p \notin Unnamed
    BY DEF Slotted, Unnamed
<1>1. CASE d.failed
  <2>1. e = d
      BY <1>1 DEF BedrockEvent
  <2> HIDE DEF e
  <2> QED BY <1>1, <2>1 DEF Reading
<1>2. CASE ~d.failed
  <2>1. Keyed(d, s) /\ Nested(d) /\ d \in Decoder /\ (f.hello <=> d.events # <<>>)
      BY <1>2, NestedFacts DEF Reading, Keyed
  <2>2. ASSUME Keyed(e, t), e.events # <<>>, Complete(e, t, g), g.hello
        PROVE  Reading(p, e, t, g)
      BY <1>0, <2>2 DEF Reading, Keyed
  <2>3. CASE w.type = "hello"
    <3>1. e = PushStart(d)
        BY <1>2, <2>3 DEF BedrockEvent
    <3>2. t = s /\ ~f.hello
        BY <2>3, SendsParts
    <3> HIDE DEF e
    <3>3. Keyed(e, s) /\ e.events # <<>> /\ e.stop = d.stop /\ e.failed = d.failed
        BY <2>1, <3>1, <3>2, KeyedStart
    <3>4. Complete(e, t, g) /\ g.hello
        BY <1>2, <2>3, <3>3, CompleteKept
    <3> QED BY <2>2, <3>2, <3>3, <3>4
  <2>4. CASE w.type \in {"begin", "delta", "end", "whole"}
    <3>1. SendsBlock(p, s, w, t) /\ f.hello
        BY <2>4, SendsParts
    <3>2. Begins(s, w, t) \/ GoesOn(s, w, t) \/ Finishes(s, w, t)
        BY <1>0, <3>1 DEF SendsBlock
    <3>3. Follows(d, e, t)
        BY <1>2, <2>1, <3>1, <3>2, BedrockSays
    <3> HIDE DEF e
    <3>4. Complete(e, t, g) /\ g.hello
        BY <1>2, <2>4, <3>3, CompleteKept DEF Follows
    <3> QED BY <2>2, <3>3, <3>4 DEF Follows
  <2>5. CASE w.type = "stop"
    <3> DEFINE why == IF w.kind = "unhandled" THEN "Error" ELSE w.kind
    <3>1. why \in Stops /\ (why = "Error" \/ w.kind # "Error") /\ t = s /\ f.hello
      <4>1. w.kind \in Reasons /\ t = s /\ f.hello
          BY <2>5, SendsParts
      <4> QED BY <4>1 DEF Stops
    <3>2. e = [d EXCEPT !.stop = why]
        BY <1>2, <2>5 DEF BedrockEvent, BedrockStopReason
    <3> HIDE DEF e, why
    <3>3. /\ e \in Decoder /\ e.stop = why /\ e.failed = d.failed /\ e.content = d.content
          /\ e.scratch = d.scratch /\ e.events = d.events
        BY <2>1, <3>1, <3>2, StopShape
    <3>4. Keyed(e, s)
        BY <2>1, <3>3, KeyedSame DEF SameKinds
    <3>5. Complete(e, t, g) /\ g.hello
        BY <2>5, <3>1, <3>3, StopKept
    <3> QED BY <2>1, <2>2, <3>1, <3>3, <3>4, <3>5
  <2>6. CASE w.type = "error"
    <3>1. e = Fail(d)
        BY <1>2, <2>6 DEF BedrockEvent
    <3> HIDE DEF e
    <3> QED BY <2>1, <3>1, FailNested DEF Reading
  <2>7. CASE w.type = "over"
    <3>1. e = d
        BY <1>2, <2>7 DEF BedrockEvent
    <3>2. t = s /\ f.hello
        BY <2>7, SendsParts
    <3> HIDE DEF e
    <3>3. Complete(e, t, g) /\ g.hello
        BY <1>2, <2>7, <3>1, CompleteKept
    <3> QED BY <2>1, <2>2, <3>1, <3>2, <3>3
  <2>8. w.type \in {"hello", "begin", "delta", "end", "whole", "stop", "over", "error"}
      BY SendsParts
  <2> QED BY <2>3, <2>4, <2>5, <2>6, <2>7, <2>8
<1> QED BY <1>1, <1>2

LEMMA PiReads ==
    ASSUME "none" \notin Reasons,
           NEW s \in Seq(Spoken), NEW t \in Seq(Spoken), NEW f \in Framing, NEW g \in Framing, NEW w,
           Sends("pi", s, w, t, f, g), NEW d, ~d.failed, Reading("pi", d, s, f)
    PROVE  Reading("pi", PiEvent(d, w), t, g) /\ ~PiEvent(d, w).failed
<1> DEFINE e == PiEvent(d, w)
           p == "pi"
<1> SUFFICES Reading(p, e, t, g) /\ ~e.failed
    OBVIOUS
<1>0. p \notin Slotted /\ p \notin Unnamed /\ p # "bedrock"
    BY DEF Slotted, Unnamed
<1>1. Placed(d, s) /\ Keyed(d, s) /\ Nested(d) /\ d \in Decoder /\ (f.hello <=> d.events # <<>>)
    BY NestedFacts DEF Reading, Placed, Keyed
<1>2. ASSUME Placed(e, t), e.events # <<>>, Complete(e, t, g), g.hello, ~e.failed
      PROVE  Reading(p, e, t, g) /\ ~e.failed
    BY <1>0, <1>2 DEF Reading
<1>3. CASE w.type = "hello"
  <2>1. e = PushStart(d)
      BY <1>3 DEF PiEvent
  <2>2. t = s /\ ~f.hello
      BY <1>3, SendsParts
  <2> HIDE DEF e
  <2>3. /\ Keyed(e, s) /\ e.events # <<>> /\ e.stop = d.stop /\ e.failed = d.failed
        /\ e.content = <<>> /\ d.content = <<>>
      BY <1>1, <2>1, <2>2, KeyedStart
  <2>4. Complete(e, t, g) /\ g.hello
      BY <1>3, <2>3, CompleteKept
  <2>5. Placed(e, t)
      BY <1>1, <2>2, <2>3 DEF Placed
  <2> QED BY <1>2, <2>3, <2>4, <2>5
<1>4. CASE w.type \in {"begin", "delta", "end", "whole"}
  <2>1. SendsBlock(p, s, w, t) /\ f.hello /\ w.kind \in BlockKinds
      BY <1>0, <1>4, SendsParts
  <2>2. Begins(s, w, t) \/ GoesOn(s, w, t) \/ Finishes(s, w, t)
      BY <1>0, <2>1 DEF SendsBlock
  <2>3. Follows(d, e, t) /\ Placed(e, t)
      BY <1>1, <2>1, <2>2, PiSays
  <2> HIDE DEF e
  <2>4. Complete(e, t, g) /\ g.hello
      BY <1>4, <2>3, CompleteKept DEF Follows
  <2> QED BY <1>2, <2>3, <2>4 DEF Follows
<1>5. ASSUME NEW why \in Stops, e = [d EXCEPT !.stop = why], f.hello, t = s
      PROVE  Placed(e, t) /\ e.events # <<>> /\ e.stop = why /\ e.failed = d.failed
  <2> HIDE DEF e
  <2>1. /\ e \in Decoder /\ e.stop = why /\ e.failed = d.failed /\ e.content = d.content
        /\ e.scratch = d.scratch /\ e.events = d.events
      BY <1>1, <1>5, StopShape
  <2>2. Keyed(e, s)
      BY <1>1, <2>1, KeyedSame DEF SameKinds
  <2> QED BY <1>1, <1>5, <2>1, <2>2 DEF Placed
<1>6. CASE w.type = "stop"
  <2> DEFINE why == IF w.kind = "unhandled" THEN "Stop" ELSE w.kind
  <2>1. why \in Stops /\ (why = "Error" \/ w.kind # "Error") /\ t = s /\ f.hello
    <3>1. w.kind \in Reasons /\ t = s /\ f.hello
        BY <1>6, SendsParts
    <3> QED BY <3>1 DEF Stops
  <2>2. e = [d EXCEPT !.stop = why]
      BY <1>6 DEF PiEvent, PiStopReason
  <2> HIDE DEF e, why
  <2>3. Placed(e, t) /\ e.events # <<>> /\ e.stop = why /\ e.failed = d.failed
      BY <1>5, <2>1, <2>2
  <2>4. Complete(e, t, g) /\ g.hello
      BY <1>6, <2>1, <2>3, StopKept
  <2> QED BY <1>2, <2>3, <2>4
<1>7. CASE w.type = "error"
  <2>1. e = [d EXCEPT !.stop = "Error"] /\ "Error" \in Stops
      BY <1>7 DEF PiEvent, Stops
  <2>2. t = s /\ f.hello /\ g.hello
      BY <1>7, SendsParts
  <2> HIDE DEF e
  <2>3. Placed(e, t) /\ e.events # <<>> /\ e.stop = "Error" /\ e.failed = d.failed
      BY <1>5, <2>1, <2>2
  <2>4. Complete(e, t, g)
      BY <2>3 DEF Complete, Accepts
  <2> QED BY <1>2, <2>2, <2>3, <2>4
<1>8. w.type \in {"hello", "begin", "delta", "end", "whole", "stop", "error"}
    BY SendsParts
<1> QED BY <1>3, <1>4, <1>6, <1>7, <1>8

-----------------------------------------------------------------------------
(**************************** What a decoder leaves ************************)

\* A message at the end of the stream, when s was said and framed with f.
Settles(p, e, s, f) ==
    /\ p \notin Unnamed => EventsSay(e)
    /\ Accepts(e) =>
          /\ p # "compat" => f.stop \in Reasons \ {"Error"} /\ \A i \in 1 .. Len(s) : ~s[i].open
          /\ p = "anthropic" => f.last
          /\ p \notin Unnamed => \A i \in DOMAIN e.content : HasEnded(e.events, i)

LEMMA NestedSays ==
    ASSUME NEW d, Nested(d)
    PROVE  EventsSay(d)
BY DEF Nested, EventsSay

\* A message that is an error settles.
LEMMA FailedSettles ==
    ASSUME NEW p, NEW e, NEW s, NEW f, e.failed, p \notin Unnamed => Nested(e)
    PROVE  Settles(p, e, s, f)
BY NestedSays DEF Settles, Accepts

LEMMA FailSettles ==
    ASSUME NEW p, NEW d, NEW s, NEW f, Nested(d) \/ (p \in Unnamed /\ Shaped(d))
    PROVE  Settles(p, Fail(d), s, f)
<1>1. CASE Nested(d)
    BY <1>1, FailNested, FailedSettles
<1>2. CASE p \in Unnamed /\ Shaped(d)
  <2>1. Fail(d).failed
      BY <1>2 DEF Fail, Shaped
  <2> QED BY <1>2, <2>1, FailedSettles
<1> QED BY <1>1, <1>2

\* A reader fails.
LEMMA ReadingFails ==
    ASSUME NEW p \in Names, NEW d, ~d.failed, NEW s, NEW f, Reading(p, d, s, f)
    PROVE  Settles(p, Fail(d), s, f)
<1>1. Nested(d) \/ (p \in Unnamed /\ Shaped(d))
    BY DEF Reading, Names, Slotted, Unnamed, Keyed, AllLive, Current, Placed
<1> QED BY <1>1, FailSettles

\* Blocks that the provider ended have ended.
LEMMA KeyedEnds ==
    ASSUME NEW d, NEW s, Keyed(d, s), \A i \in 1 .. Len(s) : ~s[i].open
    PROVE  \A i \in DOMAIN d.content : HasEnded(d.events, i)
<1>1. Nested(d)
    BY DEF Keyed
<1>2. ASSUME NEW i \in DOMAIN d.content
      PROVE  HasEnded(d.events, i)
  <2>1. i \in 1 .. Len(d.content)
      BY <1>1, NestedFacts
  <2>2. d.scratch.keys[i] # 0 => d.scratch.keys[i] \in 1 .. Len(s)
      BY <2>1 DEF Keyed
  <2>3. Live(d, i) <=> d.scratch.keys[i] # 0 /\ s[d.scratch.keys[i]].open
      BY <2>1 DEF Keyed
  <2> QED BY <2>2, <2>3 DEF Live
<1> QED BY <1>2

\* A message of blocks that are known by their keys, as it is.
LEMMA KeyedSettles ==
    ASSUME NEW p, p # "anthropic", NEW d, NEW s, NEW f, Keyed(d, s), Complete(d, s, f)
    PROVE  Settles(p, d, s, f)
<1>1. EventsSay(d)
    BY NestedSays DEF Keyed
<1>2. ASSUME Accepts(d)
      PROVE  /\ f.stop \in Reasons \ {"Error"} /\ \A i \in 1 .. Len(s) : ~s[i].open
             /\ \A i \in DOMAIN d.content : HasEnded(d.events, i)
    BY <1>2, KeyedEnds DEF Complete
<1> QED BY <1>1, <1>2 DEF Settles

LEMMA AnthropicSettles ==
    ASSUME "none" \notin Reasons, NEW d, ~d.failed, NEW s, NEW f \in Framing, Reading("anthropic", d, s, f)
    PROVE  Settles("anthropic", AnthropicOver(d), s, f)
<1>1. /\ Complete(d, s, f) /\ Keyed(d, s) /\ Nested(d)
      /\ ~f.hello => f.stop = "none"
      /\ d.scratch.sawStart = f.hello /\ d.scratch.sawStop = f.last
    BY DEF Reading, Slotted, Keyed
<1>2. CASE d.scratch.sawStart /\ ~d.scratch.sawStop
  <2>1. AnthropicOver(d) = Fail(d)
      BY <1>2 DEF AnthropicOver
  <2> QED BY <1>1, <2>1, FailSettles
<1>3. CASE ~(d.scratch.sawStart /\ ~d.scratch.sawStop)
  <2>1. AnthropicOver(d) = d
      BY <1>3 DEF AnthropicOver
  <2>2. ASSUME Accepts(d)
        PROVE  /\ f.stop \in Reasons \ {"Error"} /\ \A i \in 1 .. Len(s) : ~s[i].open
               /\ f.last /\ \A i \in DOMAIN d.content : HasEnded(d.events, i)
    <3>1. f.stop \in Reasons \ {"Error"} /\ \A i \in 1 .. Len(s) : ~s[i].open
        BY <1>1, <2>2 DEF Complete
    <3>2. f.hello
        BY <1>1, <3>1
    <3>3. f.last
        BY <1>1, <1>3, <3>2
    <3>4. \A i \in DOMAIN d.content : HasEnded(d.events, i)
        BY <1>1, <3>1, KeyedEnds
    <3> QED BY <3>1, <3>3, <3>4
  <2>3. EventsSay(d)
      BY <1>1, NestedSays
  <2> QED BY <2>1, <2>2, <2>3 DEF Settles
<1> QED BY <1>2, <1>3

LEMMA ResponsesSettles ==
    ASSUME NEW p \in {"responses", "azure", "codex"}, NEW d, ~d.failed, NEW s, NEW f, Reading(p, d, s, f)
    PROVE  Settles(p, ResponsesOver(d), s, f)
<1>1. Complete(d, s, f) /\ Keyed(d, s) /\ Nested(d)
    BY DEF Reading, Slotted, Keyed
<1>2. ResponsesOver(d) \in {d, Fail(d)}
    BY DEF ResponsesOver
<1>3. Settles(p, d, s, f) /\ Settles(p, Fail(d), s, f)
    BY <1>1, KeyedSettles, FailSettles
<1> QED BY <1>2, <1>3

\* All the blocks end with the answer.
LEMMA ClosedSettles ==
    ASSUME NEW p, p # "anthropic", NEW d, NEW s, NEW f, Complete(d, s, f), NEW e, Nested(e),
           e.failed = d.failed, p # "compat" => e.stop = d.stop,
           \A i \in 1 .. Len(e.content) : ~Live(e, i)
    PROVE  Settles(p, e, s, f)
<1>1. EventsSay(e) /\ DOMAIN e.content = 1 .. Len(e.content)
    BY NestedSays, NestedFacts
<1>2. \A i \in DOMAIN e.content : HasEnded(e.events, i)
    BY <1>1 DEF Live
<1>3. ASSUME Accepts(e), p # "compat"
      PROVE  f.stop \in Reasons \ {"Error"} /\ \A i \in 1 .. Len(s) : ~s[i].open
    BY <1>3 DEF Complete, Accepts
<1> QED BY <1>1, <1>2, <1>3 DEF Settles

LEMMA CompletionsSettles ==
    ASSUME NEW p \in {"completions", "compat"}, NEW d, ~d.failed, NEW s, NEW f, Reading(p, d, s, f)
    PROVE  Settles(p, CompletionsOver(d, p = "compat"), s, f)
<1> DEFINE e == ClosedAll(d, DOMAIN d.content)
           why == StopFor(e, "Stop")
           h == [e EXCEPT !.stop = why]
           o == CompletionsOver(d, p = "compat")
<1>1. Complete(d, s, f) /\ AllLive(d)
    BY DEF Reading
<1>2. Goes(d, e) /\ \A i \in 1 .. Len(e.content) : ~Live(e, i)
    BY <1>1, AllClosed
<1>3. o = e \/ (p = "compat" /\ o = h)
    BY DEF CompletionsOver
<1>4. why \in Stops
    BY StopForOf DEF Stops
<1> HIDE DEF e, why, o
<1>5. Nested(e) /\ e \in Decoder /\ e.stop = d.stop /\ e.failed = d.failed
    BY <1>2, NestedFacts DEF Goes
<1>6. Settles(p, e, s, f)
    BY <1>1, <1>2, <1>5, ClosedSettles
<1>7. p = "compat" => Settles(p, h, s, f)
  <2>1. /\ h \in Decoder /\ h.failed = e.failed /\ h.content = e.content
        /\ h.scratch = e.scratch /\ h.events = e.events
      BY <1>4, <1>5, StopShape
  <2> HIDE DEF h
  <2>2. Nested(h) /\ \A i \in 1 .. Len(h.content) : ~Live(h, i)
      BY <1>2, <1>5, <2>1, SameEvents
  <2> QED BY <1>1, <1>5, <2>1, <2>2, ClosedSettles
<1> QED BY <1>3, <1>6, <1>7 DEF o

LEMMA MistralSettles ==
    ASSUME NEW d, ~d.failed, NEW s, NEW f, Reading("mistral", d, s, f)
    PROVE  Settles("mistral", MistralOver(d), s, f)
<1> DEFINE e == MistralOver(d)
<1>1. Complete(d, s, f) /\ Current(d)
    BY DEF Reading
<1>2. Goes(d, e) /\ \A i \in 1 .. Len(e.content) : ~Live(e, i)
    BY <1>1, MistralEnds
<1> HIDE DEF e
<1>3. Settles("mistral", e, s, f)
    BY <1>1, <1>2, ClosedSettles DEF Goes
<1> QED BY <1>3 DEF e

LEMMA GoogleSettles ==
    ASSUME NEW p \in {"google", "vertex"}, NEW d, ~d.failed, NEW s, NEW f, Reading(p, d, s, f)
    PROVE  Settles(p, GoogleOver(d), s, f)
<1> DEFINE e == GoogleOver(d)
<1>1. Complete(d, s, f) /\ Shaped(d) /\ p \in Unnamed
    BY DEF Reading, Unnamed
<1>2. Silently(d, e)
    BY <1>1, GoogleFinishSilent DEF GoogleOver
<1> HIDE DEF e
<1>3. Settles(p, e, s, f)
    BY <1>1, <1>2 DEF Settles, Silently, Complete, Accepts
<1> QED BY <1>3 DEF e

LEMMA BedrockSettles ==
    ASSUME NEW d, NEW s, NEW f, Reading("bedrock", d, s, f)
    PROVE  Settles("bedrock", d, s, f)
<1>1. CASE d.failed
    BY <1>1, FailedSettles DEF Reading
<1>2. CASE ~d.failed
  <2>1. Complete(d, s, f) /\ Keyed(d, s)
      BY <1>2 DEF Reading
  <2> QED BY <2>1, KeyedSettles
<1> QED BY <1>1, <1>2

LEMMA PiSettles ==
    ASSUME NEW d, ~d.failed, NEW s, NEW f, Reading("pi", d, s, f)
    PROVE  Settles("pi", IF d.stop = "Pending" THEN PiUnfinished(d) ELSE d, s, f)
<1>1. Complete(d, s, f) /\ Keyed(d, s) /\ Nested(d) /\ d \in Decoder
    BY NestedFacts DEF Reading, Placed, Keyed
<1>2. Settles("pi", d, s, f)
    BY <1>1, KeyedSettles
<1>3. Settles("pi", PiUnfinished(d), s, f)
  <2> DEFINE e == PiUnfinished(d)
  <2>1. e.failed /\ e.content = <<>> /\ e.events = d.events
      BY <1>1 DEF PiUnfinished, Fail, Decoder
  <2> HIDE DEF e
  <2>2. EventsSay(e)
      BY <1>1, <2>1 DEF EventsSay, Nested
  <2>3. Settles("pi", e, s, f)
      BY <2>1, <2>2 DEF Settles, Accepts
  <2> QED BY <2>3 DEF e
<1> QED BY <1>2, <1>3

-----------------------------------------------------------------------------
(**************************** The driven items *****************************)

\* One thing a provider sends.
Items == [type : {"hello", "begin", "delta", "end", "whole", "stop", "over", "error"}, index : Nat,
          kind : BlockKinds \cup {"other", "message"} \cup Reasons, text : Deltas]

\* g holds the records on the way, when the items are driven up to the m-th.
Drives(items, m, g) ==
    g = [n \in 0 .. m |-> IF n = 0 THEN BedrockOpen ELSE BedrockEvent(g[n - 1], items[n])]

Driven(items, e) == \E g : Drives(items, Len(items), g) /\ e = g[Len(items)]

LEMMA DrivesStep ==
    ASSUME NEW items, NEW m \in Nat, NEW g, Drives(items, m, g)
    PROVE  /\ g[0] = BedrockOpen
           /\ \A n \in 1 .. m : g[n] = BedrockEvent(g[n - 1], items[n])
<1>1. 0 \in 0 .. m /\ \A n \in 1 .. m : n \in 0 .. m /\ n # 0
    OBVIOUS
<1>2. \A n \in 0 .. m : g[n] = IF n = 0 THEN BedrockOpen ELSE BedrockEvent(g[n - 1], items[n])
    BY DEF Drives
<1> QED BY <1>1, <1>2

LEMMA DrivesExist ==
    ASSUME NEW items, NEW m \in Nat
    PROVE  \E g : Drives(items, m, g)
<1> DEFINE N == {k \in Nat : \E g : Drives(items, k, g)}
<1>1. 0 \in N
  <2> DEFINE g == [i \in 0 .. 0 |-> BedrockOpen]
  <2>1. \A i \in 0 .. 0 : i = 0
      OBVIOUS
  <2>2. Drives(items, 0, g)
      BY <2>1 DEF Drives
  <2> HIDE DEF g
  <2> QED BY <2>2
<1>2. ASSUME NEW k \in Nat, k \in N PROVE k + 1 \in N
  <2>1. PICK g : Drives(items, k, g)
      BY <1>2
  <2> DEFINE last == BedrockEvent(g[k], items[k + 1])
             h == [i \in 0 .. k + 1 |-> IF i = k + 1 THEN last ELSE g[i]]
  <2>2. g[0] = BedrockOpen /\ \A i \in 1 .. k : g[i] = BedrockEvent(g[i - 1], items[i])
      BY <2>1, DrivesStep
  <2> HIDE DEF last
  <2>3. \A i \in 0 .. k : h[i] = g[i]
      OBVIOUS
  <2>4. h[k + 1] = last
      OBVIOUS
  <2>5. h = [i \in 0 .. k + 1 |-> h[i]]
      OBVIOUS
  <2> HIDE DEF h
  <2>6. ASSUME NEW i \in 0 .. k + 1
        PROVE  h[i] = IF i = 0 THEN BedrockOpen ELSE BedrockEvent(h[i - 1], items[i])
    <3>1. CASE i = 0
        BY <3>1, <2>2, <2>3
    <3>2. CASE i = k + 1
      <4>1. i - 1 = k /\ k \in 0 .. k /\ i # 0
          BY <3>2
      <4>2. h[i - 1] = g[k]
          BY <4>1, <2>3
      <4> QED BY <4>1, <4>2, <3>2, <2>4 DEF last
    <3>3. CASE i \in 1 .. k
      <4>1. i \in 0 .. k /\ i - 1 \in 0 .. k /\ i # 0
          BY <3>3
      <4>2. h[i] = g[i] /\ h[i - 1] = g[i - 1]
          BY <4>1, <2>3
      <4> QED BY <4>1, <4>2, <3>3, <2>2
    <3> QED BY <3>1, <3>2, <3>3
  <2>7. Drives(items, k + 1, h)
      BY <2>5, <2>6 DEF Drives
  <2> QED BY <2>7
<1>3. Nat \subseteq N
  <2> HIDE DEF N
  <2> QED BY <1>1, <1>2, EveryNumber
<1> QED BY <1>3

\* What drive_items makes of them is one of these.
LEMMA DriveFound ==
    ASSUME NEW items \in Seq(Items)
    PROVE  Driven(items, DriveItems(items))
<1> DEFINE m == Len(items)
           f == CHOOSE g : Drives(items, m, g)
<1>1. m \in Nat
    OBVIOUS
<1>2. DriveItems(items) = f[m]
    BY DEF DriveItems, Drives
<1>3. Drives(items, m, f)
    BY <1>1, DrivesExist
<1> HIDE DEF f
<1> QED BY <1>2, <1>3 DEF Driven

\* One more item.
LEMMA DrivenOne ==
    ASSUME NEW items \in Seq(Items), NEW w \in Items, NEW e, Driven(Append(items, w), e)
    PROVE  \E d : Driven(items, d) /\ e = BedrockEvent(d, w)
<1> DEFINE m    == Len(items)
           more == Append(items, w)
<1>1. m \in Nat /\ Len(more) = m + 1 /\ more[m + 1] = w /\ \A n \in 1 .. m : more[n] = items[n]
    OBVIOUS
<1>2. PICK g : Drives(more, Len(more), g) /\ e = g[Len(more)]
    BY DEF Driven
<1> HIDE DEF more
<1>3. g[0] = BedrockOpen /\ \A n \in 1 .. m + 1 : g[n] = BedrockEvent(g[n - 1], more[n])
    BY <1>1, <1>2, DrivesStep
<1> DEFINE h == [n \in 0 .. m |-> g[n]]
<1>4. \A n \in 0 .. m : h[n] = g[n]
    OBVIOUS
<1>5. h = [n \in 0 .. m |-> h[n]]
    OBVIOUS
<1> HIDE DEF h
<1>6. ASSUME NEW n \in 0 .. m
      PROVE  h[n] = IF n = 0 THEN BedrockOpen ELSE BedrockEvent(h[n - 1], items[n])
  <2>1. CASE n = 0
      BY <2>1, <1>3, <1>4
  <2>2. CASE n # 0
    <3>1. n \in 1 .. m /\ n \in 1 .. m + 1 /\ n - 1 \in 0 .. m
        BY <1>1, <2>2
    <3> QED BY <1>1, <1>3, <1>4, <2>2, <3>1
  <2> QED BY <2>1, <2>2
<1>7. Drives(items, m, h)
    BY <1>5, <1>6 DEF Drives
<1>8. Driven(items, h[m])
    BY <1>7 DEF Driven
<1>9. e = BedrockEvent(h[m], w)
  <2>1. m + 1 \in 1 .. m + 1 /\ m \in 0 .. m /\ (m + 1) - 1 = m
      BY <1>1
  <2> QED BY <1>1, <1>2, <1>3, <1>4, <2>1
<1> QED BY <1>8, <1>9

\* No item.
LEMMA DrivenNone ==
    ASSUME NEW e, Driven(<<>>, e)
    PROVE  e = BedrockOpen
<1>1. Len(<<>>) = 0 /\ 0 \in Nat
    OBVIOUS
<1>2. PICK g : Drives(<<>>, Len(<<>>), g) /\ e = g[Len(<<>>)]
    BY DEF Driven
<1>3. Drives(<<>>, 0, g) /\ e = g[0]
    BY <1>1, <1>2
<1> QED BY <1>1, <1>3, DrivesStep

-----------------------------------------------------------------------------
(************************** Where a stream starts **************************)

Unsent == [hello |-> FALSE, stop |-> "none", last |-> FALSE, deltas |-> 0]

LEMMA SilentKeyed ==
    ASSUME NEW sc \in Scratch, sc.keys = <<>>
    PROVE  LET d == Silent(sc) IN
           /\ Keyed(d, <<>>) /\ Nested(d) /\ d \in Decoder /\ d.events = <<>> /\ d.content = <<>>
           /\ d.scratch = sc /\ ~d.failed /\ d.stop = "Pending"
<1> DEFINE d == Silent(sc)
<1>1. /\ d \in Decoder /\ d.events = <<>> /\ d.content = <<>> /\ d.scratch = sc /\ ~d.failed
      /\ d.stop = "Pending"
    BY DEF Silent, Decoder, Stops
<1> HIDE DEF d
<1>2. Nested(d)
    BY <1>1 DEF Nested
<1>3. Keyed(d, <<>>)
    BY <1>1, <1>2 DEF Keyed
<1> QED BY <1>1, <1>2, <1>3 DEF d

LEMMA AcceptedKeyed ==
    ASSUME NEW sc \in Scratch, sc.keys = <<>>
    PROVE  LET d == Accepted(sc) IN
           /\ Keyed(d, <<>>) /\ Nested(d) /\ d.events # <<>> /\ d.content = <<>>
           /\ d.scratch = sc /\ ~d.failed /\ d.stop = "Pending" /\ Shaped(d)
<1> DEFINE a == Silent(sc)
           d == PushStart(a)
<1>1. /\ Keyed(a, <<>>) /\ a.events = <<>> /\ ~a.failed /\ a.stop = "Pending" /\ a \in Decoder
      /\ a.scratch = sc /\ Shaped(a)
    BY SilentKeyed DEF Shaped, Silent
<1>2. Accepted(sc) = d
    BY DEF Accepted
<1> HIDE DEF a
<1>3. Keyed(d, <<>>) /\ d.events # <<>> /\ d.content = <<>> /\ d.stop = a.stop /\ d.failed = a.failed
    BY <1>1, KeyedStart
<1>4. d.scratch = a.scratch
    BY <1>1 DEF PushStart, Push, Decoder
<1>5. Shaped(d)
    BY <1>1, PushSilent DEF PushStart, Silently
<1> HIDE DEF d
<1>6. Nested(d)
    BY <1>3 DEF Keyed
<1> QED BY <1>1, <1>2, <1>3, <1>4, <1>5, <1>6

\* Before its first item, each protocol reads.
LEMMA OpeningReads ==
    ASSUME protocol \in Names, "none" \notin Reasons, protocol # "bedrock"
    PROVE  Reading(protocol, Opening, <<>>, Unsent) /\ ~Opening.failed
<1>1. ASSUME NEW d, ~d.failed, d.stop = "Pending"
      PROVE  Complete(d, <<>>, Unsent) /\ (~Unsent.hello => Unsent.stop = "none" /\ ~Unsent.last)
             /\ ~Unsent.hello
    BY <1>1 DEF Complete, Accepts, Unsent
<1>2. CASE protocol = "anthropic"
  <2> DEFINE sc == [keys |-> <<>>, sawStart |-> FALSE, sawStop |-> FALSE]
             d  == Accepted(sc)
  <2>1. Opening = d
      BY <1>2 DEF Opening, AnthropicOpen
  <2>2. sc \in Scratch /\ sc.keys = <<>> /\ sc \in Flags /\ ~sc.sawStart /\ ~sc.sawStop
      BY DEF Scratch, Flags
  <2>3. sc.sawStart = Unsent.hello /\ sc.sawStop = Unsent.last
      BY DEF Unsent
  <2> HIDE DEF sc
  <2>4. Keyed(d, <<>>) /\ d.events # <<>> /\ d.scratch = sc /\ ~d.failed /\ d.stop = "Pending"
      BY <2>2, AcceptedKeyed
  <2> HIDE DEF d
  <2> QED BY <1>1, <1>2, <2>1, <2>2, <2>3, <2>4 DEF Reading, Unnamed
<1>3. CASE protocol \in {"completions", "compat"}
  <2> DEFINE sc == [keys |-> <<>>, finished |-> FALSE]
             d  == Accepted(sc)
  <2>1. Opening = d
      BY <1>3 DEF Opening, CompletionsOpen
  <2>2. sc \in Scratch /\ sc.keys = <<>>
      BY DEF Scratch
  <2> HIDE DEF sc
  <2>3. Nested(d) /\ d.events # <<>> /\ d.content = <<>> /\ ~d.failed /\ d.stop = "Pending"
      BY <2>2, AcceptedKeyed
  <2> HIDE DEF d
  <2>4. AllLive(d)
      BY <2>3 DEF AllLive
  <2> QED BY <1>1, <1>3, <2>1, <2>3, <2>4 DEF Reading, Unnamed, Slotted
<1>4. CASE protocol \in {"responses", "azure", "codex"}
  <2> DEFINE sc == [keys |-> <<>>, terminal |-> FALSE]
             d  == Accepted(sc)
  <2>1. Opening = d
      BY <1>4 DEF Opening, ResponsesOpen, AzureOpen, CodexOpen
  <2>2. sc \in Scratch /\ sc.keys = <<>>
      BY DEF Scratch
  <2> HIDE DEF sc
  <2>3. Keyed(d, <<>>) /\ d.events # <<>> /\ ~d.failed /\ d.stop = "Pending"
      BY <2>2, AcceptedKeyed
  <2> HIDE DEF d
  <2> QED BY <1>1, <1>4, <2>1, <2>3 DEF Reading, Unnamed
<1>5. CASE protocol = "mistral"
  <2> DEFINE sc == [keys |-> <<>>, current |-> "none", copy |-> <<>>]
             d  == Accepted(sc)
  <2>1. Opening = d
      BY <1>5 DEF Opening, MistralOpen
  <2>2. sc \in Scratch /\ sc \in WithCurrent /\ sc.keys = <<>> /\ sc.current = "none"
      BY DEF Scratch, WithCurrent, Currents, Deltas
  <2> HIDE DEF sc
  <2>3. Nested(d) /\ d.events # <<>> /\ d.content = <<>> /\ d.scratch = sc /\ ~d.failed /\ d.stop = "Pending"
      BY <2>2, AcceptedKeyed
  <2> HIDE DEF d
  <2>4. Current(d)
      BY <2>2, <2>3 DEF Current
  <2> QED BY <1>1, <1>5, <2>1, <2>3, <2>4 DEF Reading, Unnamed, Slotted
<1>6. CASE protocol \in {"google", "vertex"}
  <2> DEFINE sc == [keys |-> <<>>, current |-> "none", copy |-> <<>>]
             d  == Accepted(sc)
  <2>1. Opening = d
      BY <1>6 DEF Opening, GoogleOpen, VertexOpen
  <2>2. sc \in Scratch /\ sc.keys = <<>>
      BY DEF Scratch, Currents, Deltas
  <2> HIDE DEF sc
  <2>3. Shaped(d) /\ ~d.failed /\ d.stop = "Pending"
      BY <2>2, AcceptedKeyed
  <2> HIDE DEF d
  <2> QED BY <1>1, <1>6, <2>1, <2>3 DEF Reading, Slotted
<1>7. CASE protocol = "pi"
  <2> DEFINE sc == [keys |-> <<>>]
             d  == Silent(sc)
  <2>1. Opening = d
      BY <1>7 DEF Opening, PiOpen
  <2>2. sc \in Scratch /\ sc.keys = <<>>
      BY DEF Scratch
  <2> HIDE DEF sc
  <2>3. Keyed(d, <<>>) /\ d.events = <<>> /\ d.content = <<>> /\ ~d.failed /\ d.stop = "Pending"
      BY <2>2, SilentKeyed
  <2> HIDE DEF d
  <2>4. Placed(d, <<>>)
      BY <2>3 DEF Placed
  <2> QED BY <1>1, <1>7, <2>1, <2>3, <2>4 DEF Reading, Unnamed, Slotted
<1> QED BY <1>2, <1>3, <1>4, <1>5, <1>6, <1>7 DEF Names

LEMMA BedrockOpenReads ==
    Reading("bedrock", BedrockOpen, <<>>, Unsent) /\ Nested(BedrockOpen) /\ ~BedrockOpen.failed
<1> DEFINE sc == [keys |-> <<>>]
           d  == Silent(sc)
<1>1. BedrockOpen = d
    BY DEF BedrockOpen
<1>2. sc \in Scratch /\ sc.keys = <<>>
    BY DEF Scratch
<1> HIDE DEF sc
<1>3. Keyed(d, <<>>) /\ Nested(d) /\ d.events = <<>> /\ ~d.failed /\ d.stop = "Pending"
    BY <1>2, SilentKeyed
<1> HIDE DEF d
<1> QED BY <1>1, <1>3 DEF Reading, Unnamed, Slotted, Complete, Accepts, Unsent

-----------------------------------------------------------------------------
(**************************** One request, step by step ********************)

\* The decoder of the protocol, whichever it is.
LEMMA DecodedReads ==
    ASSUME "none" \notin Reasons, protocol \in Names, protocol # "bedrock", NEW s \in Seq(Spoken),
           NEW t \in Seq(Spoken), NEW f \in Framing, NEW g \in Framing, NEW w,
           Sends(protocol, s, w, t, f, g), ~message.failed, Reading(protocol, message, s, f)
    PROVE  Reading(protocol, Decoded(w), t, g)
<1>1. CASE protocol = "anthropic"
  <2>1. Decoded(w) = AnthropicEvent(message, w)
      BY <1>1 DEF Decoded
  <2> QED BY <1>1, <2>1, AnthropicReads
<1>2. CASE protocol \in {"completions", "compat"}
  <2>1. Decoded(w) = CompletionsEvent(message, w)
      BY <1>2 DEF Decoded
  <2> QED BY <1>2, <2>1, CompletionsReads
<1>3. CASE protocol \in {"responses", "azure", "codex"}
  <2>1. Decoded(w) \in {ResponsesEvent(message, w), CodexEvent(message, w)}
      BY <1>3 DEF Decoded
  <2>2. Reading(protocol, ResponsesEvent(message, w), t, g) /\ Reading(protocol, CodexEvent(message, w), t, g)
      BY <1>3, SharedReads
  <2> QED BY <2>1, <2>2
<1>4. CASE protocol = "mistral"
  <2>1. Decoded(w) = MistralEvent(message, w)
      BY <1>4 DEF Decoded
  <2> QED BY <1>4, <2>1, MistralReads
<1>5. CASE protocol \in {"google", "vertex"}
  <2>1. Decoded(w) \in {GoogleEvent(message, w), VertexEvent(message, w)}
      BY <1>5 DEF Decoded
  <2>2. Reading(protocol, GoogleEvent(message, w), t, g) /\ Reading(protocol, VertexEvent(message, w), t, g)
      BY <1>5, GoogleReads
  <2> QED BY <2>1, <2>2
<1>6. CASE protocol = "pi"
  <2>1. Decoded(w) = PiEvent(message, w)
      BY <1>6 DEF Decoded
  <2> QED BY <1>6, <2>1, PiReads
<1> QED BY <1>1, <1>2, <1>3, <1>4, <1>5, <1>6 DEF Names

\* The end of the body.
LEMMA OverSettles ==
    ASSUME "none" \notin Reasons, protocol \in Names, protocol # "bedrock", NEW s, NEW f \in Framing,
           NEW d, ~d.failed, Reading(protocol, d, s, f), NEW items
    PROVE  Settles(protocol, Over(d, items), s, f)
<1>1. CASE protocol = "anthropic"
  <2>1. Over(d, items) = AnthropicOver(d)
      BY <1>1 DEF Over
  <2> QED BY <1>1, <2>1, AnthropicSettles
<1>2. CASE protocol \in {"completions", "compat"}
  <2>1. Over(d, items) = CompletionsOver(d, protocol = "compat")
    <3>1. CASE protocol = "compat"
      <4>1. (protocol = "compat") = TRUE
          BY <3>1
      <4>2. Over(d, items) = CompletionsOver(d, TRUE)
          BY <3>1 DEF Over
      <4> QED BY <4>1, <4>2
    <3>2. CASE protocol = "completions"
      <4>1. (protocol = "compat") = FALSE
          BY <3>2
      <4>2. Over(d, items) = CompletionsOver(d, FALSE)
          BY <3>2 DEF Over
      <4> QED BY <4>1, <4>2
    <3> QED BY <1>2, <3>1, <3>2
  <2>2. Settles(protocol, CompletionsOver(d, protocol = "compat"), s, f)
      BY <1>2, CompletionsSettles
  <2> QED BY <2>1, <2>2
<1>3. CASE protocol \in {"responses", "azure", "codex"}
  <2>1. Over(d, items) = ResponsesOver(d)
      BY <1>3 DEF Over, AzureOver, CodexOver
  <2> QED BY <1>3, <2>1, ResponsesSettles
<1>4. CASE protocol = "mistral"
  <2>1. Over(d, items) = MistralOver(d)
      BY <1>4 DEF Over
  <2> QED BY <1>4, <2>1, MistralSettles
<1>5. CASE protocol \in {"google", "vertex"}
  <2>1. Over(d, items) = GoogleOver(d)
      BY <1>5 DEF Over, VertexOver
  <2> QED BY <1>5, <2>1, GoogleSettles
<1>6. CASE protocol = "pi"
  <2>1. Over(d, items) = IF d.stop = "Pending" THEN PiUnfinished(d) ELSE d
      BY <1>6 DEF Over
  <2> QED BY <1>6, <2>1, PiSettles
<1> QED BY <1>1, <1>2, <1>3, <1>4, <1>5, <1>6 DEF Names

\* What the stream has settled on.
Ended ==
    /\ protocol \notin Unnamed => EventsSay(message)
    /\ ending = "done" =>
          /\ protocol # "compat" => framing.stop \in Reasons \ {"Error"} /\ \A i \in 1 .. Len(said) : ~said[i].open
          /\ protocol = "anthropic" => framing.last
          /\ protocol \notin Unnamed => \A i \in DOMAIN message.content : HasEnded(message.events, i)

\* Where the stream reads, the message says what the provider did, as far as it goes.
ReadsOn ==
    /\ ~message.failed
    /\ protocol # "bedrock" => Reading(protocol, message, said, framing)
    /\ protocol = "bedrock" => message = BedrockOpen /\ \A e : Driven(body, e) => Reading("bedrock", e, said, framing)
    /\ protocol = "pi" => framing.stop = "none"

\* The inductive invariant of one request.
StreamInv ==
    /\ protocol \in Names
    /\ phase \in {"request", "backoff", "reading", "settled"}
    /\ ending \in {"none", "done", "error", "aborted"}
    /\ said \in Seq(Spoken) /\ framing \in Framing /\ body \in Seq(Items)
    /\ protocol \in Slotted \cup {"bedrock"} \/ \A i \in 1 .. Len(said) : said[i].kind \in BlockKinds
    /\ framing.stop # "none" => framing.hello
    /\ phase \in {"request", "backoff"} =>
          message = Silent([keys |-> <<>>]) /\ body = <<>> /\ said = <<>> /\ framing = Unsent
    /\ phase = "reading" => ReadsOn
    /\ phase # "settled" => ending = "none"
    /\ phase = "settled" => Ended

\* A message that settles, when the last item is decoded.
LEMMA SettleKeeps ==
    ASSUME NEW e, Settle(e), Settles(protocol, e, said', framing'), protocol' = protocol
    PROVE  phase' = "settled" /\ ending' \in {"done", "error", "aborted"} /\ Ended'
<1>1. phase' = "settled" /\ message' = e /\ ending' \in {"done", "error", "aborted"}
    BY DEF Settle
<1>2. ending' = "done" => ~Refused(e, cancelled /\ protocol # "pi")
    BY DEF Settle
<1>3. ending' = "done" => Accepts(e)
    BY <1>2 DEF Refused, Accepts
<1> HIDE DEF Settle
<1>4. Ended'
    BY <1>1, <1>3 DEF Settles, Ended
<1> QED BY <1>1, <1>4

\* An item arrives.
LEMMA ArriveKeeps ==
    ASSUME "none" \notin Reasons, StreamInv, phase = "reading", NEW w \in Items, Arrive(w),
           said' \in Seq(Spoken), framing' \in Framing,
           protocol \in Slotted \cup {"bedrock"} \/ \A i \in 1 .. Len(said') : said'[i].kind \in BlockKinds,
           Sends(protocol, said, w, said', framing, framing')
    PROVE  StreamInv'
<1> DEFINE e == Decoded(w)
<1>1. /\ protocol \in Names /\ protocol' = protocol /\ said \in Seq(Spoken) /\ framing \in Framing
      /\ body \in Seq(Items) /\ ReadsOn /\ ending = "none"
    BY DEF StreamInv, Arrive
<1>2. body' \in Seq(Items)
    BY <1>1 DEF Arrive
<1>0. framing'.hello
    BY SendsParts
<1>3. IF e.failed \/ LastItem(w) THEN Settle(IF e.failed THEN e ELSE Over(e, body))
                                 ELSE message' = e /\ phase' = phase /\ ending' = ending
    BY DEF Arrive
<1>4. protocol # "bedrock" => Reading(protocol, e, said', framing')
  <2> HIDE DEF e
  <2>1. ASSUME protocol # "bedrock"
        PROVE  ~message.failed /\ Reading(protocol, message, said, framing)
      BY <1>1, <2>1 DEF ReadsOn
  <2> QED BY <1>1, <2>1, DecodedReads DEF e
<1>5. protocol = "bedrock" => e = BedrockOpen /\ ~e.failed /\ ~LastItem(w)
    BY <1>1 DEF ReadsOn, Decoded, LastItem
<1> HIDE DEF e
<1>6. CASE e.failed \/ LastItem(w)
  <2>1. protocol # "bedrock"
      BY <1>5, <1>6
  <2>2. Settles(protocol, IF e.failed THEN e ELSE Over(e, body), said', framing')
    <3>1. CASE e.failed
      <4>1. protocol \notin Unnamed => Nested(e)
          BY <1>4, <2>1, <3>1 DEF Reading
      <4> QED BY <3>1, <4>1, FailedSettles
    <3>2. CASE ~e.failed
      <4>1. Settles(protocol, Over(e, body), said', framing')
          BY <1>1, <1>4, <2>1, <3>2, OverSettles
      <4> QED BY <3>2, <4>1
    <3> QED BY <3>1, <3>2
  <2>3. Settle(IF e.failed THEN e ELSE Over(e, body))
      BY <1>3, <1>6
  <2>4. phase' = "settled" /\ ending' \in {"done", "error", "aborted"} /\ Ended'
      BY <1>1, <2>2, <2>3, SettleKeeps
  <2> QED BY <1>0, <1>1, <1>2, <2>4 DEF StreamInv
<1>7. CASE ~(e.failed \/ LastItem(w))
  <2>1. message' = e /\ phase' = "reading" /\ ending' = "none"
      BY <1>1, <1>3, <1>7
  <2>2. ReadsOn'
    <3>1. ~message'.failed
        BY <1>7, <2>1
    <3>2. protocol' # "bedrock" => Reading(protocol', message', said', framing')
        BY <1>1, <1>4, <2>1
    <3>3. ASSUME protocol' = "bedrock"
          PROVE  message' = BedrockOpen /\ \A h : Driven(body', h) => Reading("bedrock", h, said', framing')
      <4>1. body' = Append(body, w) /\ protocol = "bedrock" /\ message' = BedrockOpen
          BY <1>1, <1>5, <2>1, <3>3 DEF Arrive
      <4>2. ASSUME NEW h, Driven(Append(body, w), h)
            PROVE  Reading("bedrock", h, said', framing')
        <5>1. PICK d : Driven(body, d) /\ h = BedrockEvent(d, w)
            BY <1>1, <4>2, DrivenOne
        <5>2. Reading("bedrock", d, said, framing)
            BY <1>1, <4>1, <5>1 DEF ReadsOn
        <5>3. Sends("bedrock", said, w, said', framing, framing')
            BY <4>1
        <5> QED BY <1>1, <5>1, <5>2, <5>3, BedrockReads
      <4> QED BY <4>1, <4>2
    <3>4. ASSUME protocol' = "pi"
          PROVE  framing'.stop = "none"
      <4>1. protocol = "pi" /\ framing.stop = "none"
          BY <1>1, <3>4 DEF ReadsOn
      <4>2. w.type \notin {"stop", "error"}
          BY <1>7, <4>1 DEF LastItem
      <4> QED BY <4>1, <4>2, SendsParts
    <3> QED BY <3>1, <3>2, <3>3, <3>4 DEF ReadsOn
  <2> QED BY <1>0, <1>1, <1>2, <2>1, <2>2 DEF StreamInv
<1> QED BY <1>6, <1>7

\* What the steps of the provider have in common.
LEMMA StreamFacts ==
    ASSUME StreamInv
    PROVE  /\ protocol \in Names /\ said \in Seq(Spoken) /\ framing \in Framing /\ body \in Seq(Items)
           /\ Len(said) \in Nat /\ DOMAIN said = 1 .. Len(said)
           /\ framing.hello \in BOOLEAN /\ framing.last \in BOOLEAN /\ framing.deltas \in Nat
           /\ framing.stop \in Reasons \cup {"none", "Error"}
           /\ \A i \in 1 .. Len(said) : said[i] \in Spoken
BY DEF StreamInv, Framing

\* The provider sends one more delta.
LEMMA OneMoreDelta ==
    ASSUME NEW f \in Framing
    PROVE  LET g == [f EXCEPT !.deltas = @ + 1] IN
           /\ g \in Framing /\ g.hello = f.hello /\ g.stop = f.stop /\ g.last = f.last /\ g.deltas \in Nat
<1> DEFINE n == f.deltas + 1
           g == [f EXCEPT !.deltas = n]
<1>1. n \in Nat
    BY DEF Framing
<1> HIDE DEF n
<1>2. g \in Framing /\ g.hello = f.hello /\ g.stop = f.stop /\ g.last = f.last /\ g.deltas = n
    BY <1>1 DEF Framing
<1> QED BY <1>1, <1>2 DEF n

LEMMA SpokenOf ==
    ASSUME NEW x \in Spoken, NEW y
    PROVE  /\ [x EXCEPT !.text = y] = [kind |-> x.kind, text |-> y, open |-> x.open]
           /\ [x EXCEPT !.open = y] = [kind |-> x.kind, text |-> x.text, open |-> y]
BY DEF Spoken

LEMMA KindsFacts ==
    ASSUME protocol \in Names, NEW kind \in KindsOf
    PROVE  /\ kind \in BlockKinds \cup {"other"}
           /\ protocol \in Slotted \cup {"bedrock"} \/ kind \in BlockKinds
BY DEF KindsOf, Indexed, BlockKinds, Slotted, Names

LEMMA HelloKeeps ==
    ASSUME "none" \notin Reasons, StreamInv, Hello
    PROVE  StreamInv'
<1> DEFINE w == Wire("hello", 0, "message", <<>>)
<1>1. /\ phase = "reading" /\ ~framing.hello /\ framing' = [framing EXCEPT !.hello = TRUE]
      /\ Arrive(w) /\ said' = said
    BY DEF Hello
<1>2. w \in Items /\ w.type = "hello"
  <2>1. <<>> \in Deltas /\ 0 \in Nat
      BY DEF Deltas
  <2> QED BY <2>1 DEF Wire, Items
<1>3. framing' \in Framing /\ framing'.hello /\ framing'.stop = framing.stop /\ framing'.last = framing.last
    BY <1>1 DEF StreamInv, Framing
<1> HIDE DEF w
<1>4. Sends(protocol, said, w, said', framing, framing')
    BY <1>1, <1>2, <1>3 DEF Sends
<1>5. /\ said' \in Seq(Spoken)
      /\ protocol \in Slotted \cup {"bedrock"} \/ \A i \in 1 .. Len(said') : said'[i].kind \in BlockKinds
    BY <1>1 DEF StreamInv
<1> QED BY <1>1, <1>2, <1>3, <1>4, <1>5, ArriveKeeps

\* A block goes on, or one more begins.
LEMMA BlockKeeps ==
    ASSUME "none" \notin Reasons, StreamInv, phase = "reading", framing.hello, framing.stop = "none",
           NEW w \in Items, Arrive(w), SendsBlock(protocol, said, w, said'),
           w.kind \in BlockKinds \/ protocol \in Slotted \cup {"bedrock"},
           said' \in Seq(Spoken),
           protocol \in Slotted \cup {"bedrock"} \/ \A i \in 1 .. Len(said') : said'[i].kind \in BlockKinds,
           framing' \in Framing, framing'.hello = framing.hello, framing'.stop = framing.stop,
           framing'.last = framing.last
    PROVE  StreamInv'
<1>1. Sends(protocol, said, w, said', framing, framing')
    BY DEF Sends
<1> QED BY <1>1, ArriveKeeps

\* One more block.
LEMMA OneMoreSaid ==
    ASSUME NEW s \in Seq(Spoken), NEW kind \in BlockKinds \cup {"other"}, NEW text \in Deltas, NEW open \in BOOLEAN
    PROVE  LET t == Append(s, [kind |-> kind, text |-> text, open |-> open]) IN
           /\ t \in Seq(Spoken) /\ Len(t) = Len(s) + 1
           /\ (kind \in BlockKinds /\ \A i \in 1 .. Len(s) : s[i].kind \in BlockKinds)
                 => \A i \in 1 .. Len(t) : t[i].kind \in BlockKinds
<1> DEFINE b == [kind |-> kind, text |-> text, open |-> open]
           t == Append(s, b)
<1>1. b \in Spoken /\ b.kind = kind
    BY DEF Spoken
<1> HIDE DEF b
<1>2. t \in Seq(Spoken) /\ Len(t) = Len(s) + 1 /\ Len(s) \in Nat
    BY <1>1
<1>3. t[Len(s) + 1] = b /\ \A i \in 1 .. Len(s) : t[i] = s[i]
    BY <1>1
<1> HIDE DEF t
<1>4. \A i \in 1 .. Len(t) : i \in 1 .. Len(s) \/ i = Len(s) + 1
    BY <1>2
<1> QED BY <1>1, <1>2, <1>3, <1>4 DEF t, b

LEMMA BeginKeeps ==
    ASSUME "none" \notin Reasons, StreamInv, NEW kind, Begin(kind)
    PROVE  StreamInv'
<1> DEFINE w == Wire("begin", Len(said) + 1, kind, <<>>)
<1>1. /\ phase = "reading" /\ framing.hello /\ framing.stop = "none"
      /\ kind \in KindsOf /\ (Announces \/ kind # "call")
      /\ said' = Append(said, [kind |-> kind, text |-> <<>>, open |-> TRUE])
      /\ Arrive(w) /\ framing' = framing
    BY DEF Begin, Speaking
<1>2. protocol \in Names /\ said \in Seq(Spoken) /\ framing \in Framing /\ Len(said) \in Nat
    BY StreamFacts
<1>3. kind \in BlockKinds \cup {"other"} /\ (protocol \in Slotted \cup {"bedrock"} \/ kind \in BlockKinds)
    BY <1>1, <1>2, KindsFacts
<1>4. <<>> \in Deltas /\ Len(said) + 1 \in Nat
    BY <1>2 DEF Deltas
<1>5. w \in Items /\ w.type = "begin" /\ w.index = Len(said) + 1 /\ w.kind = kind /\ w.text = <<>>
    BY <1>3, <1>4 DEF Wire, Items
<1> HIDE DEF w
<1>6. protocol \in Unnamed => kind # "call"
    BY <1>1 DEF Unnamed, Announces
<1>7. Begins(said, w, said')
    BY <1>1, <1>3, <1>5 DEF Begins
<1>8. SendsBlock(protocol, said, w, said')
    BY <1>5, <1>6, <1>7 DEF SendsBlock
<1>9. /\ said' \in Seq(Spoken)
      /\ (kind \in BlockKinds /\ \A i \in 1 .. Len(said) : said[i].kind \in BlockKinds)
            => \A i \in 1 .. Len(said') : said'[i].kind \in BlockKinds
    BY <1>1, <1>2, <1>3, <1>4, OneMoreSaid
<1>10. protocol \in Slotted \cup {"bedrock"} \/ \A i \in 1 .. Len(said') : said'[i].kind \in BlockKinds
    BY <1>3, <1>9 DEF StreamInv
<1> QED BY <1>1, <1>2, <1>3, <1>5, <1>8, <1>9, <1>10, BlockKeeps

\* A block of which the provider says more, or that it ends.
LEMMA OneChanged ==
    ASSUME NEW s \in Seq(Spoken), NEW i \in 1 .. Len(s), NEW text \in Deltas, NEW open \in BOOLEAN
    PROVE  LET t == [s EXCEPT ![i] = [kind |-> s[i].kind, text |-> text, open |-> open]] IN
           /\ t \in Seq(Spoken) /\ Len(t) = Len(s) /\ t[i].open = open
           /\ \A j \in 1 .. Len(s) : t[j].kind = s[j].kind /\ (j # i => t[j].open = s[j].open)
<1> DEFINE b == [kind |-> s[i].kind, text |-> text, open |-> open]
           t == [s EXCEPT ![i] = b]
<1>1. s[i] \in Spoken
    OBVIOUS
<1>2. b \in Spoken /\ b.kind = s[i].kind /\ b.open = open
    BY <1>1 DEF Spoken
<1> HIDE DEF b
<1>3. t \in Seq(Spoken) /\ Len(t) = Len(s) /\ t[i] = b /\ \A j \in 1 .. Len(s) : j # i => t[j] = s[j]
    BY <1>2
<1> HIDE DEF t
<1> QED BY <1>2, <1>3 DEF t, b

LEMMA DeltaKeeps ==
    ASSUME "none" \notin Reasons, StreamInv, NEW i, Delta(i)
    PROVE  StreamInv'
<1> DEFINE n == framing'.deltas
           w == Wire("delta", i, said[i].kind, <<n>>)
           text == Append(said[i].text, n)
           b == [kind |-> said[i].kind, text |-> text, open |-> said[i].open]
<1>1. /\ phase = "reading" /\ framing.hello /\ framing.stop = "none" /\ i \in DOMAIN said /\ said[i].open
      /\ framing' = [framing EXCEPT !.deltas = @ + 1]
      /\ said' = [said EXCEPT ![i].text = Append(@, framing'.deltas)]
      /\ Arrive(w)
    BY DEF Delta, Speaking, Open
<1>2. /\ protocol \in Names /\ said \in Seq(Spoken) /\ framing \in Framing /\ Len(said) \in Nat
      /\ i \in 1 .. Len(said) /\ said[i] \in Spoken /\ i \in Nat
    BY <1>1, StreamFacts
<1>3. /\ framing' \in Framing /\ framing'.hello = framing.hello /\ framing'.stop = framing.stop
      /\ framing'.last = framing.last /\ n \in Nat
    BY <1>1, <1>2, OneMoreDelta
<1> HIDE DEF n
<1>4. /\ said[i].kind \in BlockKinds \cup {"other"} /\ said[i].text \in Deltas /\ said[i].open \in BOOLEAN
      /\ <<n>> \in Deltas /\ text \in Deltas
    BY <1>2, <1>3 DEF Spoken, Deltas
<1>5. w \in Items /\ w.type = "delta" /\ w.index = i /\ w.kind = said[i].kind /\ w.text = <<n>>
    BY <1>2, <1>4 DEF Wire, Items
<1>6. said' = [said EXCEPT ![i] = b]
  <2>1. said' = [said EXCEPT ![i] = [said[i] EXCEPT !.text = text]]
      BY <1>1 DEF n
  <2>2. [said[i] EXCEPT !.text = text] = b
      BY <1>2, SpokenOf
  <2> QED BY <2>1, <2>2
<1> HIDE DEF w, text
<1>7. /\ said' \in Seq(Spoken) /\ Len(said') = Len(said) /\ said'[i].open = said[i].open
      /\ \A j \in 1 .. Len(said) : said'[j].kind = said[j].kind /\ (j # i => said'[j].open = said[j].open)
    BY <1>2, <1>4, <1>6, OneChanged
<1>8. Continues(said, said')
    BY <1>2, <1>7 DEF Continues
<1>9. SendsBlock(protocol, said, w, said')
    BY <1>1, <1>2, <1>4, <1>5, <1>7, <1>8 DEF SendsBlock, GoesOn
<1>10. protocol \in Slotted \cup {"bedrock"} \/ \A j \in 1 .. Len(said) : said[j].kind \in BlockKinds
    BY DEF StreamInv
<1> QED BY <1>1, <1>2, <1>3, <1>5, <1>7, <1>9, <1>10, BlockKeeps DEF w, n

LEMMA EndKeeps ==
    ASSUME "none" \notin Reasons, StreamInv, NEW i, End(i)
    PROVE  StreamInv'
<1> DEFINE w == Wire("end", i, said[i].kind, said[i].text)
           b == [kind |-> said[i].kind, text |-> said[i].text, open |-> FALSE]
<1>1. /\ phase = "reading" /\ framing.hello /\ framing.stop = "none" /\ i \in DOMAIN said /\ said[i].open
      /\ framing' = framing /\ said' = [said EXCEPT ![i].open = FALSE]
      /\ Arrive(w)
    BY DEF End, Speaking, Open
<1>2. /\ protocol \in Names /\ said \in Seq(Spoken) /\ framing \in Framing /\ Len(said) \in Nat
      /\ i \in 1 .. Len(said) /\ said[i] \in Spoken /\ i \in Nat
    BY <1>1, StreamFacts
<1>3. said[i].kind \in BlockKinds \cup {"other"} /\ said[i].text \in Deltas
    BY <1>2 DEF Spoken
<1>4. w \in Items /\ w.type = "end" /\ w.index = i /\ w.kind = said[i].kind /\ w.text = said[i].text
    BY <1>2, <1>3 DEF Wire, Items
<1> HIDE DEF w
<1>5. said' = [said EXCEPT ![i] = b]
  <2>1. said' = [said EXCEPT ![i] = [said[i] EXCEPT !.open = FALSE]]
      BY <1>1
  <2>2. [said[i] EXCEPT !.open = FALSE] = b
      BY <1>2, SpokenOf
  <2> QED BY <2>1, <2>2
<1>6. /\ said' \in Seq(Spoken) /\ Len(said') = Len(said) /\ said'[i].open = FALSE
      /\ \A j \in 1 .. Len(said) : said'[j].kind = said[j].kind /\ (j # i => said'[j].open = said[j].open)
  <2> DEFINE text == said[i].text
             open == FALSE
  <2>1. said \in Seq(Spoken) /\ i \in 1 .. Len(said) /\ text \in Deltas /\ open \in BOOLEAN
      BY <1>2, <1>3
  <2>2. said' = [said EXCEPT ![i] = [kind |-> said[i].kind, text |-> text, open |-> open]]
      BY <1>5
  <2> HIDE DEF text, open
  <2>3. /\ said' \in Seq(Spoken) /\ Len(said') = Len(said) /\ said'[i].open = open
        /\ \A j \in 1 .. Len(said) : said'[j].kind = said[j].kind /\ (j # i => said'[j].open = said[j].open)
      BY <2>1, <2>2, OneChanged
  <2> QED BY <2>3 DEF open
<1>7. Ends(said, said', i)
    BY <1>6 DEF Ends
<1>8. SendsBlock(protocol, said, w, said')
    BY <1>1, <1>2, <1>3, <1>4, <1>7 DEF SendsBlock, Finishes
<1>9. protocol \in Slotted \cup {"bedrock"} \/ \A j \in 1 .. Len(said) : said[j].kind \in BlockKinds
    BY DEF StreamInv
<1> QED BY <1>1, <1>2, <1>4, <1>6, <1>8, <1>9, BlockKeeps DEF w

LEMMA WholeKeeps ==
    ASSUME "none" \notin Reasons, StreamInv, Whole
    PROVE  StreamInv'
<1> DEFINE kind == IF Announces THEN "text" ELSE "call"
           n == framing'.deltas
           w == Wire("whole", Len(said) + 1, kind, <<n>>)
<1>1. /\ phase = "reading" /\ framing.hello /\ framing.stop = "none"
      /\ protocol \in {"google", "vertex", "responses", "azure", "codex"}
      /\ framing' = [framing EXCEPT !.deltas = @ + 1]
      /\ said' = Append(said, [kind |-> kind, text |-> <<n>>, open |-> FALSE])
      /\ Arrive(w)
    BY DEF Whole, Speaking
<1>2. protocol \in Names /\ said \in Seq(Spoken) /\ framing \in Framing /\ Len(said) \in Nat
    BY StreamFacts
<1>3. /\ framing' \in Framing /\ framing'.hello = framing.hello /\ framing'.stop = framing.stop
      /\ framing'.last = framing.last /\ n \in Nat
    BY <1>1, <1>2, OneMoreDelta
<1> HIDE DEF n
<1>4. kind \in BlockKinds /\ <<n>> \in Deltas /\ Len(said) + 1 \in Nat
    BY <1>2, <1>3 DEF BlockKinds, Deltas
<1>5. w \in Items /\ w.type = "whole" /\ w.index = Len(said) + 1 /\ w.kind = kind /\ w.text = <<n>>
    BY <1>4 DEF Wire, Items
<1>6. protocol \in {"google", "vertex"} => kind = "call" /\ protocol \in Unnamed
    BY DEF Announces, Unnamed
<1>7. protocol \in {"responses", "azure", "codex"} => kind = "text"
    BY DEF Announces
<1> HIDE DEF w, kind
<1>8. SendsBlock(protocol, said, w, said')
  <2>1. CASE protocol \in {"google", "vertex"}
      BY <1>4, <1>5, <1>6, <2>1 DEF SendsBlock
  <2>2. CASE protocol \in {"responses", "azure", "codex"}
      BY <1>1, <1>4, <1>5, <1>7, <2>2 DEF SendsBlock, SendsWhole
  <2> QED BY <1>1, <2>1, <2>2
<1>9. /\ said' \in Seq(Spoken)
      /\ (\A i \in 1 .. Len(said) : said[i].kind \in BlockKinds)
            => \A i \in 1 .. Len(said') : said'[i].kind \in BlockKinds
    BY <1>1, <1>2, <1>4, OneMoreSaid
<1>10. protocol \in Slotted \cup {"bedrock"} \/ \A i \in 1 .. Len(said') : said'[i].kind \in BlockKinds
    BY <1>9 DEF StreamInv
<1> QED BY <1>1, <1>3, <1>4, <1>5, <1>8, <1>9, <1>10, BlockKeeps DEF w, n

\* The items beside the blocks.
LEMMA StopKeeps ==
    ASSUME "none" \notin Reasons, StreamInv, NEW why \in Reasons, Stop(why)
    PROVE  StreamInv'
<1> DEFINE w == Wire("stop", 0, why, <<>>)
<1>1. /\ phase = "reading" /\ framing.hello /\ framing.stop = "none" /\ Arrive(w) /\ said' = said
      /\ \A i \in DOMAIN said : ~said[i].open
      /\ framing' = [framing EXCEPT !.stop = why]
    BY DEF Stop, Speaking
<1>2. w \in Items /\ w.type = "stop" /\ w.kind = why
  <2>1. <<>> \in Deltas /\ 0 \in Nat
      BY DEF Deltas
  <2> QED BY <2>1 DEF Wire, Items
<1>3. framing' \in Framing /\ framing'.hello = framing.hello /\ framing'.stop = why /\ framing'.last = framing.last
    BY <1>1 DEF StreamInv, Framing
<1>4. DOMAIN said = 1 .. Len(said)
    BY StreamFacts
<1> HIDE DEF w
<1>5. Sends(protocol, said, w, said', framing, framing')
    BY <1>1, <1>2, <1>3, <1>4 DEF Sends
<1>6. /\ said' \in Seq(Spoken)
      /\ protocol \in Slotted \cup {"bedrock"} \/ \A i \in 1 .. Len(said') : said'[i].kind \in BlockKinds
    BY <1>1 DEF StreamInv
<1> QED BY <1>1, <1>2, <1>3, <1>5, <1>6, ArriveKeeps

LEMMA FarewellKeeps ==
    ASSUME "none" \notin Reasons, StreamInv, Farewell
    PROVE  StreamInv'
<1> DEFINE w == Wire("over", 0, "message", <<>>)
<1>1. /\ phase = "reading" /\ framing.stop # "none" /\ Arrive(w) /\ said' = said
      /\ framing' = [framing EXCEPT !.last = TRUE]
    BY DEF Farewell
<1>2. w \in Items /\ w.type = "over"
  <2>1. <<>> \in Deltas /\ 0 \in Nat
      BY DEF Deltas
  <2> QED BY <2>1 DEF Wire, Items
<1>3. framing' \in Framing /\ framing'.hello = framing.hello /\ framing'.stop = framing.stop /\ framing'.last
    BY <1>1 DEF StreamInv, Framing
<1>4. protocol # "pi"
    BY <1>1 DEF StreamInv, ReadsOn
<1>5. framing.hello
    BY <1>1 DEF StreamInv
<1> HIDE DEF w
<1>6. Sends(protocol, said, w, said', framing, framing')
    BY <1>1, <1>2, <1>3, <1>4, <1>5 DEF Sends
<1>7. /\ said' \in Seq(Spoken)
      /\ protocol \in Slotted \cup {"bedrock"} \/ \A i \in 1 .. Len(said') : said'[i].kind \in BlockKinds
    BY <1>1 DEF StreamInv
<1> QED BY <1>1, <1>2, <1>3, <1>6, <1>7, ArriveKeeps

LEMMA ErrorItemKeeps ==
    ASSUME "none" \notin Reasons, StreamInv, ErrorItem
    PROVE  StreamInv'
<1> DEFINE w == Wire("error", 0, "message", <<>>)
<1>1. /\ phase = "reading" /\ framing.hello /\ framing.stop = "none" /\ Arrive(w) /\ said' = said
      /\ framing' = [framing EXCEPT !.stop = "Error", !.last = TRUE]
    BY DEF ErrorItem, Speaking
<1>2. w \in Items /\ w.type = "error"
  <2>1. <<>> \in Deltas /\ 0 \in Nat
      BY DEF Deltas
  <2> QED BY <2>1 DEF Wire, Items
<1>3. framing' \in Framing /\ framing'.hello = framing.hello /\ framing'.stop = "Error" /\ framing'.last
    BY <1>1 DEF StreamInv, Framing
<1> HIDE DEF w
<1>4. Sends(protocol, said, w, said', framing, framing')
    BY <1>1, <1>2, <1>3 DEF Sends
<1>5. /\ said' \in Seq(Spoken)
      /\ protocol \in Slotted \cup {"bedrock"} \/ \A i \in 1 .. Len(said') : said'[i].kind \in BlockKinds
    BY <1>1 DEF StreamInv
<1> QED BY <1>1, <1>2, <1>3, <1>4, <1>5, ArriveKeeps

\* Before the answer, a request fails with a message that says nothing.
LEMMA SilentSettles ==
    ASSUME NEW p, NEW s, NEW f
    PROVE  Settles(p, Fail(Silent([keys |-> <<>>])), s, f)
<1> DEFINE sc == [keys |-> <<>>]
<1>1. sc \in Scratch /\ sc.keys = <<>>
    BY DEF Scratch
<1>2. Nested(Silent(sc))
  <2> HIDE DEF sc
  <2> QED BY <1>1, SilentKeyed
<1> QED BY <1>2, FailSettles

\* Where nothing is said, and the message settles.
LEMMA SettlesQuietly ==
    ASSUME StreamInv, NEW e, Settle(e), Settles(protocol, e, said, framing),
           UNCHANGED <<protocol, body, said, framing>>
    PROVE  StreamInv'
<1>1. Settles(protocol, e, said', framing') /\ protocol' = protocol
    OBVIOUS
<1>2. phase' = "settled" /\ ending' \in {"done", "error", "aborted"} /\ Ended'
    BY <1>1, SettleKeeps
<1> QED BY <1>2 DEF StreamInv

LEMMA RequestKeeps ==
    ASSUME StreamInv, phase \in {"request", "backoff"}, Settle(Fail(message)),
           UNCHANGED <<protocol, body, said, framing>>
    PROVE  StreamInv'
<1>1. message = Silent([keys |-> <<>>])
    BY DEF StreamInv
<1>2. Settles(protocol, Fail(message), said, framing)
    BY <1>1, SilentSettles
<1> QED BY <1>2, SettlesQuietly

LEMMA ResponseKeeps ==
    ASSUME "none" \notin Reasons, StreamInv, ResponseArrives
    PROVE  StreamInv'
<1>1. /\ phase = "request" /\ phase' = "reading" /\ message' = Opening
      /\ UNCHANGED <<protocol, body, said, framing, ending>>
    BY DEF ResponseArrives
<1>2. said = <<>> /\ framing = Unsent /\ body = <<>> /\ protocol \in Names /\ ending = "none"
    BY <1>1 DEF StreamInv
<1>3. ReadsOn'
  <2>1. CASE protocol = "bedrock"
    <3>1. message' = BedrockOpen
        BY <1>1, <2>1 DEF Opening
    <3>2. \A e : Driven(body', e) => Reading("bedrock", e, said', framing')
        BY <1>1, <1>2, DrivenNone, BedrockOpenReads
    <3>3. ~message'.failed
        BY <3>1, BedrockOpenReads
    <3> QED BY <1>1, <2>1, <3>1, <3>2, <3>3 DEF ReadsOn
  <2>2. CASE protocol # "bedrock"
    <3>1. Reading(protocol, Opening, <<>>, Unsent) /\ ~Opening.failed
        BY <1>2, <2>2, OpeningReads
    <3>2. Reading(protocol', message', said', framing') /\ ~message'.failed
        BY <1>1, <1>2, <3>1
    <3>3. framing'.stop = "none"
        BY <1>1, <1>2 DEF Unsent
    <3> QED BY <1>1, <2>2, <3>2, <3>3 DEF ReadsOn
  <2> QED BY <2>1, <2>2
<1> QED BY <1>1, <1>2, <1>3 DEF StreamInv

LEMMA BodyKeeps ==
    ASSUME "none" \notin Reasons, StreamInv, BodyEnds \/ BodyFails
    PROVE  StreamInv'
<1>1. phase = "reading" /\ UNCHANGED <<protocol, body, said, framing>>
    BY DEF BodyEnds, BodyFails
<1>2. /\ protocol \in Names /\ said \in Seq(Spoken) /\ framing \in Framing /\ body \in Seq(Items) /\ ReadsOn
    BY <1>1 DEF StreamInv
<1>3. ~message.failed /\ (protocol # "bedrock" => Reading(protocol, message, said, framing))
    BY <1>2 DEF ReadsOn
<1>4. Settles(protocol, Over(message, body), said, framing)
  <2>1. CASE protocol # "bedrock"
      BY <1>2, <1>3, <2>1, OverSettles
  <2>2. CASE protocol = "bedrock"
    <3>1. Over(message, body) = DriveItems(body)
        BY <2>2 DEF Over
    <3>2. Driven(body, DriveItems(body))
        BY <1>2, DriveFound
    <3>3. Reading("bedrock", DriveItems(body), said, framing)
        BY <1>2, <2>2, <3>2 DEF ReadsOn
    <3> QED BY <2>2, <3>1, <3>3, BedrockSettles
  <2> QED BY <2>1, <2>2
<1>5. Settles(protocol, Fail(message), said, framing)
  <2>1. CASE protocol # "bedrock"
      BY <1>2, <1>3, <2>1, ReadingFails
  <2>2. CASE protocol = "bedrock"
    <3>1. Nested(message)
        BY <1>2, <2>2, BedrockOpenReads DEF ReadsOn
    <3> QED BY <3>1, FailSettles
  <2> QED BY <2>1, <2>2
<1>6. CASE BodyEnds
  <2>1. Settle(Over(message, body))
      BY <1>6 DEF BodyEnds
  <2> QED BY <1>1, <1>4, <2>1, SettlesQuietly
<1>7. CASE BodyFails
  <2>1. Settle(Fail(message))
      BY <1>7 DEF BodyFails
  <2> QED BY <1>1, <1>5, <2>1, SettlesQuietly
<1> QED BY <1>6, <1>7

LEMMA StreamStarts == ProviderInit => StreamInv
<1> SUFFICES ASSUME ProviderInit PROVE StreamInv
    OBVIOUS
<1>1. protocol \in Names
    BY ProviderAssumption DEF ProviderInit, Names
<1>2. framing = Unsent /\ framing \in Framing /\ framing.stop = "none"
    BY DEF ProviderInit, Unsent, Framing
<1>3. said \in Seq(Spoken) /\ body \in Seq(Items) /\ Len(said) = 0
    BY DEF ProviderInit
<1> QED BY <1>1, <1>2, <1>3 DEF ProviderInit, StreamInv

LEMMA StreamSteps == StreamInv /\ [ProviderNext]_providerVars => StreamInv'
<1> SUFFICES ASSUME StreamInv, [ProviderNext]_providerVars PROVE StreamInv'
    OBVIOUS
<1>0. "none" \notin Reasons
    BY ProviderAssumption
<1>1. CASE ResponseArrives
    BY <1>0, <1>1, ResponseKeeps
<1>2. CASE AttemptFailed
  <2>1. phase = "request" /\ UNCHANGED <<protocol, body, said, framing>>
      BY <1>2 DEF AttemptFailed
  <2>2. CASE phase' = "backoff" /\ UNCHANGED <<message, ending>>
      BY <2>1, <2>2 DEF StreamInv
  <2>3. CASE Settle(Fail(message))
      BY <2>1, <2>3, RequestKeeps
  <2> QED BY <1>2, <2>2, <2>3 DEF AttemptFailed
<1>3. CASE RequestAborted
  <2>1. phase = "request" /\ Settle(Fail(message)) /\ UNCHANGED <<protocol, body, said, framing>>
      BY <1>3 DEF RequestAborted
  <2> QED BY <2>1, RequestKeeps
<1>4. CASE BackedOff
  <2>1. phase = "backoff" /\ UNCHANGED <<protocol, body, said, framing>>
      BY <1>4 DEF BackedOff
  <2>2. CASE cancelled
    <3>1. Settle(Fail(message))
        BY <1>4, <2>2 DEF BackedOff
    <3> QED BY <2>1, <3>1, RequestKeeps
  <2>3. CASE ~cancelled
    <3>1. phase' = "request" /\ UNCHANGED <<message, ending>>
        BY <1>4, <2>3 DEF BackedOff
    <3> QED BY <2>1, <3>1 DEF StreamInv
  <2> QED BY <2>2, <2>3
<1>5. CASE ProviderAnswers
  <2>1. CASE Hello
      BY <1>0, <2>1, HelloKeeps
  <2>2. CASE Whole
      BY <1>0, <2>2, WholeKeeps
  <2>3. CASE Farewell
      BY <1>0, <2>3, FarewellKeeps
  <2>4. CASE ErrorItem
      BY <1>0, <2>4, ErrorItemKeeps
  <2>5. ASSUME NEW kind, Begin(kind) PROVE StreamInv'
      BY <1>0, <2>5, BeginKeeps
  <2>6. ASSUME NEW i, Delta(i) \/ End(i) PROVE StreamInv'
      BY <1>0, <2>6, DeltaKeeps, EndKeeps
  <2>7. ASSUME NEW why \in Reasons, Stop(why) PROVE StreamInv'
      BY <1>0, <2>7, StopKeeps
  <2> QED BY <1>5, <2>1, <2>2, <2>3, <2>4, <2>5, <2>6, <2>7 DEF ProviderAnswers
<1>6. CASE BodyEnds \/ BodyFails
    BY <1>0, <1>6, BodyKeeps
<1>7. CASE ProviderCancel
  <2>1. UNCHANGED <<protocol, phase, message, body, said, framing, ending>>
      BY <1>7 DEF ProviderCancel
  <2> QED BY <2>1 DEF StreamInv, ReadsOn, Ended
<1>8. CASE UNCHANGED providerVars
  <2>1. UNCHANGED <<protocol, phase, message, body, said, framing, ending>>
      BY <1>8 DEF providerVars
  <2> QED BY <2>1 DEF StreamInv, ReadsOn, Ended
<1> QED BY <1>1, <1>2, <1>3, <1>4, <1>5, <1>6, <1>7, <1>8 DEF ProviderNext

\* One inductive invariant relates the message to what the provider said.
THEOREM StreamInvariant == ProviderSpec => []StreamInv
<1>1. ProviderInit => StreamInv
    BY StreamStarts
<1>2. StreamInv /\ [ProviderNext]_providerVars => StreamInv'
    BY StreamSteps
<1> QED BY <1>1, <1>2, PTL DEF ProviderSpec

LEMMA StreamSays ==
    ASSUME StreamInv, protocol \notin Unnamed
    PROVE  EventsSay(message)
<1>1. CASE phase \in {"request", "backoff"}
  <2> DEFINE sc == [keys |-> <<>>]
  <2>1. sc \in Scratch /\ sc.keys = <<>>
      BY DEF Scratch
  <2>2. message = Silent(sc)
      BY <1>1 DEF StreamInv
  <2> HIDE DEF sc
  <2> QED BY <2>1, <2>2, SilentKeyed, NestedSays
<1>2. CASE phase = "reading"
  <2>1. ReadsOn /\ protocol \in Names
      BY <1>2 DEF StreamInv
  <2>2. CASE protocol = "bedrock"
      BY <2>1, <2>2, BedrockOpenReads, NestedSays DEF ReadsOn
  <2>3. CASE protocol # "bedrock"
    <3>1. ~message.failed /\ Reading(protocol, message, said, framing)
        BY <2>1, <2>3 DEF ReadsOn
    <3>2. Nested(message)
        BY <2>1, <3>1 DEF Reading, Names, Slotted, Unnamed, Keyed, AllLive, Current, Placed
    <3> QED BY <3>2, NestedSays
  <2> QED BY <2>2, <2>3
<1>3. CASE phase = "settled"
    BY <1>3 DEF StreamInv, Ended
<1> QED BY <1>1, <1>2, <1>3 DEF StreamInv

\* The events of every protocol that indexes its blocks nest: Start comes first and once;
\* every block starts once, then has its deltas, then ends; on Done all have ended; and the
\* index of an event is that of a block of its kind in its snapshot.  This is so for every
\* answer that run_stream may be given, in whatever order its blocks interleave.
THEOREM StreamEventsNest == ProviderSpec => []EventsNest
<1>1. StreamInv => EventsNest
  <2> SUFFICES ASSUME StreamInv, IndexesBlocks PROVE EventsNest
      BY DEF EventsNest
  <2>1. protocol \notin Unnamed
      BY DEF IndexesBlocks, Unnamed
  <2>2. EventsSay(message)
      BY <2>1, StreamSays
  <2>3. ending = "done" => \A i \in DOMAIN message.content : HasEnded(message.events, i)
      BY <2>1 DEF StreamInv, Ended
  <2> QED BY <2>2, <2>3 DEF EventsNest, EventsSay
<1> QED BY <1>1, StreamInvariant, PTL

\* A stream is Done only if the provider finished its answer: it gave a reason to stop that is
\* not an error, message_stop where its protocol has one, and left no block open.
THEOREM StreamDoneIsComplete == ProviderSpec => []DoneIsComplete
<1>1. StreamInv => DoneIsComplete
  <2> SUFFICES ASSUME StreamInv, ending = "done", protocol # "compat"
               PROVE  /\ framing.stop \in Reasons \ {"Error"}
                      /\ protocol = "anthropic" => framing.last
                      /\ \A i \in DOMAIN said : ~said[i].open
      BY DEF DoneIsComplete
  <2>1. Ended
      BY DEF StreamInv
  <2>2. DOMAIN said = 1 .. Len(said)
      BY StreamFacts
  <2> QED BY <2>1, <2>2 DEF Ended
<1> QED BY <1>1, StreamInvariant, PTL
=============================================================================
