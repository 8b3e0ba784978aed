----------------------------- MODULE LazyStream -----------------------------
(***************************************************************************)
(* A response on its way from a provider to the agent loop: the provider's *)
(* task pushes events into a stream, the task of lazy_stream               *)
(* (src/ai/models.rs) forwards them to a second one, and the loop          *)
(* (stream_assistant_response, src/agent/agent_loop.rs) reads that to its  *)
(* end and asks for its result.  Another user of the same stream only asks *)
(* for the result, as Models::complete does.  The tasks run in parallel, a *)
(* lock section at a time.  A stream function that is not behind           *)
(* lazy_stream, stream_proxy (src/agent/proxy.rs), pushes into the stream  *)
(* that is read.                                                           *)
(***************************************************************************)
EXTENDS Naturals, Sequences

CONSTANTS
    NoResult,
    Truncates,     \* whether a proxy's response may end without a terminal event
    MaxEvents,     \* bound: events before the terminal one
    MaxWakers      \* bound: wakers a stream holds at which nobody is polled in vain

ASSUME StreamAssumption ==
    /\ NoResult \notin [n : Nat, terminal : BOOLEAN]
    /\ Truncates \in BOOLEAN
    /\ MaxEvents \in Nat /\ MaxWakers \in Nat

VARIABLES
    inner, outer,   \* the provider's stream, and the one handed out
    awake,          \* tasks to be polled
    pc,             \* where each task is
    sent,           \* history: the events pushed, until one was terminal
    carried,        \* lazy_stream: the event or the result it is handling
    received,       \* the events the reader has got
    answer          \* the final message of the reader, and of the asker

vars == <<inner, outer, awake, pc, sent, carried, received, answer>>

In  == INSTANCE EventStream WITH stream <- inner
Out == INSTANCE EventStream WITH stream <- outer

Tasks == {"provider", "forwarder", "reader", "asker"}

Event(n, terminal) == [n |-> n, terminal |-> terminal]

Init ==
    /\ inner = In!Empty /\ outer = Out!Empty
    /\ awake = Tasks
    /\ pc \in {[provider |-> "off", forwarder |-> "setup", reader |-> "next", asker |-> "result"],
              [provider |-> "push", forwarder |-> "absent", reader |-> "next", asker |-> "result"]}
    /\ sent = <<>> /\ carried = NoResult /\ received = <<>>
    /\ answer = [reader |-> NoResult, asker |-> NoResult]

Go(t, point) == pc' = [pc EXCEPT ![t] = point]

-----------------------------------------------------------------------------
\* The stream that the provider pushes into.
Direct == pc["forwarder"] = "absent"

Feed(step, e) ==
    IF Direct
    THEN (IF step = "mark" THEN Out!Mark(e) ELSE Out!Enqueue(e)) /\ UNCHANGED inner
    ELSE (IF step = "mark" THEN In!Mark(e)  ELSE In!Enqueue(e))  /\ UNCHANGED outer

\* The provider's task: any number of events, a terminal one, then end, with the
\* final message or, as most call it, without.  Nobody else completes the stream,
\* so a push of these events has both its lock sections.
ProviderMark ==
    /\ pc["provider"] = "push"
    /\ \E terminal \in BOOLEAN :
          /\ terminal \/ Len(sent) < MaxEvents
          /\ LET e == Event(Len(sent) + 1, terminal) IN
             /\ Feed("mark", e)
             /\ sent' = Append(sent, e)
    /\ Go("provider", "enqueue")
    /\ UNCHANGED <<carried, received, answer>>

Newest == sent[Len(sent)]

\* After its terminal event the body of a proxy's response is read on: an abort
\* then makes one more event.
ProviderEnqueue ==
    /\ pc["provider"] = "enqueue"
    /\ Feed("enqueue", Newest)
    /\ \E point \in IF Newest.terminal THEN {"late", "end"} ELSE {"push"} : Go("provider", point)
    /\ UNCHANGED <<sent, carried, received, answer>>

\* Its stream is complete, so that push returns after its first lock section.
ProviderLate ==
    /\ pc["provider"] = "late"
    /\ Feed("mark", Event(Len(sent) + 1, TRUE))
    /\ Go("provider", "end")
    /\ UNCHANGED <<sent, carried, received, answer>>

ProviderEnd ==
    /\ \/ pc["provider"] = "end"
       \/ Truncates /\ Direct /\ pc["provider"] = "push"
    /\ \E result \in {NoResult} \cup IF pc["provider"] = "end" THEN {Newest} ELSE {} :
          IF Direct THEN Out!End(result) /\ UNCHANGED inner
                    ELSE In!End(result)  /\ UNCHANGED outer
    /\ Go("provider", "done")
    /\ UNCHANGED <<sent, carried, received, answer>>

-----------------------------------------------------------------------------
\* lazy_stream: the setup succeeds, and the provider starts, or fails with an
\* error event.
Setup ==
    /\ pc["forwarder"] = "setup"
    /\ \/ /\ pc' = [pc EXCEPT !["forwarder"] = "next", !["provider"] = "push"]
          /\ UNCHANGED <<sent, carried>>
       \/ /\ Go("forwarder", "mark")
          /\ carried' = Event(1, TRUE)
          /\ sent' = <<Event(1, TRUE)>>
    /\ UNCHANGED <<inner, outer, awake, received, answer>>

ForwarderNext ==
    /\ pc["forwarder"] = "next"
    /\ \/ \E e \in {sent[i] : i \in DOMAIN sent} :
             In!Take("forwarder", e) /\ carried' = e /\ Go("forwarder", "mark")
       \/ In!Over("forwarder") /\ Go("forwarder", "result") /\ UNCHANGED carried
       \/ In!AwaitNext("forwarder") /\ UNCHANGED <<carried, pc>>
    /\ UNCHANGED <<outer, sent, received, answer>>

\* After the error event of a failed setup there is nothing to forward.
Forwarded == IF pc["provider"] = "off" THEN "end" ELSE "next"

\* A push into a complete stream returns after its first lock section.
ForwarderMark ==
    /\ pc["forwarder"] = "mark"
    /\ Out!Mark(carried)
    /\ Go("forwarder", IF outer.done THEN Forwarded ELSE "enqueue")
    /\ UNCHANGED <<inner, sent, carried, received, answer>>

ForwarderEnqueue ==
    /\ pc["forwarder"] = "enqueue"
    /\ Out!Enqueue(carried)
    /\ Go("forwarder", Forwarded)
    /\ UNCHANGED <<inner, sent, carried, received, answer>>

ForwarderResult ==
    /\ pc["forwarder"] = "result"
    /\ \/ In!Resolved("forwarder") /\ carried' = inner.result /\ Go("forwarder", "end")
       \/ In!AwaitResult("forwarder") /\ UNCHANGED <<carried, pc>>
    /\ UNCHANGED <<outer, sent, received, answer>>

ForwarderEnd ==
    /\ pc["forwarder"] = "end"
    /\ Out!End(carried)
    /\ Go("forwarder", "done")
    /\ UNCHANGED <<inner, sent, carried, received, answer>>

-----------------------------------------------------------------------------
\* The agent loop reads until a terminal event or the end of the stream ...
ReaderNext ==
    /\ pc["reader"] = "next"
    /\ \/ \E e \in {sent[i] : i \in DOMAIN sent} :
             /\ Out!Take("reader", e)
             /\ received' = Append(received, e)
             /\ Go("reader", IF e.terminal THEN "result" ELSE "next")
       \/ Out!Over("reader") /\ Go("reader", "result") /\ UNCHANGED received
       \/ Out!AwaitNext("reader") /\ UNCHANGED <<received, pc>>
    /\ UNCHANGED <<inner, sent, carried, answer>>

\* ... and takes the final message from the result, like whoever only asks.
AskResult(t) ==
    /\ pc[t] = "result"
    /\ \/ /\ Out!Resolved(t)
          /\ answer' = [answer EXCEPT ![t] = outer.result]
          /\ Go(t, "done")
       \/ Out!AwaitResult(t) /\ UNCHANGED <<answer, pc>>
    /\ UNCHANGED <<inner, sent, carried, received>>

\* A task may be polled although nothing woke it, as a branch of a select or a
\* join is; its old waker stays behind.
PollInVain(t) ==
    /\ t \notin awake
    /\ Len(inner.nextWakers) < MaxWakers /\ Len(outer.nextWakers) < MaxWakers
    /\ awake' = awake \cup {t}
    /\ UNCHANGED <<inner, outer, pc, sent, carried, received, answer>>

-----------------------------------------------------------------------------
ProviderStep  == ProviderMark \/ ProviderEnqueue \/ ProviderLate \/ ProviderEnd
ForwarderStep == Setup \/ ForwarderNext \/ ForwarderMark \/ ForwarderEnqueue
                    \/ ForwarderResult \/ ForwarderEnd
ReaderStep    == ReaderNext \/ AskResult("reader")

Next ==
    \/ ProviderStep \/ ForwarderStep \/ ReaderStep \/ AskResult("asker")
    \/ \E t \in Tasks : PollInVain(t)

Spec == Init /\ [][Next]_vars

\* The runtime polls every task that is awake, and the model's answer ends:
\* the bound on its events stands for that.
StreamFairness ==
    /\ WF_vars(ProviderStep) /\ WF_vars(ForwarderStep)
    /\ WF_vars(ReaderStep) /\ WF_vars(AskResult("asker"))

FairSpec == Spec /\ StreamFairness

-----------------------------------------------------------------------------
Events == [n : Nat, terminal : BOOLEAN]

Points == {"off", "absent", "setup", "push", "late", "next", "mark", "enqueue",
           "result", "end", "done"}

StreamType(readers, askers) ==
    [queue : Seq(Events), done : BOOLEAN, result : Events \cup {NoResult},
     nextWakers : Seq(readers), resultWakers : SUBSET askers]

\* Variables hold values of their types: only the forwarder waits for the
\* provider's stream, and only the reader reads the one handed out.
TypeOK ==
    /\ inner \in StreamType({"forwarder"}, {"forwarder"})
    /\ outer \in StreamType({"reader"}, {"reader", "asker"})
    /\ awake \subseteq Tasks
    /\ pc \in [Tasks -> Points]
    /\ sent \in Seq(Events) /\ received \in Seq(Events)
    /\ carried \in Events \cup {NoResult}
    /\ answer \in [{"reader", "asker"} -> Events \cup {NoResult}]

\* A task that sleeps has left a waker where it will be used, and there is
\* nothing it could have: event_stream.rs checks and registers under one lock.
\* Only between the two lock sections of a push may it sleep on a stream that
\* is complete: the second one wakes it.
Sleeps(t, s) ==
    /\ \E i \in DOMAIN s.nextWakers : s.nextWakers[i] = t
    /\ s.queue = <<>>

Feeder == IF Direct THEN "provider" ELSE "forwarder"

NoLostWakeup ==
    /\ pc["forwarder"] = "next" /\ "forwarder" \notin awake =>
          Sleeps("forwarder", inner) /\ (inner.done => pc["provider"] = "enqueue")
    /\ pc["reader"] = "next" /\ "reader" \notin awake =>
          Sleeps("reader", outer) /\ (outer.done => pc[Feeder] = "enqueue")
    /\ pc["forwarder"] = "result" /\ "forwarder" \notin awake =>
          "forwarder" \in inner.resultWakers /\ inner.result = NoResult
    /\ \A t \in {"reader", "asker"} : pc[t] = "result" /\ t \notin awake =>
          t \in outer.resultWakers /\ outer.result = NoResult

\* The loop sees the events of the provider once each and in order, across both
\* streams; when it stops reading it has seen all of them, but for a terminal
\* one: a push completes the stream before it queues the event.
ReadInOrder ==
    /\ received = SubSeq(sent, 1, Len(received))
    /\ pc["reader"] \in {"result", "done"} =>
          /\ Len(sent) > 0 /\ Newest.terminal
          /\ Len(received) >= Len(sent) - 1

\* Whoever asks gets the message of the provider's terminal event, even if the
\* event itself never reached the stream that was asked.
ResultIsTerminal ==
    \A t \in {"reader", "asker"} :
        pc[t] = "done" => sent # <<>> /\ Newest.terminal /\ answer[t] = Newest

\* The response arrives: the loop and whoever asked return.  event_stream.rs:143
\* says that result "resolves with the final result once the stream completes."
Answered == <>(pc["reader"] = "done" /\ pc["asker"] = "done")
=============================================================================
