---------------------------- MODULE EventStream ----------------------------
(***************************************************************************)
(* One EventStream (src/ai/utils/event_stream.rs), by lock section: what   *)
(* push, end and a poll of next or result do to the shared state, and the  *)
(* tasks they wake.  A task that is not awake waits for a waker of its own *)
(* to be used; a module that composes streams says which task does what.   *)
(***************************************************************************)
EXTENDS Naturals, Sequences

CONSTANT NoResult      \* no result yet, or none given to end

VARIABLES
    stream,    \* StreamState
    awake      \* the tasks the runtime is about to poll

Empty == [queue |-> <<>>, done |-> FALSE, result |-> NoResult,
          nextWakers |-> <<>>, resultWakers |-> {}]

\* push, first lock section.  A terminal event completes the stream; its
\* message is the result.
Mark(e) ==
    IF stream.done \/ ~e.terminal THEN UNCHANGED <<stream, awake>>
    ELSE /\ stream' = [stream EXCEPT !.done = TRUE, !.result = e, !.resultWakers = {}]
         /\ awake' = awake \cup stream.resultWakers

FirstWaker == IF stream.nextWakers = <<>> THEN {} ELSE {Head(stream.nextWakers)}

\* Mutant: nobody is told of the event.
EnqueueQuietly(e) ==
    /\ stream' = [stream EXCEPT !.queue = Append(@, e)]
    /\ UNCHANGED awake

\* push, second lock section: one waiting consumer is woken.
Enqueue(e) ==
    /\ stream' = [stream EXCEPT !.queue = Append(@, e),
                                !.nextWakers = IF @ = <<>> THEN <<>> ELSE Tail(@)]
    /\ awake' = awake \cup FirstWaker

\* end: whoever waits is woken; a result given earlier stays.
End(result) ==
    /\ stream' = [stream EXCEPT !.done = TRUE,
                                !.result = IF @ = NoResult THEN result ELSE @,
                                !.nextWakers = <<>>, !.resultWakers = {}]
    /\ awake' = awake \cup {stream.nextWakers[i] : i \in DOMAIN stream.nextWakers}
                      \cup stream.resultWakers

\* Mutant: the newest event comes first.
TakeNewest(t, e) ==
    /\ t \in awake /\ stream.queue # <<>>
    /\ e = stream.queue[Len(stream.queue)]
    /\ stream' = [stream EXCEPT !.queue = SubSeq(@, 1, Len(@) - 1)]
    /\ UNCHANGED awake

\* A poll of next finds event e ...
Take(t, e) ==
    /\ t \in awake /\ stream.queue # <<>>
    /\ e = Head(stream.queue)
    /\ stream' = [stream EXCEPT !.queue = Tail(@)]
    /\ UNCHANGED awake

\* ... or the end of the stream ...
Over(t) ==
    /\ t \in awake /\ stream.queue = <<>> /\ stream.done
    /\ UNCHANGED <<stream, awake>>

\* ... or nothing: the task leaves its waker and sleeps.
AwaitNext(t) ==
    /\ t \in awake /\ stream.queue = <<>> /\ ~stream.done
    /\ stream' = [stream EXCEPT !.nextWakers = Append(@, t)]
    /\ awake' = awake \ {t}

\* A poll of result.
Resolved(t) ==
    /\ t \in awake /\ stream.result # NoResult
    /\ UNCHANGED <<stream, awake>>

AwaitResult(t) ==
    /\ t \in awake /\ stream.result = NoResult
    /\ stream' = [stream EXCEPT !.resultWakers = @ \cup {t}]
    /\ awake' = awake \ {t}
=============================================================================
