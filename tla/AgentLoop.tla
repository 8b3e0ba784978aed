----------------------------- MODULE AgentLoop -----------------------------
(***************************************************************************)
(* One run of the agent loop (src/agent/agent_loop.rs): requests to the    *)
(* model, the tool calls of each response, and the messages queued by      *)
(* others while it runs.  Its sink is Agent's process_events               *)
(* (src/agent/agent.rs): every event is reduced into the agent's state     *)
(* before the loop goes on, so a step that emits an event changes          *)
(* transcript, streaming, pendingCalls or phase, and a step between two    *)
(* awaits changes none of them.                                            *)
(*                                                                         *)
(* A response is known by its turn, its stop reason and how many tool      *)
(* calls it makes.  Updates of a partial message or of a running tool are  *)
(* left out: they replace a partial content by a longer one.  So is the    *)
(* text of an error, which nothing but a reader looks at.                  *)
(***************************************************************************)
EXTENDS Naturals, Sequences, FiniteSets

CONSTANTS
    QueueMode,      \* "all" or "one-at-a-time", of both queues
    Modes,          \* how a batch may run: "sequential", "parallel"
    Compacts,       \* whether prepareNextTurn may replace the context
    MaxCalls,       \* bound: tool calls of a response
    MaxToolTurns,   \* bound: responses that may call tools
    MaxSteered,     \* bound: messages ever queued by steer
    MaxFollowUps    \* bound: messages ever queued by follow_up

ASSUME LoopAssumption ==
    /\ QueueMode \in {"all", "one-at-a-time"}
    /\ Modes \subseteq {"sequential", "parallel"} /\ Modes # {}
    /\ Compacts \in BOOLEAN
    /\ MaxCalls \in Nat /\ MaxToolTurns \in Nat
    /\ MaxSteered \in Nat /\ MaxFollowUps \in Nat

VARIABLES
    pc,            \* where the run is; "idle" and "done" when there is none
    context,       \* current_context.messages
    produced,      \* new_messages
    pending,       \* prompts, then pending_messages, still to be announced
    skipPoll,      \* skip_initial_poll
    more,          \* has_more_tool_calls
    batch,         \* the tool calls of the last response
    cancelled,     \* the run's cancellation token
    steering, followUps,                          \* Agent's message queues
    transcript, streaming, pendingCalls,          \* Agent's state
    phase,         \* history: the bracket the last event left open
    asked          \* history: messages queued so far, of each kind

queues   == <<steering, followUps, asked>>
sink     == <<transcript, streaming, pendingCalls, phase>>
progress == <<context, produced, pending, skipPoll, more, batch>>
loopVars == <<pc, progress, cancelled, queues, sink>>

-----------------------------------------------------------------------------
User(from, n) == [role |-> "user", from |-> from, n |-> n]
Assistant(turn, stop, calls) ==
    [role |-> "assistant", turn |-> turn, stop |-> stop, calls |-> calls]
Result(turn, i) == [role |-> "toolResult", turn |-> turn, call |-> i]

NoMessage == [role |-> "none"]
NoBatch == [mode |-> "none", width |-> 0, stage |-> <<>>, ends |-> <<>>]

IsAssistant(m) == m.role = "assistant"

\* How many responses the transcript holds: the next one is Turn + 1.
Turn == Cardinality({k \in DOMAIN transcript : IsAssistant(transcript[k])})

\* PendingMessageQueue::drain: what is taken, and what stays.
Drained(q)   == IF QueueMode = "all" \/ q = <<>> THEN q ELSE <<Head(q)>>
Remaining(q) == IF QueueMode = "all" \/ q = <<>> THEN <<>> ELSE Tail(q)

\* process_events, by kind of event.
MessageStart(m) == streaming' = m /\ UNCHANGED <<transcript, pendingCalls, phase>>
MessageEnd(m) ==
    /\ streaming' = NoMessage
    /\ transcript' = Append(transcript, m)
    /\ UNCHANGED <<pendingCalls, phase>>
ExecutionStart(id) ==
    pendingCalls' = pendingCalls \cup {id} /\ UNCHANGED <<transcript, streaming, phase>>
ExecutionEnd(id) ==
    pendingCalls' = pendingCalls \ {id} /\ UNCHANGED <<transcript, streaming, phase>>
Bracket(p) == phase' = p /\ UNCHANGED <<transcript, streaming, pendingCalls>>
Silent == UNCHANGED sink

LoopInit ==
    /\ pc = "idle"
    /\ context = <<>> /\ produced = <<>> /\ pending = <<>>
    /\ skipPoll = FALSE /\ more = FALSE /\ batch = NoBatch
    /\ cancelled = FALSE
    /\ steering = <<>> /\ followUps = <<>>
    /\ asked = [steer |-> 0, followUp |-> 0]
    /\ transcript = <<>> /\ streaming = NoMessage /\ pendingCalls = {}
    /\ phase = "out"

-----------------------------------------------------------------------------
\* run_agent_loop on a snapshot of the transcript; without prompts,
\* run_agent_loop_continue, which first checks what it continues from.
Begin(prompts, skip) ==
    /\ context' = transcript \o prompts
    /\ produced' = prompts
    /\ pending' = prompts
    /\ skipPoll' = skip
    /\ more' = TRUE
    /\ batch' = NoBatch
    /\ pc' = IF prompts = <<>> /\ (transcript = <<>> \/ IsAssistant(transcript[Len(transcript)]))
             THEN "failed" ELSE "agent_start"
    /\ Silent
    /\ UNCHANGED queues

AgentStart ==
    /\ pc = "agent_start"
    /\ pc' = "turn_start"
    /\ Bracket("agent")
    /\ UNCHANGED <<progress, cancelled, queues>>

FirstTurn ==
    /\ pc = "turn_start"
    /\ pc' = "prompts"
    /\ Bracket("turn")
    /\ UNCHANGED <<progress, cancelled, queues>>

\* The loops over the prompts and over the pending messages announce one
\* message after the other; only the latter adds them to the context.
AnnounceStart ==
    /\ pc \in {"prompts", "inject"}
    /\ pending # <<>>
    /\ pc' = IF pc = "prompts" THEN "prompt" ELSE "injection"
    /\ MessageStart(Head(pending))
    /\ UNCHANGED <<progress, cancelled, queues>>

AnnounceEnd ==
    /\ pc \in {"prompt", "injection"}
    /\ MessageEnd(Head(pending))
    /\ pending' = Tail(pending)
    /\ IF pc = "prompt"
       THEN pc' = "prompts" /\ UNCHANGED <<context, produced>>
       ELSE /\ pc' = "inject"
            /\ context' = Append(context, Head(pending))
            /\ produced' = Append(produced, Head(pending))
    /\ UNCHANGED <<skipPoll, more, batch, cancelled, queues>>

\* run_loop: no stream function is an error; the initial steering poll may be
\* the one that continue_ asked to skip.
FirstPoll ==
    /\ pc = "prompts" /\ pending = <<>>
    /\ \/ /\ pc' = "failed"
          /\ UNCHANGED <<pending, skipPoll, queues>>
       \/ /\ pc' = "inject"
          /\ skipPoll' = FALSE
          /\ pending' = IF skipPoll THEN <<>> ELSE Drained(steering)
          /\ steering' = IF skipPoll THEN steering ELSE Remaining(steering)
          /\ UNCHANGED <<followUps, asked>>
    /\ Silent
    /\ UNCHANGED <<context, produced, more, batch, cancelled>>

-----------------------------------------------------------------------------
\* Mutant: the second poll does not look at what the first one returned.
PrepareNextTurnAgain ==
    /\ pc = "prepare"
    /\ pc' = "next_turn"
    /\ pending' = pending \o Drained(steering) /\ steering' = Remaining(steering)
    /\ Silent
    /\ UNCHANGED <<context, produced, skipPoll, more, batch, cancelled, followUps, asked>>

\* Mutant: what the second poll returns replaces what the first one returned.
PrepareNextTurnAnew ==
    /\ pc = "prepare"
    /\ pc' = "next_turn"
    /\ pending' = Drained(steering) /\ steering' = Remaining(steering)
    /\ Silent
    /\ UNCHANGED <<context, produced, skipPoll, more, batch, cancelled, followUps, asked>>

\* prepare_next_turn may take long and may replace the context, here by its
\* last message; steering queued meanwhile is picked up unless the earlier
\* poll returned something.
PrepareNextTurn ==
    /\ pc = "prepare"
    /\ pc' = "next_turn"
    /\ \/ UNCHANGED context
       \/ Compacts /\ context' = <<context[Len(context)]>>
    /\ IF pending = <<>>
       THEN pending' = Drained(steering) /\ steering' = Remaining(steering)
       ELSE UNCHANGED <<pending, steering>>
    /\ Silent
    /\ UNCHANGED <<produced, skipPoll, more, batch, cancelled, followUps, asked>>

NextTurn ==
    /\ pc = "next_turn"
    /\ pc' = "inject"
    /\ Bracket("turn")
    /\ UNCHANGED <<progress, cancelled, queues>>

\* stream_assistant_response: stream_fn may refuse; the error ends the run.
Request ==
    /\ pc = "inject" /\ pending = <<>>
    /\ pc' \in {"requested", "failed"}
    /\ Silent
    /\ UNCHANGED <<progress, cancelled, queues>>

\* The first event, if it is Start, adds a partial message to the context.
StreamStart ==
    /\ pc = "requested"
    /\ pc' = "streaming"
    /\ LET partial == Assistant(Turn + 1, "partial", 0) IN
       /\ context' = Append(context, partial)
       /\ MessageStart(partial)
    /\ UNCHANGED <<produced, pending, skipPoll, more, batch, cancelled, queues>>

\* What the model may answer; "error" stands for an error and for an abort,
\* whose calls nobody looks at, and "length" matters where calls may be cut off.
\* Providers answer a cancelled request with one.
Responses ==
    LET calls == 1 .. IF Turn < MaxToolTurns THEN MaxCalls ELSE 0
    IN  {Assistant(Turn + 1, "error", 0)}
            \cup IF cancelled THEN {}
                 ELSE {Assistant(Turn + 1, "stop", n) : n \in calls \cup {0}}
                         \cup {Assistant(Turn + 1, "length", n) : n \in calls}

\* Where the loop goes with a response.
Dispatch(m) ==
    IF m.stop = "error" THEN "abandon" ELSE IF m.calls = 0 THEN "turn_end" ELSE "batch"

Received(m) ==
    /\ MessageEnd(m)
    /\ produced' = Append(produced, m)
    /\ more' = FALSE
    /\ pc' = Dispatch(m)

\* Mutant: the final message is added beside its partial.
StreamEndBeside ==
    /\ pc = "streaming"
    /\ \E m \in Responses : context' = Append(context, m) /\ Received(m)
    /\ UNCHANGED <<pending, skipPoll, batch, cancelled, queues>>

\* finalize_streamed_message, with the partial to replace ...
StreamEnd ==
    /\ pc = "streaming"
    /\ \E m \in Responses :
          /\ context' = [context EXCEPT ![Len(context)] = m]
          /\ Received(m)
    /\ UNCHANGED <<pending, skipPoll, batch, cancelled, queues>>

\* Mutant: the message that had no partial is not announced.
StreamWholeUnannounced ==
    /\ pc = "requested"
    /\ pc' = "whole"
    /\ \E m \in Responses : context' = Append(context, m)
    /\ Silent
    /\ UNCHANGED <<produced, pending, skipPoll, more, batch, cancelled, queues>>

\* ... and without one.
StreamWhole ==
    /\ pc = "requested"
    /\ pc' = "whole"
    /\ \E m \in Responses : context' = Append(context, m) /\ MessageStart(m)
    /\ UNCHANGED <<produced, pending, skipPoll, more, batch, cancelled, queues>>

StreamWholeEnd ==
    /\ pc = "whole"
    /\ Received(context[Len(context)])
    /\ UNCHANGED <<context, pending, skipPoll, batch, cancelled, queues>>

-----------------------------------------------------------------------------
(***************************************************************************)
(* A batch of tool calls.  A call goes from "new" to "started", then to    *)
(* "refused" (unknown tool, bad arguments, blocked, aborted, truncated) or *)
(* "prepared" and "executed", then "ended", "shown" (its result message    *)
(* started) and "reported".  width is how many calls the batch still has:  *)
(* an abort cuts it short.                                                 *)
(***************************************************************************)
Response == produced[Len(produced)]

StartBatch ==
    /\ pc = "batch"
    /\ pc' = "tools"
    /\ \E mode \in IF Response.stop = "length" THEN {"truncated"} ELSE Modes :
          batch' = [mode  |-> mode,
                    width |-> Response.calls,
                    stage |-> [i \in 1 .. Response.calls |-> "new"],
                    ends  |-> [i \in 1 .. Response.calls |-> FALSE]]
    /\ Silent
    /\ UNCHANGED <<context, produced, pending, skipPoll, more, cancelled, queues>>

Calls == 1 .. batch.width

\* When the loop over the calls goes on to the next one.
Passed(i) == batch.stage[i] \in IF batch.mode = "parallel" THEN {"prepared", "ended"}
                                                           ELSE {"reported"}

\* Mutant: a refused call is waited for like the others.
AllPreparedOnly == \A j \in Calls : batch.stage[j] \in {"prepared", "executed"}

AllPrepared == \A j \in Calls : batch.stage[j] \notin {"new", "started", "refused"}

\* Leaving the loop over the calls after call i.
Cut(i) == [batch EXCEPT !.width = IF cancelled THEN i ELSE @]

InBatch == pc = "tools"  /\ UNCHANGED <<pc, context, produced, pending, skipPoll, more, cancelled, queues>>

CallStart(i) ==
    /\ InBatch
    /\ batch.stage[i] = "new" /\ \A j \in 1 .. i - 1 : Passed(j)
    /\ batch' = [batch EXCEPT !.stage[i] = "started"]
    /\ ExecutionStart(<<Response.turn, i>>)

\* prepare_tool_call: an immediate error result.  Only a hook that blocks the
\* call can ask the batch to terminate.
CallRefuse(i) ==
    /\ InBatch
    /\ batch.stage[i] = "started"
    /\ \E ends \in IF cancelled \/ batch.mode = "truncated" THEN {FALSE} ELSE BOOLEAN :
          batch' = [batch EXCEPT !.stage[i] = "refused", !.ends[i] = ends]
    /\ Silent

CallPrepare(i) ==
    /\ InBatch
    /\ batch.stage[i] = "started" /\ batch.mode # "truncated" /\ ~cancelled
    /\ batch' = [batch EXCEPT !.stage[i] = "prepared"]
    /\ Silent

\* Prepared calls of a parallel batch run together, once all are prepared.
CallExecute(i) ==
    /\ InBatch
    /\ batch.stage[i] = "prepared"
    /\ batch.mode = "parallel" => AllPrepared
    /\ \E ends \in BOOLEAN :
          batch' = [batch EXCEPT !.stage[i] = "executed", !.ends[i] = ends]
    /\ Silent

CallEnd(i) ==
    /\ InBatch
    /\ batch.stage[i] \in {"refused", "executed"}
    /\ LET cut == IF batch.mode = "parallel" /\ batch.stage[i] = "refused" THEN Cut(i) ELSE batch
       IN  batch' = [cut EXCEPT !.stage[i] = "ended"]
    /\ ExecutionEnd(<<Response.turn, i>>)

\* Mutant: the results of a parallel batch are sent as the calls end.
ResultStartEager(i) ==
    /\ InBatch
    /\ batch.stage[i] = "ended" /\ streaming = NoMessage
    /\ batch' = [batch EXCEPT !.stage[i] = "shown"]
    /\ MessageStart(Result(Response.turn, i))

\* Results follow the order of the calls, in a parallel batch once all ended.
ResultStart(i) ==
    /\ InBatch
    /\ batch.stage[i] = "ended"
    /\ batch.mode = "parallel" =>
          \A j \in Calls : batch.stage[j] = IF j < i THEN "reported" ELSE "ended"
    /\ batch' = [batch EXCEPT !.stage[i] = "shown"]
    /\ MessageStart(Result(Response.turn, i))

ResultEnd(i) ==
    /\ InBatch
    /\ batch.stage[i] = "shown"
    /\ LET cut == IF batch.mode = "sequential" THEN Cut(i) ELSE batch
       IN  batch' = [cut EXCEPT !.stage[i] = "reported"]
    /\ MessageEnd(Result(Response.turn, i))

\* The abort came while the last event of call i was being handled: the check
\* that follows it leaves the loop.  (One that comes later does not.)
CallBreak(i) ==
    /\ InBatch
    /\ cancelled /\ batch.mode # "truncated"
    /\ Passed(i) /\ i < batch.width /\ batch.stage[i + 1] = "new"
    /\ batch' = Cut(i)
    /\ Silent

BatchEnd ==
    /\ pc = "tools"
    /\ \A i \in Calls : batch.stage[i] = "reported"
    /\ pc' = "turn_end"
    /\ LET results == [i \in Calls |-> Result(Response.turn, i)] IN
       /\ context' = context \o results
       /\ produced' = produced \o results
    /\ more' = ~(\A i \in Calls : batch.ends[i])
    /\ batch' = NoBatch
    /\ Silent
    /\ UNCHANGED <<pending, skipPoll, cancelled, queues>>

-----------------------------------------------------------------------------
\* A response that is an error or was aborted ends the run.
TurnEnd ==
    /\ pc \in {"turn_end", "abandon"}
    /\ pc' = IF pc = "abandon" THEN "agent_end" ELSE "after_turn"
    /\ Bracket("agent")
    /\ UNCHANGED <<progress, cancelled, queues>>

\* should_stop_after_turn, and the steering poll.
AfterTurn ==
    /\ pc = "after_turn"
    /\ \/ pc' = "agent_end" /\ UNCHANGED <<pending, steering>>
       \/ /\ pending' = Drained(steering)
          /\ steering' = Remaining(steering)
          /\ pc' = IF more \/ pending' # <<>> THEN "prepare" ELSE "follow_up"
    /\ Silent
    /\ UNCHANGED <<context, produced, skipPoll, more, batch, cancelled, followUps, asked>>

FollowUps ==
    /\ pc = "follow_up"
    /\ pending' = Drained(followUps)
    /\ followUps' = Remaining(followUps)
    /\ more' = (pending' # <<>>)
    /\ pc' = IF pending' # <<>> THEN "prepare" ELSE "agent_end"
    /\ Silent
    /\ UNCHANGED <<context, produced, skipPoll, batch, cancelled, steering, asked>>

AgentEnd ==
    /\ pc = "agent_end"
    /\ pc' = "done"
    /\ phase' = "out"
    /\ streaming' = NoMessage
    /\ UNCHANGED <<progress, cancelled, queues, transcript, pendingCalls>>

-----------------------------------------------------------------------------
CallStep(i) ==
    \/ CallStart(i) \/ CallRefuse(i) \/ CallPrepare(i) \/ CallExecute(i)
    \/ CallEnd(i) \/ ResultStart(i) \/ ResultEnd(i) \/ CallBreak(i)

LoopStep ==
    \/ AgentStart \/ FirstTurn \/ AnnounceStart \/ AnnounceEnd \/ FirstPoll
    \/ PrepareNextTurn \/ NextTurn \/ Request
    \/ StreamStart \/ StreamEnd \/ StreamWhole \/ StreamWholeEnd
    \/ StartBatch \/ (\E i \in Calls : CallStep(i)) \/ BatchEnd
    \/ TurnEnd \/ AfterTurn \/ FollowUps \/ AgentEnd

\* Others, while the run goes on: Agent::steer, follow_up and abort.
Steer ==
    /\ asked.steer < MaxSteered
    /\ steering' = Append(steering, User("steer", asked.steer + 1))
    /\ asked' = [asked EXCEPT !.steer = @ + 1]
    /\ UNCHANGED <<pc, progress, cancelled, sink, followUps>>

FollowUp ==
    /\ asked.followUp < MaxFollowUps
    /\ followUps' = Append(followUps, User("followUp", asked.followUp + 1))
    /\ asked' = [asked EXCEPT !.followUp = @ + 1]
    /\ UNCHANGED <<pc, progress, cancelled, sink, steering>>

Cancel ==
    /\ ~cancelled
    /\ cancelled' = TRUE
    /\ UNCHANGED <<pc, progress, queues, sink>>
-----------------------------------------------------------------------------
\* One run on its own: a prompt on an empty transcript.
Prompted == pc = "idle" /\ UNCHANGED cancelled /\ Begin(<<User("prompt", 1)>>, FALSE)

LoopNext == Prompted \/ LoopStep \/ Steer \/ FollowUp \/ Cancel

LoopSpec == LoopInit /\ [][LoopNext]_loopVars

\* Listeners, tools, hooks and the model answer: the run's task is polled
\* until it ends.
FairLoopSpec == LoopSpec /\ WF_loopVars(LoopStep)

-----------------------------------------------------------------------------
Messages ==
    [role : {"user"}, from : {"prompt", "steer", "followUp"}, n : Nat]
        \cup [role : {"assistant"}, turn : Nat, calls : Nat,
              stop : {"partial", "stop", "length", "error"}]
        \cup [role : {"toolResult"}, turn : Nat, call : Nat]

Stages == {"new", "started", "refused", "prepared", "executed", "ended", "shown", "reported"}

Points ==
    {"idle", "agent_start", "turn_start", "prompts", "prompt", "inject", "injection",
     "prepare", "next_turn", "requested", "streaming", "whole", "batch", "tools",
     "turn_end", "abandon", "after_turn", "follow_up", "agent_end", "done", "failed"}

\* Type invariant of the message lists and the batch of run_loop, and of the
\* agent state its events are reduced into.
DataTypeOK ==
    /\ context \in Seq(Messages) /\ produced \in Seq(Messages) /\ pending \in Seq(Messages)
    /\ skipPoll \in BOOLEAN /\ more \in BOOLEAN /\ cancelled \in BOOLEAN
    /\ batch.mode \in Modes \cup {"none", "truncated"} /\ batch.width \in 0 .. MaxCalls
    /\ DOMAIN batch.stage = DOMAIN batch.ends
    /\ Calls \subseteq DOMAIN batch.stage
    /\ \A i \in DOMAIN batch.stage : batch.stage[i] \in Stages /\ batch.ends[i] \in BOOLEAN
    /\ steering \in Seq(Messages) /\ followUps \in Seq(Messages)
    /\ asked \in [steer : Nat, followUp : Nat]
    /\ transcript \in Seq(Messages) /\ streaming \in Messages \cup {NoMessage}
    /\ pendingCalls \subseteq Nat \X Nat
    /\ phase \in {"out", "agent", "turn"}

\* Type invariant of a run on its own.
LoopTypeOK == pc \in Points /\ DataTypeOK

\* The model is asked with the agent's transcript, or after a compaction with
\* what followed the end of an earlier turn: the context the loop keeps beside
\* the events it emits never drifts from what the events built.
ContextFollowsTranscript ==
    pc \in {"inject", "requested"} /\ pending = <<>> =>
        \E k \in DOMAIN transcript :
            /\ context = SubSeq(transcript, k, Len(transcript))
            /\ k = 1 \/ (Compacts /\ transcript[k].role # "user")

\* Every tool call of a complete response is answered before the next request,
\* once and in the order of the calls, however the calls were run and
\* whichever ended first; only an abort leaves the last ones unanswered.
AnsweredInOrder ==
    \A k \in DOMAIN transcript :
        LET m == transcript[k]
            given == Cardinality({j \in DOMAIN transcript :
                        transcript[j].role = "toolResult" /\ transcript[j].turn = m.turn})
        IN  IsAssistant(m) /\ m.stop \in {"stop", "length"} =>
                /\ given <= m.calls
                /\ SubSeq(transcript, k + 1, k + given) = [i \in 1 .. given |-> Result(m.turn, i)]
                /\ m.turn < Turn \/ pc = "requested" => given = m.calls \/ cancelled

\* The messages of a queue reach the transcript in the order they were queued,
\* each of them once; until then each is still queued or about to be announced.
InOrder(from, queue, n) ==
    LET all == transcript \o pending \o queue
        Of  == {k \in DOMAIN all : all[k].role = "user" /\ all[k].from = from}
    IN  /\ {all[k].n : k \in Of} = 1 .. n
        /\ \A j, k \in Of : j < k => all[j].n < all[k].n

NoneLostOrOvertaken ==
    InOrder("steer", steering, asked.steer) /\ InOrder("followUp", followUps, asked.followUp)

\* agent_loop.rs:224 "Only poll again if the earlier poll returned nothing;
\* otherwise one-at-a-time mode would deliver two messages in this turn."
OneAtATime ==
    LET Queued(k) == transcript[k].role = "user" /\ transcript[k].from # "prompt"
    IN  QueueMode = "one-at-a-time" =>
            \A j \in DOMAIN transcript : \A i \in 1 .. j - 1 :
                Queued(i) /\ Queued(j) => \E k \in i .. j : IsAssistant(transcript[k])

\* What a listener sees nests: a turn or the run begins and ends only with no
\* message open and no tool call running, messages start and end one at a time
\* inside a turn, and a message joins the transcript as it ends.
EventsNest ==
    [][/\ phase' # phase => streaming = NoMessage /\ pendingCalls = {}
       /\ streaming' # streaming => \/ streaming = NoMessage /\ phase = "turn"
                                    \/ streaming' = NoMessage
       /\ streaming # NoMessage /\ streaming' = NoMessage <=> transcript' # transcript
       /\ transcript' # transcript =>
              LET newest == transcript'[Len(transcript')]
              IN  transcript' = Append(transcript, newest) /\ newest.role = streaming.role
      ]_loopVars

\* A run ends, or fails before it could ask the model: no order of tool calls,
\* aborts and queued messages leaves it waiting for itself.
RunEnds == pc = "agent_start" ~> pc \in {"done", "failed"}
=============================================================================
