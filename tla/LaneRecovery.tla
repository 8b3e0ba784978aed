---------------------------- MODULE LaneRecovery ----------------------------
(***************************************************************************)
(* The lane's log as it grows, and what the reduction makes of it.  The    *)
(* crate has the records, their validation and their reduction; the driver *)
(* that writes them is a client of it.  The one here writes one item at a  *)
(* time, each record before the step it announces, retries, is steered,    *)
(* aborted and deferred, and remembers what it is doing; it may crash      *)
(* after any item, and the reduction has to know then what it knew.        *)
(***************************************************************************)
EXTENDS LaneReducer

CONSTANTS MaxLog, MaxQueued, MaxWrites, MaxAttempts, MaxCalls     \* bounds

VARIABLES lane,      \* the log
          memory     \* of the driver: the lane's state

laneVars == <<lane, memory>>

IdleMemory(next, model) == [operation |-> NoId, next |-> next, model |-> model]

LaneInit == lane = <<>> /\ memory = IdleMemory(<<>>, "default")

OperationOpen     == memory.operation # NoId
RunOpen  == OperationOpen /\ memory.kind = "run"
Stepping == memory.step # NoStep
Resolved == \A c \in DOMAIN memory.batch.calls : memory.batch.calls[c].done

\* The id of what the next item introduces.
FreshId == Len(lane) + 1

Puts(item) == Len(lane) < MaxLog /\ lane' = Append(lane, item)

RecordItem(type, fields) == fields @@ [sort |-> "record", type |-> type]

\* An entry ends the tail that was there.
Appended(m) == [m EXCEPT !.deferred = FALSE, !.failure = FALSE]

(******************************* Operations ********************************)

Started(kind, missing, next) ==
    [operation |-> FreshId, kind |-> kind, aborting |-> FALSE, step |-> NoStep, batch |-> NoBatch,
     missing |-> missing, steer |-> <<>>, followUp |-> <<>>, writes |-> <<>>, deferred |-> FALSE,
     overflow |-> FALSE, target |-> FALSE, failure |-> FALSE, next |-> next, model |-> memory.model]

\* A run takes what was queued for it, and a prompt.
StartRun ==
    /\ ~OperationOpen
    /\ LET initial == Append(memory.next, UserMessage(FreshId))
       IN  /\ Puts(RecordItem("operation_started", [id |-> FreshId, kind |-> "run", initial |-> initial]))
           /\ memory' = Started("run", initial, <<>>)

\* A compaction, or a navigation with or without a summary.
StartOther ==
    /\ ~OperationOpen
    /\ \E k \in {"compaction", "navigation"}, summary \in BOOLEAN :
          /\ k = "compaction" => summary
          /\ Puts(RecordItem("operation_started",
                           [id |-> FreshId, kind |-> k, result |-> IF summary THEN FreshId ELSE NoId]))
          /\ memory' = Started(k, <<>>, memory.next)

FinishOperation ==
    /\ OperationOpen /\ memory.missing = <<>> /\ memory.writes = <<>> /\ ~memory.deferred
    /\ memory.aborting \/ (Resolved /\ ~Stepping)
    /\ Puts(RecordItem("operation_finished", [run |-> memory.operation]))
    /\ memory' = IdleMemory(memory.next, memory.model)

RequestAbort ==
    /\ OperationOpen /\ ~memory.aborting
    /\ Puts(RecordItem("abort_requested", [run |-> memory.operation]))
    /\ memory' = [memory EXCEPT !.aborting = TRUE, !.steer = <<>>, !.followUp = <<>>]

(********************************* Inputs **********************************)

WriteInitial ==
    /\ RunOpen /\ memory.missing # <<>> /\ Puts(Head(memory.missing))
    /\ memory' = [Appended(memory) EXCEPT !.missing = Tail(@), !.overflow = FALSE]

Queued == At(lane, "queue_enqueued")

Enqueue(queue) ==
    /\ Cardinality(Queued) < MaxQueued
    /\ queue # "next" => RunOpen /\ ~memory.aborting
    /\ Puts(RecordItem("queue_enqueued",
                     [queue |-> IF queue = "next" THEN "nextRun" ELSE queue,
                      run |-> IF queue = "next" THEN NoId ELSE memory.operation,
                      target |-> UserMessage(FreshId)]))
    /\ memory' = [memory EXCEPT ![queue] = Append(@, UserMessage(FreshId))]

CancelQueued(queue) ==
    /\ queue # "next" => RunOpen
    /\ memory[queue] # <<>>
    /\ Puts(RecordItem("queue_cancelled",
                     [run |-> IF queue = "next" THEN NoId ELSE memory.operation,
                      entry |-> Head(memory[queue]).id]))
    /\ memory' = [memory EXCEPT ![queue] = Tail(@)]

\* Between two steps.
Rests == memory.missing = <<>> /\ ~Stepping /\ Resolved /\ ~memory.deferred /\ ~memory.failure

Deliver(queue) ==
    /\ RunOpen /\ ~memory.aborting /\ Rests
    /\ memory[queue] # <<>> /\ Puts(Head(memory[queue]))
    /\ memory' = [Appended(memory) EXCEPT ![queue] = Tail(@), !.overflow = FALSE]

DeferWrite ==
    /\ OperationOpen /\ Cardinality(At(lane, "write_deferred")) < MaxWrites
    /\ \E e \in {UserMessage(FreshId), ModelChange(FreshId, "changed"), AssistantEntry(FreshId, "error", 0, memory.model)}
            \cup {ToolResult(FreshId, CallOf(memory.batch.assistant, c), FALSE) : c \in DOMAIN memory.batch.calls} :
          /\ Puts(RecordItem("write_deferred", [run |-> memory.operation, target |-> e]))
          /\ memory' = [memory EXCEPT !.writes = Append(@, e)]

\* Not within a step, nor behind a handle that is yet to be fetched.
FlushWrite ==
    /\ OperationOpen /\ memory.writes # <<>> /\ (memory.aborting \/ ~Stepping) /\ ~memory.deferred
    /\ LET e == Head(memory.writes)
       IN  /\ Puts(e)
           /\ memory' = [Appended(memory) EXCEPT
                           !.writes = Tail(@),
                           !.model = IF e.type = "model_change" THEN e.model ELSE @]

(********************************** Steps **********************************)

\* What the operation may attempt next, and what the result of the attempt is to be.
Attempts ==
    CASE memory.kind = "run" ->
           {[step |-> "assistant", reason |-> "none", result |-> FreshId]}
           \cup {[step |-> "compaction", reason |-> r, result |-> FreshId] : r \in {"threshold", "overflow"}}
      [] memory.kind = "compaction" ->
           {[step |-> "compaction", reason |-> "manual", result |-> memory.operation]}
      [] memory.kind = "navigation" ->
           IF lane[memory.operation].result = NoId THEN {}
           ELSE {[step |-> "branch_summary", reason |-> "none", result |-> memory.operation]}

\* A first attempt, or one more of the step; a step may also be left for another.
AttemptStep ==
    /\ OperationOpen /\ ~memory.aborting /\ memory.missing = <<>> /\ Resolved
    /\ ~memory.deferred /\ ~memory.failure /\ ~memory.target
    /\ \E a \in Attempts :
          LET again  == memory.step.kind = a.step
              number == IF again THEN memory.step.attempts + 1 ELSE 1
              result == IF again /\ a.step # "assistant" THEN memory.step.result ELSE a.result
          IN  /\ number <= MaxAttempts
              /\ again => a.step = "assistant" \/ a.reason = memory.step.reason
              /\ Puts(RecordItem("step_attempt", [run |-> memory.operation, step |-> a.step, attempt |-> number,
                                                result |-> result, reason |-> a.reason]))
              /\ memory' = [memory EXCEPT
                              !.step = [kind |-> a.step, attempts |-> number, result |-> result, reason |-> a.reason],
                              !.overflow = @ \/ a.reason = "overflow"]

Uncalled == [started |-> FALSE, done |-> FALSE, terminate |-> FALSE]

\* What an answer leaves to do.
AfterAnswer(m, id, stop, n) ==
    [m EXCEPT !.step = NoStep,
              !.deferred = stop = "deferred", !.failure = stop = "error",
              !.batch = IF n = 0 THEN @ ELSE [assistant |-> id, calls |-> [c \in 1..n |-> Uncalled],
                                              truncated |-> stop = "length"]]

Answers ==
    {<<s, 0>> : s \in {"stop", "error", "deferred"}} \cup ({"toolUse", "length"} \X (1..MaxCalls))

AssistantAnswers ==
    /\ RunOpen /\ memory.step.kind = "assistant"
    /\ \E a \in Answers :
          /\ Puts(AssistantEntry(memory.step.result, a[1], a[2], memory.model))
          /\ memory' = AfterAnswer(memory, memory.step.result, a[1], a[2])

\* The compaction or the summary of the step, which may be all that the operation is for.
StepResult ==
    /\ OperationOpen /\ memory.step.kind \in {"compaction", "branch_summary"}
    /\ Puts(Item(memory.step.result, memory.step.kind))
    /\ memory' = [Appended(memory) EXCEPT !.step = NoStep, !.target = memory.kind # "run"]

\* The cost of a fetch is told before its answer, or not at all.
Told == {i \in At(lane, "usage") : \A j \in EntriesOf(lane) : j < i}

TellUsage ==
    /\ RunOpen /\ memory.deferred /\ Told = {}
    /\ Puts(RecordItem("usage", [run |-> memory.operation, entry |-> FreshId]))
    /\ UNCHANGED memory

FetchDeferred ==
    /\ RunOpen /\ memory.deferred
    /\ \E stop \in {"stop", "error"} :
          LET id == IF Told = {} THEN FreshId ELSE lane[CHOOSE i \in Told : TRUE].entry
          IN  /\ Puts(AssistantEntry(id, stop, 0, memory.model))
              /\ memory' = AfterAnswer(memory, id, stop, 0)

(********************************** Tools **********************************)

StartTool(c) ==
    /\ c \in DOMAIN memory.batch.calls /\ ~memory.aborting
    /\ ~memory.batch.calls[c].started /\ ~memory.batch.calls[c].done
    /\ Puts(RecordItem("tool_started",
                     [run |-> memory.operation, assistant |-> memory.batch.assistant, index |-> c,
                      call |-> CallOf(memory.batch.assistant, c), result |-> FreshId]))
    /\ memory' = [memory EXCEPT !.batch.calls[c].started = TRUE]

StartOf(c) ==
    lane[CHOOSE i \in At(lane, "tool_started") :
            lane[i].assistant = memory.batch.assistant /\ lane[i].index = c]

\* A tool that was started ends, or one is blocked before it starts.
ToolResultArrives(c) ==
    /\ RunOpen /\ c \in DOMAIN memory.batch.calls /\ ~memory.batch.calls[c].done
    /\ \E terminate \in BOOLEAN :
          LET id == IF memory.batch.calls[c].started THEN StartOf(c).result ELSE FreshId
          IN  /\ Puts(ToolResult(id, CallOf(memory.batch.assistant, c), terminate))
              /\ memory' = [Appended(memory) EXCEPT
                              !.batch.calls[c].done = TRUE, !.batch.calls[c].terminate = terminate]

LaneNext ==
    \/ StartRun \/ StartOther \/ FinishOperation \/ RequestAbort
    \/ WriteInitial \/ DeferWrite \/ FlushWrite
    \/ \E q \in {"steer", "followUp", "next"} : Enqueue(q) \/ CancelQueued(q)
    \/ \E q \in {"steer", "followUp"} : Deliver(q)
    \/ AttemptStep \/ AssistantAnswers \/ StepResult \/ TellUsage \/ FetchDeferred
    \/ \E c \in 1..MaxCalls : OperationOpen /\ (StartTool(c) \/ ToolResultArrives(c))

LaneSpec == LaneInit /\ [][LaneNext]_laneVars

(******************************** Properties *******************************)

\* After a crash behind any item the log is found sound, and the reduction knows what
\* the driver knew: the operation and its open step with the number of its attempts,
\* the input that is missing and the inputs, writes and calls that are pending, in
\* their order, and neither what is done already nor what is cancelled, killed by the
\* abort, or only looks like a result or a failure.
RecoversExactly == ValidateRecordLog(lane) /\ ReduceLaneState(lane) = memory
=============================================================================
