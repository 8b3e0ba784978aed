----------------------------- MODULE LaneReducer -----------------------------
(***************************************************************************)
(* What a lane was doing, reconstructed from its log alone after a crash   *)
(* (harness/reducer.rs): validate_record_log and reduce_lane_state.        *)
(*                                                                         *)
(* The log is one sequence of records and entries; a position in it is a   *)
(* sequence number, and the id of what the item at it introduces.          *)
(***************************************************************************)
EXTENDS Integers, Sequences, FiniteSets, TLC
LOCAL INSTANCE SequencesExt

NoId == 0

(******************************* Log and entries ***************************)

\* An entry as it is intended; its position in the log is its sequence.
Item(id, type)        == [sort |-> "entry", id |-> id, type |-> type]
UserMessage(id)       == Item(id, "user")
CompactionEntry(id)   == Item(id, "compaction")
SummaryEntry(id)      == Item(id, "branch_summary")
ModelChange(id, m)    == [sort |-> "entry", id |-> id, type |-> "model_change", model |-> m]
ToolResult(id, c, t)  == [sort |-> "entry", id |-> id, type |-> "tool_result", call |-> c, terminate |-> t]
AssistantEntry(id, stop, n, m) ==
    [sort |-> "entry", id |-> id, type |-> "assistant", stop |-> stop, calls |-> n, model |-> m,
     handle |-> stop = "deferred"]

\* The id of the i-th call of the assistant message a.
CallOf(a, i) == <<a, i>>

At(log, type)     == {i \in DOMAIN log : log[i].sort = "record" /\ log[i].type = type}
EntriesOf(log)    == {i \in DOMAIN log : log[i].sort = "entry"}
Present(log, id)  == \E i \in EntriesOf(log) : log[i].id = id
PositionOf(log, id)    == CHOOSE i \in EntriesOf(log) : log[i].id = id
Stored(log, id)   == log[PositionOf(log, id)]
InLog(log, where) == LET order == SetToSortSeq(where, <) IN [k \in DOMAIN order |-> log[order[k]]]

RunOf(r) ==
    CASE r.type = "operation_started" -> r.id
      [] r.type = "queue_enqueued"    -> IF r.queue = "nextRun" THEN NoId ELSE r.run
      [] r.type = "queue_cancelled"   -> NoId
      [] OTHER                        -> r.run

(******************************** Validation *******************************)

MatchesProvisioned(log, e) == Present(log, e.id) => Stored(log, e.id) = e

ResultIs(log, id, type) == Present(log, id) => Stored(log, id).type = type

StepType(step) == IF step = "assistant" THEN "assistant" ELSE step

ValidIntent(log, r) ==
    CASE r.kind = "run"        -> \A k \in DOMAIN r.initial : MatchesProvisioned(log, r.initial[k])
      [] r.kind = "compaction" -> ResultIs(log, r.result, "compaction")
      [] r.kind = "navigation" -> r.result # NoId => ResultIs(log, r.result, "branch_summary")

ValidReason(r) ==
    IF r.step = "compaction" THEN r.reason \in {"manual", "threshold", "overflow"} ELSE r.reason = "none"

\* The attempt of the same run before the one at i.
LatestAttempt(log, i) ==
    LET before == {j \in At(log, "step_attempt") : j < i /\ log[j].run = log[i].run}
    IN  IF before = {} THEN NoId ELSE CHOOSE j \in before : \A k \in before : k <= j

\* It is of the same step, and the step has no result yet.
Continues(log, i) ==
    LET j == LatestAttempt(log, i)
    IN  /\ j # NoId /\ log[j].step = log[i].step
        /\ Present(log, log[j].result) => PositionOf(log, log[j].result) >= i

ValidSequence(log, i) ==
    LET j == LatestAttempt(log, i)
    IN  IF Continues(log, i)
        THEN /\ log[i].attempt = log[j].attempt + 1
             /\ log[i].step # "assistant" => /\ log[i].result = log[j].result
                                             /\ log[i].reason = log[j].reason
        ELSE log[i].attempt = 1

\* The call is one of an assistant message, it is started once, and its result is its own.
ValidToolStart(log, i) ==
    LET r == log[i]
    IN  /\ ~\E j \in At(log, "tool_started") :
              j < i /\ log[j].assistant = r.assistant /\ log[j].index = r.index
        /\ Present(log, r.assistant) /\ Stored(log, r.assistant).type = "assistant"
        /\ r.index <= Stored(log, r.assistant).calls
        /\ r.call = CallOf(r.assistant, r.index)
        /\ ResultIs(log, r.result, "tool_result")
        /\ Present(log, r.result) => Stored(log, r.result).call = r.call

EnqueueOf(log, i) == {j \in At(log, "queue_enqueued") : j < i /\ log[j].target.id = log[i].entry}

\* What is cancelled was enqueued for the same run and is not delivered.
ValidCancellation(log, i) ==
    /\ \E j \in EnqueueOf(log, i) : log[j].run = log[i].run
    /\ ~Present(log, log[i].entry)

QueuedInTime(log, i) ==
    log[i].queue # "nextRun" => ~\E j \in At(log, "abort_requested") : j < i /\ log[j].run = log[i].run

\* The run is known, and goes on.
OfOpenRun(log, i) ==
    LET run == RunOf(log[i])
    IN  run # NoId =>
          /\ \E j \in At(log, "operation_started") : j < i /\ log[j].id = run
          /\ ~\E j \in At(log, "operation_finished") : j < i /\ log[j].run = run

ValidLaneRecord(log, i) ==
    LET r == log[i]
    IN  IF r.type = "operation_started" THEN ValidIntent(log, r)
        ELSE /\ OfOpenRun(log, i)
             /\ CASE r.type = "step_attempt"    -> /\ ValidReason(r) /\ ValidSequence(log, i)
                                                   /\ ResultIs(log, r.result, StepType(r.step))
                  [] r.type = "tool_started"    -> ValidToolStart(log, i)
                  [] r.type = "queue_enqueued"  -> QueuedInTime(log, i) /\ MatchesProvisioned(log, r.target)
                  [] r.type = "queue_cancelled" -> ValidCancellation(log, i)
                  [] r.type = "write_deferred"  -> MatchesProvisioned(log, r.target)
                  [] OTHER                      -> TRUE

OpenOperations(log) ==
    {i \in At(log, "operation_started") : ~\E j \in At(log, "operation_finished") : log[j].run = log[i].id}

ValidHandles(log) ==
    \A i \in EntriesOf(log) : (log[i].type = "assistant" /\ log[i].stop = "deferred") => log[i].handle

ValidateRecordLog(log) ==
    /\ Cardinality(OpenOperations(log)) <= 1
    /\ ValidHandles(log)
    /\ \A i \in DOMAIN log : log[i].sort = "record" => ValidLaneRecord(log, i)

(******************************** Reduction ********************************)

Cancelled(log) == {log[i].entry : i \in At(log, "queue_cancelled")}

PendingQueue(log) ==
    {i \in At(log, "queue_enqueued") :
        ~Present(log, log[i].target.id) /\ log[i].target.id \notin Cancelled(log)}

Targets(log, where) == LET found == InLog(log, where) IN [k \in DOMAIN found |-> found[k].target]

IdsOf(entries) == {entries[k].id : k \in DOMAIN entries}

InitialOf(start) == IF start.kind = "run" THEN start.initial ELSE <<>>

\* For the next run, but for what the open one has captured.
PendingNextRun(log, captured) ==
    Targets(log, {i \in PendingQueue(log) :
                     log[i].queue = "nextRun" /\ log[i].run = NoId /\ log[i].target.id \notin captured})

\* The model of the newest entry that has one.
EffectiveModel(log) ==
    LET telling == {i \in EntriesOf(log) : log[i].type \in {"model_change", "assistant"}}
    IN  IF telling = {} THEN "default" ELSE log[CHOOSE i \in telling : \A j \in telling : j <= i].model

OfRun(log, run) == {i \in DOMAIN log : log[i].sort = "record" /\ RunOf(log[i]) = run}

\* Steering is dead once the run is to abort.
PendingFor(log, run, queue, aborting) ==
    IF aborting THEN <<>>
    ELSE Targets(log, {i \in PendingQueue(log) : log[i].queue = queue /\ log[i].run = run})

PendingWrites(log, run) ==
    Targets(log, {i \in OfRun(log, run) : log[i].type = "write_deferred" /\ ~Present(log, log[i].target.id)})

DeferredIds(log, run) == {log[i].target.id : i \in {j \in OfRun(log, run) : log[j].type = "write_deferred"}}

NoStep == [kind |-> "none", attempts |-> 0, result |-> NoId, reason |-> "none"]

\* The newest attempt, unless its result exists.
StepOf(log, run) ==
    LET attempts == {i \in OfRun(log, run) : log[i].type = "step_attempt"}
        newest   == CHOOSE i \in attempts : \A j \in attempts : j <= i
    IN  IF attempts = {} \/ Present(log, log[newest].result) THEN NoStep
        ELSE [kind |-> log[newest].step, attempts |-> log[newest].attempt,
              result |-> log[newest].result, reason |-> log[newest].reason]

\* An overflow was compacted after the newest input that was consumed.
OverflowUsed(log, run, initial) ==
    LET inputs == initial \cup {log[i].target.id : i \in {j \in OfRun(log, run) : log[j].type = "queue_enqueued"}}
        newest == {PositionOf(log, id) : id \in {x \in inputs : Present(log, x)}}
    IN  \E i \in OfRun(log, run) :
           /\ log[i].type = "step_attempt" /\ log[i].reason = "overflow"
           /\ \A k \in newest : i > k

NoBatch == [assistant |-> NoId, calls |-> <<>>, truncated |-> FALSE]

\* Mutant: the entry of a deferred write resolves a call.
CallStateDeferred(log, run, own, a, c) ==
    LET starts  == {i \in OfRun(log, run) :
                       log[i].type = "tool_started" /\ log[i].assistant = log[a].id /\ log[i].index = c}
        results == {i \in own : i > a /\ log[i].type = "tool_result" /\ log[i].call = CallOf(log[a].id, c)}
    IN  [started   |-> starts # {}, done |-> results # {},
         terminate |-> \E i \in results : log[i].terminate]

\* A call is resolved by the result that its start announced, or by one that follows the
\* message with no start; the entry of a deferred write is neither.
CallState(log, run, own, a, c) ==
    LET starts  == {i \in OfRun(log, run) :
                       log[i].type = "tool_started" /\ log[i].assistant = log[a].id /\ log[i].index = c}
        started == {PositionOf(log, log[i].result) : i \in {j \in starts : Present(log, log[j].result)}}
        blocked == {i \in own : /\ i > a /\ log[i].type = "tool_result" /\ log[i].call = CallOf(log[a].id, c)
                                /\ log[i].id \notin DeferredIds(log, run)}
        results == IF started # {} THEN started ELSE blocked
    IN  [started   |-> starts # {},
         done      |-> results # {},
         terminate |-> results # {} /\ log[CHOOSE i \in results : \A j \in results : i <= j].terminate]

BatchOf(log, run, own) ==
    LET asking == {i \in own : log[i].type = "assistant" /\ log[i].calls > 0}
        last   == CHOOSE i \in asking : \A j \in asking : j <= i
    IN  IF asking = {} THEN NoBatch
        ELSE [assistant |-> log[last].id,
              calls     |-> [c \in 1..log[last].calls |-> CallState(log, run, own, last, c)],
              truncated |-> log[last].stop = "length"]

\* The newest entry is an error that a step or a deferred fetch brought, and no write.
TerminalFailure(log, run, own) ==
    LET newest == CHOOSE i \in own : \A j \in own : j <= i
        older  == {i \in own : i < newest}
        before == CHOOSE i \in older : \A j \in older : j <= i
    IN  /\ own # {} /\ log[newest].type = "assistant" /\ log[newest].stop = "error"
        /\ log[newest].id \notin DeferredIds(log, run)
        /\ \/ \E i \in OfRun(log, run) : log[i].type = "step_attempt" /\ log[i].result = log[newest].id
           \/ \E i \in OfRun(log, run) : log[i].type = "usage" /\ log[i].entry = log[newest].id
           \/ older # {} /\ log[before].type = "assistant" /\ log[before].stop = "deferred"

\* Only the tail of the operation has a handle.
DeferredTail(log, own) ==
    own # {} /\ LET newest == CHOOSE i \in own : \A j \in own : j <= i
                IN  log[newest].type = "assistant" /\ log[newest].stop = "deferred"

IdleLane(log) ==
    [operation |-> NoId, next |-> PendingNextRun(log, {}), model |-> EffectiveModel(log)]

OpenLane(log, at) ==
    LET start == log[at]
        run   == start.id
        own   == {i \in EntriesOf(log) : i > at}
        aborting == \E i \in OfRun(log, run) : log[i].type = "abort_requested"
    IN  [operation |-> run,
         kind      |-> start.kind,
         aborting  |-> aborting,
         step      |-> StepOf(log, run),
         batch     |-> BatchOf(log, run, own),
         missing   |-> SelectSeq(InitialOf(start), LAMBDA e : ~Present(log, e.id)),
         steer     |-> PendingFor(log, run, "steer", aborting),
         followUp  |-> PendingFor(log, run, "followUp", aborting),
         writes    |-> PendingWrites(log, run),
         deferred  |-> DeferredTail(log, own),
         overflow  |-> OverflowUsed(log, run, IdsOf(InitialOf(start))),
         target    |-> start.kind # "run" /\ start.result # NoId /\ Present(log, start.result),
         failure   |-> TerminalFailure(log, run, own),
         next      |-> PendingNextRun(log, IdsOf(InitialOf(start))),
         model     |-> EffectiveModel(log)]

ReduceLaneState(log) ==
    IF OpenOperations(log) = {} THEN IdleLane(log)
    ELSE OpenLane(log, CHOOSE i \in OpenOperations(log) : TRUE)
=============================================================================
