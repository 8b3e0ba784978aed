---------------------------- MODULE AgentProofs ----------------------------
(***************************************************************************)
(* A run of the agent loop, and the runs of an agent, for any queue mode,  *)
(* any number of turns, tool calls, queued messages and tasks.             *)
(*                                                                         *)
(* LoopInv is the inductive invariant of one run (LoopSpec): what is open  *)
(* at each point of it, how far each call of a batch may be while others   *)
(* are behind, which results of a response the transcript holds, where the *)
(* context is in the transcript, and which messages of a queue have been   *)
(* announced, are about to be, or wait.                                    *)
(*                                                                         *)
(* RunInv is that of the runs of an agent (Spec), whatever is dropped,     *)
(* aborted or reset in between: who is in the queue of run_lock, who may   *)
(* be past it, and what an agent without a run looks like.                 *)
(* OnceInv says where each message of a user is: in one of the lists of    *)
(* the agent or of its run, or with one of the calls, and once.            *)
(***************************************************************************)
EXTENDS Agent, LockQueues, SequenceTheorems, FiniteSetTheorems

IsResponse(m) ==
    m \in [role : {"assistant"}, turn : {Turn + 1}, stop : {"stop", "length", "error"}, calls : Nat]

\* Stages of a call that is announced and has not ended.
Underway == {"started", "refused", "prepared", "executed"}

\* Stages of the calls before one that has started.
PastStages == IF batch.mode = "parallel" THEN {"prepared", "executed", "ended", "shown", "reported"}
                                     ELSE {"reported"}

LoopTypes ==
    /\ pc \in Points
    /\ context \in Seq(Messages) /\ produced \in Seq(Messages) /\ pending \in Seq(Messages)
    /\ transcript \in Seq(Messages) /\ steering \in Seq(Messages) /\ followUps \in Seq(Messages)
    /\ cancelled \in BOOLEAN
    /\ asked \in [steer : Nat, followUp : Nat]

Prompting == {"agent_start", "turn_start", "prompts", "prompt"}
Announcing == {"prompts", "prompt", "inject", "injection"}
Answering == {"batch", "tools"}
Between == {"after_turn", "follow_up", "prepare", "next_turn", "agent_end"}

NestInv ==
    /\ pc \in {"idle", "agent_start", "done"} => phase = "out"
    /\ pc \in {"turn_start"} \cup Between => phase = "agent"
    /\ pc \in Announcing \cup Answering \cup {"requested", "streaming", "whole", "turn_end", "abandon"} =>
          phase = "turn"
    /\ pc \notin {"tools", "failed"} => pendingCalls = {}
    /\ pc \in {"prompt", "injection"} => pending # <<>> /\ streaming = Head(pending)
    /\ pc = "streaming" => streaming = Assistant(Turn + 1, "partial", 0)
    /\ pc = "whole" => IsResponse(streaming) /\ context # <<>> /\ context[Len(context)] = streaming
    /\ pc \notin {"prompt", "injection", "streaming", "whole", "tools", "failed"} => streaming = NoMessage
    /\ pc \in {"requested", "streaming", "whole", "turn_end", "abandon", "after_turn", "follow_up"} \cup Answering =>
          pending = <<>>

AllCalls == DOMAIN batch.stage

BatchTyped ==
    /\ batch = [mode |-> batch.mode, width |-> batch.width, stage |-> batch.stage, ends |-> batch.ends]
    /\ batch.stage \in [1 .. Response.calls -> Stages]
    /\ batch.ends \in [1 .. Response.calls -> BOOLEAN]
    /\ batch.width \in 1 .. Response.calls
    /\ batch.width = Response.calls \/ cancelled

\* Calls that were cut off never started; one that started has passed those before it; results
\* come in the order of the calls.
BatchOrder ==
    /\ \A i \in AllCalls : i > batch.width => batch.stage[i] = "new"
    /\ \A i \in AllCalls : batch.stage[i] # "new" => \A j \in 1 .. i - 1 : batch.stage[j] \in PastStages
    /\ \A i \in AllCalls : batch.stage[i] \in {"shown", "reported"} =>
                          \A j \in 1 .. i - 1 : batch.stage[j] = "reported"

BatchShows ==
    /\ \A p \in pendingCalls : \E i \in AllCalls : p = <<Response.turn, i>> /\ batch.stage[i] \in Underway
    /\ \A i \in AllCalls : batch.stage[i] = "shown" => streaming = Result(Response.turn, i)
    /\ (\A i \in AllCalls : batch.stage[i] # "shown") => streaming = NoMessage

BatchInv ==
    /\ pc \in Answering =>
          /\ produced # <<>>
          /\ Response \in [role : {"assistant"}, turn : {Turn}, stop : {"stop", "length"}, calls : Nat \ {0}]
    /\ pc = "tools" => BatchTyped /\ BatchOrder /\ BatchShows

\* The messages after the one at k that answer it are its first g results, and no others are.
Answers(k, g) ==
    /\ {j \in DOMAIN transcript : transcript[j].role = "toolResult" /\ transcript[j].turn = transcript[k].turn}
          = (k + 1) .. (k + g)
    /\ \A i \in 1 .. g : transcript[k + i] = Result(transcript[k].turn, i)

Asking(k) == IsAssistant(transcript[k]) /\ transcript[k].stop \in {"stop", "length"}

TurnsInv ==
    /\ Turn \in Nat
    /\ \A k \in DOMAIN transcript : IsAssistant(transcript[k]) =>
          /\ transcript[k].turn \in 1 .. Turn
          /\ \A j \in 1 .. k - 1 : IsAssistant(transcript[j]) => transcript[j].turn < transcript[k].turn
    /\ \A k \in DOMAIN transcript : transcript[k].role = "toolResult" => transcript[k].turn \in 1 .. Turn
    /\ \A k \in DOMAIN transcript : Asking(k) =>
          \E g \in 0 .. transcript[k].calls :
              /\ Answers(k, g)
              /\ g = transcript[k].calls \/ cancelled \/ (pc \in Answering /\ transcript[k].turn = Turn)

\* How far the reports of a batch are.
Reports(r) ==
    /\ r < Len(transcript) /\ r <= batch.width
    /\ \A i \in AllCalls : batch.stage[i] = "reported" <=> i <= r
    /\ transcript[Len(transcript) - r] = Response
    /\ Answers(Len(transcript) - r, r)

\* The first l messages of the context are the n first of the transcript from some one on.
Follows(l, n) ==
    \E k \in 1 .. n :
        /\ k = 1 \/ (Compacts /\ transcript[k].role # "user")
        /\ l = n - k + 1 /\ l <= Len(context)
        /\ \A i \in 1 .. l : context[i] = transcript[k + i - 1]

\* While the results of a batch are reported, they are not in the context yet.
ReportsInv ==
    /\ pc = "batch" => transcript # <<>> /\ transcript[Len(transcript)] = Response
    /\ pc = "tools" => \E r \in Nat : Reports(r) /\ Follows(Len(context), Len(transcript) - r)

ContextInv ==
    /\ pc \in Prompting => context = transcript \o pending /\ context # <<>>
    /\ pc \in {"inject", "injection", "requested", "batch", "turn_end"} \cup (Between \ {"agent_end"}) =>
          Follows(Len(context), Len(transcript))
    /\ pc \in {"streaming", "whole"} => Follows(Len(context) - 1, Len(transcript))
    /\ pc \in {"turn_end"} \cup (Between \ {"agent_end"}) =>
          transcript # <<>> /\ transcript[Len(transcript)].role # "user"

IsFrom(m, from) == m.role = "user" /\ m.from = from

\* s holds the messages 1 .. n of a queue, in this order.
Holds(s, from, n) ==
    /\ \A k \in DOMAIN s : IsFrom(s[k], from) => s[k].n \in 1 .. n
    /\ \A i \in 1 .. n : \E k \in DOMAIN s : IsFrom(s[k], from) /\ s[k].n = i
    /\ \A j, k \in DOMAIN s : IsFrom(s[j], from) /\ IsFrom(s[k], from) /\ j < k => s[j].n < s[k].n

\* The queue holds the last of the n messages ever queued.
Waits(queue, from, n) ==
    Len(queue) <= n /\ \A i \in DOMAIN queue : queue[i] = User(from, n - Len(queue) + i)

QueueInv ==
    /\ pc = "idle" => transcript = <<>> /\ pending = <<>>
    /\ \A k \in DOMAIN pending : pending[k].role = "user"
    /\ Waits(steering, "steer", asked.steer)
    /\ Waits(followUps, "followUp", asked.followUp)
    /\ Holds(transcript \o pending, "steer", asked.steer - Len(steering))
    /\ Holds(transcript \o pending, "followUp", asked.followUp - Len(followUps))

OfQueue(k) == transcript[k].role = "user" /\ transcript[k].from # "prompt"

\* A response came after the last queued message.
Caught == \A i \in DOMAIN transcript : OfQueue(i) => \E k \in i .. Len(transcript) : IsAssistant(transcript[k])

OneInv ==
    QueueMode = "one-at-a-time" =>
        /\ OneAtATime
        /\ Len(pending) <= 1
        /\ pc \in Prompting \cup {"idle"} => \A k \in DOMAIN transcript : ~OfQueue(k)
        /\ pc \in {"prompts", "prompt", "agent_start", "turn_start"} => \A k \in DOMAIN pending : pending[k].role = "user" /\ pending[k].from = "prompt"
        /\ pc \in {"inject", "injection"} /\ pending # <<>> => Caught
        /\ pc \in Answering \cup Between \cup {"turn_end", "abandon"} => Caught

LoopInv == LoopTypes /\ NestInv /\ BatchInv /\ TurnsInv /\ ReportsInv /\ ContextInv /\ QueueInv /\ OneInv

-----------------------------------------------------------------------------
\* Messages, and the two halves of a drain.
LEMMA MessagesTyped ==
    /\ \A from \in {"prompt", "steer", "followUp"}, n \in Nat : User(from, n) \in Messages
    /\ \A turn, calls \in Nat, stop \in {"partial", "stop", "length", "error"} :
          Assistant(turn, stop, calls) \in Messages
    /\ \A turn, i \in Nat : Result(turn, i) \in Messages
    /\ \A m \in Messages : m # NoMessage
BY DEF User, Assistant, Result, NoMessage, Messages

\* The first message of a list, and those after it.
LEMMA HeadAndTail ==
    ASSUME NEW S, NEW s \in Seq(S), s # <<>>
    PROVE  /\ Head(s) \in S /\ Tail(s) \in Seq(S) /\ Len(Tail(s)) = Len(s) - 1 /\ Head(s) = s[1]
           /\ Len(s) \in Nat \ {0} /\ s[Len(s)] \in S
           /\ \A i \in 1 .. Len(s) - 1 : Tail(s)[i] = s[i + 1]
OBVIOUS

\* A list that grew by one ends with what was added.
LEMMA AppendLast ==
    ASSUME NEW S, NEW s \in Seq(S), NEW x \in S
    PROVE  /\ Append(s, x) # <<>> /\ Append(s, x)[Len(Append(s, x))] = x
           /\ Len(Append(s, x)) = Len(s) + 1 /\ \A i \in 1 .. Len(s) : Append(s, x)[i] = s[i]
OBVIOUS

\* PendingMessageQueue::drain splits a queue into what it takes, its first messages, and what stays.
LEMMA DrainTyped ==
    ASSUME NEW S, NEW q \in Seq(S)
    PROVE  /\ Drained(q) \in Seq(S) /\ Remaining(q) \in Seq(S)
           /\ Len(Drained(q)) + Len(Remaining(q)) = Len(q)
           /\ \A i \in 1 .. Len(Drained(q)) : Drained(q)[i] = q[i]
           /\ \A i \in 1 .. Len(Remaining(q)) : Remaining(q)[i] = q[Len(Drained(q)) + i]
           /\ QueueMode = "one-at-a-time" => Len(Drained(q)) <= 1
           /\ Drained(q) = <<>> => Remaining(q) = q
<1>1. CASE QueueMode = "all" \/ q = <<>>
  <2>1. Drained(q) = q /\ Remaining(q) = <<>>
      BY <1>1 DEF Drained, Remaining
  <2>2. QueueMode = "one-at-a-time" => q = <<>>
      BY <1>1
  <2> QED BY <2>1, <2>2
<1>2. CASE ~(QueueMode = "all" \/ q = <<>>)
  <2>1. Drained(q) = <<Head(q)>> /\ Remaining(q) = Tail(q)
      BY <1>2 DEF Drained, Remaining
  <2> QED BY <1>2, <2>1, HeadAndTail
<1> QED BY <1>1, <1>2

\* Whatever the model answers is a response of the next turn.
LEMMA ResponsesTyped ==
    ASSUME NEW m \in Responses, Turn \in Nat
    PROVE  IsResponse(m) /\ m \in Messages
<1>1. \A n : n \in 1 .. (IF Turn < MaxToolTurns THEN MaxCalls ELSE 0) => n \in Nat
    BY LoopAssumption
<1>2. PICK n \in Nat, stop \in {"stop", "length", "error"} : m = Assistant(Turn + 1, stop, n)
    BY <1>1 DEF Responses
<1> QED BY <1>2 DEF IsResponse, Assistant, Messages

\* Only a response counts as a turn.
LEMMA TurnAppend ==
    ASSUME transcript \in Seq(Messages), NEW m \in Messages, transcript' = Append(transcript, m)
    PROVE  /\ Turn \in Nat
           /\ IsAssistant(m) => Turn' = Turn + 1
           /\ ~IsAssistant(m) => Turn' = Turn
<1> DEFINE S(t) == {k \in DOMAIN t : IsAssistant(t[k])}
<1>1. IsFiniteSet(S(transcript)) /\ Cardinality(S(transcript)) \in Nat
  <2>1. S(transcript) \subseteq 1 .. Len(transcript)
      OBVIOUS
  <2>2. IsFiniteSet(1 .. Len(transcript))
      BY FS_Interval
  <2>3. IsFiniteSet(S(transcript))
      BY <2>1, <2>2, FS_Subset
  <2> QED BY <2>3, FS_CardinalityType
<1>2. CASE IsAssistant(m)
  <2>1. S(transcript') = S(transcript) \cup {Len(transcript) + 1}
      BY <1>2
  <2>2. Len(transcript) + 1 \notin S(transcript)
      OBVIOUS
  <2>3. Cardinality(S(transcript')) = Cardinality(S(transcript)) + 1
      BY <1>1, <2>1, <2>2, FS_AddElement
  <2> QED BY <1>1, <1>2, <2>3 DEF Turn
<1>3. CASE ~IsAssistant(m)
  <2>1. S(transcript') = S(transcript)
      BY <1>3
  <2> QED BY <1>1, <1>3, <2>1 DEF Turn
<1> QED BY <1>2, <1>3

-----------------------------------------------------------------------------
\* Types.
LEMMA TypesNext ==
    ASSUME LoopInv, [LoopNext]_loopVars
    PROVE  LoopTypes'
<1> USE DEF LoopInv
<1>0. /\ LoopTypes /\ NestInv /\ Turn \in Nat
    BY DEF TurnsInv
<1>1. CASE Prompted
    BY <1>1, <1>0, MessagesTyped DEF LoopTypes, Points, Prompted, Begin, progress, queues, sink, Silent
<1>2. CASE AgentStart
    BY <1>2, <1>0 DEF LoopTypes, Points, AgentStart, Bracket, progress, queues, sink, Silent
<1>3. CASE FirstTurn
    BY <1>3, <1>0 DEF LoopTypes, Points, FirstTurn, Bracket, progress, queues, sink, Silent
<1>4. CASE AnnounceStart
    BY <1>4, <1>0 DEF LoopTypes, Points, AnnounceStart, MessageStart, progress, queues, sink, Silent
<1>5. CASE AnnounceEnd
  <2>1. Head(pending) \in Messages /\ Tail(pending) \in Seq(Messages)
      BY <1>5, <1>0, HeadAndTail DEF AnnounceEnd, LoopTypes, NestInv
  <2>2. transcript' \in Seq(Messages) /\ pending' \in Seq(Messages) /\ pc' \in Points
      BY <1>5, <1>0, <2>1 DEF LoopTypes, Points, AnnounceEnd, MessageEnd
  <2>3. context' \in Seq(Messages) /\ produced' \in Seq(Messages)
    <3>1. CASE pc = "prompt"
        BY <1>5, <1>0, <3>1 DEF LoopTypes, AnnounceEnd
    <3>2. CASE pc # "prompt"
      <4>1. context' = Append(context, Head(pending)) /\ produced' = Append(produced, Head(pending))
          BY <1>5, <3>2 DEF AnnounceEnd
      <4> QED BY <1>0, <4>1, <2>1 DEF LoopTypes
    <3> QED BY <3>1, <3>2
  <2> QED BY <1>5, <1>0, <2>2, <2>3 DEF LoopTypes, AnnounceEnd, queues
<1>6. CASE FirstPoll
  <2>1. Drained(steering) \in Seq(Messages) /\ Remaining(steering) \in Seq(Messages)
      BY <1>0, DrainTyped DEF LoopTypes
  <2>2. pending' \in Seq(Messages) /\ steering' \in Seq(Messages) /\ pc' \in Points
      BY <1>6, <1>0, <2>1 DEF FirstPoll, LoopTypes, Points, queues
  <2> QED BY <1>6, <1>0, <2>2 DEF LoopTypes, FirstPoll, queues, sink, Silent
<1>7. CASE PrepareNextTurn
  <2>1. Drained(steering) \in Seq(Messages) /\ Remaining(steering) \in Seq(Messages)
      BY <1>0, DrainTyped DEF LoopTypes
  <2>2. pending' \in Seq(Messages) /\ steering' \in Seq(Messages) /\ pc' \in Points
      BY <1>7, <1>0, <2>1 DEF PrepareNextTurn, LoopTypes, Points
  <2>3. context # <<>>
      BY <1>7, <1>0 DEF PrepareNextTurn, ContextInv, Between, Follows, LoopTypes
  <2>4. context[Len(context)] \in Messages
      BY <1>0, <2>3, HeadAndTail DEF LoopTypes
  <2>5. context' \in Seq(Messages)
    <3>1. context' = context \/ context' = <<context[Len(context)]>>
        BY <1>7 DEF PrepareNextTurn
    <3>2. <<context[Len(context)]>> \in Seq(Messages)
        BY <2>4
    <3> QED BY <1>0, <3>1, <3>2 DEF LoopTypes
  <2> QED BY <1>7, <1>0, <2>2, <2>5 DEF LoopTypes, PrepareNextTurn, sink, Silent
<1>8. CASE NextTurn
    BY <1>8, <1>0 DEF LoopTypes, Points, NextTurn, Bracket, progress, queues, sink, Silent
<1>9. CASE Request
    BY <1>9, <1>0 DEF LoopTypes, Points, Request, progress, queues, sink, Silent
<1>10. CASE StreamStart
    BY <1>10, <1>0, MessagesTyped DEF LoopTypes, Points, StreamStart, MessageStart, progress, queues, sink, Silent
<1>11. CASE StreamEnd
  <2>1. PICK m \in Responses : context' = [context EXCEPT ![Len(context)] = m] /\ Received(m)
      BY <1>11 DEF StreamEnd
  <2>2. m \in Messages
      BY <1>0, ResponsesTyped
  <2>5. context # <<>>
      BY <1>0, <1>11 DEF StreamEnd, ContextInv, Follows, LoopTypes
  <2>6. context' \in Seq(Messages)
      BY <1>0, <2>1, <2>2, <2>5, HeadAndTail, ExceptSeq DEF LoopTypes
  <2>3. context' \in Seq(Messages) /\ produced' \in Seq(Messages) /\ transcript' \in Seq(Messages)
      BY <1>0, <2>1, <2>2, <2>6 DEF LoopTypes, Received, MessageEnd
  <2>4. pc' \in Points
      BY <2>1 DEF Received, Dispatch, Points
  <2> QED BY <1>11, <1>0, <2>3, <2>4 DEF LoopTypes, StreamEnd, queues
<1>12. CASE StreamWhole
    BY <1>12, <1>0, ResponsesTyped DEF LoopTypes, Points, StreamWhole, MessageStart, progress, queues, sink, Silent
<1>13. CASE StreamWholeEnd
    BY <1>13, <1>0, HeadAndTail DEF LoopTypes, Points, StreamWholeEnd, Received, Dispatch, MessageEnd, progress, queues, sink, Silent, NestInv
<1>14. CASE StartBatch
    BY <1>14, <1>0 DEF LoopTypes, Points, StartBatch, progress, queues, sink, Silent
<1>15. ASSUME NEW i \in Calls, CallStep(i)
      PROVE  LoopTypes'
  <2>1. CASE CallStart(i)
      BY <2>1, <1>0 DEF LoopTypes, Points, CallStart, ExecutionStart, InBatch, progress, queues, sink, Silent
  <2>2. CASE CallRefuse(i)
      BY <2>2, <1>0 DEF LoopTypes, Points, CallRefuse, InBatch, progress, queues, sink, Silent
  <2>3. CASE CallPrepare(i)
      BY <2>3, <1>0 DEF LoopTypes, Points, CallPrepare, InBatch, progress, queues, sink, Silent
  <2>4. CASE CallExecute(i)
      BY <2>4, <1>0 DEF LoopTypes, Points, CallExecute, InBatch, progress, queues, sink, Silent
  <2>5. CASE CallEnd(i)
      BY <2>5, <1>0 DEF LoopTypes, Points, CallEnd, ExecutionEnd, InBatch, progress, queues, sink, Silent
  <2>6. CASE ResultStart(i)
      BY <2>6, <1>0 DEF LoopTypes, Points, ResultStart, MessageStart, InBatch, progress, queues, sink, Silent
  <2>7. CASE ResultEnd(i)
    <3>1. Result(Response.turn, i) \in Messages
        BY <2>7, <1>0, MessagesTyped DEF ResultEnd, InBatch, BatchInv, Answering, Calls
    <3>2. transcript' \in Seq(Messages)
        BY <2>7, <1>0, <3>1 DEF ResultEnd, MessageEnd, LoopTypes
    <3> QED BY <2>7, <1>0, <3>2 DEF LoopTypes, ResultEnd, InBatch, queues
  <2>8. CASE CallBreak(i)
      BY <2>8, <1>0 DEF LoopTypes, Points, CallBreak, InBatch, progress, queues, sink, Silent
  <2> QED BY <1>15, <2>1, <2>2, <2>3, <2>4, <2>5, <2>6, <2>7, <2>8 DEF CallStep
<1>16. CASE BatchEnd
  <2>1. \A i \in Calls : Result(Response.turn, i) \in Messages
      BY <1>16, <1>0, MessagesTyped DEF BatchEnd, BatchInv, Answering, Calls
  <2>3. [i \in Calls |-> Result(Response.turn, i)] \in [1 .. batch.width -> Messages] /\ batch.width \in Nat
      BY <1>16, <1>0, <2>1 DEF Calls, BatchEnd, BatchInv, BatchTyped, Answering
  <2>2. [i \in Calls |-> Result(Response.turn, i)] \in Seq(Messages)
      BY <2>3, SeqDef
  <2> QED BY <1>16, <1>0, <2>2 DEF LoopTypes, Points, BatchEnd, queues, sink, Silent
<1>17. CASE TurnEnd
    BY <1>17, <1>0 DEF LoopTypes, Points, TurnEnd, Bracket, progress, queues, sink, Silent
<1>18. CASE AfterTurn
    BY <1>18, <1>0, DrainTyped DEF LoopTypes, Points, AfterTurn, progress, queues, sink, Silent
<1>19. CASE FollowUps
    BY <1>19, <1>0, DrainTyped DEF LoopTypes, Points, FollowUps, progress, queues, sink, Silent
<1>20. CASE AgentEnd
    BY <1>20, <1>0 DEF LoopTypes, Points, AgentEnd, progress, queues, sink, Silent
<1>21. CASE Steer
  <2>1. asked.steer + 1 \in Nat /\ User("steer", asked.steer + 1) \in Messages
      BY <1>0, MessagesTyped DEF LoopTypes
  <2>2. asked' \in [steer : Nat, followUp : Nat]
      BY <1>21, <1>0, <2>1 DEF Steer, LoopTypes
  <2>3. steering' \in Seq(Messages)
      BY <1>21, <1>0, <2>1 DEF Steer, LoopTypes
  <2> QED BY <1>21, <1>0, <2>2, <2>3 DEF LoopTypes, Steer, progress, sink
<1>22. CASE FollowUp
  <2>1. asked.followUp + 1 \in Nat /\ User("followUp", asked.followUp + 1) \in Messages
      BY <1>0, MessagesTyped DEF LoopTypes
  <2>2. asked' \in [steer : Nat, followUp : Nat]
      BY <1>22, <1>0, <2>1 DEF FollowUp, LoopTypes
  <2>3. followUps' \in Seq(Messages)
      BY <1>22, <1>0, <2>1 DEF FollowUp, LoopTypes
  <2> QED BY <1>22, <1>0, <2>2, <2>3 DEF LoopTypes, FollowUp, progress, sink
<1>23. CASE Cancel
    BY <1>23, <1>0 DEF LoopTypes, Points, Cancel, progress, queues, sink, Silent
<1>24. CASE UNCHANGED loopVars
    BY <1>24, <1>0 DEF LoopTypes, Points, loopVars, progress, queues, sink, Silent
<1> QED BY <1>1, <1>2, <1>3, <1>4, <1>5, <1>6, <1>7, <1>8, <1>9, <1>10, <1>11, <1>12, <1>13, <1>14, <1>15, <1>16, <1>17, <1>18, <1>19, <1>20, <1>21, <1>22, <1>23, <1>24 DEF LoopNext, LoopStep

-----------------------------------------------------------------------------
\* Which brackets, messages and calls are open, by where the run is.
LEMMA TurnKept == transcript' = transcript => Turn' = Turn
BY DEF Turn

\* Every step of a run keeps them so.
LEMMA NestNext ==
    ASSUME LoopInv, [LoopNext]_loopVars
    PROVE  NestInv'
<1> USE DEF LoopInv
<1>0. /\ LoopTypes /\ NestInv /\ BatchInv /\ Turn \in Nat
    BY DEF TurnsInv
<1>1. CASE Prompted
    BY <1>1, <1>0, TurnKept DEF NestInv, Announcing, Answering, Between, Prompted, Begin, progress, queues, sink, Silent
<1>2. CASE AgentStart
    BY <1>2, <1>0, TurnKept DEF NestInv, Announcing, Answering, Between, AgentStart, Bracket, progress, queues, sink, Silent
<1>3. CASE FirstTurn
    BY <1>3, <1>0, TurnKept DEF NestInv, Announcing, Answering, Between, FirstTurn, Bracket, progress, queues, sink, Silent
<1>4. CASE AnnounceStart
    BY <1>4, <1>0, TurnKept, MessagesTyped, HeadAndTail DEF NestInv, Announcing, Answering, Between, AnnounceStart, MessageStart, progress, queues, sink, Silent, LoopTypes
<1>5. CASE AnnounceEnd
    BY <1>5, <1>0, TurnKept DEF NestInv, Announcing, Answering, Between, AnnounceEnd, MessageEnd, progress, queues, sink, Silent, LoopTypes
<1>6. CASE FirstPoll
    BY <1>6, <1>0, TurnKept DEF NestInv, Announcing, Answering, Between, FirstPoll, progress, queues, sink, Silent
<1>7. CASE PrepareNextTurn
    BY <1>7, <1>0, TurnKept DEF NestInv, Announcing, Answering, Between, PrepareNextTurn, progress, queues, sink, Silent
<1>8. CASE NextTurn
    BY <1>8, <1>0, TurnKept DEF NestInv, Announcing, Answering, Between, NextTurn, Bracket, progress, queues, sink, Silent
<1>9. CASE Request
    BY <1>9, <1>0, TurnKept DEF NestInv, Announcing, Answering, Between, Request, progress, queues, sink, Silent
<1>10. CASE StreamStart
    BY <1>10, <1>0, TurnKept, MessagesTyped DEF NestInv, Announcing, Answering, Between, StreamStart, MessageStart, progress, queues, sink, Silent
<1>11. CASE StreamEnd
    BY <1>11, <1>0, TurnKept DEF NestInv, Announcing, Answering, Between, StreamEnd, Received, Dispatch, MessageEnd, progress, queues, sink, Silent
<1>12. CASE StreamWhole
  <2>1. PICK m \in Responses : context' = Append(context, m) /\ MessageStart(m)
      BY <1>12 DEF StreamWhole
  <2>2. IsResponse(m) /\ m \in Messages
      BY <1>0, ResponsesTyped
  <2>3. transcript' = transcript /\ Turn' = Turn /\ streaming' = m /\ pendingCalls' = pendingCalls /\ phase' = phase
      BY <2>1, TurnKept DEF MessageStart
  <2>4. context' # <<>> /\ context'[Len(context')] = m
    <3>1. context \in Seq(Messages) /\ m \in Messages /\ context' = Append(context, m)
        BY <1>0, <2>1, <2>2 DEF LoopTypes
    <3> QED BY <3>1, AppendLast
  <2>5. IsResponse(streaming)'
      BY <2>2, <2>3 DEF IsResponse
  <2> QED BY <1>12, <1>0, <2>3, <2>4, <2>5 DEF StreamWhole, NestInv, Announcing, Answering, Between
<1>13. CASE StreamWholeEnd
    BY <1>13, <1>0, TurnKept DEF NestInv, Announcing, Answering, Between, StreamWholeEnd, Received, Dispatch, MessageEnd, progress, queues, sink, Silent
<1>14. CASE StartBatch
    BY <1>14, <1>0, TurnKept DEF NestInv, Announcing, Answering, Between, StartBatch, progress, queues, sink, Silent
<1>15. ASSUME NEW i \in Calls, CallStep(i)
      PROVE  NestInv'
  <2>1. CASE CallStart(i)
      BY <2>1, <1>0, TurnKept DEF NestInv, Announcing, Answering, Between, CallStart, ExecutionStart, InBatch, progress, queues, sink, Silent
  <2>2. CASE CallRefuse(i)
      BY <2>2, <1>0, TurnKept DEF NestInv, Announcing, Answering, Between, CallRefuse, InBatch, progress, queues, sink, Silent
  <2>3. CASE CallPrepare(i)
      BY <2>3, <1>0, TurnKept DEF NestInv, Announcing, Answering, Between, CallPrepare, InBatch, progress, queues, sink, Silent
  <2>4. CASE CallExecute(i)
      BY <2>4, <1>0, TurnKept DEF NestInv, Announcing, Answering, Between, CallExecute, InBatch, progress, queues, sink, Silent
  <2>5. CASE CallEnd(i)
      BY <2>5, <1>0, TurnKept DEF NestInv, Announcing, Answering, Between, CallEnd, ExecutionEnd, InBatch, progress, queues, sink, Silent
  <2>6. CASE ResultStart(i)
      BY <2>6, <1>0, TurnKept DEF NestInv, Announcing, Answering, Between, ResultStart, MessageStart, InBatch, progress, queues, sink, Silent
  <2>7. CASE ResultEnd(i)
      BY <2>7, <1>0, TurnKept DEF NestInv, Announcing, Answering, Between, ResultEnd, MessageEnd, InBatch, progress, queues, sink, Silent
  <2>8. CASE CallBreak(i)
      BY <2>8, <1>0, TurnKept DEF NestInv, Announcing, Answering, Between, CallBreak, InBatch, progress, queues, sink, Silent
  <2> QED BY <1>15, <2>1, <2>2, <2>3, <2>4, <2>5, <2>6, <2>7, <2>8 DEF CallStep
<1>16. CASE BatchEnd
  <2>1. \A i \in AllCalls : batch.stage[i] \in {"new", "reported"}
    <3>1. BatchTyped /\ BatchOrder /\ (\A i \in 1 .. batch.width : batch.stage[i] = "reported") /\ Response.calls \in Nat
        BY <1>16, <1>0 DEF BatchEnd, BatchInv, Answering, Calls
    <3>2. \A i \in AllCalls : i \in Nat /\ i >= 1 /\ (i > batch.width => batch.stage[i] = "new")
        BY <3>1 DEF BatchTyped, BatchOrder, AllCalls
    <3>3. batch.width \in Nat
        BY <3>1 DEF BatchTyped
    <3> QED BY <3>1, <3>2, <3>3
  <2>2. pendingCalls = {} /\ streaming = NoMessage
      BY <1>16, <1>0, <2>1 DEF BatchEnd, BatchInv, BatchShows, Underway
  <2> QED BY <1>16, <1>0, <2>2 DEF BatchEnd, NestInv, Announcing, Answering, Between, queues, sink, Silent
<1>17. CASE TurnEnd
    BY <1>17, <1>0, TurnKept DEF NestInv, Announcing, Answering, Between, TurnEnd, Bracket, progress, queues, sink, Silent
<1>18. CASE AfterTurn
    BY <1>18, <1>0, TurnKept DEF NestInv, Announcing, Answering, Between, AfterTurn, progress, queues, sink, Silent
<1>19. CASE FollowUps
    BY <1>19, <1>0, TurnKept DEF NestInv, Announcing, Answering, Between, FollowUps, progress, queues, sink, Silent
<1>20. CASE AgentEnd
    BY <1>20, <1>0, TurnKept DEF NestInv, Announcing, Answering, Between, AgentEnd, progress, queues, sink, Silent
<1>21. CASE Steer
    BY <1>21, <1>0, TurnKept DEF NestInv, Announcing, Answering, Between, Steer, progress, queues, sink, Silent, IsResponse
<1>22. CASE FollowUp
    BY <1>22, <1>0, TurnKept DEF NestInv, Announcing, Answering, Between, FollowUp, progress, queues, sink, Silent, IsResponse
<1>23. CASE Cancel
    BY <1>23, <1>0, TurnKept DEF NestInv, Announcing, Answering, Between, Cancel, progress, queues, sink, Silent, IsResponse
<1>24. CASE UNCHANGED loopVars
    BY <1>24, <1>0, TurnKept DEF NestInv, Announcing, Answering, Between, loopVars, progress, queues, sink, Silent, IsResponse
<1> QED BY <1>1, <1>2, <1>3, <1>4, <1>5, <1>6, <1>7, <1>8, <1>9, <1>10, <1>11, <1>12, <1>13, <1>14, <1>15, <1>16, <1>17, <1>18, <1>19, <1>20, <1>21, <1>22, <1>23, <1>24 DEF LoopNext, LoopStep

-----------------------------------------------------------------------------
\* Call i goes on to stage s, and the batch is left with its first w calls.
Moves(i, s, w, e) ==
    batch' = [mode |-> batch.mode, width |-> w, stage |-> [batch.stage EXCEPT ![i] = s],
              ends |-> [batch.ends EXCEPT ![i] = e]]

\* What a step of call i leaves alone.
LEMMA CallKeeps ==
    ASSUME LoopInv, NEW i \in Calls, CallStep(i)
    PROVE  /\ pc = "tools" /\ pc' = "tools" /\ cancelled' = cancelled
           /\ Response' = Response /\ Turn' = Turn /\ UNCHANGED <<context, produced, pending, queues>>
           /\ i \in 1 .. batch.width /\ i \in Nat /\ i \in AllCalls /\ batch.width \in Nat
           /\ BatchTyped /\ BatchOrder /\ BatchShows
           /\ Response.calls \in Nat /\ Response.turn = Turn /\ Turn \in Nat
           /\ \/ transcript' = transcript
              \/ transcript' = Append(transcript, Result(Response.turn, i))
<1>1. /\ InBatch
      /\ \/ transcript' = transcript
         \/ transcript' = Append(transcript, Result(Response.turn, i))
    BY DEF CallStep, CallStart, CallRefuse, CallPrepare, CallExecute, CallEnd, ResultStart, ResultEnd,
           CallBreak, Silent, sink, ExecutionStart, ExecutionEnd, MessageStart, MessageEnd
<1>2. /\ pc = "tools" /\ pc' = "tools" /\ cancelled' = cancelled /\ UNCHANGED <<context, produced, pending, queues>>
      /\ Response' = Response
    BY <1>1 DEF InBatch, queues, Response
<1>3. /\ BatchTyped /\ BatchOrder /\ BatchShows /\ Response.calls \in Nat
      /\ Response.turn = Turn /\ Turn \in Nat /\ transcript \in Seq(Messages)
    BY <1>2 DEF LoopInv, LoopTypes, TurnsInv, BatchInv, Answering
<1>4. batch.width \in Nat /\ i \in 1 .. batch.width /\ i \in Nat /\ i \in AllCalls
    BY <1>3 DEF Calls, BatchTyped, AllCalls
<1>5. Turn' = Turn
  <2>1. Result(Response.turn, i) \in Messages /\ ~IsAssistant(Result(Response.turn, i))
      BY <1>3, <1>4, MessagesTyped DEF IsAssistant, Result
  <2> QED BY <1>1, <1>3, <2>1, TurnAppend, TurnKept
<1> QED BY <1>1, <1>2, <1>3, <1>4, <1>5

\* How a call may go on.
GoesOn(i, s, w, e) ==
    /\ Moves(i, s, w, e)
    /\ s \in Stages \ {"new"} /\ w \in 1 .. batch.width /\ e \in BOOLEAN
    /\ w = batch.width \/ cancelled
    /\ i <= w /\ batch.stage[i] # "reported"
    /\ w < batch.width => w = i /\ batch.stage[i] \notin PastStages
    /\ \A j \in 1 .. i - 1 : batch.stage[j] \in PastStages
    /\ batch.stage[i] \in PastStages => s \in PastStages
    /\ s \in {"shown", "reported"} => \A j \in 1 .. i - 1 : batch.stage[j] = "reported"

\* A call that goes on leaves the batch typed and the other calls where they are.
LEMMA MoveTyped ==
    ASSUME LoopInv, NEW i \in Calls, CallStep(i), NEW s, NEW w, NEW e, GoesOn(i, s, w, e)
    PROVE  /\ BatchTyped' /\ AllCalls' = AllCalls /\ batch'.width = w
           /\ batch'.stage[i] = s /\ \A j \in AllCalls : j # i => batch'.stage[j] = batch.stage[j]
           /\ (PastStages)' = PastStages
<1>0. /\ BatchTyped /\ Response' = Response /\ Response.calls \in Nat
      /\ s \in Stages /\ w \in 1 .. batch.width /\ e \in BOOLEAN /\ Moves(i, s, w, e)
      /\ i \in 1 .. batch.width
    BY CallKeeps DEF GoesOn
<1>1. /\ batch'.mode = batch.mode /\ batch'.width = w
      /\ batch'.stage = [batch.stage EXCEPT ![i] = s] /\ batch'.ends = [batch.ends EXCEPT ![i] = e]
    BY <1>0 DEF Moves
<1>2. i \in 1 .. Response.calls /\ w \in 1 .. Response.calls
    BY <1>0 DEF BatchTyped
<1>3. batch'.stage \in [1 .. Response.calls -> Stages] /\ batch'.ends \in [1 .. Response.calls -> BOOLEAN]
    BY <1>0, <1>1, <1>2 DEF BatchTyped
<1>4. batch' = [mode |-> batch'.mode, width |-> batch'.width, stage |-> batch'.stage, ends |-> batch'.ends]
    BY <1>0, <1>1 DEF Moves
<1>5. w = Response.calls \/ cancelled'
    BY <1>0, CallKeeps DEF BatchTyped, GoesOn
<1>6. BatchTyped'
    BY <1>0, <1>1, <1>2, <1>3, <1>4, <1>5 DEF BatchTyped
<1> QED BY <1>0, <1>1, <1>2, <1>6 DEF BatchTyped, AllCalls, PastStages

\* What the move of a call must respect for the order to stay.
LEMMA MoveOrdered ==
    ASSUME BatchTyped, BatchOrder, Response.calls \in Nat, NEW i \in 1 .. batch.width, NEW s \in Stages,
           NEW w \in 1 .. batch.width,
           batch'.width = w, (AllCalls)' = AllCalls, (PastStages)' = PastStages,
           batch'.stage[i] = s, \A j \in AllCalls : j # i => batch'.stage[j] = batch.stage[j],
           i <= w, s # "new", batch.stage[i] # "reported",
           w < batch.width => w = i /\ batch.stage[i] \notin PastStages,
           \A j \in 1 .. i - 1 : batch.stage[j] \in PastStages,
           batch.stage[i] \in PastStages => s \in PastStages,
           s \in {"shown", "reported"} => \A j \in 1 .. i - 1 : batch.stage[j] = "reported"
    PROVE  BatchOrder'
<1>1. AllCalls = 1 .. Response.calls /\ i \in AllCalls /\ \A j \in AllCalls : j \in Nat /\ 1 .. j - 1 \subseteq AllCalls
    BY DEF BatchTyped, AllCalls
<1>2. \A j \in AllCalls : j > i => batch.stage[j] \notin {"shown", "reported"}
    BY <1>1 DEF BatchOrder
<1>3. batch.stage[i] \notin PastStages => \A j \in AllCalls : j > i => batch.stage[j] = "new"
    BY <1>1 DEF BatchOrder
<1>4. \A j \in AllCalls : j > w => batch'.stage[j] = "new"
  <2> SUFFICES ASSUME NEW j \in AllCalls, j > w PROVE batch'.stage[j] = "new"
      OBVIOUS
  <2>1. j # i /\ batch'.stage[j] = batch.stage[j]
      BY <1>1
  <2>2. CASE w < batch.width
      BY <1>1, <1>3, <2>1, <2>2
  <2>3. CASE ~(w < batch.width)
      BY <1>1, <2>1, <2>3 DEF BatchOrder, BatchTyped
  <2> QED BY <2>2, <2>3
<1>5. ASSUME NEW j \in AllCalls, batch'.stage[j] # "new", NEW k \in 1 .. j - 1
      PROVE  batch'.stage[k] \in PastStages
  <2>1. k \in AllCalls /\ k \in Nat /\ k < j
      BY <1>1
  <2>2. CASE k = i
    <3>0. j # i
        BY <2>1, <2>2
    <3>1. batch.stage[j] # "new"
        BY <1>5, <3>0
    <3> QED BY <1>3, <2>1, <2>2, <3>1
  <2>3. CASE k # i /\ j = i
      BY <1>5, <2>1, <2>3
  <2>4. CASE k # i /\ j # i
      BY <1>5, <2>1, <2>4 DEF BatchOrder
  <2> QED BY <2>2, <2>3, <2>4
<1>6. ASSUME NEW j \in AllCalls, batch'.stage[j] \in {"shown", "reported"}, NEW k \in 1 .. j - 1
      PROVE  batch'.stage[k] = "reported"
  <2>1. k \in AllCalls /\ k \in Nat /\ k < j
      BY <1>1
  <2>2. CASE j = i
      BY <1>6, <2>1, <2>2
  <2>3. CASE j # i
    <3>1. batch.stage[j] \in {"shown", "reported"}
        BY <1>6, <2>3
    <3>2. batch.stage[k] = "reported"
        BY <3>1 DEF BatchOrder
    <3> QED BY <2>1, <3>2
  <2> QED BY <2>2, <2>3
<1> QED BY <1>4, <1>5, <1>6 DEF BatchOrder

\* At most one result is being shown.
LEMMA OneShown ==
    ASSUME BatchTyped, BatchOrder, Response.calls \in Nat, NEW i \in AllCalls, batch.stage[i] \in {"ended", "shown"},
           \A j \in 1 .. i - 1 : batch.stage[j] = "reported", NEW k \in AllCalls, k # i
    PROVE  batch.stage[k] # "shown"
<1>1. i \in Nat /\ k \in Nat /\ 1 <= i /\ 1 <= k
    BY DEF BatchTyped, AllCalls
<1>2. CASE k < i
    BY <1>1, <1>2
<1>3. CASE k > i
    BY <1>1, <1>3 DEF BatchOrder
<1> QED BY <1>1, <1>2, <1>3

\* A call that goes on without its result being shown.
LEMMA MoveShows ==
    ASSUME BatchTyped, BatchShows, NEW i \in AllCalls, NEW s, (AllCalls)' = AllCalls, Response' = Response,
           batch'.stage[i] = s, \A j \in AllCalls : j # i => batch'.stage[j] = batch.stage[j],
           streaming' = streaming, batch.stage[i] # "shown", s # "shown",
           pendingCalls' \subseteq pendingCalls \cup {<<Response.turn, i>>},
           s \notin Underway => <<Response.turn, i>> \notin pendingCalls'
    PROVE  BatchShows'
<1>1. ASSUME NEW p \in pendingCalls'
      PROVE  \E j \in AllCalls : p = <<Response.turn, j>> /\ batch'.stage[j] \in Underway
  <2>1. CASE p = <<Response.turn, i>>
      BY <1>1, <2>1
  <2>2. CASE p # <<Response.turn, i>>
    <3>1. PICK j \in AllCalls : p = <<Response.turn, j>> /\ batch.stage[j] \in Underway
        BY <1>1, <2>2 DEF BatchShows
    <3> QED BY <2>2, <3>1
  <2> QED BY <2>1, <2>2
<1>2. \A j \in AllCalls : batch'.stage[j] = "shown" => streaming' = Result(Response'.turn, j)
    BY DEF BatchShows
<1>3. (\A j \in AllCalls : batch'.stage[j] # "shown") => streaming' = NoMessage
    BY DEF BatchShows
<1> QED BY <1>1, <1>2, <1>3 DEF BatchShows

\* The updates of the batch written in the actions are moves of a call.
LEMMA BatchMoves ==
    ASSUME BatchTyped, NEW i \in AllCalls, NEW s, NEW e, NEW w
    PROVE  /\ batch' = [batch EXCEPT !.stage[i] = s] => Moves(i, s, batch.width, batch.ends[i])
           /\ batch' = [batch EXCEPT !.stage[i] = s, !.ends[i] = e] => Moves(i, s, batch.width, e)
           /\ batch' = [[batch EXCEPT !.width = w] EXCEPT !.stage[i] = s] => Moves(i, s, w, batch.ends[i])
<1>1. [batch.ends EXCEPT ![i] = batch.ends[i]] = batch.ends
    BY DEF BatchTyped, AllCalls
<1>2. batch = [mode |-> batch.mode, width |-> batch.width, stage |-> batch.stage, ends |-> batch.ends]
    BY DEF BatchTyped
<1> QED BY <1>1, <1>2 DEF Moves

\* A call that goes on keeps the order of the batch.
LEMMA CallGoesOn ==
    ASSUME LoopInv, NEW i \in Calls, CallStep(i), NEW s, NEW w, NEW e, GoesOn(i, s, w, e)
    PROVE  /\ BatchTyped' /\ BatchOrder' /\ (AllCalls)' = AllCalls /\ batch'.stage[i] = s
           /\ \A j \in AllCalls : j # i => batch'.stage[j] = batch.stage[j]
<1>1. /\ Moves(i, s, w, e) /\ s \in Stages /\ w \in 1 .. batch.width /\ e \in BOOLEAN
      /\ w = batch.width \/ cancelled'
    BY CallKeeps DEF GoesOn
<1>2. /\ BatchTyped /\ BatchOrder /\ i \in 1 .. batch.width /\ Response.calls \in Nat
      /\ cancelled => cancelled' /\ Response' = Response
    BY CallKeeps
<1>3. /\ BatchTyped' /\ (AllCalls)' = AllCalls /\ batch'.width = w /\ (PastStages)' = PastStages
      /\ batch'.stage[i] = s /\ \A j \in AllCalls : j # i => batch'.stage[j] = batch.stage[j]
    BY MoveTyped
<1>4. /\ i <= w /\ s # "new" /\ batch.stage[i] # "reported"
      /\ w < batch.width => w = i /\ batch.stage[i] \notin PastStages
      /\ \A j \in 1 .. i - 1 : batch.stage[j] \in PastStages
      /\ batch.stage[i] \in PastStages => s \in PastStages
      /\ s \in {"shown", "reported"} => \A j \in 1 .. i - 1 : batch.stage[j] = "reported"
    BY DEF GoesOn
<1>5. BatchOrder'
    BY <1>1, <1>2, <1>3, <1>4, MoveOrdered
<1> QED BY <1>3, <1>5

\* Every step of a call keeps what holds of its batch.
LEMMA CallKeepsBatch ==
    ASSUME LoopInv, NEW i \in Calls, CallStep(i)
    PROVE  BatchInv'
<1>0. Stages = {"new", "started", "refused", "prepared", "executed", "ended", "shown", "reported"}
    BY DEF Stages
<1>1. /\ pc = "tools" /\ pc' = "tools" /\ cancelled' = cancelled
      /\ Response' = Response /\ Turn' = Turn /\ produced' = produced
      /\ i \in 1 .. batch.width /\ i \in Nat /\ i \in AllCalls /\ batch.width \in Nat
      /\ BatchTyped /\ BatchOrder /\ BatchShows /\ Response.calls \in Nat
    BY CallKeeps
<1>2. SUFFICES BatchTyped' /\ BatchOrder' /\ BatchShows'
  <2>1. produced' # <<>> /\ Response' \in [role : {"assistant"}, turn : {Turn'}, stop : {"stop", "length"}, calls : Nat \ {0}]
      BY <1>1 DEF LoopInv, BatchInv, Answering
  <2> QED BY <1>1, <2>1 DEF BatchInv, Answering
<1>3. /\ batch.stage[i] \in Stages /\ batch.ends[i] \in BOOLEAN
      /\ batch.stage[i] # "new" => \A j \in 1 .. i - 1 : batch.stage[j] \in PastStages
      /\ batch.width \in 1 .. batch.width /\ i <= batch.width
    BY <1>1 DEF BatchTyped, BatchOrder, AllCalls
<1>4. CASE CallStart(i)
  <2>1. GoesOn(i, "started", batch.width, batch.ends[i])
    <3>1. Moves(i, "started", batch.width, batch.ends[i])
        BY <1>4, <1>1, BatchMoves DEF CallStart
    <3>2. \A j \in 1 .. i - 1 : batch.stage[j] \in PastStages
        BY <1>4 DEF CallStart, Passed, PastStages
    <3> QED BY <1>4, <1>0, <1>3, <3>1, <3>2 DEF GoesOn, CallStart, PastStages
  <2>2. BatchTyped' /\ BatchOrder' /\ (AllCalls)' = AllCalls /\ batch'.stage[i] = "started" /\ \A j \in AllCalls : j # i => batch'.stage[j] = batch.stage[j]
      BY <2>1, CallGoesOn
  <2>3. BatchShows'
    <3>1. /\ streaming' = streaming /\ batch.stage[i] # "shown"
          /\ pendingCalls' \subseteq pendingCalls \cup {<<Response.turn, i>>}
          /\ "started" \notin Underway => <<Response.turn, i>> \notin pendingCalls'
        BY <1>4 DEF CallStart, ExecutionStart, Underway
    <3> QED BY <1>1, <2>2, <3>1, MoveShows
  <2> QED BY <2>2, <2>3
<1>5. CASE CallRefuse(i)
  <2>0. PICK e \in BOOLEAN : batch' = [batch EXCEPT !.stage[i] = "refused", !.ends[i] = e]
      BY <1>5 DEF CallRefuse
  <2>1. GoesOn(i, "refused", batch.width, e)
    <3>1. Moves(i, "refused", batch.width, e)
        BY <2>0, <1>1, BatchMoves
    <3> QED BY <1>5, <1>0, <1>3, <3>1 DEF GoesOn, CallRefuse, PastStages
  <2>2. BatchTyped' /\ BatchOrder' /\ (AllCalls)' = AllCalls /\ batch'.stage[i] = "refused" /\ \A j \in AllCalls : j # i => batch'.stage[j] = batch.stage[j]
      BY <2>1, CallGoesOn
  <2>3. BatchShows'
    <3>1. /\ streaming' = streaming /\ batch.stage[i] # "shown"
          /\ pendingCalls' \subseteq pendingCalls \cup {<<Response.turn, i>>}
          /\ "refused" \notin Underway => <<Response.turn, i>> \notin pendingCalls'
        BY <1>5 DEF CallRefuse, Silent, sink, Underway
    <3> QED BY <1>1, <2>2, <3>1, MoveShows
  <2> QED BY <2>2, <2>3
<1>6. CASE CallPrepare(i)
  <2>1. GoesOn(i, "prepared", batch.width, batch.ends[i])
    <3>1. Moves(i, "prepared", batch.width, batch.ends[i])
        BY <1>6, <1>1, BatchMoves DEF CallPrepare
    <3> QED BY <1>6, <1>0, <1>3, <3>1 DEF GoesOn, CallPrepare, PastStages
  <2>2. BatchTyped' /\ BatchOrder' /\ (AllCalls)' = AllCalls /\ batch'.stage[i] = "prepared" /\ \A j \in AllCalls : j # i => batch'.stage[j] = batch.stage[j]
      BY <2>1, CallGoesOn
  <2>3. BatchShows'
    <3>1. /\ streaming' = streaming /\ batch.stage[i] # "shown"
          /\ pendingCalls' \subseteq pendingCalls \cup {<<Response.turn, i>>}
          /\ "prepared" \notin Underway => <<Response.turn, i>> \notin pendingCalls'
        BY <1>6 DEF CallPrepare, Silent, sink, Underway
    <3> QED BY <1>1, <2>2, <3>1, MoveShows
  <2> QED BY <2>2, <2>3
<1>7. CASE CallExecute(i)
  <2>0. PICK e \in BOOLEAN : batch' = [batch EXCEPT !.stage[i] = "executed", !.ends[i] = e]
      BY <1>7 DEF CallExecute
  <2>1. GoesOn(i, "executed", batch.width, e)
    <3>1. Moves(i, "executed", batch.width, e)
        BY <2>0, <1>1, BatchMoves
    <3> QED BY <1>7, <1>0, <1>3, <3>1 DEF GoesOn, CallExecute, PastStages
  <2>2. BatchTyped' /\ BatchOrder' /\ (AllCalls)' = AllCalls /\ batch'.stage[i] = "executed" /\ \A j \in AllCalls : j # i => batch'.stage[j] = batch.stage[j]
      BY <2>1, CallGoesOn
  <2>3. BatchShows'
    <3>1. /\ streaming' = streaming /\ batch.stage[i] # "shown"
          /\ pendingCalls' \subseteq pendingCalls \cup {<<Response.turn, i>>}
          /\ "executed" \notin Underway => <<Response.turn, i>> \notin pendingCalls'
        BY <1>7 DEF CallExecute, Silent, sink, Underway
    <3> QED BY <1>1, <2>2, <3>1, MoveShows
  <2> QED BY <2>2, <2>3
<1>8. CASE CallEnd(i)
  <2>0. PICK w \in {i, batch.width} :
           /\ Moves(i, "ended", w, batch.ends[i])
           /\ w # batch.width => cancelled /\ batch.mode = "parallel" /\ batch.stage[i] = "refused"
    <3>1. CASE batch.mode = "parallel" /\ batch.stage[i] = "refused" /\ cancelled
      <4>1. batch' = [[batch EXCEPT !.width = i] EXCEPT !.stage[i] = "ended"]
          BY <1>8, <3>1 DEF CallEnd, Cut
      <4> QED BY <1>1, <3>1, <4>1, BatchMoves
    <3>2. CASE ~(batch.mode = "parallel" /\ batch.stage[i] = "refused" /\ cancelled)
      <4>1. batch' = [[batch EXCEPT !.width = batch.width] EXCEPT !.stage[i] = "ended"] \/ batch' = [batch EXCEPT !.stage[i] = "ended"]
          BY <1>8, <3>2 DEF CallEnd, Cut
      <4> QED BY <1>1, <4>1, BatchMoves
    <3> QED BY <3>1, <3>2
  <2>1. GoesOn(i, "ended", w, batch.ends[i])
    <3>1. batch.stage[i] \in {"refused", "executed"} /\ w \in 1 .. batch.width /\ i <= w
        BY <1>8, <1>1, <2>0 DEF CallEnd
    <3>2. batch.stage[i] = "executed" /\ batch.stage[i] \in PastStages => "ended" \in PastStages
        BY DEF PastStages
    <3>3. batch.stage[i] = "refused" => batch.stage[i] \notin PastStages
        BY DEF PastStages
    <3> QED BY <1>0, <1>1, <1>3, <2>0, <3>1, <3>2, <3>3 DEF GoesOn
  <2>2. BatchTyped' /\ BatchOrder' /\ (AllCalls)' = AllCalls /\ batch'.stage[i] = "ended" /\ \A j \in AllCalls : j # i => batch'.stage[j] = batch.stage[j]
      BY <2>1, CallGoesOn
  <2>3. BatchShows'
    <3>1. /\ streaming' = streaming /\ batch.stage[i] # "shown"
          /\ pendingCalls' \subseteq pendingCalls \cup {<<Response.turn, i>>}
          /\ "ended" \notin Underway => <<Response.turn, i>> \notin pendingCalls'
        BY <1>8 DEF CallEnd, ExecutionEnd, Underway
    <3> QED BY <1>1, <2>2, <3>1, MoveShows
  <2> QED BY <2>2, <2>3
<1>9. CASE ResultStart(i)
  <2>0. \A j \in 1 .. i - 1 : batch.stage[j] = "reported"
    <3>1. CASE batch.mode = "parallel"
        BY <1>9, <1>1, <3>1 DEF ResultStart, Calls
    <3>2. CASE batch.mode # "parallel"
        BY <1>9, <1>3, <3>2 DEF ResultStart, PastStages
    <3> QED BY <3>1, <3>2
  <2>1. GoesOn(i, "shown", batch.width, batch.ends[i])
    <3>1. Moves(i, "shown", batch.width, batch.ends[i])
        BY <1>9, <1>1, BatchMoves DEF ResultStart
    <3> QED BY <1>9, <1>0, <1>3, <2>0, <3>1 DEF GoesOn, ResultStart, PastStages
  <2>2. BatchTyped' /\ BatchOrder' /\ (AllCalls)' = AllCalls /\ batch'.stage[i] = "shown" /\ \A j \in AllCalls : j # i => batch'.stage[j] = batch.stage[j]
      BY <2>1, CallGoesOn
  <2>3. BatchShows'
    <3>1. streaming' = Result(Response.turn, i) /\ pendingCalls' = pendingCalls /\ batch.stage[i] = "ended"
        BY <1>9 DEF ResultStart, MessageStart
    <3>2. \A j \in AllCalls : j # i => batch.stage[j] # "shown"
        BY <1>1, <2>0, <3>1, OneShown
    <3>3. ASSUME NEW p \in pendingCalls'
          PROVE  \E j \in AllCalls : p = <<Response.turn, j>> /\ batch'.stage[j] \in Underway
      <4>1. PICK j \in AllCalls : p = <<Response.turn, j>> /\ batch.stage[j] \in Underway
          BY <1>1, <3>1, <3>3 DEF BatchShows
      <4>2. j # i
          BY <3>1, <4>1 DEF Underway
      <4> QED BY <2>2, <4>1, <4>2
    <3> QED BY <1>1, <2>2, <3>1, <3>2, <3>3 DEF BatchShows
  <2> QED BY <2>2, <2>3
<1>10. CASE ResultEnd(i)
  <2>0. batch.stage[i] = "shown" /\ \A j \in 1 .. i - 1 : batch.stage[j] = "reported"
      BY <1>10, <1>1 DEF ResultEnd, BatchOrder
  <2>a. PICK w \in {i, batch.width} :
           /\ Moves(i, "reported", w, batch.ends[i])
           /\ w # batch.width => cancelled /\ batch.mode = "sequential"
    <3>1. CASE batch.mode = "sequential" /\ cancelled
      <4>1. batch' = [[batch EXCEPT !.width = i] EXCEPT !.stage[i] = "reported"]
          BY <1>10, <3>1 DEF ResultEnd, Cut
      <4> QED BY <1>1, <3>1, <4>1, BatchMoves
    <3>2. CASE ~(batch.mode = "sequential" /\ cancelled)
      <4>1. batch' = [[batch EXCEPT !.width = batch.width] EXCEPT !.stage[i] = "reported"] \/ batch' = [batch EXCEPT !.stage[i] = "reported"]
          BY <1>10, <3>2 DEF ResultEnd, Cut
      <4> QED BY <1>1, <4>1, BatchMoves
    <3> QED BY <3>1, <3>2
  <2>1. GoesOn(i, "reported", w, batch.ends[i])
    <3>1. w \in 1 .. batch.width /\ i <= w
        BY <1>1, <2>a
    <3>2. batch.mode = "sequential" => batch.stage[i] \notin PastStages
        BY <2>0 DEF PastStages
    <3>3. "reported" \in PastStages
        BY DEF PastStages
    <3> QED BY <1>0, <1>1, <1>3, <2>0, <2>a, <3>1, <3>2, <3>3 DEF GoesOn
  <2>2. BatchTyped' /\ BatchOrder' /\ (AllCalls)' = AllCalls /\ batch'.stage[i] = "reported" /\ \A j \in AllCalls : j # i => batch'.stage[j] = batch.stage[j]
      BY <2>1, CallGoesOn
  <2>3. BatchShows'
    <3>1. streaming' = NoMessage /\ pendingCalls' = pendingCalls
        BY <1>10 DEF ResultEnd, MessageEnd
    <3>2. \A j \in AllCalls : j # i => batch.stage[j] # "shown"
        BY <1>1, <2>0, OneShown
    <3>3. ASSUME NEW p \in pendingCalls'
          PROVE  \E j \in AllCalls : p = <<Response.turn, j>> /\ batch'.stage[j] \in Underway
      <4>1. PICK j \in AllCalls : p = <<Response.turn, j>> /\ batch.stage[j] \in Underway
          BY <1>1, <3>1, <3>3 DEF BatchShows
      <4>2. j # i
          BY <2>0, <4>1 DEF Underway
      <4> QED BY <2>2, <4>1, <4>2
    <3> QED BY <1>1, <2>2, <3>1, <3>2, <3>3 DEF BatchShows
  <2> QED BY <2>2, <2>3
<1>11. CASE CallBreak(i)
  <2>1. /\ batch' = [batch EXCEPT !.width = i] /\ cancelled /\ UNCHANGED sink
        /\ Passed(i) /\ i < batch.width /\ batch.stage[i + 1] = "new"
      BY <1>11, <1>1 DEF CallBreak, Cut, Silent
  <2>2. /\ batch'.width = i /\ batch'.stage = batch.stage /\ batch'.ends = batch.ends /\ batch'.mode = batch.mode
        /\ batch' = [mode |-> batch'.mode, width |-> batch'.width, stage |-> batch'.stage, ends |-> batch'.ends]
      BY <1>1, <2>1 DEF BatchTyped
  <2>3. BatchTyped'
      BY <1>1, <2>1, <2>2 DEF BatchTyped
  <2>4. \A j \in AllCalls : j > i => batch.stage[j] = "new"
    <3>1. "new" \notin PastStages /\ AllCalls = 1 .. Response.calls
        BY <1>1 DEF PastStages, BatchTyped, AllCalls
    <3>2. \A j \in AllCalls : j > i + 1 => i + 1 \in 1 .. j - 1
        BY <1>1, <3>1
    <3>3. \A j \in AllCalls : j > i + 1 => batch.stage[j] = "new"
        BY <1>1, <2>1, <3>1, <3>2 DEF BatchOrder
    <3> QED BY <1>1, <2>1, <3>1, <3>3
  <2>5. BatchOrder'
      BY <1>1, <2>2, <2>4 DEF BatchOrder, AllCalls, PastStages
  <2>6. BatchShows'
      BY <1>1, <2>1, <2>2 DEF BatchShows, AllCalls, sink
  <2> QED BY <2>3, <2>5, <2>6
<1> QED BY <1>4, <1>5, <1>6, <1>7, <1>8, <1>9, <1>10, <1>11 DEF CallStep

\* A response is answered call by call if it is complete and makes any.
LEMMA ReceivedBatch ==
    ASSUME LoopTypes, Turn \in Nat, NEW m, m \in Responses \/ IsResponse(m), Received(m)
    PROVE  BatchInv' /\ pc' \in {"abandon", "turn_end", "batch"} /\ Turn' = Turn + 1 /\ IsResponse(m) /\ m \in Messages
<1>1. IsResponse(m) /\ m \in Messages
    BY ResponsesTyped DEF IsResponse, Messages
<1>2. Turn' = Turn + 1
    BY <1>1, TurnAppend DEF Received, MessageEnd, LoopTypes, IsAssistant, IsResponse
<1>3. produced' # <<>> /\ Response' = m
  <2>1. produced \in Seq(Messages) /\ produced' = Append(produced, m)
      BY DEF LoopTypes, Received
  <2> QED BY <1>1, <2>1, AppendLast DEF Response
<1>4. CASE m.stop # "error" /\ m.calls # 0
    BY <1>1, <1>2, <1>3, <1>4 DEF BatchInv, Answering, Received, Dispatch, IsResponse
<1>5. CASE ~(m.stop # "error" /\ m.calls # 0)
  <2>1. pc' \in {"abandon", "turn_end"}
      BY <1>5 DEF Received, Dispatch
  <2> QED BY <1>1, <1>2, <2>1 DEF BatchInv, Answering
<1> QED BY <1>4, <1>5

\* Every step of a run does.
LEMMA BatchNext ==
    ASSUME LoopInv, [LoopNext]_loopVars
    PROVE  BatchInv'
<1> USE DEF LoopInv
<1>0. /\ LoopTypes /\ NestInv /\ BatchInv /\ Turn \in Nat
    BY DEF TurnsInv
<1>t. /\ transcript' = transcript => Turn' = Turn
      /\ produced' = produced => Response' = Response
    BY TurnKept DEF Response
<1>1. CASE Prompted
    BY <1>1, <1>0, <1>t DEF BatchInv, Answering, Prompted, Begin, progress, queues, sink, Silent
<1>2. CASE AgentStart
    BY <1>2, <1>0, <1>t DEF BatchInv, Answering, AgentStart, Bracket, progress, queues, sink, Silent
<1>3. CASE FirstTurn
    BY <1>3, <1>0, <1>t DEF BatchInv, Answering, FirstTurn, Bracket, progress, queues, sink, Silent
<1>4. CASE AnnounceStart
    BY <1>4, <1>0, <1>t DEF BatchInv, Answering, AnnounceStart, MessageStart, progress, queues, sink, Silent
<1>5. CASE AnnounceEnd
    BY <1>5, <1>0, <1>t DEF BatchInv, Answering, AnnounceEnd, MessageEnd, progress, queues, sink, Silent
<1>6. CASE FirstPoll
    BY <1>6, <1>0, <1>t DEF BatchInv, Answering, FirstPoll, progress, queues, sink, Silent
<1>7. CASE PrepareNextTurn
    BY <1>7, <1>0, <1>t DEF BatchInv, Answering, PrepareNextTurn, progress, queues, sink, Silent
<1>8. CASE NextTurn
    BY <1>8, <1>0, <1>t DEF BatchInv, Answering, NextTurn, Bracket, progress, queues, sink, Silent
<1>9. CASE Request
    BY <1>9, <1>0, <1>t DEF BatchInv, Answering, Request, progress, queues, sink, Silent
<1>10. CASE StreamStart
    BY <1>10, <1>0, <1>t DEF BatchInv, Answering, StreamStart, MessageStart, progress, queues, sink, Silent
<1>11. CASE StreamEnd
  <2>1. PICK m \in Responses : Received(m)
      BY <1>11 DEF StreamEnd
  <2> QED BY <1>0, <2>1, ReceivedBatch
<1>12. CASE StreamWhole
    BY <1>12, <1>0, <1>t DEF BatchInv, Answering, StreamWhole, MessageStart, progress, queues, sink, Silent
<1>13. CASE StreamWholeEnd
  <2>1. IsResponse(streaming) /\ Received(streaming)
      BY <1>13, <1>0 DEF StreamWholeEnd, NestInv
  <2> QED BY <1>0, <2>1, ReceivedBatch
<1>14. CASE StartBatch
  <2>1. /\ pc = "batch" /\ pc' = "tools" /\ streaming = NoMessage /\ pendingCalls = {}
        /\ Response \in [role : {"assistant"}, turn : {Turn}, stop : {"stop", "length"}, calls : Nat \ {0}]
        /\ produced # <<>> /\ UNCHANGED <<produced, sink, cancelled>>
      BY <1>14, <1>0 DEF StartBatch, NestInv, BatchInv, Answering, Silent
  <2>2. PICK mode : batch' = [mode  |-> mode, width |-> Response.calls,
                              stage |-> [i \in 1 .. Response.calls |-> "new"],
                              ends  |-> [i \in 1 .. Response.calls |-> FALSE]]
      BY <1>14 DEF StartBatch
  <2>3. Response' = Response /\ Turn' = Turn /\ streaming' = NoMessage /\ pendingCalls' = {} /\ Response.calls \in Nat \ {0}
      BY <1>t, <2>1 DEF sink
  <2>4. BatchTyped'
      BY <2>2, <2>3 DEF BatchTyped, Stages
  <2>5. BatchOrder' /\ BatchShows'
      BY <2>2, <2>3 DEF BatchOrder, BatchShows, AllCalls
  <2> QED BY <2>1, <2>3, <2>4, <2>5 DEF BatchInv, Answering
<1>15. ASSUME NEW i \in Calls, CallStep(i)
      PROVE  BatchInv'
    BY <1>15, CallKeepsBatch
<1>16. CASE BatchEnd
    BY <1>16, <1>0, <1>t DEF BatchInv, Answering, BatchEnd, progress, queues, sink, Silent
<1>17. CASE TurnEnd
    BY <1>17, <1>0, <1>t DEF BatchInv, Answering, TurnEnd, Bracket, progress, queues, sink, Silent
<1>18. CASE AfterTurn
    BY <1>18, <1>0, <1>t DEF BatchInv, Answering, AfterTurn, progress, queues, sink, Silent
<1>19. CASE FollowUps
    BY <1>19, <1>0, <1>t DEF BatchInv, Answering, FollowUps, progress, queues, sink, Silent
<1>20. CASE AgentEnd
    BY <1>20, <1>0, <1>t DEF BatchInv, Answering, AgentEnd, progress, queues, sink, Silent
<1>21. CASE Steer
    BY <1>21, <1>0, <1>t DEF BatchInv, Answering, Steer, progress, queues, sink, Silent, BatchTyped, BatchOrder, BatchShows, AllCalls, PastStages
<1>22. CASE FollowUp
    BY <1>22, <1>0, <1>t DEF BatchInv, Answering, FollowUp, progress, queues, sink, Silent, BatchTyped, BatchOrder, BatchShows, AllCalls, PastStages
<1>23. CASE Cancel
    BY <1>23, <1>0, <1>t DEF BatchInv, Answering, Cancel, progress, queues, sink, Silent, BatchTyped, BatchOrder, BatchShows, AllCalls, PastStages
<1>24. CASE UNCHANGED loopVars
    BY <1>24, <1>0, <1>t DEF BatchInv, Answering, loopVars, progress, queues, sink, Silent, BatchTyped, BatchOrder, BatchShows, AllCalls, PastStages
<1> QED BY <1>1, <1>2, <1>3, <1>4, <1>5, <1>6, <1>7, <1>8, <1>9, <1>10, <1>11, <1>12, <1>13, <1>14, <1>15, <1>16, <1>17, <1>18, <1>19, <1>20, <1>21, <1>22, <1>23, <1>24 DEF LoopNext, LoopStep

-----------------------------------------------------------------------------
\* Responses and their results in the transcript.
LEMMA AnswersKept ==
    ASSUME transcript \in Seq(Messages), NEW x, transcript' = Append(transcript, x),
           NEW k \in DOMAIN transcript, NEW g \in Nat, Answers(k, g),
           x.role = "toolResult" => x.turn # transcript[k].turn
    PROVE  Answers(k, g)'
<1>1. /\ Len(transcript) \in Nat /\ DOMAIN transcript = 1 .. Len(transcript)
      /\ DOMAIN transcript' = 1 .. (Len(transcript) + 1)
      /\ transcript'[Len(transcript) + 1] = x
      /\ \A j \in DOMAIN transcript : transcript'[j] = transcript[j]
    OBVIOUS
<1>2. (k + 1) .. (k + g) \subseteq DOMAIN transcript
    BY DEF Answers
<1>3. {j \in DOMAIN transcript' : transcript'[j].role = "toolResult" /\ transcript'[j].turn = transcript'[k].turn}
          = {j \in DOMAIN transcript : transcript[j].role = "toolResult" /\ transcript[j].turn = transcript[k].turn}
    BY <1>1
<1>4. \A i \in 1 .. g : transcript'[k + i] = Result(transcript'[k].turn, i)
  <2>1. \A i \in 1 .. g : k + i \in (k + 1) .. (k + g)
      BY <1>1
  <2> QED BY <1>1, <1>2, <2>1 DEF Answers
<1> QED BY <1>3, <1>4 DEF Answers

\* The next result of the newest response is one more answer to it.
LEMMA AnswersMore ==
    ASSUME transcript \in Seq(Messages), NEW k \in DOMAIN transcript, NEW g \in Nat, Answers(k, g),
           k + g = Len(transcript), transcript' = Append(transcript, Result(transcript[k].turn, g + 1))
    PROVE  Answers(k, g + 1)'
<1>1. /\ Len(transcript) \in Nat /\ DOMAIN transcript = 1 .. Len(transcript)
      /\ DOMAIN transcript' = 1 .. (Len(transcript) + 1)
      /\ transcript'[Len(transcript) + 1] = Result(transcript[k].turn, g + 1)
      /\ \A j \in DOMAIN transcript : transcript'[j] = transcript[j]
    OBVIOUS
<1>2. /\ transcript'[Len(transcript) + 1].role = "toolResult"
      /\ transcript'[Len(transcript) + 1].turn = transcript'[k].turn
    BY <1>1 DEF Result
<1>3. {j \in DOMAIN transcript' : transcript'[j].role = "toolResult" /\ transcript'[j].turn = transcript'[k].turn}
          = {j \in DOMAIN transcript : transcript[j].role = "toolResult" /\ transcript[j].turn = transcript[k].turn}
                \cup {Len(transcript) + 1}
    BY <1>1, <1>2
<1>4. (k + 1) .. (k + (g + 1)) = (k + 1) .. (k + g) \cup {Len(transcript) + 1}
    BY <1>1
<1>5. \A i \in 1 .. g + 1 : transcript'[k + i] = Result(transcript'[k].turn, i)
  <2>1. \A i \in 1 .. g : k + i \in DOMAIN transcript
      BY <1>1
  <2>2. \A i \in 1 .. g : transcript'[k + i] = Result(transcript'[k].turn, i)
      BY <1>1, <2>1 DEF Answers
  <2>3. transcript'[k + (g + 1)] = Result(transcript'[k].turn, g + 1)
      BY <1>1
  <2> QED BY <2>2, <2>3
<1> QED BY <1>3, <1>4, <1>5 DEF Answers

\* A new response has no results yet, and nothing but one that has just come has none for want of time.
LEMMA AnswersNone ==
    ASSUME transcript \in Seq(Messages), NEW x, transcript' = Append(transcript, x), IsAssistant(x),
           \A j \in DOMAIN transcript : transcript[j].role = "toolResult" => transcript[j].turn # x.turn,
           NEW k, k = Len(transcript) + 1
    PROVE  Answers(k, 0)'
<1>1. /\ Len(transcript) \in Nat /\ DOMAIN transcript = 1 .. Len(transcript)
      /\ DOMAIN transcript' = 1 .. (Len(transcript) + 1)
      /\ transcript'[Len(transcript) + 1] = x
      /\ \A j \in DOMAIN transcript : transcript'[j] = transcript[j]
    OBVIOUS
<1>2. {j \in DOMAIN transcript' : transcript'[j].role = "toolResult" /\ transcript'[j].turn = transcript'[k].turn} = {}
    BY <1>1 DEF IsAssistant
<1>3. (k + 1) .. (k + 0) = {} /\ 1 .. 0 = {}
    BY <1>1
<1> QED BY <1>2, <1>3 DEF Answers

\* Two responses never have the same turn.
LEMMA TurnsDiffer ==
    ASSUME TurnsInv, NEW j \in DOMAIN transcript, NEW k \in DOMAIN transcript,
           transcript \in Seq(Messages), IsAssistant(transcript[j]), IsAssistant(transcript[k]),
           transcript[j].turn = transcript[k].turn
    PROVE  j = k
<1>1. j \in Nat /\ k \in Nat /\ 1 <= j /\ 1 <= k /\ Turn \in Nat
    BY DEF TurnsInv
<1>2. transcript[j].turn \in Nat
    BY <1>1 DEF TurnsInv
<1>3. ~(j < k)
    BY <1>1, <1>2 DEF TurnsInv
<1>4. ~(k < j)
    BY <1>1, <1>2 DEF TurnsInv
<1> QED BY <1>1, <1>3, <1>4

\* Nothing changes while the transcript does not.
LEMMA TurnsSame ==
    ASSUME TurnsInv, transcript' = transcript, cancelled => cancelled', pc \in Answering => pc' \in Answering
    PROVE  TurnsInv'
BY TurnKept DEF TurnsInv, Asking, Answers

\* A user message answers nothing and asks nothing.
LEMMA TurnsUser ==
    ASSUME LoopInv, NEW x \in Messages, x.role = "user", transcript' = Append(transcript, x),
           cancelled' = cancelled, pc \notin Answering
    PROVE  TurnsInv'
<1>0. transcript \in Seq(Messages) /\ TurnsInv
    BY DEF LoopInv, LoopTypes
<1>1. Turn' = Turn /\ Turn \in Nat
    BY <1>0, TurnAppend DEF IsAssistant
<1>2. /\ Len(transcript) \in Nat /\ DOMAIN transcript = 1 .. Len(transcript)
      /\ DOMAIN transcript' = 1 .. (Len(transcript) + 1)
      /\ transcript'[Len(transcript) + 1] = x
      /\ \A j \in DOMAIN transcript : transcript'[j] = transcript[j]
    BY <1>0
<1>3. \A k \in DOMAIN transcript' : k \in DOMAIN transcript \/ k = Len(transcript) + 1
    BY <1>2
<1>4. ASSUME NEW k \in DOMAIN transcript', IsAssistant(transcript'[k])
      PROVE  /\ transcript'[k].turn \in 1 .. Turn'
             /\ \A j \in 1 .. k - 1 : IsAssistant(transcript'[j]) => transcript'[j].turn < transcript'[k].turn
  <2>1. k \in DOMAIN transcript
      BY <1>2, <1>3, <1>4 DEF IsAssistant
  <2>2. \A j \in 1 .. k - 1 : j \in DOMAIN transcript
      BY <1>2, <2>1
  <2> QED BY <1>0, <1>1, <1>2, <1>4, <2>1, <2>2 DEF TurnsInv
<1>5. ASSUME NEW k \in DOMAIN transcript', transcript'[k].role = "toolResult"
      PROVE  transcript'[k].turn \in 1 .. Turn'
  <2>1. k \in DOMAIN transcript
      BY <1>2, <1>3, <1>5
  <2> QED BY <1>0, <1>1, <1>2, <1>5, <2>1 DEF TurnsInv
<1>6. ASSUME NEW k \in DOMAIN transcript', Asking(k)'
      PROVE  \E g \in 0 .. transcript'[k].calls : Answers(k, g)' /\ (g = transcript'[k].calls \/ cancelled')
  <2>1. k \in DOMAIN transcript
      BY <1>2, <1>3, <1>6 DEF Asking, IsAssistant
  <2>2. Asking(k)
      BY <1>2, <1>6, <2>1 DEF Asking
  <2>3. PICK g \in 0 .. transcript[k].calls : Answers(k, g) /\ (g = transcript[k].calls \/ cancelled)
      BY <1>0, <2>1, <2>2 DEF TurnsInv
  <2>4. Answers(k, g)'
      BY <1>0, <2>1, <2>3, AnswersKept
  <2> QED BY <1>2, <2>1, <2>3, <2>4
<1> QED BY <1>1, <1>4, <1>5, <1>6 DEF TurnsInv

\* A response is of a turn of its own, and what came before it is answered.
LEMMA TurnsResponse ==
    ASSUME LoopInv, NEW m \in Messages, IsResponse(m), transcript' = Append(transcript, m),
           cancelled' = cancelled, pc \notin Answering,
           m.stop # "error" /\ m.calls # 0 => pc' \in Answering
    PROVE  TurnsInv'
<1>0. transcript \in Seq(Messages) /\ TurnsInv /\ IsAssistant(m) /\ m.turn = Turn + 1 /\ m.calls \in Nat
    BY DEF LoopInv, LoopTypes, IsResponse, IsAssistant
<1>1. Turn' = Turn + 1 /\ Turn \in Nat
    BY <1>0, TurnAppend
<1>2. /\ Len(transcript) \in Nat /\ DOMAIN transcript = 1 .. Len(transcript)
      /\ DOMAIN transcript' = 1 .. (Len(transcript) + 1)
      /\ transcript'[Len(transcript) + 1] = m
      /\ \A j \in DOMAIN transcript : transcript'[j] = transcript[j]
    BY <1>0
<1>3. \A k \in DOMAIN transcript' : k \in DOMAIN transcript \/ k = Len(transcript) + 1
    BY <1>2
<1>4. ASSUME NEW k \in DOMAIN transcript', IsAssistant(transcript'[k])
      PROVE  /\ transcript'[k].turn \in 1 .. Turn'
             /\ \A j \in 1 .. k - 1 : IsAssistant(transcript'[j]) => transcript'[j].turn < transcript'[k].turn
  <2>1. CASE k \in DOMAIN transcript
    <3>1. \A j \in 1 .. k - 1 : j \in DOMAIN transcript
        BY <1>2, <2>1
    <3>2. IsAssistant(transcript[k]) /\ transcript'[k] = transcript[k]
        BY <1>2, <1>4, <2>1
    <3>3. /\ transcript[k].turn \in 1 .. Turn
          /\ \A j \in 1 .. k - 1 : IsAssistant(transcript[j]) => transcript[j].turn < transcript[k].turn
        BY <1>0, <2>1, <3>2 DEF TurnsInv
    <3>4. transcript[k].turn \in 1 .. Turn'
        BY <1>1, <3>3
    <3> QED BY <1>2, <3>1, <3>2, <3>3, <3>4
  <2>2. CASE k = Len(transcript) + 1
    <3>1. \A j \in 1 .. k - 1 : j \in DOMAIN transcript
        BY <1>2, <2>2
    <3>2. \A j \in DOMAIN transcript : IsAssistant(transcript[j]) => transcript[j].turn \in 1 .. Turn
        BY <1>0 DEF TurnsInv
    <3> QED BY <1>0, <1>1, <1>2, <2>2, <3>1, <3>2
  <2> QED BY <1>3, <2>1, <2>2
<1>5. ASSUME NEW k \in DOMAIN transcript', transcript'[k].role = "toolResult"
      PROVE  transcript'[k].turn \in 1 .. Turn'
  <2>1. k \in DOMAIN transcript
      BY <1>0, <1>2, <1>3, <1>5 DEF IsAssistant
  <2> QED BY <1>0, <1>1, <1>2, <1>5, <2>1 DEF TurnsInv
<1>6. ASSUME NEW k \in DOMAIN transcript', Asking(k)'
      PROVE  \E g \in 0 .. transcript'[k].calls :
                /\ Answers(k, g)'
                /\ g = transcript'[k].calls \/ cancelled' \/ (pc' \in Answering /\ transcript'[k].turn = Turn')
  <2>1. CASE k \in DOMAIN transcript
    <3>2. Asking(k)
        BY <1>2, <1>6, <2>1 DEF Asking
    <3>3. PICK g \in 0 .. transcript[k].calls : Answers(k, g) /\ (g = transcript[k].calls \/ cancelled)
        BY <1>0, <2>1, <3>2 DEF TurnsInv
    <3>4. Answers(k, g)'
        BY <1>0, <2>1, <3>3, AnswersKept DEF IsAssistant
    <3> QED BY <1>2, <2>1, <3>3, <3>4
  <2>2. CASE k = Len(transcript) + 1
    <3>1. \A j \in DOMAIN transcript : transcript[j].role = "toolResult" => transcript[j].turn # m.turn
        BY <1>0, <1>1 DEF TurnsInv
    <3>2. Answers(k, 0)'
        BY <1>0, <2>2, <3>1, AnswersNone
    <3>3. m.stop # "error"
        BY <1>2, <1>6, <2>2 DEF Asking
    <3>4. m.calls = 0 \/ pc' \in Answering
        BY <3>3
    <3> QED BY <1>0, <1>1, <1>2, <2>2, <3>2, <3>4
  <2> QED BY <1>3, <2>1, <2>2
<1> QED BY <1>1, <1>4, <1>5, <1>6 DEF TurnsInv

\* A result is that of the next call of the newest response.
LEMMA NextReport ==
    ASSUME LoopInv, NEW i \in Calls, CallStep(i), batch.stage[i] = "shown", NEW r \in Nat, Reports(r)
    PROVE  i = r + 1
<1>1. /\ i \in 1 .. batch.width /\ i \in Nat /\ batch.width \in Nat /\ BatchTyped /\ BatchOrder
      /\ Response.calls \in Nat /\ i \in AllCalls /\ \A j \in AllCalls : batch.stage[j] = "reported" <=> j <= r
    BY CallKeeps DEF Reports
<1>2. AllCalls = 1 .. Response.calls /\ ~(i <= r)
    BY <1>1 DEF BatchTyped, AllCalls
<1>3. CASE i > r + 1
  <2>1. r + 1 \in 1 .. i - 1 /\ r + 1 \in AllCalls
      BY <1>1, <1>2, <1>3
  <2>2. batch.stage[r + 1] = "reported"
      BY <1>1, <2>1 DEF BatchOrder
  <2>3. r + 1 <= r
      BY <1>1, <2>1, <2>2
  <2> QED BY <2>3
<1> QED BY <1>1, <1>2, <1>3

\* Where the newest response is, while its results come.
LEMMA NewestAt ==
    ASSUME LoopInv, pc = "tools", NEW r \in Nat, Reports(r), NEW k, k = Len(transcript) - r
    PROVE  /\ k \in DOMAIN transcript /\ k + r = Len(transcript) /\ Answers(k, r)
           /\ transcript[k] = Response /\ IsAssistant(transcript[k])
           /\ transcript[k].turn = Turn /\ Turn \in Nat /\ Turn \in 1 .. Turn
           /\ Response.calls \in Nat /\ Response.turn = Turn
<1>1. /\ r < Len(transcript) /\ Len(transcript) \in Nat /\ DOMAIN transcript = 1 .. Len(transcript)
      /\ transcript[k] = Response /\ Answers(k, r)
    BY DEF Reports, LoopInv, LoopTypes
<1>2. k \in DOMAIN transcript /\ k + r = Len(transcript)
    BY <1>1
<1>3. /\ Response.role = "assistant" /\ Response.turn = Turn /\ Turn \in Nat /\ Response.calls \in Nat
    BY DEF LoopInv, TurnsInv, BatchInv, Answering
<1>4. Turn \in 1 .. Turn
  <2>1. transcript[k].turn \in 1 .. Turn
      BY <1>1, <1>2, <1>3 DEF LoopInv, TurnsInv, IsAssistant
  <2> QED BY <1>1, <1>3, <2>1
<1> QED BY <1>1, <1>2, <1>3, <1>4 DEF IsAssistant

\* A result goes to the newest response and to no other.
LEMMA TurnsResult ==
    ASSUME LoopInv, NEW i \in Calls, ResultEnd(i)
    PROVE  TurnsInv'
<1>1. CallStep(i) /\ pc = "tools" /\ batch.stage[i] = "shown" /\ transcript' = Append(transcript, Result(Response.turn, i))
    BY DEF CallStep, ResultEnd, InBatch, MessageEnd
<1>2. /\ pc' = "tools" /\ cancelled' = cancelled /\ Turn' = Turn /\ i \in Nat /\ i \in 1 .. batch.width
      /\ TurnsInv /\ transcript \in Seq(Messages) /\ BatchTyped
    BY <1>1, CallKeeps DEF LoopInv, LoopTypes
<1>3. PICK r \in Nat : Reports(r)
    BY <1>1 DEF LoopInv, ReportsInv
<1>4. i = r + 1
    BY <1>1, <1>3, NextReport
<1> DEFINE base == Len(transcript) - r
<1>5. /\ base \in DOMAIN transcript /\ base + r = Len(transcript) /\ Answers(base, r)
      /\ transcript[base] = Response /\ IsAssistant(transcript[base]) /\ transcript[base].turn = Turn
      /\ Turn \in Nat /\ Turn \in 1 .. Turn /\ Response.calls \in Nat /\ Response.turn = Turn
    BY <1>1, <1>3, NewestAt
<1>6. /\ Len(transcript) \in Nat /\ DOMAIN transcript = 1 .. Len(transcript)
      /\ DOMAIN transcript' = 1 .. (Len(transcript) + 1)
      /\ transcript'[Len(transcript) + 1] = Result(Turn, i)
      /\ \A j \in DOMAIN transcript : transcript'[j] = transcript[j]
    BY <1>1, <1>2, <1>5
<1>7. \A k \in DOMAIN transcript' : k \in DOMAIN transcript \/ k = Len(transcript) + 1
    BY <1>6
<1>8. ~IsAssistant(Result(Turn, i)) /\ Result(Turn, i).turn = Turn /\ Result(Turn, i).role = "toolResult"
    BY DEF IsAssistant, Result
<1>9. ASSUME NEW k \in DOMAIN transcript', IsAssistant(transcript'[k])
      PROVE  /\ transcript'[k].turn \in 1 .. Turn'
             /\ \A j \in 1 .. k - 1 : IsAssistant(transcript'[j]) => transcript'[j].turn < transcript'[k].turn
  <2>1. k \in DOMAIN transcript
      BY <1>6, <1>7, <1>8, <1>9
  <2>2. \A j \in 1 .. k - 1 : j \in DOMAIN transcript
      BY <1>6, <2>1
  <2> QED BY <1>2, <1>6, <1>9, <2>1, <2>2 DEF TurnsInv
<1>10. ASSUME NEW k \in DOMAIN transcript', transcript'[k].role = "toolResult"
      PROVE  transcript'[k].turn \in 1 .. Turn'
  <2>1. CASE k \in DOMAIN transcript
      BY <1>2, <1>6, <1>10, <2>1 DEF TurnsInv
  <2>2. CASE k = Len(transcript) + 1
      BY <1>2, <1>5, <1>6, <1>8, <2>2
  <2> QED BY <1>7, <2>1, <2>2
<1>11. ASSUME NEW k \in DOMAIN transcript', Asking(k)'
      PROVE  \E g \in 0 .. transcript'[k].calls :
                /\ Answers(k, g)'
                /\ g = transcript'[k].calls \/ cancelled' \/ (pc' \in Answering /\ transcript'[k].turn = Turn')
  <2>1. k \in DOMAIN transcript /\ Asking(k)
      BY <1>6, <1>7, <1>8, <1>11 DEF Asking
  <2>2. CASE k = base
    <3>1. transcript' = Append(transcript, Result(transcript[k].turn, r + 1))
        BY <1>1, <1>4, <1>5, <2>2
    <3>2. Answers(k, r + 1)'
        BY <1>2, <1>5, <2>2, <3>1, AnswersMore
    <3>3. r + 1 \in 0 .. transcript'[k].calls
        BY <1>2, <1>4, <1>5, <1>6, <2>2 DEF BatchTyped
    <3> QED BY <1>2, <1>5, <1>6, <2>2, <3>2, <3>3 DEF Answering
  <2>3. CASE k # base
    <3>1. IsAssistant(transcript[k])
        BY <2>1 DEF Asking
    <3>2. transcript[k].turn # Turn
        BY <1>2, <1>5, <2>1, <2>3, <3>1, TurnsDiffer
    <3>3. PICK g \in 0 .. transcript[k].calls : Answers(k, g) /\ (g = transcript[k].calls \/ cancelled)
        BY <1>2, <2>1, <3>2 DEF TurnsInv
    <3>4. Answers(k, g)'
        BY <1>1, <1>2, <1>5, <1>8, <2>1, <3>2, <3>3, AnswersKept
    <3> QED BY <1>2, <1>6, <2>1, <3>3, <3>4
  <2> QED BY <2>2, <2>3
<1> QED BY <1>2, <1>5, <1>9, <1>10, <1>11 DEF TurnsInv

\* When the batch is over all its results are in.
LEMMA BatchReported ==
    ASSUME LoopInv, BatchEnd, NEW r \in Nat, Reports(r)
    PROVE  r = batch.width /\ r >= 1 /\ (r = Response.calls \/ cancelled)
<1>1. /\ BatchTyped /\ Response.calls \in Nat /\ r <= batch.width
      /\ \A i \in AllCalls : batch.stage[i] = "reported" <=> i <= r
      /\ \A i \in Calls : batch.stage[i] = "reported"
    BY DEF LoopInv, BatchInv, Answering, BatchEnd, Reports
<1>2. batch.width \in 1 .. Response.calls /\ batch.width \in AllCalls /\ batch.width \in Calls
    BY <1>1 DEF BatchTyped, AllCalls, Calls
<1>3. batch.width <= r
    BY <1>1, <1>2
<1> QED BY <1>1, <1>2, <1>3 DEF BatchTyped

\* After the batch no call of the newest response waits, unless an abort cut it short.
LEMMA TurnsBatchEnd ==
    ASSUME LoopInv, BatchEnd
    PROVE  TurnsInv'
<1>1. /\ pc = "tools" /\ transcript' = transcript /\ Turn' = Turn /\ cancelled' = cancelled
    BY TurnKept DEF BatchEnd, Silent, sink
<1>2. TurnsInv /\ transcript \in Seq(Messages)
    BY DEF LoopInv, LoopTypes
<1>3. PICK r \in Nat : Reports(r)
    BY <1>1 DEF LoopInv, ReportsInv
<1> DEFINE base == Len(transcript) - r
<1>4. /\ base \in DOMAIN transcript /\ Answers(base, r)
      /\ transcript[base] = Response /\ IsAssistant(transcript[base]) /\ transcript[base].turn = Turn
      /\ Response.calls \in Nat
    BY <1>1, <1>3, NewestAt
<1>5. r = batch.width /\ (r = Response.calls \/ cancelled)
    BY <1>3, BatchReported
<1>6. ASSUME NEW k \in DOMAIN transcript, Asking(k)
      PROVE  \E g \in 0 .. transcript[k].calls : Answers(k, g) /\ (g = transcript[k].calls \/ cancelled)
  <2>1. CASE k = base
    <3>1. r \in 0 .. Response.calls
        BY <1>1, <1>4, <1>5 DEF LoopInv, BatchInv, BatchTyped
    <3> QED BY <1>4, <1>5, <2>1, <3>1
  <2>2. CASE k # base
    <3>1. IsAssistant(transcript[k])
        BY <1>6 DEF Asking
    <3>2. transcript[k].turn # Turn
        BY <1>2, <1>4, <1>6, <2>2, <3>1, TurnsDiffer
    <3> QED BY <1>2, <1>6, <3>2 DEF TurnsInv
  <2> QED BY <2>1, <2>2
<1>7. \A k \in DOMAIN transcript : Asking(k)' => Asking(k)
    BY <1>1 DEF Asking
<1>8. \A k \in DOMAIN transcript, g \in Nat : Answers(k, g) => Answers(k, g)'
    BY <1>1 DEF Answers
<1>9. \A k \in DOMAIN transcript : \A g : g \in 0 .. transcript[k].calls => g \in Nat
    OBVIOUS
<1>10. ASSUME NEW k \in DOMAIN transcript', Asking(k)'
       PROVE  \E g \in 0 .. transcript'[k].calls : Answers(k, g)' /\ (g = transcript'[k].calls \/ cancelled')
  <2>1. PICK g \in 0 .. transcript[k].calls : Answers(k, g) /\ (g = transcript[k].calls \/ cancelled)
      BY <1>1, <1>6, <1>7, <1>10
  <2> QED BY <1>1, <1>8, <1>9, <1>10, <2>1
<1> QED BY <1>1, <1>2, <1>10 DEF TurnsInv

\* Every step of a run keeps the responses answered.
LEMMA TurnsNext ==
    ASSUME LoopInv, [LoopNext]_loopVars
    PROVE  TurnsInv'
<1> USE DEF LoopInv
<1>0. /\ LoopTypes /\ NestInv /\ BatchInv /\ TurnsInv /\ QueueInv /\ Turn \in Nat
    BY DEF TurnsInv
<1>1. CASE Prompted
    BY <1>1, <1>0, TurnsSame DEF Answering, Prompted, Begin, progress, queues, sink, Silent
<1>2. CASE AgentStart
    BY <1>2, <1>0, TurnsSame DEF Answering, AgentStart, Bracket, progress, queues, sink, Silent
<1>3. CASE FirstTurn
    BY <1>3, <1>0, TurnsSame DEF Answering, FirstTurn, Bracket, progress, queues, sink, Silent
<1>4. CASE AnnounceStart
    BY <1>4, <1>0, TurnsSame DEF Answering, AnnounceStart, MessageStart, progress, queues, sink, Silent
<1>5. CASE AnnounceEnd
  <2>1. pending # <<>> /\ pc \notin Answering /\ cancelled' = cancelled /\ transcript' = Append(transcript, Head(pending))
      BY <1>5, <1>0 DEF AnnounceEnd, MessageEnd, NestInv, Answering
  <2>2. Head(pending) \in Messages /\ Head(pending) = pending[1] /\ Len(pending) \in Nat \ {0}
      BY <1>0, <2>1, HeadAndTail DEF LoopTypes
  <2>3. Head(pending).role = "user"
      BY <1>0, <2>2 DEF QueueInv, LoopTypes
  <2> QED BY <2>1, <2>2, <2>3, TurnsUser
<1>6. CASE FirstPoll
    BY <1>6, <1>0, TurnsSame DEF Answering, FirstPoll, progress, queues, sink, Silent
<1>7. CASE PrepareNextTurn
    BY <1>7, <1>0, TurnsSame DEF Answering, PrepareNextTurn, progress, queues, sink, Silent
<1>8. CASE NextTurn
    BY <1>8, <1>0, TurnsSame DEF Answering, NextTurn, Bracket, progress, queues, sink, Silent
<1>9. CASE Request
    BY <1>9, <1>0, TurnsSame DEF Answering, Request, progress, queues, sink, Silent
<1>10. CASE StreamStart
    BY <1>10, <1>0, TurnsSame DEF Answering, StreamStart, MessageStart, progress, queues, sink, Silent
<1>11. CASE StreamEnd
  <2>1. PICK m \in Responses : Received(m)
      BY <1>11 DEF StreamEnd
  <2>2. IsResponse(m) /\ m \in Messages
      BY <1>0, ResponsesTyped
  <2>3. /\ transcript' = Append(transcript, m) /\ cancelled' = cancelled /\ pc \notin Answering
        /\ m.stop # "error" /\ m.calls # 0 => pc' \in Answering
      BY <1>11, <2>1 DEF StreamEnd, Received, MessageEnd, Dispatch, Answering
  <2> QED BY <2>2, <2>3, TurnsResponse
<1>12. CASE StreamWhole
    BY <1>12, <1>0, TurnsSame DEF Answering, StreamWhole, MessageStart, progress, queues, sink, Silent
<1>13. CASE StreamWholeEnd
  <2>1. IsResponse(streaming) /\ Received(streaming) /\ streaming \in Messages
      BY <1>13, <1>0, ReceivedBatch DEF StreamWholeEnd, NestInv
  <2>2. /\ transcript' = Append(transcript, streaming) /\ cancelled' = cancelled /\ pc \notin Answering
        /\ streaming.stop # "error" /\ streaming.calls # 0 => pc' \in Answering
      BY <1>13, <2>1 DEF StreamWholeEnd, Received, MessageEnd, Dispatch, Answering
  <2> QED BY <2>1, <2>2, TurnsResponse
<1>14. CASE StartBatch
    BY <1>14, <1>0, TurnsSame DEF Answering, StartBatch, progress, queues, sink, Silent
<1>15. ASSUME NEW i \in Calls, CallStep(i)
      PROVE  TurnsInv'
  <2>1. CASE ResultEnd(i)
      BY <2>1, TurnsResult
  <2>2. CASE ~ResultEnd(i)
    <3>1. transcript' = transcript
        BY <1>15, <2>2 DEF CallStep, CallStart, CallRefuse, CallPrepare, CallExecute, CallEnd, ResultStart,
               CallBreak, Silent, sink, ExecutionStart, ExecutionEnd, MessageStart
    <3> QED BY <1>15, <1>0, <3>1, CallKeeps, TurnsSame DEF Answering
  <2> QED BY <2>1, <2>2
<1>16. CASE BatchEnd
    BY <1>16, TurnsBatchEnd
<1>17. CASE TurnEnd
    BY <1>17, <1>0, TurnsSame DEF Answering, TurnEnd, Bracket, progress, queues, sink, Silent
<1>18. CASE AfterTurn
    BY <1>18, <1>0, TurnsSame DEF Answering, AfterTurn, progress, queues, sink, Silent
<1>19. CASE FollowUps
    BY <1>19, <1>0, TurnsSame DEF Answering, FollowUps, progress, queues, sink, Silent
<1>20. CASE AgentEnd
    BY <1>20, <1>0, TurnsSame DEF Answering, AgentEnd, progress, queues, sink, Silent
<1>21. CASE Steer
    BY <1>21, <1>0, TurnsSame DEF Answering, Steer, progress, queues, sink, Silent
<1>22. CASE FollowUp
    BY <1>22, <1>0, TurnsSame DEF Answering, FollowUp, progress, queues, sink, Silent
<1>23. CASE Cancel
    BY <1>23, <1>0, TurnsSame DEF Answering, Cancel, progress, queues, sink, Silent
<1>24. CASE UNCHANGED loopVars
    BY <1>24, <1>0, TurnsSame DEF Answering, loopVars, progress, queues, sink, Silent
<1> QED BY <1>1, <1>2, <1>3, <1>4, <1>5, <1>6, <1>7, <1>8, <1>9, <1>10, <1>11, <1>12, <1>13, <1>14, <1>15, <1>16, <1>17, <1>18, <1>19, <1>20, <1>21, <1>22, <1>23, <1>24 DEF LoopNext, LoopStep

-----------------------------------------------------------------------------
\* The results reported so far, and the context that waits for them.
LEMMA FollowsKept ==
    ASSUME transcript \in Seq(Messages), context' = context, NEW n \in Nat, n <= Len(transcript), NEW l,
           transcript' = transcript \/ (\E x : transcript' = Append(transcript, x)), Follows(l, n)
    PROVE  \E k \in 1 .. n :
              /\ k = 1 \/ (Compacts /\ transcript'[k].role # "user")
              /\ l = n - k + 1 /\ l <= Len(context')
              /\ \A i \in 1 .. l : context'[i] = transcript'[k + i - 1]
<1>1. \A j \in 1 .. n : transcript'[j] = transcript[j]
    OBVIOUS
<1>2. PICK k \in 1 .. n :
        /\ k = 1 \/ (Compacts /\ transcript[k].role # "user")
        /\ l = n - k + 1 /\ l <= Len(context)
        /\ \A i \in 1 .. l : context[i] = transcript[k + i - 1]
    BY DEF Follows
<1>3. \A i \in 1 .. l : k + i - 1 \in 1 .. n
    BY <1>2
<1>4. /\ k = 1 \/ (Compacts /\ transcript'[k].role # "user")
      /\ l = n - k + 1 /\ l <= Len(context')
      /\ \A i \in 1 .. l : context'[i] = transcript'[k + i - 1]
  <2>1. transcript'[k].role = transcript[k].role
      BY <1>1
  <2>2. \A i \in 1 .. l : transcript'[k + i - 1] = transcript[k + i - 1]
      BY <1>1, <1>3
  <2> QED BY <1>2, <2>1, <2>2
<1> QED BY <1>4

\* A step of a call that reports nothing.
LEMMA ReportsKept ==
    ASSUME LoopInv, NEW i \in Calls, CallStep(i), ~ResultEnd(i), NEW r \in Nat, Reports(r)
    PROVE  Reports(r)'
<1>0. /\ i \in 1 .. batch.width /\ i \in Nat /\ i \in AllCalls /\ batch.width \in Nat
      /\ BatchTyped /\ Response.calls \in Nat /\ Response' = Response
    BY CallKeeps
<1>1. /\ r < Len(transcript) /\ r <= batch.width
      /\ \A j \in AllCalls : batch.stage[j] = "reported" <=> j <= r
      /\ transcript[Len(transcript) - r] = Response
      /\ Answers(Len(transcript) - r, r)
    BY DEF Reports
<1>2. transcript' = transcript
    BY DEF CallStep, CallStart, CallRefuse, CallPrepare, CallExecute, CallEnd, ResultStart,
           CallBreak, Silent, sink, ExecutionStart, ExecutionEnd, MessageStart
<1>3. \E w \in {i, batch.width} :
        /\ w = i => r <= i
        /\ batch'.width = w /\ DOMAIN batch'.stage = AllCalls
        /\ \A j \in AllCalls : batch'.stage[j] = "reported" <=> batch.stage[j] = "reported"
  <2>1. CASE CallStart(i)
    <3>1. batch' = [batch EXCEPT !.stage[i] = "started"] /\ batch.stage[i] = "new"
        BY <2>1 DEF CallStart
    <3>2. Moves(i, "started", batch.width, batch.ends[i])
        BY <1>0, <3>1, BatchMoves
    <3> QED BY <1>0, <1>1, <3>1, <3>2 DEF Moves, AllCalls, BatchTyped
  <2>2. CASE CallRefuse(i)
    <3>1. PICK e \in BOOLEAN : batch' = [batch EXCEPT !.stage[i] = "refused", !.ends[i] = e]
        BY <2>2 DEF CallRefuse
    <3>2. Moves(i, "refused", batch.width, e) /\ batch.stage[i] = "started"
        BY <1>0, <2>2, <3>1, BatchMoves DEF CallRefuse
    <3> QED BY <1>0, <1>1, <3>2 DEF Moves, AllCalls, BatchTyped
  <2>3. CASE CallPrepare(i)
    <3>1. batch' = [batch EXCEPT !.stage[i] = "prepared"] /\ batch.stage[i] = "started"
        BY <2>3 DEF CallPrepare
    <3>2. Moves(i, "prepared", batch.width, batch.ends[i])
        BY <1>0, <3>1, BatchMoves
    <3> QED BY <1>0, <1>1, <3>1, <3>2 DEF Moves, AllCalls, BatchTyped
  <2>4. CASE CallExecute(i)
    <3>1. PICK e \in BOOLEAN : batch' = [batch EXCEPT !.stage[i] = "executed", !.ends[i] = e]
        BY <2>4 DEF CallExecute
    <3>2. Moves(i, "executed", batch.width, e) /\ batch.stage[i] = "prepared"
        BY <1>0, <2>4, <3>1, BatchMoves DEF CallExecute
    <3> QED BY <1>0, <1>1, <3>2 DEF Moves, AllCalls, BatchTyped
  <2>5. CASE CallEnd(i)
    <3>1. PICK w \in {i, batch.width} : batch' = [[batch EXCEPT !.width = w] EXCEPT !.stage[i] = "ended"]
      <4>1. CASE batch.mode = "parallel" /\ batch.stage[i] = "refused" /\ cancelled
          BY <2>5, <4>1 DEF CallEnd, Cut
      <4>2. CASE ~(batch.mode = "parallel" /\ batch.stage[i] = "refused" /\ cancelled)
        <5>1. \/ batch' = [batch EXCEPT !.stage[i] = "ended"]
              \/ batch' = [[batch EXCEPT !.width = batch.width] EXCEPT !.stage[i] = "ended"]
            BY <2>5, <4>2 DEF CallEnd, Cut
        <5>2. [batch EXCEPT !.width = batch.width] = batch
            BY <1>0 DEF BatchTyped
        <5> QED BY <5>1, <5>2
      <4> QED BY <4>1, <4>2
    <3>2. Moves(i, "ended", w, batch.ends[i]) /\ batch.stage[i] # "reported"
        BY <1>0, <2>5, <3>1, BatchMoves DEF CallEnd
    <3>3. r <= i
        BY <1>0, <1>1, <3>2
    <3> QED BY <1>0, <1>1, <3>2, <3>3 DEF Moves, AllCalls, BatchTyped
  <2>6. CASE ResultStart(i)
    <3>1. batch' = [batch EXCEPT !.stage[i] = "shown"] /\ batch.stage[i] = "ended"
        BY <2>6 DEF ResultStart
    <3>2. Moves(i, "shown", batch.width, batch.ends[i])
        BY <1>0, <3>1, BatchMoves
    <3> QED BY <1>0, <1>1, <3>1, <3>2 DEF Moves, AllCalls, BatchTyped
  <2>7. CASE CallBreak(i)
    <3>1. batch' = [batch EXCEPT !.width = i] /\ i < batch.width /\ batch.stage[i + 1] = "new"
        BY <2>7 DEF CallBreak, Cut
    <3>2. i + 1 \in AllCalls
        BY <1>0, <3>1 DEF AllCalls, BatchTyped
    <3>3. r <= i
        BY <1>0, <1>1, <3>1, <3>2
    <3>4. batch'.width = i /\ batch'.stage = batch.stage
        BY <1>0, <3>1 DEF BatchTyped
    <3> QED BY <1>0, <3>3, <3>4 DEF AllCalls
  <2> QED BY <2>1, <2>2, <2>3, <2>4, <2>5, <2>6, <2>7 DEF CallStep
<1>4. r <= batch'.width /\ (AllCalls)' = AllCalls /\ \A j \in AllCalls : batch'.stage[j] = "reported" <=> j <= r
    BY <1>1, <1>3 DEF AllCalls
<1>5. Answers(Len(transcript) - r, r)'
    BY <1>1, <1>2 DEF Answers
<1> QED BY <1>0, <1>1, <1>2, <1>4, <1>5 DEF Reports

\* The end of a result message reports one more call.
LEMMA ReportsMore ==
    ASSUME LoopInv, NEW i \in Calls, ResultEnd(i), NEW r \in Nat, Reports(r)
    PROVE  Reports(i)' /\ i = r + 1
<1>0. CallStep(i) /\ batch.stage[i] = "shown" /\ transcript' = Append(transcript, Result(Response.turn, i))
    BY DEF CallStep, ResultEnd, MessageEnd
<1>1. /\ i \in 1 .. batch.width /\ i \in Nat /\ i \in AllCalls /\ batch.width \in Nat /\ pc = "tools"
      /\ BatchTyped /\ Response.calls \in Nat /\ Response' = Response /\ transcript \in Seq(Messages)
    BY <1>0, CallKeeps DEF LoopInv, LoopTypes
<1>2. i = r + 1
    BY <1>0, NextReport
<1>3. /\ r < Len(transcript) /\ \A j \in AllCalls : batch.stage[j] = "reported" <=> j <= r
    BY DEF Reports
<1>4. PICK w \in {i, batch.width} : batch' = [[batch EXCEPT !.width = w] EXCEPT !.stage[i] = "reported"]
  <2>1. CASE batch.mode = "sequential" /\ cancelled
      BY <2>1 DEF ResultEnd, Cut
  <2>2. CASE ~(batch.mode = "sequential" /\ cancelled)
    <3>1. \/ batch' = [batch EXCEPT !.stage[i] = "reported"]
          \/ batch' = [[batch EXCEPT !.width = batch.width] EXCEPT !.stage[i] = "reported"]
        BY <2>2 DEF ResultEnd, Cut
    <3>2. [batch EXCEPT !.width = batch.width] = batch
        BY <1>1 DEF BatchTyped
    <3> QED BY <3>1, <3>2
  <2> QED BY <2>1, <2>2
<1>5. Moves(i, "reported", w, batch.ends[i])
    BY <1>1, <1>4, BatchMoves
<1>6. /\ i <= batch'.width /\ (AllCalls)' = AllCalls /\ batch'.stage[i] = "reported"
      /\ \A j \in AllCalls : j # i => batch'.stage[j] = batch.stage[j]
    BY <1>1, <1>5 DEF Moves, AllCalls, BatchTyped
<1>7. AllCalls = 1 .. Response.calls
    BY <1>1 DEF BatchTyped, AllCalls
<1>8. \A j \in (AllCalls)' : batch'.stage[j] = "reported" <=> j <= i
    BY <1>1, <1>2, <1>3, <1>6, <1>7
<1> DEFINE base == Len(transcript) - r
<1>9. /\ base \in DOMAIN transcript /\ base + r = Len(transcript) /\ Answers(base, r)
      /\ transcript[base] = Response /\ transcript[base].turn = Response.turn
    BY <1>1, NewestAt
<1>10. Len(transcript) \in Nat /\ Len(transcript') = Len(transcript) + 1 /\ transcript'[base] = transcript[base]
    BY <1>0, <1>1, <1>9
<1>11. Len(transcript') - i = base
    BY <1>2, <1>10
<1>12. ASSUME NEW k, k = base
       PROVE  Answers(k, i)'
  <2>1. transcript' = Append(transcript, Result(transcript[k].turn, r + 1))
      BY <1>0, <1>2, <1>9, <1>12
  <2>2. Answers(k, r + 1)'
      BY <1>1, <1>9, <1>12, <2>1, AnswersMore
  <2> QED BY <1>2, <2>2
<1>13. Answers(Len(transcript) - i, i)'
    BY <1>11, <1>12 DEF Answers
<1> QED BY <1>1, <1>2, <1>3, <1>6, <1>8, <1>9, <1>10, <1>11, <1>13 DEF Reports

\* A batch starts with no result.
LEMMA ReportsStart ==
    ASSUME LoopInv, StartBatch
    PROVE  Reports(0)'
<1>1. /\ transcript # <<>> /\ transcript[Len(transcript)] = Response /\ transcript \in Seq(Messages)
      /\ transcript' = transcript /\ Response' = Response /\ TurnsInv
      /\ Response \in [role : {"assistant"}, turn : {Turn}, stop : {"stop", "length"}, calls : Nat \ {0}]
    BY DEF LoopInv, LoopTypes, ReportsInv, BatchInv, Answering, StartBatch, Silent, sink, Response
<1>2. Len(transcript) \in Nat /\ Len(transcript) >= 1 /\ Len(transcript) \in DOMAIN transcript
    BY <1>1
<1>3. Asking(Len(transcript))
    BY <1>1 DEF Asking, IsAssistant
<1>4. PICK g \in 0 .. Response.calls : Answers(Len(transcript), g)
    BY <1>1, <1>2, <1>3 DEF TurnsInv
<1>5. g = 0
  <2>1. g \in Nat /\ (Len(transcript) + 1) .. (Len(transcript) + g) \subseteq DOMAIN transcript
      BY <1>1, <1>4 DEF Answers
  <2>2. g >= 1 => Len(transcript) + 1 \in (Len(transcript) + 1) .. (Len(transcript) + g)
      BY <1>2, <2>1
  <2>3. Len(transcript) + 1 \notin DOMAIN transcript
      BY <1>1, <1>2
  <2> QED BY <2>1, <2>2, <2>3
<1>6. Answers(Len(transcript), 0)'
    BY <1>1, <1>4, <1>5 DEF Answers
<1>7. /\ batch'.width = Response.calls /\ DOMAIN batch'.stage = 1 .. Response.calls
      /\ \A i \in 1 .. Response.calls : batch'.stage[i] = "new"
    BY DEF StartBatch
<1>8. /\ 0 <= batch'.width
      /\ \A i \in (AllCalls)' : batch'.stage[i] = "reported" <=> i <= 0
    BY <1>1, <1>7 DEF AllCalls
<1>9. Len(transcript') - 0 = Len(transcript')
    BY <1>1, <1>2
<1> QED BY <1>1, <1>2, <1>6, <1>8, <1>9 DEF Reports

\* Every step of a run keeps count of the reports.
LEMMA ReportsNext ==
    ASSUME LoopInv, [LoopNext]_loopVars
    PROVE  ReportsInv'
<1> USE DEF LoopInv
<1>0. /\ LoopTypes /\ NestInv /\ BatchInv /\ TurnsInv /\ ReportsInv /\ ContextInv /\ Turn \in Nat
    BY DEF TurnsInv
<1>1. CASE Prompted
    BY <1>1, <1>0 DEF ReportsInv, Prompted, Begin, progress, queues, sink, Silent
<1>2. CASE AgentStart
    BY <1>2, <1>0 DEF ReportsInv, AgentStart, Bracket, progress, queues, sink, Silent
<1>3. CASE FirstTurn
    BY <1>3, <1>0 DEF ReportsInv, FirstTurn, Bracket, progress, queues, sink, Silent
<1>4. CASE AnnounceStart
    BY <1>4, <1>0 DEF ReportsInv, AnnounceStart, MessageStart, progress, queues, sink, Silent
<1>5. CASE AnnounceEnd
    BY <1>5, <1>0 DEF ReportsInv, AnnounceEnd, MessageEnd, progress, queues, sink, Silent
<1>6. CASE FirstPoll
    BY <1>6, <1>0 DEF ReportsInv, FirstPoll, progress, queues, sink, Silent
<1>7. CASE PrepareNextTurn
    BY <1>7, <1>0 DEF ReportsInv, PrepareNextTurn, progress, queues, sink, Silent
<1>8. CASE NextTurn
    BY <1>8, <1>0 DEF ReportsInv, NextTurn, Bracket, progress, queues, sink, Silent
<1>9. CASE Request
    BY <1>9, <1>0 DEF ReportsInv, Request, progress, queues, sink, Silent
<1>10. CASE StreamStart
    BY <1>10, <1>0 DEF ReportsInv, StreamStart, MessageStart, progress, queues, sink, Silent
<1>11. CASE StreamEnd
  <2>1. PICK m \in Responses : Received(m)
      BY <1>11 DEF StreamEnd
  <2>2. IsResponse(m)
      BY <1>0, ResponsesTyped
  <2>3. m \in Messages /\ transcript' = Append(transcript, m) /\ produced' = Append(produced, m) /\ pc' # "tools"
      BY <1>0, <2>1, <2>2, ReceivedBatch DEF Received, MessageEnd
  <2>4. transcript' # <<>> /\ transcript'[Len(transcript')] = m /\ Response' = m
      BY <1>0, <2>3, AppendLast DEF LoopTypes, Response
  <2> QED BY <2>3, <2>4 DEF ReportsInv
<1>12. CASE StreamWhole
    BY <1>12, <1>0 DEF ReportsInv, StreamWhole, MessageStart, progress, queues, sink, Silent
<1>13. CASE StreamWholeEnd
  <2> DEFINE m == streaming
  <2>1. IsResponse(m) /\ Received(m)
      BY <1>13, <1>0 DEF StreamWholeEnd, NestInv
  <2>2. IsResponse(m)
      BY <2>1
  <2> HIDE DEF m
  <2>3. m \in Messages /\ transcript' = Append(transcript, m) /\ produced' = Append(produced, m) /\ pc' # "tools"
      BY <1>0, <2>1, <2>2, ReceivedBatch DEF Received, MessageEnd
  <2>4. transcript' # <<>> /\ transcript'[Len(transcript')] = m /\ Response' = m
      BY <1>0, <2>3, AppendLast DEF LoopTypes, Response
  <2> QED BY <2>3, <2>4 DEF ReportsInv
<1>14. CASE StartBatch
  <2>1. /\ pc = "batch" /\ pc' = "tools" /\ UNCHANGED <<context, transcript>>
      BY <1>14 DEF StartBatch, Silent, sink
  <2>2. Reports(0)'
      BY <1>14, ReportsStart
  <2>3. Follows(Len(context), Len(transcript))
      BY <1>0, <2>1 DEF ContextInv
  <2>4. Len(transcript') - 0 = Len(transcript)
      BY <1>0, <2>1 DEF LoopTypes
  <2>5. Follows(Len(context), Len(transcript) - 0)'
      BY <2>1, <2>3, <2>4 DEF Follows
  <2> QED BY <2>1, <2>2, <2>5 DEF ReportsInv
<1>15. ASSUME NEW i \in Calls, CallStep(i)
      PROVE  ReportsInv'
  <2>1. /\ pc = "tools" /\ pc' = "tools" /\ context' = context
        /\ transcript' = transcript \/ transcript' = Append(transcript, Result(Response.turn, i))
      BY <1>15, CallKeeps
  <2>2. PICK r \in Nat : Reports(r) /\ Follows(Len(context), Len(transcript) - r)
      BY <1>0, <2>1 DEF ReportsInv
  <2>3. Len(transcript) \in Nat /\ r < Len(transcript) /\ Len(transcript) - r \in Nat /\ Len(transcript) - r <= Len(transcript)
      BY <1>0, <2>2 DEF LoopTypes, Reports
  <2>4. \E k \in 1 .. (Len(transcript) - r) :
           /\ k = 1 \/ (Compacts /\ transcript'[k].role # "user")
           /\ Len(context) = (Len(transcript) - r) - k + 1 /\ Len(context) <= Len(context')
           /\ \A j \in 1 .. Len(context) : context'[j] = transcript'[k + j - 1]
    <3>1. /\ transcript \in Seq(Messages) /\ context' = context /\ Len(transcript) - r \in Nat
          /\ Len(transcript) - r <= Len(transcript) /\ Follows(Len(context), Len(transcript) - r)
          /\ transcript' = transcript \/ (\E x : transcript' = Append(transcript, x))
        BY <1>0, <2>1, <2>2, <2>3 DEF LoopTypes
    <3> QED BY <3>1, FollowsKept
  <2>5. CASE ResultEnd(i)
    <3>1. Reports(i)' /\ i = r + 1
        BY <2>2, <2>5, ReportsMore
    <3>2. transcript' = Append(transcript, Result(Response.turn, i))
        BY <2>5 DEF ResultEnd, MessageEnd
    <3>3. Len(transcript') - i = Len(transcript) - r
        BY <1>0, <2>3, <3>1, <3>2 DEF LoopTypes
    <3>4. Follows(Len(context), Len(transcript) - i)'
        BY <2>1, <2>4, <3>3 DEF Follows
    <3>5. i \in Nat
        BY <3>1
    <3> QED BY <2>1, <3>1, <3>4, <3>5 DEF ReportsInv
  <2>6. CASE ~ResultEnd(i)
    <3>1. Reports(r)'
        BY <1>15, <2>2, <2>6, ReportsKept
    <3>2. transcript' = transcript
        BY <1>15, <2>6 DEF CallStep, CallStart, CallRefuse, CallPrepare, CallExecute, CallEnd, ResultStart,
               CallBreak, Silent, sink, ExecutionStart, ExecutionEnd, MessageStart
    <3>3. Follows(Len(context), Len(transcript) - r)'
        BY <2>1, <2>4, <3>2 DEF Follows
    <3> QED BY <2>1, <3>1, <3>3 DEF ReportsInv
  <2> QED BY <2>5, <2>6
<1>16. CASE BatchEnd
    BY <1>16, <1>0 DEF ReportsInv, BatchEnd, progress, queues, sink, Silent
<1>17. CASE TurnEnd
    BY <1>17, <1>0 DEF ReportsInv, TurnEnd, Bracket, progress, queues, sink, Silent
<1>18. CASE AfterTurn
    BY <1>18, <1>0 DEF ReportsInv, AfterTurn, progress, queues, sink, Silent
<1>19. CASE FollowUps
    BY <1>19, <1>0 DEF ReportsInv, FollowUps, progress, queues, sink, Silent
<1>20. CASE AgentEnd
    BY <1>20, <1>0 DEF ReportsInv, AgentEnd, progress, queues, sink, Silent
<1>21. CASE Steer
    BY <1>21, <1>0 DEF ReportsInv, Steer, progress, queues, sink, Silent, Reports, AllCalls, Answers, Follows, Response
<1>22. CASE FollowUp
    BY <1>22, <1>0 DEF ReportsInv, FollowUp, progress, queues, sink, Silent, Reports, AllCalls, Answers, Follows, Response
<1>23. CASE Cancel
    BY <1>23, <1>0 DEF ReportsInv, Cancel, progress, queues, sink, Silent, Reports, AllCalls, Answers, Follows, Response
<1>24. CASE UNCHANGED loopVars
    BY <1>24, <1>0 DEF ReportsInv, loopVars, progress, queues, sink, Silent, Reports, AllCalls, Answers, Follows, Response
<1> QED BY <1>1, <1>2, <1>3, <1>4, <1>5, <1>6, <1>7, <1>8, <1>9, <1>10, <1>11, <1>12, <1>13, <1>14, <1>15, <1>16, <1>17, <1>18, <1>19, <1>20, <1>21, <1>22, <1>23, <1>24 DEF LoopNext, LoopStep

-----------------------------------------------------------------------------
\* The context follows the transcript.
LEMMA FollowsAppend ==
    ASSUME LoopInv, NEW x \in Messages, transcript' = Append(transcript, x), NEW c \in Seq(Messages),
           Follows(Len(c), Len(transcript)), Len(c) <= Len(context),
           \A i \in 1 .. Len(c) : context[i] = c[i], context' = Append(c, x)
    PROVE  Follows(Len(context), Len(transcript))'
<1>1. /\ Len(transcript) \in Nat /\ Len(c) \in Nat
      /\ Len(transcript') = Len(transcript) + 1 /\ Len(context') = Len(c) + 1
      /\ transcript'[Len(transcript) + 1] = x /\ context'[Len(c) + 1] = x
      /\ \A j \in 1 .. Len(transcript) : transcript'[j] = transcript[j]
      /\ \A j \in 1 .. Len(c) : context'[j] = c[j]
    BY DEF LoopInv, LoopTypes
<1>2. PICK k \in 1 .. Len(transcript) :
        /\ k = 1 \/ (Compacts /\ transcript[k].role # "user")
        /\ Len(c) = Len(transcript) - k + 1
        /\ \A i \in 1 .. Len(c) : context[i] = transcript[k + i - 1]
    BY DEF Follows
<1>3. k \in 1 .. Len(transcript') /\ transcript'[k] = transcript[k] /\ Len(context') = Len(transcript') - k + 1
    BY <1>1, <1>2
<1>4. \A i \in 1 .. Len(c) : k + i - 1 \in 1 .. Len(transcript)
    BY <1>1, <1>2
<1>5. k + (Len(c) + 1) - 1 = Len(transcript) + 1
    BY <1>1, <1>2
<1>6. \A i \in 1 .. Len(c) + 1 : context'[i] = transcript'[k + i - 1]
  <2>1. \A i \in 1 .. Len(c) : context'[i] = transcript'[k + i - 1]
      BY <1>1, <1>2, <1>4
  <2>2. context'[Len(c) + 1] = transcript'[k + (Len(c) + 1) - 1]
    <3>1. context'[Len(c) + 1] = x
        BY <1>1
    <3>2. transcript'[k + (Len(c) + 1) - 1] = x
        BY <1>1, <1>5
    <3> QED BY <3>1, <3>2
  <2>3. \A i \in 1 .. Len(c) + 1 : i \in 1 .. Len(c) \/ i = Len(c) + 1
      BY <1>1
  <2> QED BY <2>1, <2>2, <2>3
<1>7. 1 .. Len(context') = 1 .. Len(c) + 1 /\ Len(context') <= Len(context')
    BY <1>1
<1>8. k = 1 \/ (Compacts /\ transcript'[k].role # "user")
    BY <1>2, <1>3
<1> QED BY <1>3, <1>6, <1>7, <1>8 DEF Follows

\* The context after a response is the one before it and the response.
LEMMA FollowsResponse ==
    ASSUME LoopInv, NEW m \in Messages, transcript' = Append(transcript, m), context # <<>>,
           Follows(Len(context) - 1, Len(transcript)), context' = [context EXCEPT ![Len(context)] = m]
    PROVE  Follows(Len(context), Len(transcript))'
<1> DEFINE c == SubSeq(context, 1, Len(context) - 1)
<1>1. context \in Seq(Messages) /\ Len(context) \in Nat \ {0}
    BY DEF LoopInv, LoopTypes
<1>2. /\ c \in Seq(Messages) /\ Len(c) = Len(context) - 1
      /\ \A i \in 1 .. Len(c) : context[i] = c[i]
  <2>1. 1 \in Int /\ Len(context) - 1 \in Int /\ \A i \in 1 .. Len(context) - 1 : context[i] \in Messages
      BY <1>1
  <2>2. /\ c \in Seq(Messages) /\ Len(c) = IF 1 <= Len(context) - 1 THEN (Len(context) - 1) - 1 + 1 ELSE 0
        /\ \A i \in 1 .. (Len(context) - 1) - 1 + 1 : c[i] = context[1 + i - 1]
      BY <2>1, SubSeqProperties
  <2> HIDE DEF c
  <2>3. Len(c) = Len(context) - 1 /\ (Len(context) - 1) - 1 + 1 = Len(context) - 1
    <3>1. (Len(context) - 1) - 1 + 1 = Len(context) - 1
        BY <1>1
    <3>2. ~(1 <= Len(context) - 1) => Len(context) - 1 = 0
      <4>1. Len(context) \in Nat /\ Len(context) # 0
          BY <1>1
      <4>2. \A n \in Nat : n # 0 /\ ~(1 <= n - 1) => n - 1 = 0
          OBVIOUS
      <4> QED BY <4>1, <4>2
    <3> QED BY <2>2, <3>1, <3>2
  <2>4. \A i \in 1 .. Len(context) - 1 : 1 + i - 1 = i
      OBVIOUS
  <2>5. \A i \in 1 .. Len(c) : context[i] = c[i]
      BY <2>2, <2>3, <2>4
  <2> QED BY <2>2, <2>3, <2>5
<1>3. context' = Append(c, m)
  <2>1. Append(c, m) \in Seq(Messages) /\ Len(Append(c, m)) = Len(context)
      BY <1>1, <1>2
  <2>2. context' \in Seq(Messages) /\ Len(context') = Len(context)
      BY <1>1
  <2>3. \A i \in 1 .. Len(context) : context'[i] = Append(c, m)[i]
      BY <1>1, <1>2
  <2> HIDE DEF c
  <2> QED BY <2>1, <2>2, <2>3, SeqEqual
<1> HIDE DEF c
<1>4. Follows(Len(c), Len(transcript)) /\ Len(c) <= Len(context)
    BY <1>1, <1>2
<1> QED BY <1>2, <1>3, <1>4, FollowsAppend

\* Nothing drifts while neither changes.
LEMMA FollowsSame ==
    ASSUME transcript' = transcript, context' = context, Follows(Len(context), Len(transcript))
    PROVE  Follows(Len(context), Len(transcript))'
BY DEF Follows

\* Announcing the first pending message moves it, and the whole stays the same.
LEMMA ConcatMoves ==
    ASSUME NEW S, NEW s \in Seq(S), NEW p \in Seq(S), p # <<>>
    PROVE  Append(s, Head(p)) \o Tail(p) = s \o p
<1>1. Append(s, Head(p)) \o Tail(p) \in Seq(S) /\ s \o p \in Seq(S)
    BY HeadAndTail
<1>2. Len(Append(s, Head(p)) \o Tail(p)) = Len(s \o p)
    BY HeadAndTail
<1>3. \A i \in 1 .. Len(s \o p) : (Append(s, Head(p)) \o Tail(p))[i] = (s \o p)[i]
    BY HeadAndTail
<1> QED BY <1>1, <1>2, <1>3, SeqEqual

\* The results of the whole batch follow its response.
LEMMA FollowsBatch ==
    ASSUME LoopInv, BatchEnd
    PROVE  /\ Follows(Len(context), Len(transcript))'
           /\ transcript' # <<>> /\ transcript'[Len(transcript')].role # "user"
<1>1. /\ pc = "tools" /\ transcript' = transcript
      /\ context' = context \o [i \in Calls |-> Result(Response.turn, i)]
    BY DEF BatchEnd, Silent, sink
<1>2. PICK r \in Nat : Reports(r) /\ Follows(Len(context), Len(transcript) - r)
    BY <1>1 DEF LoopInv, ReportsInv
<1>3. r = batch.width /\ r >= 1
    BY <1>2, BatchReported
<1> DEFINE base == Len(transcript) - r
           results == [i \in 1 .. r |-> Result(Response.turn, i)]
<1>4. /\ base \in DOMAIN transcript /\ base + r = Len(transcript) /\ Answers(base, r)
      /\ transcript[base] = Response /\ Response.turn \in Nat
    BY <1>1, <1>2, NewestAt
<1>5. /\ results \in Seq(Messages) /\ Len(results) = r /\ context' = context \o results
      /\ \A i \in 1 .. r : results[i] = Result(Response.turn, i)
  <2>1. \A i \in 1 .. r : Result(Response.turn, i) \in Messages
      BY <1>2, <1>4, MessagesTyped
  <2> QED BY <1>1, <1>2, <1>3, <2>1 DEF Calls
<1>6. \A i \in 1 .. r : transcript[base + i] = results[i]
    BY <1>4, <1>5 DEF Answers
<1>7. context \in Seq(Messages) /\ transcript \in Seq(Messages) /\ Len(transcript) \in Nat /\ Len(context) \in Nat
    BY DEF LoopInv, LoopTypes
<1> HIDE DEF results
<1>8. /\ Len(context') = Len(context) + r
      /\ \A i \in 1 .. Len(context) : context'[i] = context[i]
      /\ \A i \in 1 .. r : context'[Len(context) + i] = results[i]
  <2>1. \A i \in 1 .. r : Len(context) + i \in 1 .. Len(context) + r /\ ~(Len(context) + i <= Len(context))
                            /\ (Len(context) + i) - Len(context) = i
      BY <1>2, <1>7
  <2>2. /\ Len(context') = Len(context) + Len(results)
        /\ \A i \in 1 .. Len(context) + Len(results) :
              context'[i] = IF i <= Len(context) THEN context[i] ELSE results[i - Len(context)]
      BY <1>5, <1>7, ConcatProperties
  <2>3. Len(results) = r
      BY <1>5
  <2>4. \A i \in 1 .. Len(context) : i \in 1 .. Len(context) + r /\ i <= Len(context)
      BY <1>2, <1>7
  <2> QED BY <2>1, <2>2, <2>3, <2>4
<1>9. PICK k \in 1 .. base :
        /\ k = 1 \/ (Compacts /\ transcript[k].role # "user")
        /\ Len(context) = base - k + 1
        /\ \A i \in 1 .. Len(context) : context[i] = transcript[k + i - 1]
    BY <1>2 DEF Follows
<1>10. \A i \in 1 .. Len(context) + r : context'[i] = transcript[k + i - 1]
  <2> SUFFICES ASSUME NEW i \in 1 .. Len(context) + r PROVE context'[i] = transcript[k + i - 1]
      OBVIOUS
  <2>1. CASE i <= Len(context)
      BY <1>2, <1>7, <1>8, <1>9, <2>1
  <2>2. CASE i > Len(context)
    <3>1. i - Len(context) \in 1 .. r /\ i = Len(context) + (i - Len(context)) /\ k + i - 1 = base + (i - Len(context))
        BY <1>2, <1>4, <1>7, <1>9, <2>2
    <3> QED BY <1>6, <1>8, <3>1
  <2> QED BY <1>7, <2>1, <2>2
<1>11. k \in 1 .. Len(transcript) /\ Len(context) + r = Len(transcript) - k + 1
    BY <1>2, <1>4, <1>7, <1>9
<1>12. Follows(Len(context), Len(transcript))'
  <2>1. Len(context') = Len(context) + r /\ Len(context') <= Len(context') /\ transcript' = transcript
      BY <1>1, <1>2, <1>7, <1>8
  <2> QED BY <1>9, <1>10, <1>11, <2>1 DEF Follows
<1>13. transcript[Len(transcript)].role # "user"
  <2>0. r \in 1 .. r
      BY <1>2, <1>3
  <2>1. transcript[base + r] = Result(Response.turn, r)
      BY <1>5, <1>6, <2>0
  <2> QED BY <1>4, <2>1 DEF Result
<1>14. transcript # <<>>
    BY <1>4
<1> QED BY <1>1, <1>12, <1>13, <1>14

\* Every step of a run keeps the context beside the transcript.
LEMMA ContextNext ==
    ASSUME LoopInv, [LoopNext]_loopVars
    PROVE  ContextInv'
<1> USE DEF LoopInv
<1>0. /\ LoopTypes /\ NestInv /\ BatchInv /\ TurnsInv /\ ReportsInv /\ ContextInv /\ QueueInv /\ Turn \in Nat
    BY DEF TurnsInv
<1>1. CASE Prompted
  <2>1. /\ transcript = <<>> /\ transcript' = transcript /\ pending' = <<User("prompt", 1)>>
        /\ context' = transcript \o pending' /\ pc' = "agent_start"
      BY <1>1, <1>0 DEF Prompted, Begin, Silent, sink, QueueInv
  <2>2. User("prompt", 1) \in Messages
      BY MessagesTyped
  <2>3. context' = <<User("prompt", 1)>>
      BY <2>1, <2>2
  <2> QED BY <2>1, <2>3 DEF ContextInv, Prompting, Between
<1>2. CASE AgentStart
    BY <1>2, <1>0 DEF ContextInv, Prompting, Between, AgentStart, Bracket, progress, queues, sink, Silent
<1>3. CASE FirstTurn
    BY <1>3, <1>0 DEF ContextInv, Prompting, Between, FirstTurn, Bracket, progress, queues, sink, Silent
<1>4. CASE AnnounceStart
  <2>1. CASE pc = "prompts"
      BY <1>4, <1>0, <2>1 DEF ContextInv, Prompting, Between, AnnounceStart, MessageStart, progress
  <2>2. CASE pc = "inject"
      BY <1>4, <1>0, <2>2, FollowsSame DEF ContextInv, Prompting, Between, AnnounceStart, MessageStart, progress
  <2> QED BY <1>4, <2>1, <2>2 DEF AnnounceStart
<1>5. CASE AnnounceEnd
  <2>1. pending # <<>> /\ transcript' = Append(transcript, Head(pending)) /\ pending' = Tail(pending)
      BY <1>5, <1>0 DEF AnnounceEnd, MessageEnd, NestInv
  <2>2. Head(pending) \in Messages
      BY <1>0, <2>1, HeadAndTail DEF LoopTypes
  <2>3. CASE pc = "prompt"
    <3>1. pc' = "prompts" /\ context' = context /\ context = transcript \o pending /\ context # <<>>
        BY <1>5, <1>0, <2>3 DEF AnnounceEnd, ContextInv, Prompting
    <3>2. transcript' \o pending' = transcript \o pending
        BY <1>0, <2>1, ConcatMoves DEF LoopTypes
    <3> QED BY <3>1, <3>2 DEF ContextInv, Prompting, Between
  <2>4. CASE pc = "injection"
    <3>1. pc' = "inject" /\ context' = Append(context, Head(pending)) /\ Follows(Len(context), Len(transcript))
        BY <1>5, <1>0, <2>4 DEF AnnounceEnd, ContextInv
    <3>2. context \in Seq(Messages) /\ Len(context) <= Len(context)
        BY <1>0 DEF LoopTypes
    <3>3. Follows(Len(context), Len(transcript))'
        BY <2>1, <2>2, <3>1, <3>2, FollowsAppend
    <3> QED BY <3>1, <3>3 DEF ContextInv, Prompting, Between
  <2> QED BY <1>5, <2>3, <2>4 DEF AnnounceEnd
<1>6. CASE FirstPoll
  <2>1. /\ context' = context /\ transcript' = transcript /\ context = transcript \o pending /\ pending = <<>>
        /\ context # <<>> /\ pc' \in {"failed", "inject"}
      BY <1>6, <1>0 DEF FirstPoll, Silent, sink, ContextInv, Prompting
  <2>2. context = transcript /\ Len(transcript) \in Nat \ {0}
      BY <1>0, <2>1 DEF LoopTypes
  <2>3. Follows(Len(context), Len(transcript))'
      BY <2>1, <2>2 DEF Follows
  <2> QED BY <2>1, <2>3 DEF ContextInv, Prompting, Between
<1>7. CASE PrepareNextTurn
  <2>1. /\ pc = "prepare" /\ pc' = "next_turn" /\ transcript' = transcript
        /\ Follows(Len(context), Len(transcript)) /\ transcript # <<>> /\ transcript[Len(transcript)].role # "user"
      BY <1>7, <1>0 DEF PrepareNextTurn, Silent, sink, ContextInv, Between
  <2>2. CASE context' = context
      BY <2>1, <2>2, FollowsSame DEF ContextInv, Prompting, Between
  <2>3. CASE Compacts /\ context' = <<context[Len(context)]>>
    <3>1. Len(transcript) \in Nat \ {0} /\ Len(context) \in Nat
        BY <1>0, <2>1 DEF LoopTypes
    <3>2. PICK k \in 1 .. Len(transcript) :
              /\ Len(context) = Len(transcript) - k + 1
              /\ \A i \in 1 .. Len(context) : context[i] = transcript[k + i - 1]
        BY <2>1 DEF Follows
    <3>3. Len(context) \in 1 .. Len(context) /\ k + Len(context) - 1 = Len(transcript)
        BY <3>1, <3>2
    <3>4. context[Len(context)] = transcript[Len(transcript)]
        BY <3>2, <3>3
    <3>5. Len(context') = 1 /\ context'[1] = transcript[Len(transcript)] /\ 1 = Len(transcript) - Len(transcript) + 1
        BY <2>3, <3>1, <3>4
    <3>6. \A i \in 1 .. 1 : i = 1 /\ Len(transcript) + i - 1 = Len(transcript)
        BY <3>1
    <3>7. Len(transcript) \in 1 .. Len(transcript) /\ 1 <= Len(context')
        BY <3>1, <3>5
    <3>8. Follows(1, Len(transcript))'
        BY <2>1, <2>3, <3>5, <3>6, <3>7 DEF Follows
    <3>9. Follows(Len(context), Len(transcript))'
        BY <3>5, <3>8
    <3> QED BY <2>1, <3>9 DEF ContextInv, Prompting, Between
  <2> QED BY <1>7, <2>2, <2>3 DEF PrepareNextTurn
<1>8. CASE NextTurn
  <2>1. context' = context /\ transcript' = transcript
      BY <1>8 DEF NextTurn, Bracket, progress, sink, Silent
  <2> QED BY <1>8, <1>0, <2>1, FollowsSame DEF ContextInv, Prompting, Between, NextTurn
<1>9. CASE Request
  <2>1. context' = context /\ transcript' = transcript
      BY <1>9 DEF Request, progress, sink, Silent
  <2> QED BY <1>9, <1>0, <2>1, FollowsSame DEF ContextInv, Prompting, Between, Request
<1>10. CASE StreamStart
  <2>1. pc' \in {"streaming", "whole"} /\ transcript' = transcript /\ Follows(Len(context), Len(transcript))
      BY <1>10, <1>0 DEF StreamStart, MessageStart, ContextInv
  <2>2. PICK x \in Messages : context' = Append(context, x)
      BY <1>10, <1>0, MessagesTyped, ResponsesTyped DEF StreamStart
  <2>3. Len(context') - 1 = Len(context) /\ \A i \in 1 .. Len(context) : context'[i] = context[i]
      BY <1>0, <2>2 DEF LoopTypes
  <2>4. Len(context) <= Len(context')
      BY <1>0, <2>2 DEF LoopTypes
  <2>5. Follows(Len(context) - 1, Len(transcript))'
      BY <2>1, <2>3, <2>4 DEF Follows
  <2> QED BY <2>1, <2>5 DEF ContextInv, Prompting, Between
<1>11. CASE StreamEnd
  <2>1. PICK m \in Responses : context' = [context EXCEPT ![Len(context)] = m] /\ Received(m)
      BY <1>11 DEF StreamEnd
  <2>2. IsResponse(m) /\ m \in Messages /\ transcript' = Append(transcript, m) /\ pc' \in {"abandon", "turn_end", "batch"}
      BY <1>0, <2>1, ReceivedBatch DEF Received, MessageEnd
  <2>3. Follows(Len(context) - 1, Len(transcript)) /\ context # <<>>
    <3>1. Follows(Len(context) - 1, Len(transcript))
        BY <1>11, <1>0 DEF StreamEnd, ContextInv
    <3>2. PICK k \in 1 .. Len(transcript) : Len(context) - 1 = Len(transcript) - k + 1
        BY <3>1 DEF Follows
    <3> QED BY <1>0, <3>1, <3>2 DEF LoopTypes
  <2>4. Follows(Len(context), Len(transcript))'
      BY <2>1, <2>2, <2>3, FollowsResponse
  <2>5. transcript' # <<>> /\ transcript'[Len(transcript')] = m
      BY <1>0, <2>2, AppendLast DEF LoopTypes
  <2> QED BY <2>2, <2>4, <2>5 DEF ContextInv, Prompting, Between, IsResponse
<1>12. CASE StreamWhole
  <2>1. pc' \in {"streaming", "whole"} /\ transcript' = transcript /\ Follows(Len(context), Len(transcript))
      BY <1>12, <1>0 DEF StreamWhole, MessageStart, ContextInv
  <2>2. PICK x \in Messages : context' = Append(context, x)
      BY <1>12, <1>0, MessagesTyped, ResponsesTyped DEF StreamWhole
  <2>3. Len(context') - 1 = Len(context) /\ \A i \in 1 .. Len(context) : context'[i] = context[i]
      BY <1>0, <2>2 DEF LoopTypes
  <2>4. Len(context) <= Len(context')
      BY <1>0, <2>2 DEF LoopTypes
  <2>5. Follows(Len(context) - 1, Len(transcript))'
      BY <2>1, <2>3, <2>4 DEF Follows
  <2> QED BY <2>1, <2>5 DEF ContextInv, Prompting, Between
<1>13. CASE StreamWholeEnd
  <2> DEFINE m == streaming
  <2>1. /\ IsResponse(m) /\ Received(m) /\ context' = context /\ context # <<>> /\ context[Len(context)] = m
        /\ Follows(Len(context) - 1, Len(transcript))
      BY <1>13, <1>0 DEF StreamWholeEnd, NestInv, ContextInv
  <2>2. IsResponse(m) /\ m \in Messages /\ transcript' = Append(transcript, m) /\ pc' \in {"abandon", "turn_end", "batch"}
      BY <1>0, <2>1, ReceivedBatch DEF Received, MessageEnd
  <2>3. context' = [context EXCEPT ![Len(context)] = m]
      BY <1>0, <2>1 DEF LoopTypes
  <2> HIDE DEF m
  <2>4. Follows(Len(context), Len(transcript))'
      BY <2>1, <2>2, <2>3, FollowsResponse
  <2>5. transcript' # <<>> /\ transcript'[Len(transcript')] = m
      BY <1>0, <2>2, AppendLast DEF LoopTypes
  <2> QED BY <2>2, <2>4, <2>5 DEF ContextInv, Prompting, Between, IsResponse
<1>14. CASE StartBatch
  <2>1. pc' = "tools"
      BY <1>14 DEF StartBatch
  <2> QED BY <2>1 DEF ContextInv, Prompting, Between
<1>15. ASSUME NEW i \in Calls, CallStep(i)
      PROVE  ContextInv'
  <2>1. pc' = "tools"
      BY <1>15, CallKeeps
  <2> QED BY <2>1 DEF ContextInv, Prompting, Between
<1>16. CASE BatchEnd
  <2>1. pc' = "turn_end"
      BY <1>16 DEF BatchEnd
  <2> QED BY <1>16, <2>1, FollowsBatch DEF ContextInv, Prompting, Between
<1>17. CASE TurnEnd
  <2>1. context' = context /\ transcript' = transcript
      BY <1>17 DEF TurnEnd, Bracket, progress, sink, Silent
  <2> QED BY <1>17, <1>0, <2>1, FollowsSame DEF ContextInv, Prompting, Between, TurnEnd
<1>18. CASE AfterTurn
  <2>1. /\ context' = context /\ transcript' = transcript /\ pc' \in {"agent_end", "prepare", "follow_up"}
        /\ Follows(Len(context), Len(transcript)) /\ transcript # <<>> /\ transcript[Len(transcript)].role # "user"
      BY <1>18, <1>0 DEF AfterTurn, sink, Silent, ContextInv, Between
  <2> QED BY <2>1, FollowsSame DEF ContextInv, Prompting, Between
<1>19. CASE FollowUps
  <2>1. /\ context' = context /\ transcript' = transcript /\ pc' \in {"agent_end", "prepare", "follow_up"}
        /\ Follows(Len(context), Len(transcript)) /\ transcript # <<>> /\ transcript[Len(transcript)].role # "user"
      BY <1>19, <1>0 DEF FollowUps, sink, Silent, ContextInv, Between
  <2> QED BY <2>1, FollowsSame DEF ContextInv, Prompting, Between
<1>20. CASE AgentEnd
    BY <1>20, <1>0 DEF ContextInv, Prompting, Between, AgentEnd, progress, queues, sink, Silent
<1>21. CASE Steer
  <2>1. UNCHANGED <<pc, context, transcript, pending>>
      BY <1>21 DEF Steer, progress, sink
  <2> QED BY <1>0, <2>1 DEF ContextInv, Follows
<1>22. CASE FollowUp
  <2>1. UNCHANGED <<pc, context, transcript, pending>>
      BY <1>22 DEF FollowUp, progress, sink
  <2> QED BY <1>0, <2>1 DEF ContextInv, Follows
<1>23. CASE Cancel
  <2>1. UNCHANGED <<pc, context, transcript, pending>>
      BY <1>23 DEF Cancel, progress, sink
  <2> QED BY <1>0, <2>1 DEF ContextInv, Follows
<1>24. CASE UNCHANGED loopVars
  <2>1. UNCHANGED <<pc, context, transcript, pending>>
      BY <1>24 DEF loopVars, progress, sink
  <2> QED BY <1>0, <2>1 DEF ContextInv, Follows
<1> QED BY <1>1, <1>2, <1>3, <1>4, <1>5, <1>6, <1>7, <1>8, <1>9, <1>10, <1>11, <1>12, <1>13, <1>14, <1>15, <1>16, <1>17, <1>18, <1>19, <1>20, <1>21, <1>22, <1>23, <1>24 DEF LoopNext, LoopStep

-----------------------------------------------------------------------------
\* Queued messages, announced or waiting.
LEMMA HoldsOthers ==
    ASSUME NEW s \in Seq(Messages), NEW d \in Seq(Messages), NEW from, NEW n \in Nat, Holds(s, from, n),
           \A i \in DOMAIN d : ~IsFrom(d[i], from)
    PROVE  Holds(s \o d, from, n)
<1>1. /\ Len(s) \in Nat /\ DOMAIN s = 1 .. Len(s)
      /\ \A k \in DOMAIN s : k \in DOMAIN (s \o d) /\ (s \o d)[k] = s[k]
    OBVIOUS
<1>2. \A k \in DOMAIN (s \o d) : IsFrom((s \o d)[k], from) => k \in DOMAIN s
  <2> SUFFICES ASSUME NEW k \in DOMAIN (s \o d), k \notin DOMAIN s PROVE ~IsFrom((s \o d)[k], from)
      OBVIOUS
  <2>1. k - Len(s) \in DOMAIN d /\ (s \o d)[k] = d[k - Len(s)]
      OBVIOUS
  <2> QED BY <2>1
<1> QED BY <1>1, <1>2 DEF Holds

\* The next messages of the queue follow those before them.
LEMMA HoldsMore ==
    ASSUME NEW s \in Seq(Messages), NEW d \in Seq(Messages), NEW from, NEW n \in Nat, Holds(s, from, n),
           \A i \in 1 .. Len(d) : d[i] = User(from, n + i)
    PROVE  Holds(s \o d, from, n + Len(d))
<1> DEFINE t == s \o d
<1>1. /\ Len(s) \in Nat /\ DOMAIN s = 1 .. Len(s) /\ Len(d) \in Nat
      /\ DOMAIN t = 1 .. (Len(s) + Len(d))
      /\ \A k \in DOMAIN s : t[k] = s[k]
      /\ \A i \in 1 .. Len(d) : t[Len(s) + i] = d[i]
    OBVIOUS
<1>2. \A k \in DOMAIN t : k \in DOMAIN s \/ (k - Len(s) \in 1 .. Len(d) /\ k = Len(s) + (k - Len(s)) /\ k > Len(s))
    BY <1>1
<1> HIDE DEF t
<1>3. \A i \in 1 .. Len(d) : IsFrom(t[Len(s) + i], from) /\ t[Len(s) + i].n = n + i
  <2>1. \A i \in Nat : IsFrom(User(from, n + i), from) /\ User(from, n + i).n = n + i
      BY DEF IsFrom, User
  <2>2. \A i \in 1 .. Len(d) : i \in Nat /\ t[Len(s) + i] = User(from, n + i)
      BY <1>1
  <2> QED BY <2>1, <2>2
<1>4. \A k \in DOMAIN s : IsFrom(t[k], from) => t[k].n \in 1 .. n
    BY <1>1 DEF Holds
<1>5. ASSUME NEW k \in DOMAIN t, IsFrom(t[k], from)
      PROVE  t[k].n \in 1 .. n + Len(d)
  <2>1. CASE k \in DOMAIN s
      BY <1>1, <1>4, <1>5, <2>1
  <2>2. CASE k \notin DOMAIN s
    <3>1. PICK i \in 1 .. Len(d) : k = Len(s) + i
        BY <1>2, <2>2
    <3>2. t[k].n = n + i
        BY <1>3, <3>1
    <3> QED BY <1>1, <3>2
  <2> QED BY <2>1, <2>2
<1>6. ASSUME NEW i \in 1 .. n + Len(d)
      PROVE  \E k \in DOMAIN t : IsFrom(t[k], from) /\ t[k].n = i
  <2>1. CASE i <= n
    <3>1. PICK k \in DOMAIN s : IsFrom(s[k], from) /\ s[k].n = i
        BY <1>1, <2>1 DEF Holds
    <3> QED BY <1>1, <3>1
  <2>2. CASE i > n
    <3>1. i - n \in 1 .. Len(d) /\ n + (i - n) = i
        BY <1>1, <2>2
    <3>2. IsFrom(t[Len(s) + (i - n)], from) /\ t[Len(s) + (i - n)].n = i
        BY <1>3, <3>1
    <3>3. Len(s) + (i - n) \in DOMAIN t
        BY <1>1, <3>1
    <3> QED BY <3>2, <3>3
  <2> QED BY <1>1, <2>1, <2>2
<1>7. ASSUME NEW j \in DOMAIN t, NEW k \in DOMAIN t, IsFrom(t[j], from), IsFrom(t[k], from), j < k
      PROVE  t[j].n < t[k].n
  <2>1. CASE k \in DOMAIN s
    <3>1. j \in DOMAIN s
        BY <1>1, <1>7, <2>1
    <3> QED BY <1>1, <1>7, <2>1, <3>1 DEF Holds
  <2>2. CASE k \notin DOMAIN s
    <3>1. PICK i \in 1 .. Len(d) : k = Len(s) + i
        BY <1>2, <2>2
    <3>2. t[k].n = n + i
        BY <1>3, <3>1
    <3>3. CASE j \in DOMAIN s
      <4>1. t[j].n \in 1 .. n
          BY <1>4, <1>7, <3>3
      <4> QED BY <1>1, <3>2, <4>1
    <3>4. CASE j \notin DOMAIN s
      <4>1. PICK h \in 1 .. Len(d) : j = Len(s) + h
          BY <1>2, <3>4
      <4>2. t[j].n = n + h
          BY <1>3, <4>1
      <4>3. h < i
          BY <1>1, <1>7, <3>1, <4>1
      <4> QED BY <1>1, <3>2, <4>2, <4>3
    <3> QED BY <3>3, <3>4
  <2> QED BY <2>1, <2>2
<1>8. Holds(t, from, n + Len(d))
    BY <1>5, <1>6, <1>7 DEF Holds
<1> QED BY <1>8 DEF t

\* What a drain takes follows what has been taken before; messages of the other queue are not disturbed.
LEMMA DrainHolds ==
    ASSUME NEW s \in Seq(Messages), NEW q \in Seq(Messages), NEW from, NEW other, from # other, NEW n \in Nat, NEW m \in Nat,
           Waits(q, from, n), Holds(s, from, n - Len(q)), Holds(s, other, m)
    PROVE  /\ Waits(Remaining(q), from, n)
           /\ Holds(s \o Drained(q), from, n - Len(Remaining(q)))
           /\ Holds(s \o Drained(q), other, m)
           /\ \A i \in DOMAIN Drained(q) : Drained(q)[i].role = "user" /\ IsFrom(Drained(q)[i], from)
<1>1. /\ Drained(q) \in Seq(Messages) /\ Remaining(q) \in Seq(Messages)
      /\ Len(Drained(q)) \in Nat /\ Len(Remaining(q)) \in Nat /\ Len(q) \in Nat
      /\ Len(Drained(q)) + Len(Remaining(q)) = Len(q)
      /\ \A i \in 1 .. Len(Drained(q)) : Drained(q)[i] = q[i]
      /\ \A i \in 1 .. Len(Remaining(q)) : Remaining(q)[i] = q[Len(Drained(q)) + i]
      /\ DOMAIN Drained(q) = 1 .. Len(Drained(q)) /\ DOMAIN Remaining(q) = 1 .. Len(Remaining(q))
    BY DrainTyped
<1>2. Len(q) <= n /\ \A i \in 1 .. Len(q) : q[i] = User(from, n - Len(q) + i)
    BY DEF Waits
<1> DEFINE d == Drained(q)
           r == Remaining(q)
           l == n - Len(q)
<1> HIDE DEF d, r
<1>3. l \in Nat /\ \A i \in 1 .. Len(d) : i \in 1 .. Len(q) /\ d[i] = User(from, l + i)
    BY <1>1, <1>2 DEF d
<1>9. Len(d) \in Nat /\ Len(r) \in Nat /\ Len(q) \in Nat /\ Len(d) + Len(r) = Len(q)
    BY <1>1 DEF d, r
<1>4. Waits(r, from, n)
  <2>1. \A i \in 1 .. Len(r) : Len(d) + i \in 1 .. Len(q) /\ n - Len(q) + (Len(d) + i) = n - Len(r) + i
      BY <1>9
  <2>2. \A i \in 1 .. Len(r) : r[i] = User(from, n - Len(r) + i)
      BY <1>1, <1>2, <2>1 DEF d, r
  <2>3. Len(r) <= n
      BY <1>1, <1>2 DEF d, r
  <2> QED BY <1>1, <2>2, <2>3 DEF Waits, r
<1>5. Holds(s \o d, from, l + Len(d))
    BY <1>1, <1>3, HoldsMore DEF d
<1>6. l + Len(d) = n - Len(r)
  <2>1. \A a, b, c \in Nat : b + c = a => n - a + b = n - c
      OBVIOUS
  <2> QED BY <1>9, <2>1
<1>7. \A i \in DOMAIN d : d[i].role = "user" /\ IsFrom(d[i], from) /\ ~IsFrom(d[i], other)
    BY <1>1, <1>3 DEF d, IsFrom, User
<1>8. Holds(s \o d, other, m)
    BY <1>1, <1>7, HoldsOthers DEF d
<1> QED BY <1>4, <1>5, <1>6, <1>7, <1>8 DEF d, r

Queues ==
    /\ Waits(steering, "steer", asked.steer)
    /\ Waits(followUps, "followUp", asked.followUp)
    /\ Holds(transcript \o pending, "steer", asked.steer - Len(steering))
    /\ Holds(transcript \o pending, "followUp", asked.followUp - Len(followUps))

\* What the invariant says of the queues.
LEMMA QueuesTyped ==
    ASSUME LoopInv
    PROVE  /\ asked.steer \in Nat /\ asked.followUp \in Nat /\ Queues
           /\ transcript \in Seq(Messages) /\ pending \in Seq(Messages) /\ transcript \o pending \in Seq(Messages)
           /\ steering \in Seq(Messages) /\ followUps \in Seq(Messages)
           /\ Len(steering) \in Nat /\ Len(followUps) \in Nat
           /\ asked.steer - Len(steering) \in Nat /\ asked.followUp - Len(followUps) \in Nat
           /\ \A k \in DOMAIN pending : pending[k].role = "user"
           /\ pending = <<>> => transcript \o pending = transcript
<1>1. /\ asked.steer \in Nat /\ asked.followUp \in Nat /\ Queues
      /\ transcript \in Seq(Messages) /\ pending \in Seq(Messages)
      /\ steering \in Seq(Messages) /\ followUps \in Seq(Messages)
      /\ \A k \in DOMAIN pending : pending[k].role = "user"
    BY DEF LoopInv, LoopTypes, QueueInv, Queues
<1>2. /\ transcript \o pending \in Seq(Messages) /\ Len(steering) \in Nat /\ Len(followUps) \in Nat
      /\ pending = <<>> => transcript \o pending = transcript
    BY <1>1
<1>3. Len(steering) <= asked.steer /\ Len(followUps) <= asked.followUp
    BY <1>1 DEF Queues, Waits
<1> QED BY <1>1, <1>2, <1>3

\* Moving a message from pending to the transcript changes nothing.
LEMMA QueuesSame ==
    ASSUME LoopInv, transcript' \o pending' = transcript \o pending, UNCHANGED queues
    PROVE  Queues'
BY QueuesTyped DEF Queues, queues

\* Nor does a message of neither queue.
LEMMA QueuesOther ==
    ASSUME LoopInv, UNCHANGED queues, NEW x \in Messages, ~IsFrom(x, "steer"), ~IsFrom(x, "followUp"),
           transcript' \o pending' = Append(transcript \o pending, x)
    PROVE  Queues'
<1>1. /\ <<x>> \in Seq(Messages) /\ \A i \in DOMAIN <<x>> : <<x>>[i] = x
    OBVIOUS
<1>2. Append(transcript \o pending, x) = (transcript \o pending) \o <<x>>
    BY QueuesTyped, AppendIsConcat
<1>3. Holds((transcript \o pending) \o <<x>>, "steer", asked.steer - Len(steering))
    BY QueuesTyped, <1>1, HoldsOthers DEF Queues
<1>4. Holds((transcript \o pending) \o <<x>>, "followUp", asked.followUp - Len(followUps))
    BY QueuesTyped, <1>1, HoldsOthers DEF Queues
<1> QED BY QueuesTyped, <1>2, <1>3, <1>4 DEF Queues, queues

\* A poll of the steering queue.
LEMMA QueuesSteering ==
    ASSUME LoopInv, pending = <<>>, transcript' = transcript, UNCHANGED <<followUps, asked>>,
           pending' = Drained(steering), steering' = Remaining(steering)
    PROVE  Queues' /\ \A k \in DOMAIN pending' : pending'[k].role = "user"
<1>1. /\ transcript = transcript \o pending
      /\ Holds(transcript, "steer", asked.steer - Len(steering))
      /\ Holds(transcript, "followUp", asked.followUp - Len(followUps))
      /\ Waits(steering, "steer", asked.steer)
    BY QueuesTyped DEF Queues
<1>2. /\ Waits(Remaining(steering), "steer", asked.steer)
      /\ Holds(transcript \o Drained(steering), "steer", asked.steer - Len(Remaining(steering)))
      /\ Holds(transcript \o Drained(steering), "followUp", asked.followUp - Len(followUps))
      /\ \A i \in DOMAIN Drained(steering) : Drained(steering)[i].role = "user"
  <2> DEFINE m == asked.followUp - Len(followUps)
             n == asked.steer
  <2>1. transcript \in Seq(Messages) /\ steering \in Seq(Messages) /\ n \in Nat /\ m \in Nat
      BY QueuesTyped
  <2>2. Waits(steering, "steer", n) /\ Holds(transcript, "steer", n - Len(steering)) /\ Holds(transcript, "followUp", m)
      BY <1>1
  <2>3. "steer" # "followUp"
      OBVIOUS
  <2> HIDE DEF m, n
  <2>4. /\ Waits(Remaining(steering), "steer", n)
        /\ Holds(transcript \o Drained(steering), "steer", n - Len(Remaining(steering)))
        /\ Holds(transcript \o Drained(steering), "followUp", m)
        /\ \A i \in DOMAIN Drained(steering) : Drained(steering)[i].role = "user"
      BY <2>1, <2>2, <2>3, DrainHolds
  <2> QED BY <2>4 DEF m, n
<1> QED BY <1>2, QueuesTyped DEF Queues

\* A poll of the follow-up queue.
LEMMA QueuesFollowUps ==
    ASSUME LoopInv, pending = <<>>, transcript' = transcript, UNCHANGED <<steering, asked>>,
           pending' = Drained(followUps), followUps' = Remaining(followUps)
    PROVE  Queues' /\ \A k \in DOMAIN pending' : pending'[k].role = "user"
<1>1. /\ transcript = transcript \o pending
      /\ Holds(transcript, "steer", asked.steer - Len(steering))
      /\ Holds(transcript, "followUp", asked.followUp - Len(followUps))
      /\ Waits(followUps, "followUp", asked.followUp)
    BY QueuesTyped DEF Queues
<1>2. /\ Waits(Remaining(followUps), "followUp", asked.followUp)
      /\ Holds(transcript \o Drained(followUps), "followUp", asked.followUp - Len(Remaining(followUps)))
      /\ Holds(transcript \o Drained(followUps), "steer", asked.steer - Len(steering))
      /\ \A i \in DOMAIN Drained(followUps) : Drained(followUps)[i].role = "user"
  <2> DEFINE m == asked.steer - Len(steering)
             n == asked.followUp
  <2>1. transcript \in Seq(Messages) /\ followUps \in Seq(Messages) /\ n \in Nat /\ m \in Nat
      BY QueuesTyped
  <2>2. Waits(followUps, "followUp", n) /\ Holds(transcript, "followUp", n - Len(followUps)) /\ Holds(transcript, "steer", m)
      BY <1>1
  <2>3. "followUp" # "steer"
      OBVIOUS
  <2> HIDE DEF m, n
  <2>4. /\ Waits(Remaining(followUps), "followUp", n)
        /\ Holds(transcript \o Drained(followUps), "followUp", n - Len(Remaining(followUps)))
        /\ Holds(transcript \o Drained(followUps), "steer", m)
        /\ \A i \in DOMAIN Drained(followUps) : Drained(followUps)[i].role = "user"
      BY <2>1, <2>2, <2>3, DrainHolds
  <2> QED BY <2>4 DEF m, n
<1> QED BY <1>2, QueuesTyped DEF Queues

\* Queueing one more message.
LEMMA WaitsMore ==
    ASSUME NEW q \in Seq(Messages), NEW n \in Nat, NEW from, User(from, n + 1) \in Messages, Waits(q, from, n)
    PROVE  /\ Waits(Append(q, User(from, n + 1)), from, n + 1)
           /\ (n + 1) - Len(Append(q, User(from, n + 1))) = n - Len(q)
<1> DEFINE t == Append(q, User(from, n + 1))
<1>1. /\ Len(q) \in Nat /\ Len(t) = Len(q) + 1 /\ DOMAIN t = 1 .. Len(q) + 1
      /\ t[Len(q) + 1] = User(from, n + 1) /\ \A i \in 1 .. Len(q) : t[i] = q[i]
    OBVIOUS
<1> HIDE DEF t
<1>2. \A i \in 1 .. Len(q) : t[i] = User(from, n - Len(q) + i)
  <2>1. DOMAIN q = 1 .. Len(q)
      OBVIOUS
  <2> QED BY <1>1, <2>1 DEF Waits
<1>3. \A i \in DOMAIN t : i \in 1 .. Len(q) \/ i = Len(q) + 1
    BY <1>1
<1>4. (n + 1) - Len(t) = n - Len(q) /\ n - Len(q) + (Len(q) + 1) = n + 1 /\ Len(t) <= n + 1
    BY <1>1 DEF Waits
<1>5. \A i \in DOMAIN t : t[i] = User(from, (n + 1) - Len(t) + i)
    BY <1>1, <1>2, <1>3, <1>4
<1> QED BY <1>4, <1>5 DEF t, Waits

\* Every step of a run keeps the queued messages in order, none lost.
LEMMA QueueNext ==
    ASSUME LoopInv, [LoopNext]_loopVars
    PROVE  QueueInv'
<1> USE DEF LoopInv
<1>0. /\ LoopTypes /\ NestInv /\ BatchInv /\ QueueInv /\ Turn \in Nat
    BY DEF TurnsInv
<1>1. CASE Prompted
  <2>1. /\ transcript = <<>> /\ transcript' = transcript /\ pending = <<>> /\ pending' = <<User("prompt", 1)>>
        /\ pc' # "idle" /\ UNCHANGED queues
      BY <1>1, <1>0 DEF Prompted, Begin, Silent, sink, QueueInv
  <2>2. User("prompt", 1) \in Messages /\ ~IsFrom(User("prompt", 1), "steer") /\ ~IsFrom(User("prompt", 1), "followUp")
      BY MessagesTyped DEF IsFrom, User
  <2>3. transcript' \o pending' = Append(transcript \o pending, User("prompt", 1))
      BY <2>1, <2>2
  <2>4. \A k \in DOMAIN pending' : pending'[k].role = "user"
      BY <2>1 DEF User
  <2> QED BY <2>1, <2>2, <2>3, <2>4, QueuesOther DEF QueueInv, Queues
<1>2. CASE AgentStart
    BY <1>2, <1>0 DEF QueueInv, AgentStart, Bracket, progress, queues, sink, Silent
<1>3. CASE FirstTurn
    BY <1>3, <1>0 DEF QueueInv, FirstTurn, Bracket, progress, queues, sink, Silent
<1>4. CASE AnnounceStart
    BY <1>4, <1>0 DEF QueueInv, AnnounceStart, MessageStart, progress, queues, sink, Silent
<1>5. CASE AnnounceEnd
  <2>1. /\ pending # <<>> /\ transcript' = Append(transcript, Head(pending)) /\ pending' = Tail(pending)
        /\ UNCHANGED queues /\ pc' # "idle"
      BY <1>5, <1>0 DEF AnnounceEnd, MessageEnd, NestInv
  <2>2. transcript' \o pending' = transcript \o pending
      BY <1>0, <2>1, ConcatMoves DEF LoopTypes
  <2>3. \A k \in DOMAIN pending' : pending'[k].role = "user"
    <3>1. /\ pending \in Seq(Messages) /\ DOMAIN pending = 1 .. Len(pending) /\ Len(pending) \in Nat
          /\ \A k \in DOMAIN pending : pending[k].role = "user"
        BY QueuesTyped
    <3>2. /\ DOMAIN pending' = 1 .. Len(pending) - 1
          /\ \A k \in 1 .. Len(pending) - 1 : pending'[k] = pending[k + 1]
        BY <2>1, <3>1, HeadAndTail
    <3>3. \A k \in 1 .. Len(pending) - 1 : k + 1 \in 1 .. Len(pending)
        BY <3>1
    <3> QED BY <3>1, <3>2, <3>3
  <2> QED BY <2>1, <2>2, <2>3, QueuesSame DEF QueueInv, Queues
<1>6. CASE FirstPoll
  <2>1. pending = <<>> /\ transcript' = transcript /\ pc' # "idle"
      BY <1>6 DEF FirstPoll, Silent, sink
  <2>2. CASE UNCHANGED <<pending, queues>>
      BY <1>0, <2>1, <2>2, QueuesSame DEF QueueInv, Queues
  <2>3. CASE ~UNCHANGED <<pending, queues>>
    <3>1. pending' = Drained(steering) /\ steering' = Remaining(steering) /\ UNCHANGED <<followUps, asked>>
        BY <1>6, <2>1, <2>3 DEF FirstPoll, queues
    <3> QED BY <2>1, <3>1, QueuesSteering DEF QueueInv, Queues
  <2> QED BY <2>2, <2>3
<1>7. CASE PrepareNextTurn
  <2>1. transcript' = transcript /\ pc' # "idle" /\ UNCHANGED <<followUps, asked>>
      BY <1>7 DEF PrepareNextTurn, Silent, sink
  <2>2. CASE UNCHANGED <<pending, steering>>
      BY <1>0, <2>1, <2>2, QueuesSame DEF QueueInv, Queues, queues
  <2>3. CASE ~UNCHANGED <<pending, steering>>
    <3>1. pending = <<>> /\ pending' = Drained(steering) /\ steering' = Remaining(steering)
        BY <1>7, <1>0, <2>3 DEF PrepareNextTurn, NestInv
    <3> QED BY <2>1, <3>1, QueuesSteering DEF QueueInv, Queues
  <2> QED BY <2>2, <2>3
<1>8. CASE NextTurn
    BY <1>8, <1>0 DEF QueueInv, NextTurn, Bracket, progress, queues, sink, Silent
<1>9. CASE Request
    BY <1>9, <1>0 DEF QueueInv, Request, progress, queues, sink, Silent
<1>10. CASE StreamStart
    BY <1>10, <1>0 DEF QueueInv, StreamStart, MessageStart, progress, queues, sink, Silent
<1>11. CASE StreamEnd
  <2>1. PICK m \in Responses : Received(m)
      BY <1>11 DEF StreamEnd
  <2>2. IsResponse(m)
      BY <1>0, ResponsesTyped
  <2>3. m \in Messages /\ transcript' = Append(transcript, m) /\ ~IsFrom(m, "steer") /\ ~IsFrom(m, "followUp")
      BY <1>0, <2>1, <2>2, ReceivedBatch DEF Received, MessageEnd, IsResponse, IsFrom
  <2>4. pending = <<>> /\ pending' = pending /\ UNCHANGED queues /\ pc' # "idle"
      BY <1>11, <1>0, <2>1, <2>2, ReceivedBatch DEF StreamEnd, StreamWholeEnd, NestInv
  <2>5. transcript' \o pending' = Append(transcript \o pending, m)
      BY <1>0, <2>3, <2>4 DEF LoopTypes
  <2> QED BY <1>0, <2>3, <2>4, <2>5, QueuesOther DEF QueueInv, Queues
<1>12. CASE StreamWhole
    BY <1>12, <1>0 DEF QueueInv, StreamWhole, MessageStart, progress, queues, sink, Silent
<1>13. CASE StreamWholeEnd
  <2> DEFINE m == streaming
  <2>1. IsResponse(m) /\ Received(m)
      BY <1>13, <1>0 DEF StreamWholeEnd, NestInv
  <2>2. IsResponse(m)
      BY <2>1
  <2> HIDE DEF m
  <2>3. m \in Messages /\ transcript' = Append(transcript, m) /\ ~IsFrom(m, "steer") /\ ~IsFrom(m, "followUp")
      BY <1>0, <2>1, <2>2, ReceivedBatch DEF Received, MessageEnd, IsResponse, IsFrom
  <2>4. pending = <<>> /\ pending' = pending /\ UNCHANGED queues /\ pc' # "idle"
      BY <1>13, <1>0, <2>1, <2>2, ReceivedBatch DEF StreamEnd, StreamWholeEnd, NestInv
  <2>5. transcript' \o pending' = Append(transcript \o pending, m)
      BY <1>0, <2>3, <2>4 DEF LoopTypes
  <2> QED BY <1>0, <2>3, <2>4, <2>5, QueuesOther DEF QueueInv, Queues
<1>14. CASE StartBatch
    BY <1>14, <1>0 DEF QueueInv, StartBatch, progress, queues, sink, Silent
<1>15. ASSUME NEW i \in Calls, CallStep(i)
      PROVE  QueueInv'
  <2>1. /\ pc = "tools" /\ pc' = "tools" /\ UNCHANGED <<pending, queues>> /\ Response.turn \in Nat /\ i \in Nat
        /\ transcript' = transcript \/ transcript' = Append(transcript, Result(Response.turn, i))
      BY <1>15, CallKeeps
  <2>2. pending = <<>> /\ pending' = pending
      BY <1>0, <2>1 DEF NestInv, Answering
  <2>3. CASE transcript' = transcript
      BY <1>0, <2>1, <2>2, <2>3, QueuesSame DEF QueueInv, Queues
  <2>4. CASE transcript' = Append(transcript, Result(Response.turn, i))
    <3> DEFINE m == Result(Response.turn, i)
    <3>1. m \in Messages /\ ~IsFrom(m, "steer") /\ ~IsFrom(m, "followUp")
        BY <2>1, MessagesTyped DEF Result, IsFrom
    <3> HIDE DEF m
    <3>2. transcript' \o pending' = Append(transcript \o pending, m)
        BY <1>0, <2>2, <2>4, <3>1 DEF LoopTypes, m
    <3> QED BY <1>0, <2>1, <2>2, <3>1, <3>2, QueuesOther DEF QueueInv, Queues
  <2> QED BY <2>1, <2>3, <2>4
<1>16. CASE BatchEnd
    BY <1>16, <1>0 DEF QueueInv, BatchEnd, progress, queues, sink, Silent
<1>17. CASE TurnEnd
    BY <1>17, <1>0 DEF QueueInv, TurnEnd, Bracket, progress, queues, sink, Silent
<1>18. CASE AfterTurn
  <2>1. transcript' = transcript /\ pc' # "idle" /\ UNCHANGED <<followUps, asked>>
      BY <1>18 DEF AfterTurn, Silent, sink
  <2>2. CASE UNCHANGED <<pending, steering>>
      BY <1>0, <2>1, <2>2, QueuesSame DEF QueueInv, Queues, queues
  <2>3. CASE ~UNCHANGED <<pending, steering>>
    <3>1. pending = <<>> /\ pending' = Drained(steering) /\ steering' = Remaining(steering)
        BY <1>18, <1>0, <2>3 DEF AfterTurn, NestInv
    <3> QED BY <2>1, <3>1, QueuesSteering DEF QueueInv, Queues
  <2> QED BY <2>2, <2>3
<1>19. CASE FollowUps
  <2>1. /\ pending = <<>> /\ transcript' = transcript /\ pc' # "idle" /\ UNCHANGED <<steering, asked>>
        /\ pending' = Drained(followUps) /\ followUps' = Remaining(followUps)
      BY <1>19, <1>0 DEF FollowUps, NestInv, Silent, sink
  <2> QED BY <2>1, QueuesFollowUps DEF QueueInv, Queues
<1>20. CASE AgentEnd
    BY <1>20, <1>0 DEF QueueInv, AgentEnd, progress, queues, sink, Silent
<1>21. CASE Steer
  <2>1. /\ steering' = Append(steering, User("steer", asked.steer + 1)) /\ asked'.steer = asked.steer + 1
        /\ asked'.followUp = asked.followUp /\ UNCHANGED <<pc, pending, transcript, followUps>>
      BY <1>21, <1>0 DEF Steer, LoopTypes, progress, sink
  <2>2. /\ Waits(steering, "steer", asked.steer)' /\ asked'.steer - Len(steering') = asked.steer - Len(steering)
    <3>1. User("steer", asked.steer + 1) \in Messages
        BY MessagesTyped, QueuesTyped
    <3> QED BY <2>1, <3>1, WaitsMore, QueuesTyped DEF Queues
  <2> QED BY <1>0, <2>1, <2>2 DEF QueueInv
<1>22. CASE FollowUp
  <2>1. /\ followUps' = Append(followUps, User("followUp", asked.followUp + 1)) /\ asked'.followUp = asked.followUp + 1
        /\ asked'.steer = asked.steer /\ UNCHANGED <<pc, pending, transcript, steering>>
      BY <1>22, <1>0 DEF FollowUp, LoopTypes, progress, sink
  <2>2. /\ Waits(followUps, "followUp", asked.followUp)' /\ asked'.followUp - Len(followUps') = asked.followUp - Len(followUps)
    <3>1. User("followUp", asked.followUp + 1) \in Messages
        BY MessagesTyped, QueuesTyped
    <3> QED BY <2>1, <3>1, WaitsMore, QueuesTyped DEF Queues
  <2> QED BY <1>0, <2>1, <2>2 DEF QueueInv
<1>23. CASE Cancel
    BY <1>23, <1>0 DEF QueueInv, Cancel, progress, queues, sink, Silent
<1>24. CASE UNCHANGED loopVars
    BY <1>24, <1>0 DEF QueueInv, loopVars, progress, queues, sink, Silent
<1> QED BY <1>1, <1>2, <1>3, <1>4, <1>5, <1>6, <1>7, <1>8, <1>9, <1>10, <1>11, <1>12, <1>13, <1>14, <1>15, <1>16, <1>17, <1>18, <1>19, <1>20, <1>21, <1>22, <1>23, <1>24 DEF LoopNext, LoopStep

-----------------------------------------------------------------------------
\* In mode one-at-a-time, a response comes between any two queued messages.
LEMMA OneOther ==
    ASSUME transcript \in Seq(Messages), NEW x, transcript' = Append(transcript, x), x.role # "user"
    PROVE  /\ OneAtATime => OneAtATime'
           /\ Caught => Caught'
           /\ IsAssistant(x) => Caught'
<1>1. /\ Len(transcript) \in Nat /\ DOMAIN transcript = 1 .. Len(transcript)
      /\ Len(transcript') = Len(transcript) + 1 /\ DOMAIN transcript' = 1 .. (Len(transcript) + 1)
      /\ transcript'[Len(transcript) + 1] = x
      /\ \A j \in DOMAIN transcript : transcript'[j] = transcript[j]
    OBVIOUS
<1>2. \A j \in DOMAIN transcript' : j \in DOMAIN transcript \/ j = Len(transcript) + 1
    BY <1>1
<1>3. \A j \in DOMAIN transcript' : transcript'[j].role = "user" => j \in DOMAIN transcript
    BY <1>1, <1>2
<1>4. ASSUME OneAtATime
      PROVE  OneAtATime'
  <2> SUFFICES ASSUME QueueMode = "one-at-a-time", NEW j \in DOMAIN transcript', NEW i \in 1 .. j - 1,
                      transcript'[i].role = "user" /\ transcript'[i].from # "prompt",
                      transcript'[j].role = "user" /\ transcript'[j].from # "prompt"
               PROVE  \E k \in i .. j : IsAssistant(transcript'[k])
      BY DEF OneAtATime
  <2>1. j \in DOMAIN transcript /\ i \in DOMAIN transcript
      BY <1>1, <1>3
  <2>2. PICK k \in i .. j : IsAssistant(transcript[k])
      BY <1>1, <1>4, <2>1 DEF OneAtATime
  <2> QED BY <1>1, <2>1, <2>2
<1>5. ASSUME Caught
      PROVE  Caught'
  <2> SUFFICES ASSUME NEW i \in DOMAIN transcript', OfQueue(i)'
               PROVE  \E k \in i .. Len(transcript') : IsAssistant(transcript'[k])
      BY DEF Caught
  <2>1. i \in DOMAIN transcript
      BY <1>3 DEF OfQueue
  <2>2. OfQueue(i)
      BY <1>1, <2>1 DEF OfQueue
  <2>3. PICK k \in i .. Len(transcript) : IsAssistant(transcript[k])
      BY <1>5, <2>1, <2>2 DEF Caught
  <2> QED BY <1>1, <2>1, <2>3
<1>6. ASSUME IsAssistant(x)
      PROVE  Caught'
  <2>1. \A i \in DOMAIN transcript' : Len(transcript) + 1 \in i .. Len(transcript')
      BY <1>1
  <2> QED BY <1>1, <1>6, <2>1 DEF Caught
<1> QED BY <1>4, <1>5, <1>6

\* A queued message may follow a response.
LEMMA OneQueued ==
    ASSUME transcript \in Seq(Messages), NEW x, transcript' = Append(transcript, x), OneAtATime, Caught
    PROVE  OneAtATime'
<1>1. /\ Len(transcript) \in Nat /\ DOMAIN transcript = 1 .. Len(transcript)
      /\ DOMAIN transcript' = 1 .. (Len(transcript) + 1)
      /\ \A j \in DOMAIN transcript : transcript'[j] = transcript[j]
    OBVIOUS
<1> SUFFICES ASSUME QueueMode = "one-at-a-time", NEW j \in DOMAIN transcript', NEW i \in 1 .. j - 1,
                    transcript'[i].role = "user" /\ transcript'[i].from # "prompt",
                    transcript'[j].role = "user" /\ transcript'[j].from # "prompt"
             PROVE  \E k \in i .. j : IsAssistant(transcript'[k])
    BY DEF OneAtATime
<1>2. i \in DOMAIN transcript /\ transcript'[i] = transcript[i]
    BY <1>1
<1>3. CASE j \in DOMAIN transcript
  <2>1. PICK k \in i .. j : IsAssistant(transcript[k])
      BY <1>1, <1>2, <1>3 DEF OneAtATime
  <2> QED BY <1>1, <1>2, <1>3, <2>1
<1>4. CASE j = Len(transcript) + 1
  <2>1. PICK k \in i .. Len(transcript) : IsAssistant(transcript[k])
      BY <1>2 DEF Caught, OfQueue
  <2> QED BY <1>1, <1>2, <1>4, <2>1
<1> QED BY <1>1, <1>3, <1>4

\* A prompt is not a queued message.
LEMMA OnePrompt ==
    ASSUME transcript \in Seq(Messages), NEW x, transcript' = Append(transcript, x),
           x.from = "prompt", \A k \in DOMAIN transcript : ~OfQueue(k)
    PROVE  OneAtATime' /\ \A k \in DOMAIN transcript' : ~(OfQueue(k)')
<1>1. /\ Len(transcript) \in Nat /\ DOMAIN transcript = 1 .. Len(transcript)
      /\ DOMAIN transcript' = 1 .. (Len(transcript) + 1) /\ transcript'[Len(transcript) + 1] = x
      /\ \A j \in DOMAIN transcript : transcript'[j] = transcript[j]
    OBVIOUS
<1>2. \A k \in DOMAIN transcript' : ~(transcript'[k].role = "user" /\ transcript'[k].from # "prompt")
    BY <1>1 DEF OfQueue
<1> QED BY <1>2 DEF OneAtATime, OfQueue

\* Nothing changes while the transcript does not.
LEMMA OneSame ==
    ASSUME transcript' = transcript
    PROVE  /\ OneAtATime => OneAtATime'
           /\ Caught => Caught'
           /\ \A k : OfQueue(k)' <=> OfQueue(k)
BY DEF OneAtATime, Caught, OfQueue

\* Every step of a run keeps the queued messages apart.
LEMMA OneNext ==
    ASSUME LoopInv, [LoopNext]_loopVars
    PROVE  OneInv'
<1> USE DEF LoopInv
<1>0. /\ LoopTypes /\ NestInv /\ BatchInv /\ QueueInv /\ OneInv /\ Turn \in Nat
    BY DEF TurnsInv
<1>m. SUFFICES ASSUME QueueMode = "one-at-a-time"
               PROVE  OneInv'
    BY DEF OneInv
<1>1. CASE Prompted
  <2>1. /\ transcript' = transcript /\ transcript = <<>> /\ pending' = <<User("prompt", 1)>> /\ pc' = "agent_start"
      BY <1>1, <1>0 DEF Prompted, Begin, Silent, sink, QueueInv
  <2>2. Len(pending') = 1 /\ \A k \in DOMAIN pending' : pending'[k].role = "user" /\ pending'[k].from = "prompt"
      BY <2>1 DEF User
  <2>3. OneAtATime' /\ \A k \in DOMAIN transcript' : ~(OfQueue(k)')
      BY <2>1 DEF OneAtATime, OfQueue
  <2> QED BY <2>1, <2>2, <2>3 DEF OneInv, Prompting, Answering, Between
<1>2. CASE AgentStart
  <2>1. transcript' = transcript /\ pending' = pending
      BY <1>2 DEF AgentStart, Bracket, progress, sink, Silent
  <2> QED BY <1>2, <1>0, <1>m, <2>1, OneSame DEF OneInv, Prompting, Answering, Between, AgentStart, Bracket
<1>3. CASE FirstTurn
  <2>1. transcript' = transcript /\ pending' = pending
      BY <1>3 DEF FirstTurn, Bracket, progress, sink, Silent
  <2> QED BY <1>3, <1>0, <1>m, <2>1, OneSame DEF OneInv, Prompting, Answering, Between, FirstTurn, Bracket
<1>4. CASE AnnounceStart
  <2>1. transcript' = transcript /\ pending' = pending
      BY <1>4 DEF AnnounceStart, MessageStart, progress, sink, Silent
  <2> QED BY <1>4, <1>0, <1>m, <2>1, OneSame DEF OneInv, Prompting, Answering, Between, AnnounceStart, MessageStart
<1>5. CASE AnnounceEnd
  <2>1. /\ pending # <<>> /\ transcript' = Append(transcript, Head(pending)) /\ pending' = Tail(pending)
        /\ transcript \in Seq(Messages) /\ Len(pending) <= 1 /\ OneAtATime
      BY <1>5, <1>0, <1>m DEF AnnounceEnd, MessageEnd, NestInv, LoopTypes, OneInv
  <2>2. pending' = <<>> /\ Head(pending) = pending[1] /\ 1 \in DOMAIN pending
      BY <1>0, <2>1 DEF LoopTypes
  <2>3. CASE pc = "prompt"
    <3>1. pc' = "prompts" /\ Head(pending).from = "prompt" /\ \A k \in DOMAIN transcript : ~OfQueue(k)
        BY <1>5, <1>0, <1>m, <2>2, <2>3 DEF AnnounceEnd, OneInv, Prompting
    <3>2. OneAtATime' /\ \A k \in DOMAIN transcript' : ~(OfQueue(k)')
        BY <2>1, <3>1, OnePrompt
    <3> QED BY <2>2, <3>1, <3>2 DEF OneInv, Prompting, Answering, Between
  <2>4. CASE pc = "injection"
    <3>1. pc' = "inject" /\ Caught
        BY <1>5, <1>0, <1>m, <2>1, <2>4 DEF AnnounceEnd, OneInv
    <3>2. OneAtATime'
        BY <2>1, <3>1, OneQueued
    <3> QED BY <2>2, <3>1, <3>2 DEF OneInv, Prompting, Answering, Between
  <2> QED BY <1>5, <2>3, <2>4 DEF AnnounceEnd
<1>6. CASE FirstPoll
  <2>1. /\ transcript' = transcript /\ pc' \in {"failed", "inject"} /\ Len(pending') <= 1 /\ OneAtATime
        /\ \A k \in DOMAIN transcript : ~OfQueue(k)
      BY <1>6, <1>0, <1>m, DrainTyped DEF FirstPoll, Silent, sink, OneInv, Prompting, LoopTypes
  <2>2. Caught /\ OneAtATime' /\ Caught'
      BY <2>1, OneSame DEF Caught
  <2> QED BY <2>1, <2>2 DEF OneInv, Prompting, Answering, Between
<1>7. CASE PrepareNextTurn
  <2>1. transcript' = transcript /\ pc' = "next_turn" /\ Len(pending') <= 1 /\ OneAtATime /\ Caught
      BY <1>7, <1>0, <1>m, DrainTyped DEF PrepareNextTurn, Silent, sink, OneInv, Between, LoopTypes
  <2>2. OneAtATime' /\ Caught'
      BY <2>1, OneSame
  <2> QED BY <2>1, <2>2 DEF OneInv, Prompting, Answering, Between
<1>8. CASE NextTurn
  <2>1. transcript' = transcript /\ pending' = pending
      BY <1>8 DEF NextTurn, Bracket, progress, sink, Silent
  <2> QED BY <1>8, <1>0, <1>m, <2>1, OneSame DEF OneInv, Prompting, Answering, Between, NextTurn, Bracket
<1>9. CASE Request
  <2>1. transcript' = transcript /\ pending' = pending
      BY <1>9 DEF Request, progress, sink, Silent
  <2> QED BY <1>9, <1>0, <1>m, <2>1, OneSame DEF OneInv, Prompting, Answering, Between, Request
<1>10. CASE StreamStart
  <2>1. transcript' = transcript /\ pending' = pending
      BY <1>10 DEF StreamStart, MessageStart, progress, sink, Silent
  <2> QED BY <1>10, <1>0, <1>m, <2>1, OneSame DEF OneInv, Prompting, Answering, Between, StreamStart, MessageStart
<1>11. CASE StreamEnd
  <2>1. PICK m \in Responses : Received(m)
      BY <1>11 DEF StreamEnd
  <2>2. IsResponse(m)
      BY <1>0, ResponsesTyped
  <2>3. /\ transcript' = Append(transcript, m) /\ m.role # "user" /\ IsAssistant(m)
        /\ pc' \in {"abandon", "turn_end", "batch"} /\ pending' = pending /\ Len(pending) <= 1 /\ OneAtATime
      BY <1>11, <1>0, <1>m, <2>1, <2>2, ReceivedBatch DEF StreamEnd, StreamWholeEnd, Received, MessageEnd, IsResponse, IsAssistant, OneInv
  <2>4. OneAtATime' /\ Caught'
      BY <1>0, <2>3, OneOther DEF LoopTypes
  <2> QED BY <2>3, <2>4 DEF OneInv, Prompting, Answering, Between
<1>12. CASE StreamWhole
  <2>1. transcript' = transcript /\ pending' = pending
      BY <1>12 DEF StreamWhole, MessageStart, progress, sink, Silent
  <2> QED BY <1>12, <1>0, <1>m, <2>1, OneSame DEF OneInv, Prompting, Answering, Between, StreamWhole, MessageStart
<1>13. CASE StreamWholeEnd
  <2> DEFINE m == streaming
  <2>1. IsResponse(m) /\ Received(m)
      BY <1>13, <1>0 DEF StreamWholeEnd, NestInv
  <2>2. IsResponse(m)
      BY <2>1
  <2> HIDE DEF m
  <2>3. /\ transcript' = Append(transcript, m) /\ m.role # "user" /\ IsAssistant(m)
        /\ pc' \in {"abandon", "turn_end", "batch"} /\ pending' = pending /\ Len(pending) <= 1 /\ OneAtATime
      BY <1>13, <1>0, <1>m, <2>1, <2>2, ReceivedBatch DEF StreamEnd, StreamWholeEnd, Received, MessageEnd, IsResponse, IsAssistant, OneInv
  <2>4. OneAtATime' /\ Caught'
      BY <1>0, <2>3, OneOther DEF LoopTypes
  <2> QED BY <2>3, <2>4 DEF OneInv, Prompting, Answering, Between
<1>14. CASE StartBatch
  <2>1. transcript' = transcript /\ pending' = pending
      BY <1>14 DEF StartBatch, progress, sink, Silent
  <2> QED BY <1>14, <1>0, <1>m, <2>1, OneSame DEF OneInv, Prompting, Answering, Between, StartBatch
<1>15. ASSUME NEW i \in Calls, CallStep(i)
      PROVE  OneInv'
  <2>1. /\ pc = "tools" /\ pc' = "tools" /\ pending' = pending
        /\ transcript' = transcript \/ transcript' = Append(transcript, Result(Response.turn, i))
      BY <1>15, CallKeeps
  <2>2. Len(pending) <= 1 /\ OneAtATime /\ Caught
      BY <1>0, <1>m, <2>1 DEF OneInv, Answering
  <2>3. OneAtATime' /\ Caught'
    <3>1. Result(Response.turn, i).role # "user"
        BY DEF Result
    <3> QED BY <1>0, <2>1, <2>2, <3>1, OneSame, OneOther DEF LoopTypes
  <2> QED BY <2>1, <2>2, <2>3 DEF OneInv, Prompting, Answering, Between
<1>16. CASE BatchEnd
  <2>1. transcript' = transcript /\ pending' = pending
      BY <1>16 DEF BatchEnd, progress, sink, Silent
  <2> QED BY <1>16, <1>0, <1>m, <2>1, OneSame DEF OneInv, Prompting, Answering, Between, BatchEnd
<1>17. CASE TurnEnd
  <2>1. transcript' = transcript /\ pending' = pending
      BY <1>17 DEF TurnEnd, Bracket, progress, sink, Silent
  <2> QED BY <1>17, <1>0, <1>m, <2>1, OneSame DEF OneInv, Prompting, Answering, Between, TurnEnd, Bracket
<1>18. CASE AfterTurn
  <2>1. /\ transcript' = transcript /\ pc' \in {"agent_end", "prepare", "follow_up"} /\ Len(pending') <= 1
        /\ OneAtATime /\ Caught
      BY <1>18, <1>0, <1>m, DrainTyped DEF AfterTurn, Silent, sink, OneInv, Between, LoopTypes
  <2>2. OneAtATime' /\ Caught'
      BY <2>1, OneSame
  <2> QED BY <2>1, <2>2 DEF OneInv, Prompting, Answering, Between
<1>19. CASE FollowUps
  <2>1. /\ transcript' = transcript /\ pc' \in {"agent_end", "prepare"} /\ Len(pending') <= 1 /\ OneAtATime /\ Caught
      BY <1>19, <1>0, <1>m, DrainTyped DEF FollowUps, Silent, sink, OneInv, Between, LoopTypes
  <2>2. OneAtATime' /\ Caught'
      BY <2>1, OneSame
  <2> QED BY <2>1, <2>2 DEF OneInv, Prompting, Answering, Between
<1>20. CASE AgentEnd
  <2>1. transcript' = transcript /\ pending' = pending
      BY <1>20 DEF AgentEnd, progress, sink, Silent
  <2> QED BY <1>20, <1>0, <1>m, <2>1, OneSame DEF OneInv, Prompting, Answering, Between, AgentEnd
<1>21. CASE Steer
  <2>1. transcript' = transcript /\ pending' = pending
      BY <1>21 DEF Steer, progress, sink, Silent
  <2> QED BY <1>21, <1>0, <1>m, <2>1, OneSame DEF OneInv, Prompting, Answering, Between, Steer
<1>22. CASE FollowUp
  <2>1. transcript' = transcript /\ pending' = pending
      BY <1>22 DEF FollowUp, progress, sink, Silent
  <2> QED BY <1>22, <1>0, <1>m, <2>1, OneSame DEF OneInv, Prompting, Answering, Between, FollowUp
<1>23. CASE Cancel
  <2>1. transcript' = transcript /\ pending' = pending
      BY <1>23 DEF Cancel, progress, sink, Silent
  <2> QED BY <1>23, <1>0, <1>m, <2>1, OneSame DEF OneInv, Prompting, Answering, Between, Cancel
<1>24. CASE UNCHANGED loopVars
  <2>1. transcript' = transcript /\ pending' = pending
      BY <1>24 DEF loopVars, progress, sink, Silent
  <2> QED BY <1>24, <1>0, <1>m, <2>1, OneSame DEF OneInv, Prompting, Answering, Between, loopVars
<1> QED BY <1>1, <1>2, <1>3, <1>4, <1>5, <1>6, <1>7, <1>8, <1>9, <1>10, <1>11, <1>12, <1>13, <1>14, <1>15, <1>16, <1>17, <1>18, <1>19, <1>20, <1>21, <1>22, <1>23, <1>24 DEF LoopNext, LoopStep

-----------------------------------------------------------------------------
\* The inductive invariant of a run, and that it holds throughout.
LEMMA LoopInitInv == LoopInit => LoopInv
<1> SUFFICES ASSUME LoopInit PROVE LoopInv
    OBVIOUS
<1>1. /\ pc = "idle" /\ context = <<>> /\ produced = <<>> /\ pending = <<>> /\ cancelled = FALSE
      /\ steering = <<>> /\ followUps = <<>> /\ asked = [steer |-> 0, followUp |-> 0]
      /\ transcript = <<>> /\ streaming = NoMessage /\ pendingCalls = {} /\ phase = "out"
    BY DEF LoopInit
<1>2. LoopTypes
  <2>1. <<>> \in Seq(Messages) /\ FALSE \in BOOLEAN /\ asked \in [steer : Nat, followUp : Nat] /\ pc \in Points
      BY <1>1 DEF Points
  <2> QED BY <1>1, <2>1 DEF LoopTypes
<1>3. NestInv
    BY <1>1 DEF NestInv, Announcing, Answering, Between
<1>4. BatchInv /\ ReportsInv /\ ContextInv
    BY <1>1 DEF BatchInv, ReportsInv, ContextInv, Answering, Prompting, Between
<1>5. TurnsInv
  <2>1. Turn = 0
    <3>1. {k \in DOMAIN transcript : IsAssistant(transcript[k])} = {}
        BY <1>1
    <3> QED BY <3>1, FS_EmptySet DEF Turn
  <2> QED BY <1>1, <2>1 DEF TurnsInv
<1>6. QueueInv
  <2>1. transcript \o pending = <<>> /\ asked.steer - Len(steering) = 0 /\ asked.followUp - Len(followUps) = 0
      BY <1>1
  <2>2. Waits(steering, "steer", asked.steer) /\ Waits(followUps, "followUp", asked.followUp)
      BY <1>1 DEF Waits
  <2>3. \A from : Holds(<<>>, from, 0)
      BY DEF Holds
  <2> QED BY <1>1, <2>1, <2>2, <2>3 DEF QueueInv
<1>7. OneInv
    BY <1>1 DEF OneInv, OneAtATime, Prompting, Answering, Between, OfQueue
<1> QED BY <1>2, <1>3, <1>4, <1>5, <1>6, <1>7 DEF LoopInv

LEMMA LoopNextInv == LoopInv /\ [LoopNext]_loopVars => LoopInv'
BY TypesNext, NestNext, BatchNext, TurnsNext, ReportsNext, ContextNext, QueueNext, OneNext DEF LoopInv

LEMMA LoopInvariant == LoopSpec => []LoopInv
<1> QED BY LoopInitInv, LoopNextInv, PTL DEF LoopSpec

\* The context that stream_assistant_response sends never drifts from the transcript the
\* events built: it is the transcript, or what followed the end of an earlier turn when
\* prepare_next_turn replaced it, for any number of turns, calls and queued messages.
THEOREM ContextsFollow == LoopSpec => []ContextFollowsTranscript
<1>1. LoopInv => ContextFollowsTranscript
  <2> SUFFICES ASSUME LoopInv, pc \in {"inject", "requested"}, pending = <<>>
               PROVE  \E k \in DOMAIN transcript :
                          /\ context = SubSeq(transcript, k, Len(transcript))
                          /\ k = 1 \/ (Compacts /\ transcript[k].role # "user")
      BY DEF ContextFollowsTranscript
  <2>1. context \in Seq(Messages) /\ transcript \in Seq(Messages) /\ Follows(Len(context), Len(transcript))
      BY DEF LoopInv, LoopTypes, ContextInv
  <2>2. PICK k \in 1 .. Len(transcript) :
          /\ k = 1 \/ (Compacts /\ transcript[k].role # "user")
          /\ Len(context) = Len(transcript) - k + 1
          /\ \A i \in 1 .. Len(context) : context[i] = transcript[k + i - 1]
      BY <2>1 DEF Follows
  <2>3. /\ SubSeq(transcript, k, Len(transcript)) \in Seq(Messages)
        /\ Len(SubSeq(transcript, k, Len(transcript))) = Len(context)
        /\ \A i \in 1 .. Len(context) : SubSeq(transcript, k, Len(transcript))[i] = transcript[k + i - 1]
      BY <2>1, <2>2
  <2>4. context = SubSeq(transcript, k, Len(transcript))
      BY <2>1, <2>2, <2>3, SeqEqual
  <2>5. k \in DOMAIN transcript
      BY <2>1
  <2> QED BY <2>2, <2>4, <2>5
<1> QED BY <1>1, LoopInvariant, PTL

\* execute_tool_calls answers every call of a complete response before the next request, once
\* and in the order of the calls, in either mode; only an abort leaves the last ones unanswered.
THEOREM AnswersInOrder == LoopSpec => []AnsweredInOrder
<1>1. LoopInv => AnsweredInOrder
  <2> SUFFICES ASSUME LoopInv, NEW k \in DOMAIN transcript, Asking(k)
               PROVE  LET m == transcript[k]
                          given == Cardinality({j \in DOMAIN transcript :
                                      transcript[j].role = "toolResult" /\ transcript[j].turn = m.turn})
                      IN  /\ given <= m.calls
                          /\ SubSeq(transcript, k + 1, k + given) = [i \in 1 .. given |-> Result(m.turn, i)]
                          /\ m.turn < Turn \/ pc = "requested" => given = m.calls \/ cancelled
      BY DEF AnsweredInOrder, Asking
  <2>1. /\ transcript \in Seq(Messages) /\ k \in Nat /\ Turn \in Nat /\ Len(transcript) \in Nat
        /\ DOMAIN transcript = 1 .. Len(transcript) /\ TurnsInv /\ transcript[k].turn \in 1 .. Turn
      BY DEF LoopInv, LoopTypes, TurnsInv, Asking
  <2>2. PICK g \in 0 .. transcript[k].calls :
              /\ Answers(k, g)
              /\ g = transcript[k].calls \/ cancelled \/ (pc \in Answering /\ transcript[k].turn = Turn)
      BY <2>1 DEF TurnsInv
  <2>3. g \in Nat /\ g <= transcript[k].calls
    <3>1. transcript[k] \in Messages /\ transcript[k].role = "assistant"
        BY <2>1 DEF Asking, IsAssistant
    <3>2. transcript[k].calls \in Nat
        BY <3>1 DEF Messages
    <3> QED BY <2>2, <3>2
  <2>4. Cardinality({j \in DOMAIN transcript :
                transcript[j].role = "toolResult" /\ transcript[j].turn = transcript[k].turn}) = g
    <3>1. Cardinality((k + 1) .. (k + g)) = g
      <4>1. k + 1 \in Int /\ k + g \in Int
          BY <2>1, <2>3
      <4>2. Cardinality((k + 1) .. (k + g)) = IF k + 1 > k + g THEN 0 ELSE (k + g) - (k + 1) + 1
          BY <4>1, FS_Interval
      <4> QED BY <2>1, <2>3, <4>2
    <3> QED BY <2>2, <3>1 DEF Answers
  <2>5. SubSeq(transcript, k + 1, k + g) = [i \in 1 .. g |-> Result(transcript[k].turn, i)]
    <3>1. (k + 1) .. (k + g) \subseteq 1 .. Len(transcript)
        BY <2>1, <2>2 DEF Answers
    <3>2. g = 0 \/ k + g <= Len(transcript)
      <4>1. g >= 1 => k + g \in (k + 1) .. (k + g)
          BY <2>1, <2>3
      <4> QED BY <2>1, <2>3, <3>1, <4>1
    <3>3. SubSeq(transcript, k + 1, k + g) = [i \in 1 .. g |-> transcript[k + i]]
        BY <2>1, <2>3, <3>2
    <3> QED BY <2>2, <3>3 DEF Answers
  <2>6. transcript[k].turn < Turn \/ pc = "requested" => g = transcript[k].calls \/ cancelled
      BY <2>1, <2>2 DEF Answering
  <2> QED BY <2>3, <2>4, <2>5, <2>6
<1> QED BY <1>1, LoopInvariant, PTL

\* A queue whose messages are held or wait in order has lost none.
LEMMA HoldsInOrder ==
    ASSUME NEW from, NEW q \in Seq(Messages), NEW n \in Nat, transcript \o pending \in Seq(Messages),
           Waits(q, from, n), Holds(transcript \o pending, from, n - Len(q))
    PROVE  InOrder(from, q, n)
<1> DEFINE s == transcript \o pending
           all == s \o q
<1>1. n - Len(q) \in Nat /\ Len(q) \in Nat /\ (n - Len(q)) + Len(q) = n
    BY DEF Waits
<1>2. \A i \in 1 .. Len(q) : q[i] = User(from, (n - Len(q)) + i)
    BY DEF Waits
<1>3. Holds(all, from, n)
  <2> HIDE DEF s
  <2>1. s \in Seq(Messages) /\ Holds(s, from, n - Len(q))
      BY DEF s
  <2> DEFINE l == n - Len(q)
  <2>2. l \in Nat /\ \A i \in 1 .. Len(q) : q[i] = User(from, l + i)
      BY <1>1, <1>2
  <2>3. Holds(s, from, l)
      BY <2>1
  <2>4. l + Len(q) = n
      BY <1>1
  <2> HIDE DEF l
  <2>5. Holds(s \o q, from, l + Len(q))
      BY <2>1, <2>2, <2>3, HoldsMore
  <2> QED BY <2>4, <2>5
<1> HIDE DEF all
<1> DEFINE Of == {k \in DOMAIN all : all[k].role = "user" /\ all[k].from = from}
<1>4. {all[k].n : k \in Of} = 1 .. n
  <2>1. \A k \in Of : all[k].n \in 1 .. n
      BY <1>3 DEF Holds, IsFrom
  <2>2. \A i \in 1 .. n : \E k \in Of : all[k].n = i
      BY <1>3 DEF Holds, IsFrom
  <2> QED BY <2>1, <2>2
<1>5. \A j, k \in Of : j < k => all[j].n < all[k].n
    BY <1>3 DEF Holds, IsFrom
<1> QED BY <1>4, <1>5 DEF InOrder, all

\* The polls of run_loop lose no message of steer and follow_up, repeat none, and let none
\* overtake another of its queue.
THEOREM NoneIsLostOrOvertaken == LoopSpec => []NoneLostOrOvertaken
<1>1. LoopInv => NoneLostOrOvertaken
    BY QueuesTyped, HoldsInOrder DEF NoneLostOrOvertaken, Queues
<1> QED BY <1>1, LoopInvariant, PTL

\* In mode one-at-a-time no two queued messages are announced without a response between
\* them, although run_loop polls twice in a turn.
THEOREM OneMessageATurn == LoopSpec => []OneAtATime
<1>1. LoopInv => OneAtATime
    BY DEF LoopInv, OneInv, OneAtATime
<1> QED BY <1>1, LoopInvariant, PTL

\* What a step does to the brackets and messages a listener sees.
Nests ==
    /\ phase' # phase => streaming = NoMessage /\ pendingCalls = {}
    /\ streaming' # streaming => \/ streaming = NoMessage /\ phase = "turn"
                                 \/ streaming' = NoMessage
    /\ streaming # NoMessage /\ streaming' = NoMessage <=> transcript' # transcript
    /\ transcript' # transcript =>
           LET newest == transcript'[Len(transcript')]
           IN  transcript' = Append(transcript, newest) /\ newest.role = streaming.role

\* A message ends that was open.
LEMMA NestsEnd ==
    ASSUME transcript \in Seq(Messages), NEW m \in Messages, MessageEnd(m), streaming # NoMessage, streaming.role = m.role
    PROVE  Nests
<1>1. /\ transcript' = Append(transcript, m) /\ streaming' = NoMessage /\ phase' = phase
      /\ transcript'[Len(transcript')] = m
    BY AppendLast DEF MessageEnd
<1>2. transcript' # transcript
  <2>1. Len(transcript') = Len(transcript) + 1 /\ Len(transcript) \in Nat
      BY <1>1
  <2> QED BY <2>1
<1> QED BY <1>1, <1>2 DEF Nests

\* A message starts, inside a turn, when none is open.
LEMMA NestsStart ==
    ASSUME NEW m \in Messages, MessageStart(m), streaming = NoMessage, phase = "turn"
    PROVE  Nests
BY MessagesTyped DEF Nests, MessageStart

\* A listener sees nothing.
LEMMA NestsSilent ==
    ASSUME UNCHANGED <<streaming, transcript, phase>>
    PROVE  Nests
BY DEF Nests

\* A turn or the run begins or ends, with nothing open.
LEMMA NestsBracket ==
    ASSUME UNCHANGED <<streaming, transcript>>, streaming = NoMessage, pendingCalls = {}
    PROVE  Nests
BY DEF Nests

\* Every step of a run nests.
LEMMA StepsNest ==
    ASSUME LoopInv, [LoopNext]_loopVars
    PROVE  Nests
<1> USE DEF LoopInv
<1>0. /\ LoopTypes /\ NestInv /\ BatchInv /\ Turn \in Nat
    BY DEF TurnsInv
<1>1. CASE Prompted
    BY <1>1, NestsSilent DEF Prompted, Begin, Silent, sink
<1>2. CASE AgentStart
  <2>1. UNCHANGED <<streaming, transcript>> /\ streaming = NoMessage /\ pendingCalls = {}
      BY <1>2, <1>0 DEF AgentStart, Bracket, NestInv
  <2> QED BY <2>1, NestsBracket
<1>3. CASE FirstTurn
  <2>1. UNCHANGED <<streaming, transcript>> /\ streaming = NoMessage /\ pendingCalls = {}
      BY <1>3, <1>0 DEF FirstTurn, Bracket, NestInv
  <2> QED BY <2>1, NestsBracket
<1>4. CASE AnnounceStart
  <2>1. MessageStart(Head(pending)) /\ Head(pending) \in Messages /\ streaming = NoMessage /\ phase = "turn"
      BY <1>4, <1>0, HeadAndTail DEF AnnounceStart, NestInv, Announcing, LoopTypes
  <2> QED BY <2>1, NestsStart
<1>5. CASE AnnounceEnd
  <2>1. MessageEnd(Head(pending)) /\ Head(pending) \in Messages /\ streaming = Head(pending)
      BY <1>5, <1>0, HeadAndTail DEF AnnounceEnd, NestInv, LoopTypes
  <2> QED BY <1>0, <2>1, NestsEnd, MessagesTyped DEF LoopTypes
<1>6. CASE FirstPoll
    BY <1>6, NestsSilent DEF FirstPoll, Silent, sink
<1>7. CASE PrepareNextTurn
    BY <1>7, NestsSilent DEF PrepareNextTurn, Silent, sink
<1>8. CASE NextTurn
  <2>1. UNCHANGED <<streaming, transcript>> /\ streaming = NoMessage /\ pendingCalls = {}
      BY <1>8, <1>0 DEF NextTurn, Bracket, NestInv
  <2> QED BY <2>1, NestsBracket
<1>9. CASE Request
    BY <1>9, NestsSilent DEF Request, Silent, sink
<1>10. CASE StreamStart
  <2>1. /\ MessageStart(Assistant(Turn + 1, "partial", 0)) /\ Assistant(Turn + 1, "partial", 0) \in Messages
        /\ streaming = NoMessage /\ phase = "turn"
      BY <1>10, <1>0, MessagesTyped DEF StreamStart, NestInv
  <2> QED BY <2>1, NestsStart
<1>11. CASE StreamEnd
  <2>1. PICK m \in Responses : Received(m)
      BY <1>11 DEF StreamEnd
  <2>2. IsResponse(m) /\ m \in Messages /\ MessageEnd(m)
      BY <1>0, <2>1, ResponsesTyped DEF Received
  <2>3. streaming # NoMessage /\ streaming.role = m.role
    <3>1. streaming = Assistant(Turn + 1, "partial", 0) /\ Assistant(Turn + 1, "partial", 0) \in Messages
        BY <1>11, <1>0, MessagesTyped DEF StreamEnd, NestInv
    <3>2. streaming.role = "assistant" /\ m.role = "assistant"
        BY <2>2, <3>1 DEF Assistant, IsResponse
    <3> QED BY <3>1, <3>2, MessagesTyped
  <2> QED BY <1>0, <2>2, <2>3, NestsEnd DEF LoopTypes
<1>12. CASE StreamWhole
  <2>1. PICK m \in Responses : MessageStart(m)
      BY <1>12 DEF StreamWhole
  <2>2. m \in Messages /\ streaming = NoMessage /\ phase = "turn"
      BY <1>12, <1>0, ResponsesTyped DEF StreamWhole, NestInv
  <2> QED BY <2>1, <2>2, NestsStart
<1>13. CASE StreamWholeEnd
  <2>1. IsResponse(streaming) /\ Received(streaming)
      BY <1>13, <1>0 DEF StreamWholeEnd, NestInv
  <2>2. streaming \in Messages /\ MessageEnd(streaming)
      BY <1>0, <2>1, ReceivedBatch DEF Received
  <2>3. streaming # NoMessage
      BY <2>2, MessagesTyped
  <2> QED BY <1>0, <2>2, <2>3, NestsEnd DEF LoopTypes
<1>14. CASE StartBatch
    BY <1>14, NestsSilent DEF StartBatch, Silent, sink
<1>15. ASSUME NEW i \in Calls, CallStep(i)
      PROVE  Nests
  <2>0. /\ pc = "tools" /\ i \in AllCalls /\ i \in Nat /\ BatchTyped /\ BatchOrder /\ BatchShows
        /\ Response.calls \in Nat /\ Response.turn \in Nat /\ Result(Response.turn, i) \in Messages
      BY <1>15, CallKeeps, MessagesTyped
  <2>1. CASE ResultStart(i)
    <3>1. \A j \in 1 .. i - 1 : batch.stage[j] = "reported"
      <4>1. CASE batch.mode = "parallel"
        <5>1. \A j \in 1 .. i - 1 : j \in Calls
            BY <1>15, <2>0, CallKeeps DEF Calls
        <5> QED BY <2>0, <2>1, <4>1, <5>1 DEF ResultStart
      <4>2. CASE batch.mode # "parallel"
          BY <2>0, <2>1, <4>2 DEF ResultStart, BatchOrder, PastStages
      <4> QED BY <4>1, <4>2
    <3>2. \A k \in AllCalls : batch.stage[k] # "shown"
        BY <2>0, <2>1, <3>1, OneShown DEF ResultStart
    <3>3. streaming = NoMessage /\ phase = "turn"
        BY <1>0, <2>0, <3>2 DEF BatchShows, NestInv, Answering
    <3> QED BY <2>0, <2>1, <3>3, NestsStart DEF ResultStart
  <2>2. CASE ResultEnd(i)
    <3>1. streaming = Result(Response.turn, i) /\ MessageEnd(Result(Response.turn, i))
        BY <2>0, <2>2 DEF ResultEnd, BatchShows
    <3> QED BY <1>0, <2>0, <3>1, NestsEnd, MessagesTyped DEF LoopTypes
  <2>3. CASE ~ResultStart(i) /\ ~ResultEnd(i)
    <3>1. UNCHANGED <<streaming, transcript, phase>>
        BY <1>15, <2>3 DEF CallStep, CallStart, CallRefuse, CallPrepare, CallExecute, CallEnd,
               CallBreak, Silent, sink, ExecutionStart, ExecutionEnd
    <3> QED BY <3>1, NestsSilent
  <2> QED BY <2>1, <2>2, <2>3
<1>16. CASE BatchEnd
    BY <1>16, NestsSilent DEF BatchEnd, Silent, sink
<1>17. CASE TurnEnd
  <2>1. UNCHANGED <<streaming, transcript>> /\ streaming = NoMessage /\ pendingCalls = {}
      BY <1>17, <1>0 DEF TurnEnd, Bracket, NestInv
  <2> QED BY <2>1, NestsBracket
<1>18. CASE AfterTurn
    BY <1>18, NestsSilent DEF AfterTurn, Silent, sink
<1>19. CASE FollowUps
    BY <1>19, NestsSilent DEF FollowUps, Silent, sink
<1>20. CASE AgentEnd
  <2>1. UNCHANGED <<streaming, transcript>> /\ streaming = NoMessage /\ pendingCalls = {}
      BY <1>20, <1>0 DEF AgentEnd, NestInv
  <2> QED BY <2>1, NestsBracket
<1>21. CASE Steer
    BY <1>21, NestsSilent DEF Steer, Silent, sink
<1>22. CASE FollowUp
    BY <1>22, NestsSilent DEF FollowUp, Silent, sink
<1>23. CASE Cancel
    BY <1>23, NestsSilent DEF Cancel, Silent, sink
<1>24. CASE UNCHANGED loopVars
    BY <1>24, NestsSilent DEF loopVars, Silent, sink
<1> QED BY <1>1, <1>2, <1>3, <1>4, <1>5, <1>6, <1>7, <1>8, <1>9, <1>10, <1>11, <1>12, <1>13, <1>14, <1>15, <1>16, <1>17, <1>18, <1>19, <1>20, <1>21, <1>22, <1>23, <1>24 DEF LoopNext, LoopStep

\* What process_events hands to a listener nests: no message or tool call stays open across a
\* turn's bracket, messages open and close one at a time, and join the transcript as they close.
THEOREM WhatListenersSeeNests == LoopSpec => EventsNest
<1>1. LoopInv /\ [LoopNext]_loopVars => [Nests]_loopVars
    BY StepsNest
<1>2. LoopSpec => [][Nests]_loopVars
    BY <1>1, LoopInvariant, PTL DEF LoopSpec
<1> QED BY <1>2 DEF EventsNest, Nests

-----------------------------------------------------------------------------
\* Stages of a call that waits for run_lock or holds it.
Queued == Running \cup {"lock", "waiting", "release"}

\* Stages that only the first of the queue may be at.
Holding == Running \cup {"release"}

LockInv ==
    /\ runLock \in Seq(Callers)
    /\ Distinct(runLock)
    /\ \A c \in Callers : call[c].stage \in Queued <=> c \in Members(runLock)
    /\ \A c \in Callers : call[c].stage \in Holding => Head(runLock) = c

ActiveInv ==
    /\ \A c \in Callers : call[c].stage \in Running => active = c
    /\ active \in Callers \cup {NoOne}
    /\ pc # "idle" => \E c \in Callers : call[c].stage = "running"

Clean == ~isStreaming /\ streaming = NoMessage /\ pendingCalls = {}

CleanInv ==
    /\ active = NoOne => Clean
    /\ \A c \in Callers : call[c].stage = "finished" => Clean

\* Every task has a call record.
IsCall(r) == r = [stage |-> r.stage, messages |-> r.messages, skip |-> r.skip]

CallInv == call = [c \in Callers |-> call[c]] /\ \A c \in Callers : IsCall(call[c])

RunInv == CallInv /\ LockInv /\ ActiveInv /\ CleanInv

\* At most one call holds the lock.
LEMMA OneHolder ==
    ASSUME LockInv, NEW c \in Callers, NEW d \in Callers,
           call[c].stage \in Holding, call[d].stage \in Holding
    PROVE  c = d
BY DEF LockInv

\* The loop only moves while there is a run.
LEMMA LoopRuns == LoopStep => pc # "idle"
<1>1. AgentStart \/ FirstTurn \/ AnnounceStart \/ AnnounceEnd \/ FirstPoll => pc # "idle"
    BY DEF AgentStart, FirstTurn, AnnounceStart, AnnounceEnd, FirstPoll
<1>2. PrepareNextTurn \/ NextTurn \/ Request => pc # "idle"
    BY DEF PrepareNextTurn, NextTurn, Request
<1>3. StreamStart \/ StreamEnd \/ StreamWhole \/ StreamWholeEnd => pc # "idle"
    BY DEF StreamStart, StreamEnd, StreamWhole, StreamWholeEnd
<1>4. ASSUME NEW i \in Calls, CallStep(i)
      PROVE  pc # "idle"
    BY <1>4 DEF CallStep, CallStart, CallRefuse, CallPrepare, CallExecute, CallEnd,
                ResultStart, ResultEnd, CallBreak, InBatch
<1>5. StartBatch \/ BatchEnd \/ TurnEnd \/ AfterTurn \/ FollowUps \/ AgentEnd => pc # "idle"
    BY DEF StartBatch, BatchEnd, TurnEnd, AfterTurn, FollowUps, AgentEnd
<1> QED BY <1>1, <1>2, <1>3, <1>4, <1>5 DEF LoopStep

\* An agent nobody has called yet.
LEMMA InitRun == Init => RunInv
<1> SUFFICES ASSUME Init PROVE RunInv
    OBVIOUS
<1>1. CallInv
    BY DEF Init, CallInv, IsCall, NoCall, At
<1>2. LockInv
    BY DEF Init, LockInv, Distinct, Members, Queued, Holding, Running, NoCall, At
<1>3. ActiveInv /\ CleanInv
    BY DEF Init, LoopInit, ActiveInv, CleanInv, Clean, NoCall, At, Running
<1> QED BY <1>1, <1>2, <1>3 DEF RunInv

-----------------------------------------------------------------------------
\* What a step of a call does to its record.
LEMMA ToOne ==
    ASSUME CallInv, NEW c \in Callers, NEW r, IsCall(r), To(c, r)
    PROVE  /\ CallInv'
           /\ call'[c] = r
           /\ \A d \in Callers : d # c => call'[d] = call[d]
BY DEF CallInv, To

\* A call record stays one.
LEMMA AtIsCall ==
    /\ IsCall(NoCall) /\ NoCall.stage = "out"
    /\ \A s : IsCall(At(s)) /\ At(s).stage = s
BY DEF IsCall, NoCall, At

\* A step that changes one record, from outside the lock's stages to outside
\* them, and neither the queue nor the active run.
LEMMA OutsideLock ==
    ASSUME RunInv, NEW c \in Callers, NEW r, IsCall(r), To(c, r),
           call[c].stage \notin Queued, r.stage \notin Queued,
           UNCHANGED <<pc, active, runLock>>, CleanInv'
    PROVE  RunInv'
<1>1. CallInv' /\ call'[c] = r /\ \A d \in Callers : d # c => call'[d] = call[d]
    BY ToOne DEF RunInv
<1>2. LockInv'
    BY <1>1 DEF RunInv, LockInv, Queued, Holding, Distinct, Members
<1>3. ActiveInv'
    BY <1>1 DEF RunInv, ActiveInv, Queued, Running
<1> QED BY <1>1, <1>2, <1>3 DEF RunInv

\* A step of the one that holds the lock, which keeps it.
LEMMA InsideLock ==
    ASSUME RunInv, NEW c \in Callers, NEW r, IsCall(r), To(c, r),
           call[c].stage \in Queued, r.stage \in Queued, Head(runLock) = c,
           UNCHANGED runLock
    PROVE  CallInv' /\ LockInv'
<1>1. CallInv' /\ call'[c] = r /\ \A d \in Callers : d # c => call'[d] = call[d]
    BY ToOne DEF RunInv
<1> QED BY <1>1 DEF RunInv, LockInv, Queued, Holding, Distinct, Members

-----------------------------------------------------------------------------
\* Calls that do not wait for run_lock: made, looking, taking from the queues,
\* resetting, and a start that is refused.
LEMMA OutsideSafe ==
    ASSUME RunInv, NEW c \in Callers,
           \/ Prompt(c) \/ Continue(c) \/ LookAtLast(c) \/ DrainSteering(c) \/ DrainFollowUps(c)
           \/ Reset(c) \/ ResetState(c) \/ ClearFollowUps(c) \/ ClearSteering(c)
           \/ (Enter(c) /\ active # NoOne)
    PROVE  RunInv'
<1>1. PICK r : /\ IsCall(r) /\ To(c, r) /\ r.stage \notin Queued /\ call[c].stage \notin Queued
               /\ UNCHANGED <<pc, active, runLock>>
               /\ UNCHANGED <<isStreaming, streaming, pendingCalls>> \/ Clean'
               /\ r.stage # "finished"
  <2>1. CASE Prompt(c)
      BY <2>1, AtIsCall DEF Prompt, IsCall, NoCall, At, Queued, Running, loopVars, sink
  <2>2. CASE Continue(c) \/ Reset(c)
      BY <2>2, AtIsCall DEF Continue, Reset, NoCall, At, Queued, Running, loopVars, sink
  <2>3. CASE LookAtLast(c)
      BY <2>3, AtIsCall DEF LookAtLast, NoCall, At, Queued, Running, loopVars, sink
  <2>4. CASE DrainSteering(c)
      BY <2>4, AtIsCall DEF DrainSteering, IsCall, NoCall, At, Queued, Running, sink
  <2>5. CASE DrainFollowUps(c)
      BY <2>5, AtIsCall DEF DrainFollowUps, IsCall, NoCall, At, Queued, Running, sink
  <2>6. CASE ResetState(c)
      BY <2>6, AtIsCall DEF ResetState, Clean, At, Queued, Running
  <2>7. CASE ClearFollowUps(c) \/ ClearSteering(c)
      BY <2>7, AtIsCall DEF ClearFollowUps, ClearSteering, NoCall, At, Queued, Running, sink
  <2>8. CASE Enter(c) /\ active # NoOne
      BY <2>8, AtIsCall DEF Enter, NoCall, At, Queued, Running, loopVars, sink
  <2> QED BY <2>1, <2>2, <2>3, <2>4, <2>5, <2>6, <2>7, <2>8
<1>2. \A d \in Callers : d # c => call'[d] = call[d]
    BY <1>1, ToOne DEF RunInv
<1>3. call'[c] = r
    BY <1>1, ToOne DEF RunInv
<1>4. CleanInv'
    BY <1>1, <1>2, <1>3 DEF RunInv, CleanInv, Clean
<1> QED BY <1>1, <1>4, OutsideLock

\* Asking for run_lock.
LEMMA AskSafe ==
    ASSUME RunInv, NEW c \in Callers, WaitForIdle(c) \/ (Enter(c) /\ active = NoOne)
    PROVE  RunInv'
<1>1. PICK r : /\ IsCall(r) /\ To(c, r) /\ r.stage \in {"lock", "waiting"}
               /\ call[c].stage \notin Queued
               /\ runLock' = Append(runLock, c)
               /\ UNCHANGED <<pc, active, isStreaming, streaming, pendingCalls>>
  <2>1. CASE WaitForIdle(c)
      BY <2>1, AtIsCall DEF WaitForIdle, NoCall, At, Queued, Running, loopVars, sink
  <2>2. CASE Enter(c) /\ active = NoOne
      BY <2>2 DEF Enter, Onward, IsCall, Queued, Running, loopVars, sink
  <2> QED BY <2>1, <2>2
<1>2. CallInv' /\ call'[c] = r /\ \A d \in Callers : d # c => call'[d] = call[d]
    BY <1>1, ToOne DEF RunInv
<1>3. c \notin Members(runLock)
    BY <1>1 DEF RunInv, LockInv
<1>4. /\ runLock' \in Seq(Callers) /\ Distinct(runLock')
      /\ Members(runLock') = Members(runLock) \cup {c}
      /\ runLock # <<>> => Head(runLock') = Head(runLock)
    BY <1>1, <1>3, AppendQueue DEF RunInv, LockInv
<1>5. ASSUME NEW d \in Callers, call'[d].stage \in Holding
      PROVE  Head(runLock') = d
  <2>1. d # c /\ call[d].stage \in Holding
      BY <1>1, <1>2, <1>5 DEF Holding, Running
  <2>2. Head(runLock) = d /\ d \in Members(runLock)
      BY <2>1 DEF RunInv, LockInv, Holding, Queued
  <2>3. runLock # <<>>
      BY <2>2 DEF Members
  <2> QED BY <1>4, <2>2, <2>3
<1>6. \A d \in Callers : call'[d].stage \in Queued <=> d \in Members(runLock')
    BY <1>1, <1>2, <1>4 DEF RunInv, LockInv, Queued
<1>7. LockInv'
    BY <1>4, <1>5, <1>6 DEF LockInv
<1>8. ActiveInv' /\ CleanInv'
    BY <1>1, <1>2 DEF RunInv, ActiveInv, CleanInv, Clean, Running, Queued
<1> QED BY <1>2, <1>7, <1>8 DEF RunInv

-----------------------------------------------------------------------------
\* Giving the lock back: nothing of the run is left.
LEMMA LeaveSafe ==
    ASSUME RunInv, NEW c \in Callers, WaitGranted(c) \/ Release(c)
    PROVE  RunInv'
<1>1. /\ IsCall(NoCall) /\ To(c, NoCall) /\ NoCall.stage = "out"
      /\ call[c].stage \in {"waiting", "release"} /\ Head(runLock) = c /\ runLock' = Tail(runLock)
      /\ UNCHANGED <<pc, active, isStreaming, streaming, pendingCalls>>
  <2>1. CASE WaitGranted(c)
      BY <2>1, AtIsCall DEF WaitGranted, loopVars, sink
  <2>2. CASE Release(c)
      BY <2>2, AtIsCall DEF Release, RunInv, LockInv, Holding, loopVars, sink
  <2> QED BY <2>1, <2>2
<1>2. CallInv' /\ call'[c] = NoCall /\ \A d \in Callers : d # c => call'[d] = call[d]
    BY <1>1, ToOne DEF RunInv
<1>3. c \in Members(runLock) /\ runLock # <<>>
    BY <1>1 DEF RunInv, LockInv, Queued, Members
<1>4. /\ runLock' \in Seq(Callers) /\ Distinct(runLock')
      /\ Members(runLock') = Members(runLock) \ {c}
    BY <1>1, <1>3, TailQueue DEF RunInv, LockInv
<1>5. \A d \in Callers : call'[d].stage \notin Holding
    BY <1>1, <1>2 DEF RunInv, LockInv, Holding, Running
<1>6. \A d \in Callers : call'[d].stage \in Queued <=> d \in Members(runLock')
    BY <1>1, <1>2, <1>4 DEF RunInv, LockInv, Queued, Running
<1>7. LockInv'
    BY <1>4, <1>5, <1>6 DEF LockInv
<1>8. ActiveInv' /\ CleanInv'
    BY <1>1, <1>2 DEF RunInv, ActiveInv, CleanInv, Clean, Running
<1> QED BY <1>2, <1>7, <1>8 DEF RunInv

\* The one with the lock starts its run.
LEMMA StartSafe ==
    ASSUME RunInv, NEW c \in Callers, Activate(c) \/ MarkStreaming(c) \/ BeginRun(c)
    PROVE  RunInv'
<1>1. PICK r : /\ IsCall(r) /\ To(c, r) /\ r.stage \in Running \ {"finished"}
               /\ call[c].stage \in Queued /\ Head(runLock) = c
               /\ UNCHANGED runLock /\ active' = c
               /\ pc' # pc => r.stage = "running"
               /\ call[c].stage # "running"
  <2>1. CASE Activate(c)
      BY <2>1 DEF Activate, Onward, IsCall, Queued, Running
  <2>2. CASE MarkStreaming(c)
      BY <2>2 DEF MarkStreaming, Onward, IsCall, Queued, Running, Holding, RunInv, LockInv, ActiveInv
  <2>3. CASE BeginRun(c)
      BY <2>3, AtIsCall DEF BeginRun, At, Queued, Running, Holding, RunInv, LockInv, ActiveInv
  <2> QED BY <2>1, <2>2, <2>3
<1>2. CallInv' /\ call'[c] = r /\ \A d \in Callers : d # c => call'[d] = call[d]
    BY <1>1, ToOne DEF RunInv
<1>3. LockInv'
    BY <1>1, InsideLock DEF Queued
<1>4. \A d \in Callers : d # c => call[d].stage \notin Holding
    BY <1>1 DEF RunInv, LockInv
<1>5. ActiveInv'
    BY <1>1, <1>2, <1>4 DEF RunInv, ActiveInv, Holding, Running
<1>6. CleanInv'
    BY <1>1, <1>2, <1>4, AgentAssumption DEF RunInv, CleanInv, Holding, Running
<1> QED BY <1>2, <1>3, <1>5, <1>6 DEF RunInv

\* finish_run cleans the state before it gives up being active.
LEMMA FinishSafe ==
    ASSUME RunInv, NEW c \in Callers, FinishState(c) \/ FinishRun(c)
    PROVE  RunInv'
<1>1. CASE FinishState(c)
  <2>1. /\ IsCall(At("finished")) /\ At("finished").stage = "finished" /\ To(c, At("finished"))
        /\ call[c].stage = "running" /\ Head(runLock) = c /\ UNCHANGED <<runLock, active>>
        /\ pc' = "idle" /\ Clean'
      BY <1>1, AtIsCall
         DEF FinishState, NoProgress, Clean, RunInv, LockInv, Holding, Running
  <2>2. CallInv' /\ call'[c] = At("finished") /\ \A d \in Callers : d # c => call'[d] = call[d]
      BY <2>1, ToOne DEF RunInv
  <2>3. LockInv'
      BY <2>1, InsideLock DEF Queued, Running
  <2>4. ActiveInv' /\ CleanInv'
      BY <2>1, <2>2 DEF RunInv, ActiveInv, CleanInv, Clean, Running
  <2> QED BY <2>2, <2>3, <2>4 DEF RunInv
<1>2. CASE FinishRun(c)
  <2>1. /\ IsCall(At("release")) /\ At("release").stage = "release" /\ To(c, At("release"))
        /\ call[c].stage = "finished" /\ Head(runLock) = c /\ active' = NoOne
        /\ UNCHANGED <<pc, runLock, isStreaming, streaming, pendingCalls>>
      BY <1>2, AtIsCall
         DEF FinishRun, RunInv, LockInv, Holding, Running, loopVars, sink
  <2>2. CallInv' /\ call'[c] = At("release") /\ \A d \in Callers : d # c => call'[d] = call[d]
      BY <2>1, ToOne DEF RunInv
  <2>3. LockInv'
      BY <2>1, InsideLock DEF Queued, Running
  <2>4. \A d \in Callers : d # c => call[d].stage \notin Holding
      BY <2>1 DEF RunInv, LockInv
  <2>5. ActiveInv' /\ CleanInv'
      BY <2>1, <2>2, <2>4 DEF RunInv, ActiveInv, CleanInv, Clean, Running, Holding
  <2> QED BY <2>2, <2>3, <2>5 DEF RunInv
<1> QED BY <1>1, <1>2

\* A dropped call leaves the queue; a dropped run stops and stays active.
LEMMA DropSafe ==
    ASSUME RunInv, NEW c \in Callers, Drop(c)
    PROVE  RunInv'
<1>1. /\ IsCall(NoCall) /\ To(c, NoCall) /\ NoCall.stage = "out"
      /\ call[c].stage \in {"lock", "waiting", "running"}
      /\ UNCHANGED <<active, isStreaming, streaming, pendingCalls>>
      /\ IF call[c].stage = "running" THEN pc' = "idle" ELSE pc' = pc
    BY AtIsCall DEF Drop, NoProgress
<1>2. PICK k \in DOMAIN runLock :
        /\ runLock[k] = c
        /\ runLock' \in Seq(Callers) /\ Distinct(runLock')
        /\ Members(runLock') = Members(runLock) \ {runLock[k]}
        /\ k # 1 => Head(runLock') = Head(runLock)
    BY RemoveQueue DEF Drop, RunInv, LockInv
<1>3. CallInv' /\ call'[c] = NoCall /\ \A d \in Callers : d # c => call'[d] = call[d]
    BY <1>1, ToOne DEF RunInv
<1>4. /\ runLock' \in Seq(Callers) /\ Distinct(runLock')
      /\ Members(runLock') = Members(runLock) \ {c}
      /\ k # 1 => Head(runLock') = Head(runLock)
    BY <1>2
<1>5. ASSUME NEW d \in Callers, call'[d].stage \in Holding
      PROVE  Head(runLock') = d
  <2>1. d # c /\ call[d].stage \in Holding
      BY <1>1, <1>3, <1>5 DEF Holding, Running
  <2>2. Head(runLock) = d
      BY <2>1 DEF RunInv, LockInv
  <2>3. k # 1
      BY <1>2, <2>1, <2>2 DEF RunInv, LockInv
  <2> QED BY <1>4, <2>2, <2>3
<1>6. \A d \in Callers : call'[d].stage \in Queued <=> d \in Members(runLock')
    BY <1>1, <1>3, <1>4 DEF RunInv, LockInv, Queued, Running
<1>7. LockInv'
    BY <1>4, <1>5, <1>6 DEF LockInv
<1>8. ActiveInv' /\ CleanInv'
    BY <1>1, <1>3 DEF RunInv, ActiveInv, CleanInv, Clean, Running
<1> QED BY <1>3, <1>7, <1>8 DEF RunInv

\* The run of the one that is active moves, or the world around it.
LEMMA ElsewhereSafe ==
    ASSUME RunInv, RunStep \/ Abort \/ QueueMessage \/ UNCHANGED vars
    PROVE  RunInv'
<1>1. UNCHANGED agentVars
    BY DEF RunStep, FailureStart, FailureEnd, Abort, QueueMessage, vars
<1>2. CallInv' /\ LockInv'
    BY <1>1 DEF RunInv, CallInv, LockInv, agentVars
<1>3. CASE pc # "idle"
  <2>1. PICK c \in Callers : call[c].stage = "running"
      BY <1>3 DEF RunInv, ActiveInv
  <2>2. active = c
      BY <2>1 DEF RunInv, ActiveInv, Running
  <2>3. \A d \in Callers : call[d].stage # "finished"
      BY <2>1 DEF RunInv, LockInv, Holding, Running
  <2>4. ActiveInv' /\ CleanInv'
      BY <1>1, <2>1, <2>2, <2>3, AgentAssumption DEF RunInv, ActiveInv, CleanInv, agentVars
  <2> QED BY <1>2, <2>4 DEF RunInv
<1>4. CASE pc = "idle"
  <2>1. ~RunStep
      BY <1>4, LoopRuns DEF RunStep, FailureStart, FailureEnd
  <2>2. UNCHANGED <<pc, streaming, pendingCalls>>
      BY <2>1 DEF Abort, Cancel, QueueMessage, Steer, FollowUp, vars, loopVars, sink
  <2>3. ActiveInv' /\ CleanInv'
      BY <1>1, <2>2 DEF RunInv, ActiveInv, CleanInv, Clean, agentVars
  <2> QED BY <1>2, <2>3 DEF RunInv
<1> QED BY <1>3, <1>4

\* Every step of the agent keeps RunInv, so it holds throughout.
LEMMA NextRun == RunInv /\ [Next]_vars => RunInv'
<1> SUFFICES ASSUME RunInv, [Next]_vars PROVE RunInv'
    OBVIOUS
<1>1. ASSUME NEW c \in Callers,
             Prompt(c) \/ Continue(c) \/ WaitForIdle(c) \/ Reset(c) \/ CallerStep(c) \/ Drop(c)
      PROVE  RunInv'
    BY <1>1, OutsideSafe, AskSafe, LeaveSafe, StartSafe, FinishSafe, DropSafe DEF CallerStep
<1>2. CASE RunStep \/ Abort \/ QueueMessage \/ UNCHANGED vars
    BY <1>2, ElsewhereSafe
<1> QED BY <1>1, <1>2 DEF Next

LEMMA AlwaysRun == Spec => []RunInv
<1>1. Spec => Init /\ [][Next]_vars
    BY DEF Spec
<1> QED BY <1>1, InitRun, NextRun, PTL

\* Two runs never overlap and a run is always the active one, so that no event
\* is handled outside an active run (agent.rs:698 would panic), for any number
\* of tasks and calls, whatever is dropped, aborted or reset.
THEOREM RunsNeverOverlap == Spec => []RunsAlone
<1>1. RunInv => RunsAlone
    BY DEF RunInv, LockInv, ActiveInv, RunsAlone, Holding
<1> QED BY <1>1, AlwaysRun, PTL

\* An agent with no active run is not streaming and has no partial message and
\* no pending tool call left.
THEOREM IdleAgentIsClean == Spec => []IdleIsClean
<1>1. RunInv => IdleIsClean
    BY DEF RunInv, CleanInv, Clean, IdleIsClean
<1> QED BY <1>1, AlwaysRun, PTL

-----------------------------------------------------------------------------
\* What a prompt, steer and follow_up make.
UserMessages == [role : {"user"}, from : {"prompt", "steer", "followUp"}, n : Nat]

\* Everything the messages of an agent pass through is a list of messages.
LoopLists ==
    /\ context \in Seq(Messages) /\ produced \in Seq(Messages) /\ pending \in Seq(Messages)
    /\ transcript \in Seq(Messages) /\ steering \in Seq(Messages) /\ followUps \in Seq(Messages)
    /\ asked \in [steer : Nat, followUp : Nat]

ListTypes ==
    /\ LoopLists
    /\ made \in Nat
    /\ \A c \in Callers : call[c].messages \in Seq(Messages)

\* What the next step of a run takes for granted.
RunShape ==
    /\ pc \in {"prompt", "injection"} => pending # <<>>
    /\ pc \in {"streaming", "whole", "turn_end", "after_turn", "follow_up", "prepare"} \cup Answering =>
          context # <<>>
    /\ pc = "whole" => IsAssistant(context[Len(context)])
    /\ pc \in Answering \cup {"failure"} => produced # <<>> /\ IsAssistant(Response)
    /\ batch = [mode |-> batch.mode, width |-> batch.width, stage |-> batch.stage, ends |-> batch.ends]
    /\ batch.width \in Nat

\* A response has a turn and a number of calls.
LEMMA AssistantTyped ==
    ASSUME NEW m \in Messages, IsAssistant(m)
    PROVE  m.turn \in Nat /\ m.calls \in Nat
BY DEF Messages, IsAssistant

\* The last of a list that is not empty.
LEMMA LastTyped ==
    ASSUME NEW S, NEW s \in Seq(S), s # <<>>
    PROVE  s[Len(s)] \in S /\ Last(s) = s[Len(s)]
BY DEF Last

\* The number of responses is a number.
LEMMA TurnNat == transcript \in Seq(Messages) => Turn \in Nat
<1> SUFFICES ASSUME transcript \in Seq(Messages) PROVE Turn \in Nat
    OBVIOUS
<1> DEFINE S == {k \in DOMAIN transcript : IsAssistant(transcript[k])}
<1>1. S \subseteq 1 .. Len(transcript) /\ IsFiniteSet(1 .. Len(transcript))
    BY FS_Interval
<1>2. IsFiniteSet(S)
    BY <1>1, FS_Subset
<1> QED BY <1>2, FS_CardinalityType DEF Turn

\* A response is none of the messages a user sent.
LEMMA ResponseShape ==
    ASSUME NEW m \in Responses, transcript \in Seq(Messages)
    PROVE  m \in Messages /\ IsAssistant(m)
<1>1. Turn \in Nat
    BY TurnNat
<1> QED BY <1>1, ResponsesTyped DEF IsResponse, IsAssistant

\* A message is the last of the list it is added to.
LEMMA MessageLast ==
    ASSUME NEW m \in Messages, NEW s \in Seq(Messages)
    PROVE  Append(s, m) \in Seq(Messages) /\ Append(s, m) # <<>> /\ Append(s, m)[Len(Append(s, m))] = m
OBVIOUS

\* The loop keeps its lists and what it takes for granted of them.
LEMMA LoopKeepsLists ==
    ASSUME LoopLists, RunShape, LoopStep
    PROVE  LoopLists' /\ RunShape'
<1> USE DEF LoopLists, RunShape, Answering
<1>2. CASE AgentStart
    BY <1>2 DEF AgentStart, Bracket, progress, queues, Response
<1>3. CASE FirstTurn
    BY <1>3 DEF FirstTurn, Bracket, progress, queues, Response
<1>4. CASE AnnounceStart
    BY <1>4 DEF AnnounceStart, MessageStart, progress, queues, Response
<1>5. CASE AnnounceEnd
  <2>1. Head(pending) \in Messages /\ Tail(pending) \in Seq(Messages)
      BY <1>5, HeadAndTail DEF AnnounceEnd
  <2>2. transcript' \in Seq(Messages) /\ pending' \in Seq(Messages) /\ pc' \in {"prompts", "inject"}
      BY <1>5, <2>1 DEF AnnounceEnd, MessageEnd
  <2>3. context' \in Seq(Messages) /\ produced' \in Seq(Messages)
    <3>1. CASE pc = "prompt"
        BY <1>5, <3>1 DEF AnnounceEnd
    <3>2. CASE pc # "prompt"
      <4>1. context' = Append(context, Head(pending)) /\ produced' = Append(produced, Head(pending))
          BY <1>5, <3>2 DEF AnnounceEnd
      <4> QED BY <4>1, <2>1
    <3> QED BY <3>1, <3>2
  <2> QED BY <1>5, <2>2, <2>3 DEF AnnounceEnd, queues
<1>6. CASE FirstPoll
  <2>1. Drained(steering) \in Seq(Messages) /\ Remaining(steering) \in Seq(Messages)
      BY DrainTyped
  <2>2. pending' \in Seq(Messages) /\ steering' \in Seq(Messages) /\ pc' \in {"failed", "inject"}
      BY <1>6, <2>1 DEF FirstPoll, queues
  <2> QED BY <1>6, <2>2 DEF FirstPoll, queues, sink, Silent
<1>7. CASE PrepareNextTurn
  <2>1. Drained(steering) \in Seq(Messages) /\ Remaining(steering) \in Seq(Messages)
      BY DrainTyped
  <2>2. pending' \in Seq(Messages) /\ steering' \in Seq(Messages) /\ pc' = "next_turn"
      BY <1>7, <2>1 DEF PrepareNextTurn
  <2>3. context[Len(context)] \in Messages
      BY <1>7, HeadAndTail DEF PrepareNextTurn
  <2>4. context' \in Seq(Messages)
    <3>1. context' = context \/ context' = <<context[Len(context)]>>
        BY <1>7 DEF PrepareNextTurn
    <3>2. <<context[Len(context)]>> \in Seq(Messages)
        BY <2>3
    <3> QED BY <3>1, <3>2
  <2> QED BY <1>7, <2>2, <2>4 DEF PrepareNextTurn, sink, Silent
<1>8. CASE NextTurn
    BY <1>8 DEF NextTurn, Bracket, progress, queues
<1>9. CASE Request
    BY <1>9 DEF Request, progress, queues, sink, Silent
<1>10. CASE StreamStart
  <2>1. Assistant(Turn + 1, "partial", 0) \in Messages
    <3>1. Turn + 1 \in Nat
        BY TurnNat
    <3> QED BY <3>1, MessagesTyped
  <2>2. context' \in Seq(Messages) /\ context' # <<>>
    <3>1. context' = Append(context, Assistant(Turn + 1, "partial", 0)) /\ context \in Seq(Messages)
        BY <1>10 DEF StreamStart
    <3> QED BY ONLY <2>1, <3>1, AppendLast, AppendProperties
  <2> QED BY <1>10, <2>2 DEF StreamStart, MessageStart, queues
<1>11. CASE StreamEnd
  <2>1. PICK m \in Responses : context' = [context EXCEPT ![Len(context)] = m] /\ Received(m)
      BY <1>11 DEF StreamEnd
  <2>2. m \in Messages /\ IsAssistant(m)
      BY ResponseShape
  <2>3. context # <<>>
      BY <1>11 DEF StreamEnd
  <2>4. context' \in Seq(Messages) /\ context' # <<>>
      BY <2>1, <2>2, <2>3, HeadAndTail, ExceptSeq
  <2>5. /\ produced' \in Seq(Messages) /\ transcript' \in Seq(Messages)
        /\ produced' # <<>> /\ produced'[Len(produced')] = m
    <3>1. produced' = Append(produced, m) /\ transcript' = Append(transcript, m)
        BY <2>1 DEF Received, MessageEnd
    <3>2. \A s \in Seq(Messages) :
            Append(s, m) \in Seq(Messages) /\ Append(s, m) # <<>> /\ Append(s, m)[Len(Append(s, m))] = m
        BY <2>2, MessageLast
    <3> QED BY <3>1, <3>2
  <2>6. pc' \in {"abandon", "turn_end", "batch"}
      BY <2>1 DEF Received, Dispatch
  <2> QED BY <1>11, <2>2, <2>4, <2>5, <2>6 DEF StreamEnd, queues, Response
<1>12. CASE StreamWhole
  <2>1. PICK m \in Responses : context' = Append(context, m)
      BY <1>12 DEF StreamWhole
  <2>2. context' \in Seq(Messages) /\ context' # <<>> /\ IsAssistant(context'[Len(context')])
      BY <2>1, ResponseShape, AppendLast
  <2> QED BY <1>12, <2>2 DEF StreamWhole, MessageStart, queues
<1>13. CASE StreamWholeEnd
  <2> DEFINE m == context[Len(context)]
  <2>1. m \in Messages /\ IsAssistant(m) /\ Received(m) /\ UNCHANGED context
      BY <1>13, HeadAndTail DEF StreamWholeEnd
  <2>2. /\ produced' \in Seq(Messages) /\ transcript' \in Seq(Messages)
        /\ produced' # <<>> /\ produced'[Len(produced')] = m
    <3>1. produced' = Append(produced, m) /\ transcript' = Append(transcript, m)
        BY <2>1 DEF Received, MessageEnd
    <3>2. \A s \in Seq(Messages) :
            Append(s, m) \in Seq(Messages) /\ Append(s, m) # <<>> /\ Append(s, m)[Len(Append(s, m))] = m
        BY <2>1, MessageLast
    <3> QED BY <3>1, <3>2
  <2>3. pc' \in {"abandon", "turn_end", "batch"}
      BY <2>1 DEF Received, Dispatch
  <2> QED BY <1>13, <2>1, <2>2, <2>3 DEF StreamWholeEnd, queues, Response
<1>14. CASE StartBatch
  <2>1. Response.calls \in Nat
      BY <1>14, AssistantTyped, HeadAndTail DEF StartBatch, Response
  <2>2. /\ batch' = [mode |-> batch'.mode, width |-> batch'.width, stage |-> batch'.stage, ends |-> batch'.ends]
        /\ batch'.width = Response.calls
      BY <1>14 DEF StartBatch
  <2>3. UNCHANGED <<context, produced, pending, transcript, steering, followUps, asked>> /\ pc' = "tools"
      BY <1>14 DEF StartBatch, queues, Silent, sink
  <2> QED BY <1>14, <2>1, <2>2, <2>3 DEF StartBatch, Response
<1>15. ASSUME NEW i \in Calls, CallStep(i)
      PROVE  LoopLists' /\ RunShape'
  <2>0. i \in Nat
      BY DEF Calls
  <2>1. InBatch
      BY <1>15 DEF CallStep, CallStart, CallRefuse, CallPrepare, CallExecute, CallEnd, ResultStart,
                   ResultEnd, CallBreak
  <2>2. /\ batch' = [mode |-> batch'.mode, width |-> batch'.width, stage |-> batch'.stage, ends |-> batch'.ends]
        /\ batch'.width \in {i, batch.width}
    <3>1. CASE CallStart(i) \/ CallPrepare(i) \/ ResultStart(i)
        BY <3>1 DEF CallStart, CallPrepare, ResultStart
    <3>2. CASE CallRefuse(i) \/ CallExecute(i)
        BY <3>2 DEF CallRefuse, CallExecute
    <3>3. CASE CallEnd(i) \/ ResultEnd(i) \/ CallBreak(i)
        BY <3>3 DEF CallEnd, ResultEnd, CallBreak, Cut
    <3> QED BY <1>15, <3>1, <3>2, <3>3 DEF CallStep
  <2>3. transcript' \in Seq(Messages)
    <3>1. CASE ResultEnd(i)
      <4>1. Response \in Messages
          BY <2>1, HeadAndTail DEF InBatch, Response
      <4>2. Response.turn \in Nat
          BY <2>1, <4>1, AssistantTyped DEF InBatch
      <4>3. Result(Response.turn, i) \in Messages
          BY <2>0, <4>2, MessagesTyped
      <4> QED BY <3>1, <4>3 DEF ResultEnd, MessageEnd
    <3>2. CASE ~ResultEnd(i)
      <4>1. transcript' = transcript
          BY <1>15, <3>2
             DEF CallStep, CallStart, CallRefuse, CallPrepare, CallExecute, CallEnd, ResultStart, CallBreak,
                 ExecutionStart, ExecutionEnd, MessageStart, Silent, sink
      <4> QED BY <4>1
    <3> QED BY <3>1, <3>2
  <2> QED BY <2>0, <2>1, <2>2, <2>3 DEF InBatch, queues, Response
<1>16. CASE BatchEnd
  <2> DEFINE results == [i \in Calls |-> Result(Response.turn, i)]
  <2>1. Response \in Messages /\ IsAssistant(Response)
      BY <1>16, HeadAndTail DEF BatchEnd, Response
  <2>2. \A i \in Calls : Result(Response.turn, i) \in Messages
      BY <2>1, AssistantTyped, MessagesTyped DEF Calls
  <2>3. results \in [1 .. batch.width -> Messages] /\ batch.width \in Nat
      BY <2>2 DEF Calls
  <2>5. context' = context \o results /\ produced' = produced \o results /\ context # <<>>
      BY <1>16 DEF BatchEnd
  <2> HIDE DEF results
  <2>4. results \in Seq(Messages)
    <3>1. \A w \in Nat : \A f \in [1 .. w -> Messages] : f \in Seq(Messages)
        BY SeqDef
    <3> QED BY <2>3, <3>1
  <2>6. context' \in Seq(Messages) /\ produced' \in Seq(Messages) /\ context' # <<>>
      BY <2>4, <2>5
  <2> QED BY <1>16, <2>6 DEF BatchEnd, queues, sink, Silent, NoBatch
<1>17. CASE TurnEnd
    BY <1>17 DEF TurnEnd, Bracket, progress, queues
<1>18. CASE AfterTurn
    BY <1>18, DrainTyped DEF AfterTurn, queues, sink, Silent
<1>19. CASE FollowUps
    BY <1>19, DrainTyped DEF FollowUps, queues, sink, Silent
<1>20. CASE AgentEnd
    BY <1>20 DEF AgentEnd, progress, queues
<1> QED BY <1>2, <1>3, <1>4, <1>5, <1>6, <1>7, <1>8, <1>9, <1>10, <1>11, <1>12, <1>13, <1>14, <1>15,
           <1>16, <1>17, <1>18, <1>19, <1>20 DEF LoopStep

\* The loop's variables at rest, and what a call starts with.
LEMMA ListsAtRest ==
    ASSUME LoopLists, RunShape, UNCHANGED <<pc, progress, transcript, steering, followUps, asked>>
    PROVE  LoopLists' /\ RunShape'
BY DEF LoopLists, RunShape, progress, Response, Answering

LEMMA CallLists ==
    ASSUME CallInv, ListTypes, NEW c \in Callers, NEW r, IsCall(r), To(c, r), r.messages \in Seq(Messages)
    PROVE  \A d \in Callers : call'[d].messages \in Seq(Messages)
BY ToOne DEF ListTypes

LEMMA NoMessages ==
    /\ IsCall(NoCall) /\ NoCall.messages = <<>> /\ NoCall.messages \in Seq(Messages)
    /\ \A s : IsCall(At(s)) /\ At(s).messages = <<>> /\ At(s).messages \in Seq(Messages)
BY DEF IsCall, NoCall, At

\* What a step of a call does to its record, and to the lists of the others.
LEMMA CallStarts ==
    ASSUME ListTypes, NEW c \in Callers,
           \/ Prompt(c) \/ Continue(c) \/ WaitForIdle(c) \/ Reset(c) \/ LookAtLast(c) \/ DrainSteering(c)
           \/ DrainFollowUps(c) \/ WaitGranted(c) \/ Enter(c) \/ Activate(c) \/ MarkStreaming(c)
           \/ BeginRun(c) \/ FinishState(c) \/ FinishRun(c) \/ Release(c)
           \/ ResetState(c) \/ ClearFollowUps(c) \/ ClearSteering(c) \/ Drop(c)
    PROVE  /\ \E r : IsCall(r) /\ To(c, r) /\ r.messages \in Seq(Messages)
           /\ made' \in Nat
<1>1. CASE Prompt(c)
  <2>1. User("prompt", made + 1) \in Messages /\ made + 1 \in Nat
      BY MessagesTyped DEF ListTypes
  <2>2. <<User("prompt", made + 1)>> \in Seq(Messages)
      BY <2>1
  <2> DEFINE r == [stage |-> "enter", messages |-> <<User("prompt", made + 1)>>, skip |-> FALSE]
  <2>3. IsCall(r) /\ To(c, r) /\ r.messages \in Seq(Messages)
      BY <1>1, <2>2 DEF Prompt, IsCall
  <2> QED BY <1>1, <2>1, <2>3 DEF Prompt, Made
<1>2. CASE Continue(c) \/ WaitForIdle(c) \/ Reset(c)
    BY <1>2, NoMessages DEF Continue, WaitForIdle, Reset, Made, ListTypes
<1>3. CASE LookAtLast(c) \/ WaitGranted(c)
    BY <1>3, NoMessages DEF LookAtLast, WaitGranted, ListTypes
<1>4. CASE DrainSteering(c)
  <2>1. Drained(steering) \in Seq(Messages)
      BY DrainTyped DEF ListTypes, LoopLists
  <2> DEFINE r == [stage |-> "enter", messages |-> Drained(steering), skip |-> TRUE]
  <2>2. IsCall(r) /\ r.messages \in Seq(Messages)
      BY <2>1 DEF IsCall
  <2> QED BY <1>4, <2>2, NoMessages DEF DrainSteering, ListTypes
<1>5. CASE DrainFollowUps(c)
  <2>1. Drained(followUps) \in Seq(Messages)
      BY DrainTyped DEF ListTypes, LoopLists
  <2> DEFINE r == [stage |-> "enter", messages |-> Drained(followUps), skip |-> FALSE]
  <2>2. IsCall(r) /\ r.messages \in Seq(Messages)
      BY <2>1 DEF IsCall
  <2> QED BY <1>5, <2>2, NoMessages DEF DrainFollowUps, ListTypes
<1>6. \A s : IsCall(Onward(c, s)) /\ Onward(c, s).messages \in Seq(Messages)
    BY DEF Onward, IsCall, ListTypes
<1>7. CASE Enter(c) \/ Activate(c) \/ MarkStreaming(c)
    BY <1>6, <1>7, NoMessages DEF Enter, Activate, MarkStreaming, ListTypes
<1>8. CASE BeginRun(c) \/ FinishState(c) \/ FinishRun(c) \/ Release(c)
    BY <1>8, NoMessages DEF BeginRun, FinishState, FinishRun, Release, ListTypes
<1>9. CASE ResetState(c) \/ ClearFollowUps(c) \/ ClearSteering(c) \/ Drop(c)
    BY <1>9, NoMessages DEF ResetState, ClearFollowUps, ClearSteering, Drop, ListTypes
<1> QED BY <1>1, <1>2, <1>3, <1>4, <1>5, <1>7, <1>8, <1>9

\* A run that is over leaves nothing of its lists.
LEMMA NoProgressLists ==
    ASSUME LoopLists, NoProgress, UNCHANGED <<transcript, steering, followUps, asked>>
    PROVE  LoopLists' /\ RunShape'
BY DEF LoopLists, RunShape, NoProgress, Answering, NoBatch

\* Every step keeps the lists.
LEMMA ListsNext ==
    ASSUME RunInv, ListTypes, RunShape, [Next]_vars
    PROVE  ListTypes' /\ RunShape'
<1>0. LoopLists /\ CallInv
    BY DEF ListTypes, RunInv
<1>1. ASSUME NEW c \in Callers,
             \/ Prompt(c) \/ Continue(c) \/ WaitForIdle(c) \/ Reset(c) \/ CallerStep(c) \/ Drop(c)
      PROVE  ListTypes' /\ RunShape'
  <2>1. made' \in Nat /\ \A d \in Callers : call'[d].messages \in Seq(Messages)
      BY <1>0, <1>1, CallStarts, CallLists DEF CallerStep
  <2>2. LoopLists' /\ RunShape'
    <3>1. CASE \/ Prompt(c) \/ Continue(c) \/ WaitForIdle(c) \/ Reset(c) \/ LookAtLast(c) \/ WaitGranted(c)
               \/ Enter(c) \/ Activate(c) \/ MarkStreaming(c) \/ FinishRun(c) \/ Release(c)
      <4>1. UNCHANGED <<pc, progress, transcript, steering, followUps, asked>>
          BY <3>1 DEF Prompt, Continue, WaitForIdle, Reset, LookAtLast, WaitGranted, Enter, Activate,
                      MarkStreaming, FinishRun, Release, loopVars, queues, sink
      <4> QED BY <1>0, <4>1, ListsAtRest
    <3>2. CASE DrainSteering(c) \/ DrainFollowUps(c)
      <4>1. steering' \in Seq(Messages) /\ followUps' \in Seq(Messages)
          BY <1>0, <3>2, DrainTyped DEF DrainSteering, DrainFollowUps, LoopLists
      <4>2. UNCHANGED <<pc, context, produced, pending, batch, transcript, asked>>
          BY <3>2 DEF DrainSteering, DrainFollowUps, progress, sink
      <4> QED BY <1>0, <4>1, <4>2 DEF LoopLists, RunShape, Response, Answering
    <3>3. CASE BeginRun(c)
      <4>1. call[c].messages \in Seq(Messages) /\ transcript \in Seq(Messages)
          BY DEF ListTypes, LoopLists
      <4>2. transcript \o call[c].messages \in Seq(Messages)
          BY <4>1
      <4>3. /\ context' \in Seq(Messages) /\ produced' \in Seq(Messages) /\ pending' \in Seq(Messages)
            /\ pc' \in {"failed", "agent_start"} /\ batch' = NoBatch
            /\ UNCHANGED <<transcript, steering, followUps, asked>>
          BY <3>3, <4>1, <4>2 DEF BeginRun, Begin, Silent, sink, queues
      <4> QED BY <1>0, <4>3 DEF LoopLists, RunShape, Answering, NoBatch
    <3>4. CASE FinishState(c)
        BY <1>0, <3>4, NoProgressLists DEF FinishState, queues
    <3>5. CASE ResetState(c) \/ ClearFollowUps(c) \/ ClearSteering(c)
      <4>1. /\ transcript' \in Seq(Messages) /\ steering' \in Seq(Messages) /\ followUps' \in Seq(Messages)
            /\ UNCHANGED <<pc, context, produced, pending, batch, asked>>
        <5>1. CASE ResetState(c)
            BY <1>0, <5>1 DEF ResetState, progress, queues, LoopLists
        <5>2. CASE ClearFollowUps(c)
            BY <1>0, <5>2 DEF ClearFollowUps, progress, sink, LoopLists
        <5>3. CASE ClearSteering(c)
            BY <1>0, <5>3 DEF ClearSteering, progress, sink, LoopLists
        <5> QED BY <3>5, <5>1, <5>2, <5>3
      <4> QED BY <1>0, <4>1 DEF LoopLists, RunShape, Response, Answering
    <3>6. CASE Drop(c)
      <4>1. CASE call[c].stage = "running"
          BY <1>0, <3>6, <4>1, NoProgressLists DEF Drop, queues
      <4>2. CASE call[c].stage # "running"
          BY <1>0, <3>6, <4>2, ListsAtRest DEF Drop, queues
      <4> QED BY <4>1, <4>2
    <3> QED BY <1>1, <3>1, <3>2, <3>3, <3>4, <3>5, <3>6 DEF CallerStep
  <2> QED BY <2>1, <2>2 DEF ListTypes
<1>2. CASE (LoopStep /\ UNCHANGED agentVars) \/ UNCHANGED vars
  <2>1. LoopLists' /\ RunShape'
    <3>1. CASE LoopStep
        BY <1>0, <3>1, LoopKeepsLists
    <3>2. CASE UNCHANGED vars
        BY <1>0, <3>2, ListsAtRest DEF vars, loopVars, queues, sink
    <3> QED BY <1>2, <3>1, <3>2
  <2> QED BY <1>2, <2>1 DEF ListTypes, agentVars, vars
<1>3. CASE FailureStart
  <2>1. Failure \in Messages /\ IsAssistant(Failure)
    <3>1. Turn + 1 \in Nat
        BY <1>0, TurnNat DEF LoopLists
    <3> QED BY <3>1, MessagesTyped DEF Failure, Assistant, IsAssistant
  <2>2. /\ produced' = <<Failure>> /\ pc' = "failure"
        /\ UNCHANGED <<context, pending, batch, transcript, steering, followUps, asked, call, made>>
      BY <1>3 DEF FailureStart, MessageStart, queues, agentVars
  <2>3. produced' \in Seq(Messages) /\ produced' # <<>> /\ IsAssistant(Response')
      BY <2>1, <2>2 DEF Response
  <2> QED BY <1>0, <2>2, <2>3 DEF ListTypes, LoopLists, RunShape, Answering
<1>4. CASE FailureEnd
  <2>1. Last(produced) \in Messages
      BY <1>0, <1>4, LastTyped DEF FailureEnd, RunShape, LoopLists
  <2>2. /\ pc' = "abandon" /\ transcript' \in Seq(Messages)
        /\ UNCHANGED <<context, produced, pending, batch, steering, followUps, asked, call, made>>
      BY <1>0, <1>4, <2>1, MessageLast DEF FailureEnd, MessageEnd, LoopLists, progress, queues, agentVars
  <2> QED BY <1>0, <2>2 DEF ListTypes, LoopLists, RunShape, Answering
<1>5. CASE Abort
  <2>1. UNCHANGED <<pc, progress, transcript, steering, followUps, asked, call, made>>
      BY <1>5 DEF Abort, Cancel, queues, sink, agentVars
  <2> QED BY <1>0, <2>1, ListsAtRest DEF ListTypes
<1>6. CASE QueueMessage
  <2>1. asked.steer + 1 \in Nat /\ asked.followUp + 1 \in Nat
      BY <1>0 DEF LoopLists
  <2>2. User("steer", asked.steer + 1) \in Messages /\ User("followUp", asked.followUp + 1) \in Messages
      BY <2>1, MessagesTyped
  <2>3. steering' \in Seq(Messages) /\ followUps' \in Seq(Messages) /\ asked' \in [steer : Nat, followUp : Nat]
    <3>1. CASE Steer
      <4>1. asked' \in [steer : Nat, followUp : Nat]
          BY <1>0, <2>1, <3>1 DEF Steer, LoopLists
      <4>2. steering' \in Seq(Messages)
          BY <1>0, <2>2, <3>1, MessageLast DEF Steer, LoopLists
      <4> QED BY <1>0, <3>1, <4>1, <4>2 DEF Steer, LoopLists
    <3>2. CASE FollowUp
      <4>1. asked' \in [steer : Nat, followUp : Nat]
          BY <1>0, <2>1, <3>2 DEF FollowUp, LoopLists
      <4>2. followUps' \in Seq(Messages)
          BY <1>0, <2>2, <3>2, MessageLast DEF FollowUp, LoopLists
      <4> QED BY <1>0, <3>2, <4>1, <4>2 DEF FollowUp, LoopLists
    <3> QED BY <1>6, <3>1, <3>2 DEF QueueMessage
  <2>4. UNCHANGED <<pc, context, produced, pending, batch, transcript, call, made>>
      BY <1>6 DEF QueueMessage, Steer, FollowUp, progress, sink, agentVars
  <2> QED BY <1>0, <2>3, <2>4 DEF ListTypes, LoopLists, RunShape, Response, Answering
<1> QED BY <1>1, <1>2, <1>3, <1>4, <1>5, <1>6 DEF Next, RunStep

-----------------------------------------------------------------------------
\* Where a message is: in a list, and not twice in it.
Within(m, s) == \E i \in DOMAIN s : s[i] = m
Single(m, s) == \A i, j \in DOMAIN s : s[i] = m /\ s[j] = m => i = j

\* A message that has been sent is in one of four lists, or with one of the calls k, or
\* no longer anywhere; one that has not been is nowhere.
Once(m, sent, t, p, s, f, k) ==
    /\ Single(m, t) /\ Single(m, p) /\ Single(m, s) /\ Single(m, f)
    /\ Within(m, t) => ~Within(m, p) /\ ~Within(m, s) /\ ~Within(m, f)
    /\ Within(m, p) => ~Within(m, s) /\ ~Within(m, f)
    /\ Within(m, s) => ~Within(m, f)
    /\ \A c \in Callers :
          /\ Single(m, k[c].messages)
          /\ Within(m, k[c].messages) =>
                /\ ~Within(m, t) /\ ~Within(m, p) /\ ~Within(m, s) /\ ~Within(m, f)
                /\ \A d \in Callers : Within(m, k[d].messages) => d = c
    /\ Within(m, t) \/ Within(m, p) \/ Within(m, s) \/ Within(m, f)
          \/ (\E c \in Callers : Within(m, k[c].messages)) => sent

Sent(m) ==
    \/ m.from = "prompt" /\ m.n <= made
    \/ m.from = "steer" /\ m.n <= asked.steer
    \/ m.from = "followUp" /\ m.n <= asked.followUp

OnceOf(m) == Once(m, Sent(m), transcript, pending, steering, followUps, call)

OnceInv == \A m \in UserMessages : OnceOf(m)

\* The empty list, and the list of one message.
LEMMA FewWithin ==
    ASSUME NEW m
    PROVE  /\ ~Within(m, <<>>) /\ Single(m, <<>>)
           /\ \A x : (Within(m, <<x>>) <=> x = m) /\ Single(m, <<x>>)
BY DEF Within, Single

\* Adding a message at the end.
LEMMA AppendWithin ==
    ASSUME NEW m, NEW s \in Seq(Messages), NEW x \in Messages, Single(m, s), x = m => ~Within(m, s)
    PROVE  /\ Within(m, Append(s, x)) => Within(m, s) \/ x = m
           /\ Single(m, Append(s, x))
<1>1. /\ Len(s) \in Nat /\ DOMAIN s = 1 .. Len(s) /\ DOMAIN Append(s, x) = 1 .. Len(s) + 1
      /\ Append(s, x)[Len(s) + 1] = x /\ \A i \in 1 .. Len(s) : Append(s, x)[i] = s[i]
    OBVIOUS
<1> DEFINE a == Append(s, x)
           l == Len(s)
<1>2. /\ l \in Nat /\ DOMAIN s = 1 .. l /\ DOMAIN a = 1 .. l + 1
      /\ a[l + 1] = x /\ \A i \in 1 .. l : a[i] = s[i]
    BY <1>1
<1> HIDE DEF a, l
<1> QED BY <1>2 DEF Within, Single, a

\* Taking the first message.
LEMMA TailWithin ==
    ASSUME NEW m, NEW s \in Seq(Messages), s # <<>>, Single(m, s)
    PROVE  /\ Within(m, Tail(s)) => Within(m, s)
           /\ Head(s) = m => Within(m, s) /\ ~Within(m, Tail(s))
           /\ Single(m, Tail(s))
<1> DEFINE r == Tail(s)
           l == Len(s)
<1>1. /\ l \in Nat \ {0} /\ DOMAIN s = 1 .. l /\ DOMAIN r = 1 .. l - 1
      /\ Head(s) = s[1] /\ \A i \in 1 .. l - 1 : r[i] = s[i + 1]
    OBVIOUS
<1> HIDE DEF r, l
<1> QED BY <1>1 DEF Within, Single, r

\* A drain takes some and leaves the others.
LEMMA DrainWithin ==
    ASSUME NEW m, NEW q \in Seq(Messages), Single(m, q)
    PROVE  /\ Within(m, Drained(q)) => Within(m, q) /\ ~Within(m, Remaining(q))
           /\ Within(m, Remaining(q)) => Within(m, q)
           /\ Single(m, Drained(q)) /\ Single(m, Remaining(q))
<1> DEFINE d == Drained(q)
           r == Remaining(q)
<1>1. /\ d \in Seq(Messages) /\ r \in Seq(Messages)
      /\ Len(d) + Len(r) = Len(q)
      /\ \A i \in 1 .. Len(d) : d[i] = q[i]
      /\ \A i \in 1 .. Len(r) : r[i] = q[Len(d) + i]
    BY DrainTyped
<1> HIDE DEF d, r
<1> DEFINE a == Len(d)
           b == Len(r)
<1>2. /\ a \in Nat /\ b \in Nat /\ DOMAIN d = 1 .. a /\ DOMAIN r = 1 .. b /\ DOMAIN q = 1 .. a + b
      /\ \A i \in 1 .. a : d[i] = q[i]
      /\ \A i \in 1 .. b : r[i] = q[a + i]
    BY <1>1
<1> HIDE DEF a, b
<1>3. \A i \in 1 .. a : i \in 1 .. a + b
    BY <1>2
<1>4. \A i \in 1 .. b : a + i \in 1 .. a + b
    BY <1>2
<1>5. \A i \in 1 .. a : \A j \in 1 .. b : a + j # i
    BY <1>2
<1>6. \A i, j \in 1 .. b : a + i = a + j => i = j
    BY <1>2
<1>7. (Within(m, d) => Within(m, q) /\ ~Within(m, r)) /\ Single(m, d)
    BY <1>2, <1>3, <1>4, <1>5 DEF Within, Single
<1>8. (Within(m, r) => Within(m, q)) /\ Single(m, r)
  <2>1. Within(m, r) => Within(m, q)
      BY ONLY <1>2, <1>4 DEF Within
  <2>2. ASSUME NEW i \in 1 .. b, NEW j \in 1 .. b, r[i] = m, r[j] = m PROVE i = j
    <3>1. q[a + i] = m /\ q[a + j] = m /\ a + i \in DOMAIN q /\ a + j \in DOMAIN q
        BY ONLY <1>2, <1>4, <2>2
    <3>2. a + i = a + j
        BY <3>1 DEF Single
    <3> QED BY ONLY <1>6, <2>2, <3>2
  <2>3. Single(m, r)
      BY ONLY <1>2, <2>2 DEF Single
  <2> QED BY <2>1, <2>3
<1> QED BY <1>7, <1>8 DEF d, r

\* Two lists, one after the other.
LEMMA ConcatWithin ==
    ASSUME NEW m, NEW s \in Seq(Messages), NEW t \in Seq(Messages),
           Single(m, s), Single(m, t), Within(m, s) => ~Within(m, t)
    PROVE  /\ Within(m, s \o t) => Within(m, s) \/ Within(m, t)
           /\ Single(m, s \o t)
           /\ s \o t \in Seq(Messages)
<1> DEFINE u == s \o t
           a == Len(s)
           b == Len(t)
<1>1. /\ a \in Nat /\ b \in Nat /\ DOMAIN s = 1 .. a /\ DOMAIN t = 1 .. b /\ DOMAIN u = 1 .. a + b
      /\ \A i \in 1 .. a : u[i] = s[i]
      /\ \A i \in 1 .. b : u[a + i] = t[i]
      /\ u \in Seq(Messages)
    OBVIOUS
<1> HIDE DEF u, a, b
<1>2. \A i \in 1 .. a + b : i \in 1 .. a \/ (i - a \in 1 .. b /\ i = a + (i - a))
    BY <1>1
<1>3. \A i \in 1 .. a + b : (i \in 1 .. a /\ u[i] = s[i]) \/ \E j \in 1 .. b : i = a + j /\ u[i] = t[j]
    BY <1>1, <1>2
<1>4. Within(m, u) => Within(m, s) \/ Within(m, t)
    BY <1>1, <1>3 DEF Within
<1>5. ASSUME NEW i \in 1 .. a + b, NEW j \in 1 .. a + b, u[i] = m, u[j] = m
      PROVE  i = j
  <2>1. CASE i \in 1 .. a /\ u[i] = s[i]
    <3>1. ~(\E h \in 1 .. b : t[h] = m)
        BY <1>1, <1>5, <2>1 DEF Within
    <3>2. j \in 1 .. a /\ u[j] = s[j]
        BY <1>3, <1>5, <3>1
    <3> QED BY <1>1, <1>5, <2>1, <3>2 DEF Single
  <2>2. CASE ~(i \in 1 .. a /\ u[i] = s[i])
    <3>1. PICK h \in 1 .. b : i = a + h /\ u[i] = t[h]
        BY <1>3, <2>2
    <3>2. ~(j \in 1 .. a /\ u[j] = s[j])
        BY <1>1, <1>5, <3>1 DEF Within
    <3>3. PICK g \in 1 .. b : j = a + g /\ u[j] = t[g]
        BY <1>3, <3>2
    <3>4. h = g
        BY <1>1, <1>5, <3>1, <3>3 DEF Single
    <3> QED BY <3>1, <3>3, <3>4
  <2> QED BY <2>1, <2>2
<1>6. Single(m, u)
    BY <1>1, <1>5 DEF Single
<1> QED BY <1>1, <1>4, <1>6 DEF u

-----------------------------------------------------------------------------
\* A list that got no new message keeps what it has at most once.
LEMMA NothingNew ==
    ASSUME NEW m, NEW i \in BOOLEAN, NEW t, NEW p, NEW s, NEW f, NEW k, Once(m, i, t, p, s, f, k),
           NEW i2 \in BOOLEAN, NEW t2, NEW p2, NEW s2, NEW f2, NEW k2,
           i => i2,
           Single(m, t2), Single(m, p2), Single(m, s2), Single(m, f2),
           Within(m, t2) => Within(m, t), Within(m, p2) => Within(m, p),
           Within(m, s2) => Within(m, s), Within(m, f2) => Within(m, f),
           \A c \in Callers : k2[c].messages = k[c].messages \/ k2[c].messages = <<>>
    PROVE  Once(m, i2, t2, p2, s2, f2, k2)
<1>1. \A c \in Callers : /\ Within(m, k2[c].messages) => Within(m, k[c].messages)
                         /\ Single(m, k2[c].messages)
    BY FewWithin DEF Once
<1> QED BY <1>1 DEF Once

\* The lists of the loop, and that a message sent stays sent.
LEMMA OnceFacts ==
    ASSUME ListTypes, OnceInv, NEW m \in UserMessages
    PROVE  /\ OnceOf(m) /\ Sent(m) \in BOOLEAN /\ Sent(m)' \in BOOLEAN
           /\ Single(m, transcript) /\ Single(m, pending) /\ Single(m, steering) /\ Single(m, followUps)
           /\ UNCHANGED <<made, asked>> => (Sent(m) => Sent(m)')
BY DEF OnceInv, OnceOf, Once, Sent

\* A step that only takes away.
LEMMA OnceLess ==
    ASSUME ListTypes, OnceInv, UNCHANGED <<made, asked>>,
           transcript' \in {transcript, <<>>}, pending' \in {pending, <<>>},
           steering' \in {steering, <<>>}, followUps' \in {followUps, <<>>},
           \A c \in Callers : call'[c].messages \in {call[c].messages, <<>>}
    PROVE  OnceInv'
<1> SUFFICES ASSUME NEW m \in UserMessages PROVE OnceOf(m)'
    BY DEF OnceInv
<1>1. OnceOf(m) /\ Sent(m) \in BOOLEAN /\ Sent(m)' \in BOOLEAN /\ (Sent(m) => Sent(m)')
    BY OnceFacts
<1>2. /\ Single(m, transcript') /\ Single(m, pending') /\ Single(m, steering') /\ Single(m, followUps')
      /\ Within(m, transcript') => Within(m, transcript)
      /\ Within(m, pending') => Within(m, pending)
      /\ Within(m, steering') => Within(m, steering)
      /\ Within(m, followUps') => Within(m, followUps)
    BY OnceFacts, FewWithin
<1>3. Once(m, Sent(m), transcript, pending, steering, followUps, call)
    BY <1>1 DEF OnceOf
<1>4. Once(m, Sent(m)', transcript', pending', steering', followUps', call')
    BY <1>1, <1>2, <1>3, NothingNew
<1> QED BY <1>4 DEF OnceOf

\* A response, or a result, joins the transcript.
LEMMA OnceOther ==
    ASSUME ListTypes, OnceInv, NEW x \in Messages, x.role # "user", transcript' = Append(transcript, x),
           UNCHANGED <<pending, steering, followUps, made, asked, call>>
    PROVE  OnceInv'
<1> SUFFICES ASSUME NEW m \in UserMessages PROVE OnceOf(m)'
    BY DEF OnceInv
<1>1. OnceOf(m) /\ Sent(m) \in BOOLEAN /\ Sent(m)' \in BOOLEAN /\ (Sent(m) => Sent(m)')
    BY OnceFacts
<1>2. x # m
    BY DEF UserMessages
<1>3. Single(m, transcript') /\ (Within(m, transcript') => Within(m, transcript))
    BY <1>2, OnceFacts, AppendWithin DEF ListTypes, LoopLists
<1>4. Once(m, Sent(m)', transcript', pending, steering, followUps, call)
    BY <1>1, <1>3, OnceFacts, NothingNew DEF OnceOf
<1> QED BY <1>4 DEF OnceOf

\* The first pending message is announced.
LEMMA OnceAnnounced ==
    ASSUME ListTypes, OnceInv, pending # <<>>, transcript' = Append(transcript, Head(pending)),
           pending' = Tail(pending), UNCHANGED <<steering, followUps, made, asked, call>>
    PROVE  OnceInv'
<1> SUFFICES ASSUME NEW m \in UserMessages PROVE OnceOf(m)'
    BY DEF OnceInv
<1>1. OnceOf(m) /\ (Sent(m) => Sent(m)')
    BY OnceFacts
<1>2. /\ Within(m, Tail(pending)) => Within(m, pending)
      /\ Head(pending) = m => Within(m, pending) /\ ~Within(m, Tail(pending))
      /\ Single(m, Tail(pending)) /\ Head(pending) \in Messages
    BY OnceFacts, TailWithin, HeadAndTail DEF ListTypes, LoopLists
<1>3. Within(m, pending) => ~Within(m, transcript)
    BY <1>1 DEF OnceOf, Once
<1>4. /\ Within(m, transcript') => Within(m, transcript) \/ Head(pending) = m
      /\ Single(m, transcript')
    BY <1>2, <1>3, OnceFacts, AppendWithin DEF ListTypes, LoopLists
<1>5. Once(m, Sent(m)', transcript', pending', steering, followUps, call)
    BY <1>1, <1>2, <1>4 DEF OnceOf, Once
<1> QED BY <1>5 DEF OnceOf

\* What a poll takes from a queue is pending, in the place of what was.
LEMMA OncePolled ==
    ASSUME ListTypes, OnceInv, UNCHANGED <<transcript, made, asked, call>>,
           \/ pending' = Drained(steering) /\ steering' = Remaining(steering) /\ UNCHANGED followUps
           \/ pending' = Drained(followUps) /\ followUps' = Remaining(followUps) /\ UNCHANGED steering
    PROVE  OnceInv'
<1> SUFFICES ASSUME NEW m \in UserMessages PROVE OnceOf(m)'
    BY DEF OnceInv
<1>1. OnceOf(m) /\ (Sent(m) => Sent(m)')
    BY OnceFacts
<1>2. CASE pending' = Drained(steering) /\ steering' = Remaining(steering) /\ UNCHANGED followUps
  <2>1. /\ Within(m, pending') => Within(m, steering) /\ ~Within(m, steering')
        /\ Within(m, steering') => Within(m, steering)
        /\ Single(m, pending') /\ Single(m, steering')
      BY <1>2, OnceFacts, DrainWithin DEF ListTypes, LoopLists
  <2>2. Once(m, Sent(m)', transcript, pending', steering', followUps, call)
      BY <1>1, <2>1 DEF OnceOf, Once
  <2> QED BY <1>2, <2>2 DEF OnceOf
<1>3. CASE pending' = Drained(followUps) /\ followUps' = Remaining(followUps) /\ UNCHANGED steering
  <2>1. /\ Within(m, pending') => Within(m, followUps) /\ ~Within(m, followUps')
        /\ Within(m, followUps') => Within(m, followUps)
        /\ Single(m, pending') /\ Single(m, followUps')
      BY <1>3, OnceFacts, DrainWithin DEF ListTypes, LoopLists
  <2>2. Once(m, Sent(m)', transcript, pending', steering, followUps', call)
      BY <1>1, <2>1 DEF OnceOf, Once
  <2> QED BY <1>3, <2>2 DEF OnceOf
<1> QED BY <1>2, <1>3

\* What continue_ takes from a queue is with its call.
LEMMA OnceTaken ==
    ASSUME ListTypes, OnceInv, UNCHANGED <<transcript, pending, made, asked>>, NEW c \in Callers,
           \A d \in Callers : d # c => call'[d] = call[d],
           \/ call'[c].messages = Drained(steering) /\ steering' = Remaining(steering) /\ UNCHANGED followUps
           \/ call'[c].messages = Drained(followUps) /\ followUps' = Remaining(followUps) /\ UNCHANGED steering
    PROVE  OnceInv'
<1> SUFFICES ASSUME NEW m \in UserMessages PROVE OnceOf(m)'
    BY DEF OnceInv
<1>1. OnceOf(m) /\ (Sent(m) => Sent(m)')
    BY OnceFacts
<1> DEFINE taken == call'[c].messages
<1>2. CASE taken = Drained(steering) /\ steering' = Remaining(steering) /\ UNCHANGED followUps
  <2>1. /\ Within(m, taken) => Within(m, steering) /\ ~Within(m, steering')
        /\ Within(m, steering') => Within(m, steering)
        /\ Single(m, taken) /\ Single(m, steering')
      BY <1>2, OnceFacts, DrainWithin DEF ListTypes, LoopLists
  <2>2. Once(m, Sent(m)', transcript, pending, steering', followUps, call')
      BY <1>1, <2>1 DEF OnceOf, Once
  <2> QED BY <1>2, <2>2 DEF OnceOf
<1>3. CASE taken = Drained(followUps) /\ followUps' = Remaining(followUps) /\ UNCHANGED steering
  <2>1. /\ Within(m, taken) => Within(m, followUps) /\ ~Within(m, followUps')
        /\ Within(m, followUps') => Within(m, followUps)
        /\ Single(m, taken) /\ Single(m, followUps')
      BY <1>3, OnceFacts, DrainWithin DEF ListTypes, LoopLists
  <2>2. Once(m, Sent(m)', transcript, pending, steering, followUps', call')
      BY <1>1, <2>1 DEF OnceOf, Once
  <2> QED BY <1>3, <2>2 DEF OnceOf
<1> QED BY <1>2, <1>3

\* A call gives its messages to the run it begins.
LEMMA OnceBegun ==
    ASSUME ListTypes, OnceInv, UNCHANGED <<transcript, steering, followUps, made, asked>>, NEW c \in Callers,
           \A d \in Callers : d # c => call'[d] = call[d],
           call'[c].messages = <<>>, pending' = call[c].messages
    PROVE  OnceInv'
<1> SUFFICES ASSUME NEW m \in UserMessages PROVE OnceOf(m)'
    BY DEF OnceInv
<1>1. OnceOf(m) /\ (Sent(m) => Sent(m)')
    BY OnceFacts
<1>2. ~Within(m, call'[c].messages) /\ Single(m, call'[c].messages)
    BY FewWithin
<1>3. Once(m, Sent(m)', transcript, call[c].messages, steering, followUps, call')
    BY <1>1, <1>2 DEF OnceOf, Once
<1> QED BY <1>3 DEF OnceOf

\* A prompt is new.
LEMMA OncePrompted ==
    ASSUME ListTypes, OnceInv, UNCHANGED <<transcript, pending, steering, followUps, asked>>,
           made' = made + 1, NEW c \in Callers, \A d \in Callers : d # c => call'[d] = call[d],
           call'[c].messages = <<User("prompt", made + 1)>>
    PROVE  OnceInv'
<1> SUFFICES ASSUME NEW m \in UserMessages PROVE OnceOf(m)'
    BY DEF OnceInv
<1>1. OnceOf(m)
    BY DEF OnceInv
<1>2. /\ Sent(m) => Sent(m)'
      /\ User("prompt", made + 1) = m => ~Sent(m) /\ Sent(m)'
    BY DEF Sent, UserMessages, User, ListTypes
<1>3. /\ Within(m, call'[c].messages) <=> User("prompt", made + 1) = m
      /\ Single(m, call'[c].messages)
  <2>1. \A x : (Within(m, <<x>>) <=> x = m) /\ Single(m, <<x>>)
      BY FewWithin
  <2> QED BY <2>1
<1>4. Once(m, Sent(m)', transcript, pending, steering, followUps, call')
  <2>1. CASE User("prompt", made + 1) = m
      BY <1>1, <1>2, <1>3, <2>1 DEF OnceOf, Once
  <2>2. CASE User("prompt", made + 1) # m
      BY <1>1, <1>2, <1>3, <2>2 DEF OnceOf, Once
  <2> QED BY <2>1, <2>2
<1> QED BY <1>4 DEF OnceOf

\* So is a message queued.
LEMMA OnceQueued ==
    ASSUME ListTypes, OnceInv, UNCHANGED <<transcript, pending, made, call>>,
           \/ /\ steering' = Append(steering, User("steer", asked.steer + 1))
              /\ asked'.steer = asked.steer + 1 /\ asked'.followUp = asked.followUp
              /\ UNCHANGED followUps
           \/ /\ followUps' = Append(followUps, User("followUp", asked.followUp + 1))
              /\ asked'.followUp = asked.followUp + 1 /\ asked'.steer = asked.steer
              /\ UNCHANGED steering
    PROVE  OnceInv'
<1> SUFFICES ASSUME NEW m \in UserMessages PROVE OnceOf(m)'
    BY DEF OnceInv
<1>1. OnceOf(m)
    BY DEF OnceInv
<1>0. asked.steer \in Nat /\ asked.followUp \in Nat
    BY DEF ListTypes, LoopLists
<1>2. CASE /\ steering' = Append(steering, User("steer", asked.steer + 1))
           /\ asked'.steer = asked.steer + 1 /\ asked'.followUp = asked.followUp
           /\ UNCHANGED followUps
  <2> DEFINE x == User("steer", asked.steer + 1)
  <2>1. x \in Messages /\ asked.steer + 1 \in Nat
      BY <1>0, MessagesTyped
  <2>2. (Sent(m) => Sent(m)') /\ (x = m => ~Sent(m) /\ Sent(m)')
      BY <1>0, <1>2, <2>1 DEF Sent, UserMessages, User
  <2> HIDE DEF x
  <2>3. x = m => ~Within(m, steering)
      BY <1>1, <2>2 DEF OnceOf, Once
  <2>4. Single(m, steering') /\ (Within(m, steering') => Within(m, steering) \/ x = m)
      BY <1>2, <2>1, <2>3, OnceFacts, AppendWithin DEF ListTypes, LoopLists, x
  <2>5. Once(m, Sent(m)', transcript, pending, steering', followUps, call)
    <3>1. CASE x = m
        BY <1>1, <2>2, <2>4, <3>1 DEF OnceOf, Once
    <3>2. CASE x # m
        BY <1>1, <2>2, <2>4, <3>2 DEF OnceOf, Once
    <3> QED BY <3>1, <3>2
  <2> QED BY <1>2, <2>5 DEF OnceOf
<1>3. CASE /\ followUps' = Append(followUps, User("followUp", asked.followUp + 1))
           /\ asked'.followUp = asked.followUp + 1 /\ asked'.steer = asked.steer
           /\ UNCHANGED steering
  <2> DEFINE x == User("followUp", asked.followUp + 1)
  <2>1. x \in Messages /\ asked.followUp + 1 \in Nat
      BY <1>0, MessagesTyped
  <2>2. (Sent(m) => Sent(m)') /\ (x = m => ~Sent(m) /\ Sent(m)')
      BY <1>0, <1>3, <2>1 DEF Sent, UserMessages, User
  <2> HIDE DEF x
  <2>3. x = m => ~Within(m, followUps)
      BY <1>1, <2>2 DEF OnceOf, Once
  <2>4. Single(m, followUps') /\ (Within(m, followUps') => Within(m, followUps) \/ x = m)
      BY <1>3, <2>1, <2>3, OnceFacts, AppendWithin DEF ListTypes, LoopLists, x
  <2>5. Once(m, Sent(m)', transcript, pending, steering, followUps', call)
    <3>1. CASE x = m
        BY <1>1, <2>2, <2>4, <3>1 DEF OnceOf, Once
    <3>2. CASE x # m
        BY <1>1, <2>2, <2>4, <3>2 DEF OnceOf, Once
    <3> QED BY <3>1, <3>2
  <2> QED BY <1>3, <2>5 DEF OnceOf
<1> QED BY <1>2, <1>3

\* Every step leaves each message at most once.
LEMMA OnceNext ==
    ASSUME RunInv, ListTypes, RunShape, OnceInv, [Next]_vars
    PROVE  OnceInv'
<1>0. LoopLists /\ CallInv
    BY DEF ListTypes, RunInv
<1>1. ASSUME NEW c \in Callers,
             \/ Prompt(c) \/ Continue(c) \/ WaitForIdle(c) \/ Reset(c) \/ CallerStep(c) \/ Drop(c)
      PROVE  OnceInv'
  <2>1. \A r : IsCall(r) /\ To(c, r) => call'[c] = r /\ \A d \in Callers : d # c => call'[d] = call[d]
      BY <1>0, ToOne
  <2>2. CASE Prompt(c)
    <3> DEFINE r == [stage |-> "enter", messages |-> <<User("prompt", made + 1)>>, skip |-> FALSE]
    <3>1. IsCall(r) /\ To(c, r) /\ r.messages = <<User("prompt", made + 1)>> /\ made' = made + 1
          /\ UNCHANGED <<transcript, pending, steering, followUps, asked>>
        BY <2>2 DEF Prompt, IsCall, Made, loopVars, progress, queues, sink
    <3> QED BY <2>1, <3>1, OncePrompted
  <2>3. CASE Continue(c) \/ WaitForIdle(c) \/ Reset(c)
    <3>1. /\ \A d \in Callers : call'[d].messages \in {call[d].messages, <<>>}
          /\ UNCHANGED <<transcript, pending, steering, followUps, asked>> /\ made' = made + 1
        BY <2>1, <2>3, NoMessages DEF Continue, WaitForIdle, Reset, Made, loopVars, progress, queues, sink
    <3>2. ASSUME NEW m \in UserMessages PROVE OnceOf(m)'
      <4>1. Sent(m) => Sent(m)'
          BY <3>1 DEF Sent, UserMessages, ListTypes
      <4>2. Once(m, Sent(m)', transcript, pending, steering, followUps, call')
          BY <3>1, <4>1, OnceFacts, NothingNew DEF OnceOf
      <4> QED BY <3>1, <4>2 DEF OnceOf
    <3> QED BY <3>2 DEF OnceInv
  <2>4. CASE DrainSteering(c) /\ steering # <<>>
    <3> DEFINE r == [stage |-> "enter", messages |-> Drained(steering), skip |-> TRUE]
    <3>1. IsCall(r) /\ To(c, r) /\ r.messages = Drained(steering) /\ steering' = Remaining(steering)
          /\ UNCHANGED <<transcript, pending, followUps, asked, made>>
        BY <2>4 DEF DrainSteering, IsCall, progress, sink
    <3> QED BY <2>1, <3>1, OnceTaken
  <2>5. CASE DrainFollowUps(c) /\ followUps # <<>>
    <3> DEFINE r == [stage |-> "enter", messages |-> Drained(followUps), skip |-> FALSE]
    <3>1. IsCall(r) /\ To(c, r) /\ r.messages = Drained(followUps) /\ followUps' = Remaining(followUps)
          /\ UNCHANGED <<transcript, pending, steering, asked, made>>
        BY <2>5 DEF DrainFollowUps, IsCall, progress, sink
    <3> QED BY <2>1, <3>1, OnceTaken
  <2>6. CASE BeginRun(c)
    <3>1. /\ To(c, At("running")) /\ pending' = call[c].messages
          /\ UNCHANGED <<transcript, steering, followUps, asked, made>>
        BY <2>6 DEF BeginRun, Begin, Silent, sink, queues
    <3> QED BY <2>1, <3>1, NoMessages, OnceBegun
  <2>7. CASE \/ LookAtLast(c) \/ WaitGranted(c) \/ Enter(c) \/ Activate(c) \/ MarkStreaming(c)
             \/ FinishState(c) \/ FinishRun(c) \/ Release(c) \/ ResetState(c) \/ ClearFollowUps(c)
             \/ ClearSteering(c) \/ Drop(c)
             \/ (DrainSteering(c) /\ steering = <<>>) \/ (DrainFollowUps(c) /\ followUps = <<>>)
    <3>1. \A s : IsCall(Onward(c, s)) /\ Onward(c, s).messages = call[c].messages
        BY DEF Onward, IsCall
    <3>2. \E r : IsCall(r) /\ To(c, r) /\ r.messages \in {call[c].messages, <<>>}
      <4>1. CASE LookAtLast(c) \/ WaitGranted(c) \/ Enter(c) \/ Activate(c) \/ MarkStreaming(c)
          BY <3>1, <4>1, NoMessages DEF LookAtLast, WaitGranted, Enter, Activate, MarkStreaming
      <4>2. CASE FinishState(c) \/ FinishRun(c) \/ Release(c) \/ ResetState(c) \/ ClearFollowUps(c)
                 \/ ClearSteering(c) \/ Drop(c)
          BY <4>2, NoMessages DEF FinishState, FinishRun, Release, ResetState, ClearFollowUps, ClearSteering, Drop
      <4>3. CASE (DrainSteering(c) /\ steering = <<>>) \/ (DrainFollowUps(c) /\ followUps = <<>>)
          BY <4>3, NoMessages DEF DrainSteering, DrainFollowUps
      <4> QED BY <2>7, <4>1, <4>2, <4>3
    <3>3. \A d \in Callers : call'[d].messages \in {call[d].messages, <<>>}
        BY <2>1, <3>2
    <3>4. /\ UNCHANGED <<made, asked>>
          /\ transcript' \in {transcript, <<>>} /\ pending' \in {pending, <<>>}
          /\ steering' \in {steering, <<>>} /\ followUps' \in {followUps, <<>>}
      <4>1. CASE LookAtLast(c) \/ WaitGranted(c) \/ Enter(c) \/ MarkStreaming(c) \/ FinishRun(c) \/ Release(c)
          BY <4>1 DEF LookAtLast, WaitGranted, Enter, MarkStreaming, FinishRun, Release, loopVars,
                      progress, queues, sink
      <4>2. CASE Activate(c)
          BY <4>2 DEF Activate, progress, queues, sink
      <4>3. CASE FinishState(c)
          BY <4>3 DEF FinishState, NoProgress, queues
      <4>4. CASE ResetState(c)
          BY <4>4 DEF ResetState, progress, queues
      <4>5. CASE ClearFollowUps(c) \/ ClearSteering(c)
          BY <4>5 DEF ClearFollowUps, ClearSteering, progress, sink
      <4>6. CASE Drop(c)
          BY <4>6 DEF Drop, NoProgress, progress, queues
      <4>7. CASE (DrainSteering(c) /\ steering = <<>>) \/ (DrainFollowUps(c) /\ followUps = <<>>)
          BY <4>7 DEF DrainSteering, DrainFollowUps, Remaining, progress, sink
      <4> QED BY <2>7, <4>1, <4>2, <4>3, <4>4, <4>5, <4>6, <4>7
    <3> QED BY <3>3, <3>4, OnceLess
  <2> QED BY <1>1, <2>2, <2>3, <2>4, <2>5, <2>6, <2>7 DEF CallerStep
<1>2. CASE LoopStep /\ UNCHANGED agentVars
  <2>0. UNCHANGED <<call, made>>
      BY <1>2 DEF agentVars
  <2>1. CASE AnnounceEnd
    <3>1. /\ pending # <<>> /\ transcript' = Append(transcript, Head(pending)) /\ pending' = Tail(pending)
          /\ UNCHANGED <<steering, followUps, asked>>
        BY <2>1 DEF AnnounceEnd, MessageEnd, RunShape, queues
    <3> QED BY <2>0, <3>1, OnceAnnounced
  <2>2. CASE StreamEnd \/ StreamWholeEnd \/ \E i \in Calls : ResultEnd(i)
    <3>1. PICK x \in Messages : x.role # "user" /\ transcript' = Append(transcript, x)
      <4>1. CASE StreamEnd
        <5>1. PICK m \in Responses : Received(m)
            BY <4>1 DEF StreamEnd
        <5> QED BY <1>0, <5>1, ResponseShape DEF Received, MessageEnd, IsAssistant, LoopLists
      <4>2. CASE StreamWholeEnd
          BY <1>0, <4>2, HeadAndTail DEF StreamWholeEnd, Received, MessageEnd, IsAssistant, LoopLists, RunShape
      <4>3. ASSUME NEW i \in Calls, ResultEnd(i)
            PROVE  \E x \in Messages : x.role # "user" /\ transcript' = Append(transcript, x)
        <5>1. Response \in Messages /\ IsAssistant(Response)
            BY <1>0, <4>3, HeadAndTail DEF ResultEnd, InBatch, RunShape, LoopLists, Answering, Response
        <5>2. i \in Nat
            BY DEF Calls, RunShape
        <5>3. Result(Response.turn, i) \in Messages
            BY <5>1, <5>2, AssistantTyped, MessagesTyped
        <5>4. transcript' = Append(transcript, Result(Response.turn, i))
            BY <4>3 DEF ResultEnd, MessageEnd
        <5> QED BY <5>3, <5>4 DEF Result
      <4> QED BY <2>2, <4>1, <4>2, <4>3
    <3>2. UNCHANGED <<pending, steering, followUps, asked>>
        BY <2>2 DEF StreamEnd, StreamWholeEnd, ResultEnd, InBatch, queues
    <3> QED BY <2>0, <3>1, <3>2, OnceOther
  <2>3. CASE FirstPoll \/ PrepareNextTurn \/ AfterTurn \/ FollowUps
    <3>1. /\ UNCHANGED <<transcript, asked>>
          /\ \/ pending' = Drained(steering) /\ steering' = Remaining(steering) /\ UNCHANGED followUps
             \/ pending' = Drained(followUps) /\ followUps' = Remaining(followUps) /\ UNCHANGED steering
             \/ pending' \in {pending, <<>>} /\ UNCHANGED <<steering, followUps>>
      <4>1. CASE FirstPoll
          BY <4>1 DEF FirstPoll, queues, sink, Silent
      <4>2. CASE PrepareNextTurn
          BY <4>2 DEF PrepareNextTurn, sink, Silent
      <4>3. CASE AfterTurn
          BY <4>3 DEF AfterTurn, sink, Silent
      <4>4. CASE FollowUps
          BY <4>4 DEF FollowUps, sink, Silent
      <4> QED BY <2>3, <4>1, <4>2, <4>3, <4>4
    <3> QED BY <2>0, <3>1, OncePolled, OnceLess
  <2>4. CASE \/ AgentStart \/ FirstTurn \/ AnnounceStart \/ NextTurn \/ Request \/ StreamStart \/ StreamWhole
             \/ StartBatch \/ BatchEnd \/ TurnEnd \/ AgentEnd \/ \E i \in Calls : CallStep(i) /\ ~ResultEnd(i)
    <3>1. UNCHANGED <<transcript, pending, steering, followUps, asked>>
      <4>1. CASE AgentStart \/ FirstTurn \/ NextTurn \/ TurnEnd \/ AgentEnd \/ Request
          BY <4>1 DEF AgentStart, FirstTurn, NextTurn, TurnEnd, AgentEnd, Request, Bracket, Silent, sink,
                      progress, queues
      <4>2. CASE AnnounceStart \/ StreamStart \/ StreamWhole
          BY <4>2 DEF AnnounceStart, StreamStart, StreamWhole, MessageStart, progress, queues
      <4>3. CASE StartBatch \/ BatchEnd
          BY <4>3 DEF StartBatch, BatchEnd, Silent, sink, queues
      <4>4. ASSUME NEW i \in Calls, CallStep(i), ~ResultEnd(i)
            PROVE  UNCHANGED <<transcript, pending, steering, followUps, asked>>
          BY <4>4 DEF CallStep, CallStart, CallRefuse, CallPrepare, CallExecute, CallEnd, ResultStart,
                      CallBreak, InBatch, ExecutionStart, ExecutionEnd, MessageStart, Silent, sink, queues
      <4> QED BY <2>4, <4>1, <4>2, <4>3, <4>4
    <3> QED BY <2>0, <3>1, OnceLess
  <2> QED BY <1>2, <2>1, <2>2, <2>3, <2>4 DEF LoopStep, CallStep
<1>3. CASE FailureStart \/ Abort \/ UNCHANGED vars
  <2>1. UNCHANGED <<transcript, pending, steering, followUps, asked, call, made>>
      BY <1>3 DEF FailureStart, MessageStart, Abort, Cancel, vars, loopVars, progress, queues, sink, agentVars
  <2> QED BY <2>1, OnceLess
<1>4. CASE FailureEnd
  <2>1. /\ Last(produced) \in Messages /\ Last(produced).role # "user"
        /\ transcript' = Append(transcript, Last(produced))
        /\ UNCHANGED <<pending, steering, followUps, asked, call, made>>
      BY <1>0, <1>4, LastTyped DEF FailureEnd, MessageEnd, RunShape, LoopLists, IsAssistant, Response,
                                  progress, queues, agentVars
  <2> QED BY <2>1, OnceOther
<1>5. CASE QueueMessage
  <2>1. /\ UNCHANGED <<transcript, pending, made, call>>
        /\ \/ /\ steering' = Append(steering, User("steer", asked.steer + 1))
              /\ asked'.steer = asked.steer + 1 /\ asked'.followUp = asked.followUp
              /\ UNCHANGED followUps
           \/ /\ followUps' = Append(followUps, User("followUp", asked.followUp + 1))
              /\ asked'.followUp = asked.followUp + 1 /\ asked'.steer = asked.steer
              /\ UNCHANGED steering
      BY <1>0, <1>5 DEF QueueMessage, Steer, FollowUp, progress, sink, agentVars, LoopLists
  <2> QED BY <2>1, OnceQueued
<1> QED BY <1>1, <1>2, <1>3, <1>4, <1>5 DEF Next, RunStep

\* Nobody has sent anything to a new agent.
LEMMA InitOnce == Init => ListTypes /\ RunShape /\ OnceInv
<1> SUFFICES ASSUME Init PROVE ListTypes /\ RunShape /\ OnceInv
    OBVIOUS
<1>1. ListTypes /\ RunShape
    BY NoMessages DEF Init, LoopInit, ListTypes, LoopLists, RunShape, NoBatch, Answering
<1>2. \A c \in Callers : call[c].messages = <<>>
    BY NoMessages DEF Init
<1>3. ASSUME NEW m \in UserMessages PROVE OnceOf(m)
    BY <1>2, FewWithin DEF Init, LoopInit, OnceOf, Once
<1> QED BY <1>1, <1>3 DEF OnceInv

LEMMA AlwaysOnce == Spec => [](RunInv /\ ListTypes /\ RunShape /\ OnceInv)
<1>1. Spec => Init /\ [][Next]_vars
    BY DEF Spec
<1>2. ListTypes /\ RunShape /\ OnceInv /\ RunInv /\ [Next]_vars => (ListTypes /\ RunShape /\ OnceInv)'
    BY ListsNext, OnceNext
<1> QED BY <1>1, <1>2, InitOnce, AlwaysRun, PTL

\* How often a list holds a message that it holds at most once.
LEMMA CountSingle ==
    ASSUME NEW m, NEW s, Single(m, s)
    PROVE  /\ ~Within(m, s) => Cardinality({i \in DOMAIN s : s[i] = m}) = 0
           /\ Within(m, s) => Cardinality({i \in DOMAIN s : s[i] = m}) = 1
<1>1. CASE ~Within(m, s)
  <2>1. {i \in DOMAIN s : s[i] = m} = {}
      BY <1>1 DEF Within
  <2> QED BY <1>1, <2>1, FS_EmptySet
<1>2. CASE Within(m, s)
  <2>1. PICK i \in DOMAIN s : s[i] = m
      BY <1>2 DEF Within
  <2>2. {j \in DOMAIN s : s[j] = m} = {i}
      BY <2>1 DEF Single
  <2> QED BY <1>2, <2>2, FS_Singleton
<1> QED BY <1>1, <1>2

\* The lists and the calls together hold a message at most once.
LEMMA OnceCounts ==
    ASSUME ListTypes, NEW m, OnceOf(m)
    PROVE  LET Count(list) == Cardinality({i \in DOMAIN list : list[i] = m})
           IN  Count(transcript \o pending \o steering \o followUps)
                   + Cardinality({c \in Callers : Count(call[c].messages) > 0}) <= 1
<1> DEFINE Count(list) == Cardinality({i \in DOMAIN list : list[i] = m})
           all == transcript \o pending \o steering \o followUps
           holders == {c \in Callers : Count(call[c].messages) > 0}
           two == transcript \o pending
           three == transcript \o pending \o steering
<1>1. Once(m, Sent(m), transcript, pending, steering, followUps, call)
    BY DEF OnceOf
<1>2. /\ transcript \in Seq(Messages) /\ pending \in Seq(Messages)
      /\ steering \in Seq(Messages) /\ followUps \in Seq(Messages)
    BY DEF ListTypes, LoopLists
<1>3. /\ Within(m, two) => Within(m, transcript) \/ Within(m, pending)
      /\ Single(m, two) /\ two \in Seq(Messages)
    BY <1>1, <1>2, ConcatWithin DEF Once
<1>4. /\ Within(m, two \o steering) => Within(m, two) \/ Within(m, steering)
      /\ Single(m, two \o steering) /\ two \o steering \in Seq(Messages)
  <2> HIDE DEF two
  <2> QED BY <1>1, <1>2, <1>3, ConcatWithin DEF Once
<1>5. three = two \o steering /\ all = three \o followUps
    OBVIOUS
<1>6. /\ Within(m, all) => Within(m, three) \/ Within(m, followUps)
      /\ Single(m, all)
  <2>1. /\ Within(m, three) => Within(m, transcript) \/ Within(m, pending) \/ Within(m, steering)
        /\ Single(m, three) /\ three \in Seq(Messages)
      BY <1>3, <1>4, <1>5
  <2> HIDE DEF three, all
  <2> QED BY <1>1, <1>2, <1>5, <2>1, ConcatWithin DEF Once
<1>7. Within(m, all) => Within(m, transcript) \/ Within(m, pending) \/ Within(m, steering) \/ Within(m, followUps)
    BY <1>3, <1>4, <1>5, <1>6
<1>8. \A c \in Callers : c \in holders => Within(m, call[c].messages)
  <2> SUFFICES ASSUME NEW c \in Callers, ~Within(m, call[c].messages) PROVE c \notin holders
      OBVIOUS
  <2>1. Count(call[c].messages) = 0
      BY <1>1, CountSingle DEF Once
  <2> QED BY <2>1
<1>9. /\ ~Within(m, all) => Count(all) = 0
      /\ Within(m, all) => Count(all) = 1
    BY <1>6, CountSingle
<1> HIDE DEF all, Count
<1>10. ASSUME holders = {} PROVE Count(all) + Cardinality(holders) <= 1
  <2>1. Cardinality(holders) = 0
      BY <1>10, FS_EmptySet
  <2> HIDE DEF holders
  <2> QED BY <1>9, <2>1
<1>11. ASSUME holders # {} PROVE Count(all) + Cardinality(holders) <= 1
  <2>1. PICK c \in holders : c \in Callers
      BY <1>11
  <2>2. Within(m, call[c].messages)
      BY <1>8, <2>1
  <2>3. holders = {c}
      BY <1>1, <1>8, <2>1, <2>2 DEF Once
  <2>4. Cardinality(holders) = 1
      BY <2>3, FS_Singleton
  <2>5. Count(all) = 0
      BY <1>1, <1>7, <1>9, <2>1, <2>2 DEF Once
  <2> HIDE DEF holders
  <2> QED BY <2>4, <2>5
<1>12. Count(all) + Cardinality(holders) <= 1
    BY <1>10, <1>11
<1> QED BY <1>12 DEF all, Count

\* A message that was prompted, or queued by steer or follow_up, is delivered at most once, for any
\* number of tasks: continue_, the polls of a run, resets and dropped calls never hand one out
\* twice, although they take from the same queues.
THEOREM DeliveredAtMostOnce == Spec => []EachOnce
<1>1. ListTypes /\ OnceInv => EachOnce
  <2> SUFFICES ASSUME ListTypes, OnceInv PROVE EachOnce
      OBVIOUS
  <2>1. \A from \in {"prompt", "steer", "followUp"}, n \in Nat : OnceOf(User(from, n))
      BY DEF OnceInv, UserMessages, User
  <2>2. made \in Nat /\ asked.steer \in Nat /\ asked.followUp \in Nat
      BY DEF ListTypes, LoopLists
  <2>3. /\ \A n \in 1 .. made : OnceOf(User("prompt", n))
        /\ \A n \in 1 .. asked.steer : OnceOf(User("steer", n))
        /\ \A n \in 1 .. asked.followUp : OnceOf(User("followUp", n))
      BY <2>1, <2>2
  <2> QED BY <2>3, OnceCounts DEF EachOnce
<1> QED BY <1>1, AlwaysOnce, PTL
=============================================================================
