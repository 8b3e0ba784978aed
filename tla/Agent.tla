------------------------------- MODULE Agent -------------------------------
(***************************************************************************)
(* Agent (src/agent/agent.rs): the calls several tasks make on one agent,  *)
(* around the runs of AgentLoop.  A call takes the locks of the agent one  *)
(* after the other and lets others in between; run_lock, a first-in        *)
(* first-out lock, is held across a whole run.  The future of a call may   *)
(* be dropped at any of its awaits, as a timeout or a select does.         *)
(***************************************************************************)
EXTENDS AgentLoop, SequencesExt

CONSTANTS
    Callers,       \* tasks that call the agent, one call at a time each
    NoOne,         \* no active run
    MaxQueued,     \* bound: messages ever queued, of both kinds
    MaxMade        \* bound: calls ever made and not refused at once

ASSUME AgentAssumption == NoOne \notin Callers /\ MaxQueued \in Nat /\ MaxMade \in Nat

VARIABLES
    call,          \* per task: how far its call is, and what it starts with
    active,        \* active_run: the task whose run it is
    runLock,       \* run_lock: the tasks that wait for it, the first holds it
    isStreaming,   \* MutableAgentState.is_streaming
    made           \* history: calls made so far

agentVars == <<call, active, runLock, isStreaming, made>>
vars      == <<loopVars, agentVars>>

At(stage) == [stage |-> stage, messages |-> <<>>, skip |-> FALSE]
NoCall == At("out")

\* Past run_with_lifecycle's lock, until its guard is dropped.
Running == {"active", "marked", "running", "finished"}

\* The locals of a run, before it begins and after it is over.
NoProgress ==
    /\ pc' = "idle"
    /\ context' = <<>> /\ produced' = <<>> /\ pending' = <<>>
    /\ skipPoll' = FALSE /\ more' = FALSE /\ batch' = NoBatch

Init ==
    /\ LoopInit
    /\ call = [c \in Callers |-> NoCall]
    /\ active = NoOne /\ runLock = <<>>
    /\ isStreaming = FALSE
    /\ made = 0

Onward(c, stage) == [stage |-> stage, messages |-> call[c].messages, skip |-> call[c].skip]
To(c, next) == call' = [call EXCEPT ![c] = next]

-----------------------------------------------------------------------------
\* Calls refused at once leave no trace: they are not steps.
Made == made < MaxMade /\ made' = made + 1

Prompt(c) ==
    /\ call[c] = NoCall
    /\ active = NoOne
    /\ Made
    /\ To(c, [stage |-> "enter", messages |-> <<User("prompt", made + 1)>>, skip |-> FALSE])
    /\ UNCHANGED <<loopVars, active, runLock, isStreaming>>

\* continue_: the check, the last message, then one queue after the other.
Continue(c) ==
    /\ call[c] = NoCall
    /\ active = NoOne
    /\ Made
    /\ To(c, At("look"))
    /\ UNCHANGED <<loopVars, active, runLock, isStreaming>>

LookAtLast(c) ==
    /\ call[c].stage = "look"
    /\ To(c, IF transcript = <<>> THEN NoCall
             ELSE At(IF IsAssistant(Last(transcript)) THEN "drain_steering" ELSE "enter"))
    /\ UNCHANGED <<loopVars, active, runLock, isStreaming, made>>

\* Mutant: the messages stay in the queue.
DrainSteeringKept(c) ==
    /\ call[c].stage = "drain_steering"
    /\ To(c, IF steering = <<>> THEN At("drain_follow_ups")
             ELSE [stage |-> "enter", messages |-> Drained(steering), skip |-> TRUE])
    /\ UNCHANGED <<loopVars, active, runLock, isStreaming, made>>

DrainSteering(c) ==
    /\ call[c].stage = "drain_steering"
    /\ To(c, IF steering = <<>> THEN At("drain_follow_ups")
             ELSE [stage |-> "enter", messages |-> Drained(steering), skip |-> TRUE])
    /\ steering' = Remaining(steering)
    /\ UNCHANGED <<pc, progress, cancelled, followUps, asked, sink,
                   active, runLock, isStreaming, made>>

DrainFollowUps(c) ==
    /\ call[c].stage = "drain_follow_ups"
    /\ To(c, IF followUps = <<>> THEN NoCall
             ELSE [stage |-> "enter", messages |-> Drained(followUps), skip |-> FALSE])
    /\ followUps' = Remaining(followUps)
    /\ UNCHANGED <<pc, progress, cancelled, steering, asked, sink,
                   active, runLock, isStreaming, made>>

\* wait_for_idle only takes the lock and gives it back.
WaitForIdle(c) ==
    /\ call[c] = NoCall
    /\ Made
    /\ To(c, At("waiting"))
    /\ runLock' = Append(runLock, c)
    /\ UNCHANGED <<loopVars, active, isStreaming>>

WaitGranted(c) ==
    /\ call[c].stage = "waiting"
    /\ Head(runLock) = c
    /\ To(c, NoCall)
    /\ runLock' = Tail(runLock)
    /\ UNCHANGED <<loopVars, active, isStreaming, made>>

-----------------------------------------------------------------------------
\* run_with_lifecycle checks once more; a refused call keeps nothing of what
\* continue_ took from the queues.
Enter(c) ==
    /\ call[c].stage = "enter"
    /\ IF active # NoOne
       THEN To(c, NoCall) /\ UNCHANGED runLock
       ELSE To(c, Onward(c, "lock")) /\ runLock' = Append(runLock, c)
    /\ UNCHANGED <<loopVars, active, isStreaming, made>>

\* Mutant: the lock is tried and its refusal ignored.
ActivateUnlocked(c) ==
    /\ call[c].stage = "lock"
    /\ To(c, Onward(c, "active"))
    /\ active' = c
    /\ cancelled' = FALSE
    /\ UNCHANGED <<pc, progress, queues, sink, runLock, isStreaming, made>>

Activate(c) ==
    /\ call[c].stage = "lock"
    /\ Head(runLock) = c
    /\ To(c, Onward(c, "active"))
    /\ active' = c
    /\ cancelled' = FALSE
    /\ UNCHANGED <<pc, progress, queues, sink, runLock, isStreaming, made>>

MarkStreaming(c) ==
    /\ call[c].stage = "active"
    /\ To(c, Onward(c, "marked"))
    /\ isStreaming' = TRUE
    /\ streaming' = NoMessage
    /\ UNCHANGED <<pc, progress, cancelled, queues, transcript, pendingCalls, phase,
                   active, runLock, made>>

\* create_context_snapshot, create_loop_config, and the loop begins.
BeginRun(c) ==
    /\ call[c].stage = "marked"
    /\ To(c, At("running"))
    /\ Begin(call[c].messages, call[c].skip)
    /\ UNCHANGED <<cancelled, active, runLock, isStreaming, made>>

\* handle_run_failure: the error becomes a message of its own, with the events
\* a listener expects at the end of a run.
Failure == Assistant(Turn + 1, "error", 0)

FailureStart ==
    /\ pc = "failed"
    /\ pc' = "failure"
    /\ produced' = <<Failure>>
    /\ MessageStart(Failure)
    /\ UNCHANGED <<context, pending, skipPoll, more, batch, cancelled, queues, agentVars>>

FailureEnd ==
    /\ pc = "failure"
    /\ pc' = "abandon"
    /\ MessageEnd(Last(produced))
    /\ UNCHANGED <<progress, cancelled, queues, agentVars>>

\* Mutant: the calls a dropped run left behind stay pending.
FinishStateUncleared(c) ==
    /\ call[c].stage = "running" /\ pc = "done"
    /\ To(c, At("finished"))
    /\ NoProgress
    /\ isStreaming' = FALSE /\ streaming' = NoMessage
    /\ UNCHANGED <<cancelled, queues, transcript, pendingCalls, phase, active, runLock, made>>

\* finish_run, then the guard of run_lock.
FinishState(c) ==
    /\ call[c].stage = "running" /\ pc = "done"
    /\ To(c, At("finished"))
    /\ NoProgress
    /\ isStreaming' = FALSE /\ streaming' = NoMessage /\ pendingCalls' = {}
    /\ UNCHANGED <<cancelled, queues, transcript, phase, active, runLock, made>>

FinishRun(c) ==
    /\ call[c].stage = "finished"
    /\ To(c, At("release"))
    /\ active' = NoOne
    /\ UNCHANGED <<loopVars, runLock, isStreaming, made>>

\* Mutant: the guard is kept.
ReleaseKept(c) ==
    /\ call[c].stage = "release"
    /\ To(c, NoCall)
    /\ UNCHANGED <<loopVars, active, runLock, isStreaming, made>>

Release(c) ==
    /\ call[c].stage = "release"
    /\ To(c, NoCall)
    /\ runLock' = Tail(runLock)
    /\ UNCHANGED <<loopVars, active, isStreaming, made>>

-----------------------------------------------------------------------------
\* reset checks that no run is active, then clears the state and each queue,
\* under the lock of each.
Reset(c) ==
    /\ call[c] = NoCall
    /\ active = NoOne
    /\ Made
    /\ To(c, At("reset"))
    /\ UNCHANGED <<loopVars, active, runLock, isStreaming>>

ResetState(c) ==
    /\ call[c].stage = "reset"
    /\ To(c, At("clear_follow_ups"))
    /\ transcript' = <<>> /\ streaming' = NoMessage /\ pendingCalls' = {}
    /\ isStreaming' = FALSE
    /\ UNCHANGED <<pc, progress, cancelled, queues, phase, active, runLock, made>>

ClearFollowUps(c) ==
    /\ call[c].stage = "clear_follow_ups"
    /\ To(c, At("clear_steering"))
    /\ followUps' = <<>>
    /\ UNCHANGED <<pc, progress, cancelled, steering, asked, sink,
                   active, runLock, isStreaming, made>>

ClearSteering(c) ==
    /\ call[c].stage = "clear_steering"
    /\ To(c, NoCall)
    /\ steering' = <<>>
    /\ UNCHANGED <<pc, progress, cancelled, followUps, asked, sink,
                   active, runLock, isStreaming, made>>

\* abort cancels the token of the active run.
Abort == active # NoOne /\ Cancel /\ UNCHANGED agentVars

\* steer and follow_up take the lock of their queue, at any time.
QueueMessage ==
    /\ asked.steer + asked.followUp < MaxQueued
    /\ Steer \/ FollowUp
    /\ UNCHANGED agentVars

\* The future of a call is dropped at an await: in the queue of run_lock, or
\* anywhere in the run, whose guard goes with it.  Nothing else is undone.
Drop(c) ==
    /\ call[c].stage \in {"lock", "waiting", "running"}
    /\ To(c, NoCall)
    /\ \E k \in DOMAIN runLock : runLock[k] = c /\ runLock' = RemoveAt(runLock, k)
    /\ IF call[c].stage = "running"
       THEN NoProgress /\ phase' = "out"
       ELSE UNCHANGED <<pc, progress, phase>>
    /\ UNCHANGED <<cancelled, queues, transcript, streaming, pendingCalls,
                   active, isStreaming, made>>

-----------------------------------------------------------------------------
\* What a call does once it has been made.
CallerStep(c) ==
    \/ LookAtLast(c) \/ DrainSteering(c) \/ DrainFollowUps(c) \/ WaitGranted(c)
    \/ Enter(c) \/ Activate(c) \/ MarkStreaming(c) \/ BeginRun(c)
    \/ FinishState(c) \/ FinishRun(c) \/ Release(c)
    \/ ResetState(c) \/ ClearFollowUps(c) \/ ClearSteering(c)

RunStep == (LoopStep /\ UNCHANGED agentVars) \/ FailureStart \/ FailureEnd

Next ==
    \/ \E c \in Callers :
          \/ Prompt(c) \/ Continue(c) \/ WaitForIdle(c) \/ Reset(c)
          \/ CallerStep(c) \/ Drop(c)
    \/ RunStep
    \/ Abort
    \/ QueueMessage

Spec == Init /\ [][Next]_vars

\* The runtime polls a task that can go on, and whoever waits for run_lock
\* gets it in turn; nothing makes anyone call, abort or drop.
FairSpec == Spec /\ WF_vars(RunStep) /\ \A c \in Callers : WF_vars(CallerStep(c))

-----------------------------------------------------------------------------
\* Type invariant of the calls and of what guards them.
TypeOK ==
    /\ pc \in Points \cup {"failure"} /\ DataTypeOK
    /\ call \in [Callers -> [stage : {"out", "look", "drain_steering", "drain_follow_ups", "enter",
                                      "lock", "waiting", "active", "marked", "running", "finished",
                                      "release", "reset", "clear_follow_ups", "clear_steering"},
                             messages : Seq(Messages), skip : BOOLEAN]]
    /\ active \in Callers \cup {NoOne}
    /\ runLock \in Seq(Callers)
    /\ isStreaming \in BOOLEAN
    /\ made \in 0 .. MaxMade

\* run_lock admits one run at a time, and its signal is its own: every event is
\* handled inside an active run.  agent.rs:698 expects so: "agent listener
\* invoked outside active run" would panic the task.
RunsAlone ==
    /\ \A c \in Callers : call[c].stage \in Running =>
          Head(runLock) = c /\ active = c
    /\ pc # "idle" => \E c \in Callers : call[c].stage = "running"

\* Whenever no run is active, nothing is left of the ones before: not streaming,
\* no partial message, no pending tool call, whatever failed or was dropped.
IdleIsClean ==
    active = NoOne => ~isStreaming /\ streaming = NoMessage /\ pendingCalls = {}

\* A message is prompted or queued once and is never delivered twice, although
\* continue_ and the loop take from the same queues.
EachOnce ==
    LET Count(list, m) == Cardinality({i \in DOMAIN list : list[i] = m})
        Copies(m) == Count(transcript \o pending \o steering \o followUps, m)
                        + Cardinality({c \in Callers : Count(call[c].messages, m) > 0})
    IN  /\ \A n \in 1 .. made : Copies(User("prompt", n)) <= 1
        /\ \A n \in 1 .. asked.steer : Copies(User("steer", n)) <= 1
        /\ \A n \in 1 .. asked.followUp : Copies(User("followUp", n)) <= 1

\* Every call returns: wait_for_idle and prompt included, whoever dropped what.
CallsReturn == \A c \in Callers : call[c] # NoCall ~> call[c] = NoCall

\* agent.rs:441 "True while the agent is processing a prompt or continuation."
StreamingMeansProcessing ==
    isStreaming => \E c \in Callers : call[c].stage \in Running
=============================================================================
