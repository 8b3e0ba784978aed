---------------------------- MODULE JsonlStorage ----------------------------
(***************************************************************************)
(* One session file and the JsonlSessionStorage that serves it             *)
(* (src/agent/harness/session/jsonl/storage.rs), on top of the file        *)
(* system of src/agent/harness/env/nodejs.rs, across process restarts.     *)
(*                                                                         *)
(* Every mutating operation takes the write_tail lock (a FIFO mutex),      *)
(* validates against the in-memory state, appends one line to the file,    *)
(* applies the mutation to the in-memory state and returns.  The bytes of  *)
(* a line reach the file in steps that a crash can separate: a part of     *)
(* the line, then the rest of it, then its newline.  Loading reads the     *)
(* whole file, replays it, and repairs a torn or unterminated tail.        *)
(*                                                                         *)
(* Faults names what the environment may do besides crashing between any   *)
(* two steps:                                                              *)
(*   "fail"       append_file returns an error after a part of the line    *)
(*   "unflushed"  append_file returns before the bytes are in the file, as *)
(*                NodeExecutionEnv's write_all without a flush does        *)
(*   "cancel"     a caller drops the future of its operation               *)
(*   "share"      a second storage loads the file while this one is open   *)
(***************************************************************************)
EXTENDS SessionState, SequencesExt

CONSTANTS
    Caller,         \* concurrent tasks that call the storage
    Requests,       \* the requests they make, a subset of Request
    Faults,         \* see above
    MaxLines,       \* bound: length of the session, and lines of the file
    MaxCrashes      \* bound: crashes of the process

ASSUME JsonlAssumption ==
    /\ Requests \subseteq Request
    /\ Faults \subseteq {"fail", "unflushed", "cancel", "share"}
    /\ MaxLines \in Nat
    /\ MaxCrashes \in Nat

VARIABLES
    file,     \* the lines of the file after its header
    staged,   \* the lines of <path>.tmp, or Absent
    mem,      \* the storage's SessionState, or Closed
    queue,    \* callers in the order they took or wait for write_tail
    call,     \* what each caller is doing
    writes,   \* appends whose bytes are not all in the file
    loader,   \* a load in progress
    acked,    \* history: the mutations whose operation returned Ok, in order
    crashes   \* history: crashes so far

vars == <<file, staged, mem, queue, call, writes, loader, acked, crashes>>

-----------------------------------------------------------------------------
(***************************************************************************)
(* The file: lines of text, of which only the last can lack its newline.   *)
(* A line is a whole mutation, a part of one, or junk: bytes of several    *)
(* appends run together.  Neither a part nor junk parses as JSON.          *)
(***************************************************************************)
NoMutation == [kind |-> "none"]

Line == [form : {"whole", "part"}, mut : SessionMutation, nl : BOOLEAN]
            \cup [form : {"junk"}, mut : {NoMutation}, nl : BOOLEAN]

Junk(nl) == [form |-> "junk", mut |-> NoMutation, nl |-> nl]

Terminated(f) == f = <<>> \/ f[Len(f)].nl

PutLast(f, line) == [f EXCEPT ![Len(f)] = line]

\* The first bytes of m's line arrive at the end of f.
AddPart(f, m) ==
    IF Terminated(f) THEN Append(f, [form |-> "part", mut |-> m, nl |-> FALSE])
                     ELSE PutLast(f, Junk(FALSE))

\* The rest of m's text arrives.
AddRest(f, m) ==
    IF Terminated(f) THEN Append(f, Junk(FALSE))
    ELSE IF f[Len(f)] = [form |-> "part", mut |-> m, nl |-> FALSE]
         THEN PutLast(f, [form |-> "whole", mut |-> m, nl |-> FALSE])
         ELSE PutLast(f, Junk(FALSE))

\* A newline arrives; on a line of its own it is an empty line, not JSON.
AddNewline(f) ==
    LET last == f[Len(f)] IN
    IF Terminated(f) THEN Append(f, Junk(TRUE))
    ELSE PutLast(f, [form |-> last.form, mut |-> last.mut, nl |-> TRUE])

-----------------------------------------------------------------------------
Closed == [closed |-> TRUE]
Absent == [absent |-> TRUE]

Idle == [step |-> "idle"]

Init ==
    /\ file = <<>>
    /\ staged = Absent
    /\ mem = InitState
    /\ queue = <<>>
    /\ call = [c \in Caller |-> Idle]
    /\ writes = {}
    /\ loader = Idle
    /\ acked = <<>>
    /\ crashes = 0

Open == mem # Closed

-----------------------------------------------------------------------------
\* A caller enters an operation and queues for write_tail.
Enter(c, r) ==
    /\ Open
    /\ call[c] = Idle
    /\ call' = [call EXCEPT ![c] = [step |-> "queued", request |-> r]]
    /\ queue' = Append(queue, c)
    /\ UNCHANGED <<file, staged, mem, writes, loader, acked, crashes>>

\* Mutant: an operation returns without dropping the guard.
LeaveLocked(c) ==
    /\ call' = [call EXCEPT ![c] = Idle]
    /\ UNCHANGED queue

\* The lock holder leaves the operation: the guard is dropped.
Leave(c) ==
    /\ call' = [call EXCEPT ![c] = Idle]
    /\ queue' = Tail(queue)

Room == /\ mem.sequence < MaxLines
        /\ Len(file) + Cardinality(writes) < MaxLines

\* The lock is granted: validate, take the next sequence, start the append.
BeginAppend(c) ==
    /\ queue # <<>> /\ Head(queue) = c
    /\ call[c].step = "queued"
    /\ Accepts(mem, call[c].request)
    /\ Room
    /\ LET m == MutationOf(mem, call[c].request) IN
       /\ call' = [call EXCEPT ![c] = [step |-> "appending", mutation |-> m]]
       /\ writes' = writes \cup {[mutation |-> m, step |-> "start", attached |-> TRUE]}
    /\ UNCHANGED <<file, staged, mem, queue, loader, acked, crashes>>

\* Validation fails, or the bound is reached: the operation returns its error.
Reject(c) ==
    /\ queue # <<>> /\ Head(queue) = c
    /\ call[c].step = "queued"
    /\ ~Accepts(mem, call[c].request) \/ ~Room
    /\ Leave(c)
    /\ UNCHANGED <<file, staged, mem, writes, loader, acked, crashes>>

\* The operating system carries out a step of an append.  A write through a
\* handle opened before the file was replaced goes to the replaced file.
WriteStep(w) ==
    /\ w \in writes
    /\ LET bytes(f) == CASE w.step = "start" -> AddPart(f, w.mutation)
                         [] w.step = "part"  -> AddRest(f, w.mutation)
                         [] w.step = "whole" -> AddNewline(f)
           rest == CASE w.step = "start" -> {[w EXCEPT !.step = "part"]}
                     [] w.step = "part"  -> {[w EXCEPT !.step = "whole"]}
                     [] w.step = "whole" -> {}
       IN  /\ file' = IF w.attached THEN bytes(file) ELSE file
           /\ writes' = (writes \ {w}) \cup rest
    /\ UNCHANGED <<staged, mem, queue, call, loader, acked, crashes>>

Writing(m) == \E w \in writes : w.mutation = m

\* append_file returns Ok; the mutation is applied and the operation returns.
EndAppend(c) ==
    /\ call[c].step = "appending"
    /\ Writing(call[c].mutation) => "unflushed" \in Faults
    /\ IF Valid(mem, call[c].mutation)
       THEN /\ mem' = Apply(mem, call[c].mutation)
            /\ acked' = Append(acked, call[c].mutation)
       ELSE UNCHANGED <<mem, acked>>
    /\ Leave(c)
    /\ UNCHANGED <<file, staged, writes, loader, crashes>>

\* Mutant: the error of append_file is ignored.
FailAppendIgnored(c) ==
    /\ call[c].step = "appending"
    /\ \E w \in writes :
          /\ w.mutation = call[c].mutation
          /\ w.step = "start" \/ "fail" \in Faults
          /\ writes' = writes \ {w}
    /\ mem' = Apply(mem, call[c].mutation)
    /\ acked' = Append(acked, call[c].mutation)
    /\ Leave(c)
    /\ UNCHANGED <<file, staged, loader, crashes>>

\* append_file returns an error: before the first byte, or with the "fail"
\* fault after a part of the line.
FailAppend(c) ==
    /\ call[c].step = "appending"
    /\ \E w \in writes :
          /\ w.mutation = call[c].mutation
          /\ w.step = "start" \/ "fail" \in Faults
          /\ writes' = writes \ {w}
    /\ Leave(c)
    /\ UNCHANGED <<file, staged, mem, loader, acked, crashes>>

\* The caller drops the future: the lock is released, the write goes on.
CancelAppend(c) ==
    /\ "cancel" \in Faults
    /\ call[c].step = "appending"
    /\ Leave(c)
    /\ UNCHANGED <<file, staged, mem, writes, loader, acked, crashes>>

\* Or it drops it while it still waits for the lock.
CancelWait(c) ==
    /\ "cancel" \in Faults
    /\ call[c].step = "queued"
    /\ call' = [call EXCEPT ![c] = Idle]
    /\ \E k \in DOMAIN queue : queue[k] = c /\ queue' = RemoveAt(queue, k)
    /\ UNCHANGED <<file, staged, mem, writes, loader, acked, crashes>>

\* A write no operation waits for any more fails: nobody learns of it.
LoseWrite(w) ==
    /\ w \in writes
    /\ "unflushed" \in Faults
    /\ \A c \in Caller : call[c].step = "appending" => call[c].mutation # w.mutation
    /\ writes' = writes \ {w}
    /\ UNCHANGED <<file, staged, mem, queue, call, loader, acked, crashes>>

-----------------------------------------------------------------------------
\* load reads the whole file.
LoadRead ==
    /\ loader = Idle
    /\ Open => "share" \in Faults
    /\ loader' = [step |-> "replay", lines |-> file, next |-> 1, state |-> InitState]
    /\ UNCHANGED <<file, staged, mem, queue, call, writes, acked, crashes>>

\* Mutant: a torn tail takes the line before with it.
LoadLineShort ==
    /\ loader.step = "replay"
    /\ loader.next \in DOMAIN loader.lines
    /\ LET line == loader.lines[loader.next] IN
       loader' = IF line.form = "whole"
                 THEN [loader EXCEPT !.next = @ + 1, !.state = Apply(@, line.mut)]
                 ELSE [step |-> "stage", state |-> loader.state,
                       lines |-> SubSeq(loader.lines, 1, loader.next - 2)]
    /\ UNCHANGED <<file, staged, mem, queue, call, writes, acked, crashes>>

\* One line of the loop over the file.  A line that does not parse ends the
\* load: a torn tail if it is the last one, else an error; so does a mutation
\* that apply_mutation refuses.
LoadLine ==
    /\ loader.step = "replay"
    /\ loader.next \in DOMAIN loader.lines
    /\ LET line == loader.lines[loader.next] IN
       loader' =
            IF line.form = "whole"
            THEN IF Valid(loader.state, line.mut)
                 THEN [step |-> "replay", lines |-> loader.lines, next |-> loader.next + 1,
                       state |-> Apply(loader.state, line.mut)]
                 ELSE Idle
            ELSE IF loader.next = Len(loader.lines)
                 THEN [step |-> "stage", state |-> loader.state,
                       lines |-> SubSeq(loader.lines, 1, loader.next - 1)]
                 ELSE Idle
    /\ UNCHANGED <<file, staged, mem, queue, call, writes, acked, crashes>>

\* A storage loaded beside an open one is another user's: mem stays the first
\* user's.
Opened(s) == IF Open THEN mem ELSE s

\* Every line was applied: the storage is open, unless the last line still
\* needs its newline.
LoadEnd ==
    /\ loader.step = "replay"
    /\ loader.next > Len(loader.lines)
    /\ IF Terminated(loader.lines)
       THEN mem' = Opened(loader.state) /\ loader' = Idle
       ELSE loader' = [step |-> "newline", state |-> loader.state] /\ UNCHANGED mem
    /\ UNCHANGED <<file, staged, queue, call, writes, acked, crashes>>

\* publish_file_atomically: the valid prefix is written to <path>.tmp ...
StageRepair ==
    /\ loader.step = "stage"
    /\ staged' = [lines |-> loader.lines]
    /\ loader' = [step |-> "publish", state |-> loader.state]
    /\ UNCHANGED <<file, mem, queue, call, writes, acked, crashes>>

\* ... which is then renamed over the file.
PublishRepair ==
    /\ loader.step = "publish"
    /\ file' = staged.lines
    /\ staged' = Absent
    /\ writes' = {[w EXCEPT !.attached = FALSE] : w \in writes}
    /\ mem' = Opened(loader.state)
    /\ loader' = Idle
    /\ UNCHANGED <<queue, call, acked, crashes>>

\* A failed stage or rename leaves the file alone; the load returns the error.
FailRepair ==
    /\ loader.step \in {"stage", "publish", "newline"}
    /\ staged' \in IF loader.step = "stage" THEN {Absent} ELSE {staged}
    /\ loader' = Idle
    /\ UNCHANGED <<file, mem, queue, call, writes, acked, crashes>>

\* A valid last line without its newline gets one, by append_file.
RepairNewline ==
    /\ loader.step = "newline"
    /\ \/ file' = AddNewline(file) /\ UNCHANGED writes
       \/ /\ "unflushed" \in Faults
          /\ writes' = writes \cup {[mutation |-> NoMutation, step |-> "whole", attached |-> TRUE]}
          /\ UNCHANGED file
    /\ mem' = Opened(loader.state)
    /\ loader' = Idle
    /\ UNCHANGED <<staged, queue, call, acked, crashes>>

\* The process dies: its memory and the writes it had not finished are gone.
Crash ==
    /\ crashes < MaxCrashes
    /\ crashes' = crashes + 1
    /\ mem' = Closed
    /\ queue' = <<>>
    /\ call' = [c \in Caller |-> Idle]
    /\ writes' = {}
    /\ loader' = Idle
    /\ UNCHANGED <<file, staged, acked>>

-----------------------------------------------------------------------------
Load == LoadRead \/ LoadLine \/ LoadEnd

Repair == StageRepair \/ PublishRepair \/ RepairNewline

Step(c) == BeginAppend(c) \/ Reject(c) \/ EndAppend(c)

\* What happens while every caller waits for its call.
Attended ==
    \/ \E c \in Caller :
          \/ \E r \in Requests : Enter(c, r)
          \/ Step(c) \/ FailAppend(c)
    \/ \E w \in writes : WriteStep(w) \/ LoseWrite(w)
    \/ Load \/ Repair \/ FailRepair \/ Crash

Next == Attended \/ \E c \in Caller : CancelAppend(c) \/ CancelWait(c)

Spec == Init /\ [][Next]_vars

\* The runtime polls every ready task, the operating system finishes writes, a
\* restarted process loads the session, and its repairs do not fail forever.
Fairness ==
    /\ \A c \in Caller : WF_vars(Step(c))
    /\ WF_vars(\E w \in writes : WriteStep(w))
    /\ WF_vars(Load)
    /\ SF_vars(StageRepair) /\ SF_vars(PublishRepair) /\ SF_vars(RepairNewline)

FairSpec == Init /\ [][Attended]_vars /\ Fairness

-----------------------------------------------------------------------------
(***************************************************************************)
(* What a load of the file would give, computed at once.                   *)
(***************************************************************************)
Torn(f) == f # <<>> /\ f[Len(f)].form # "whole"

ValidPrefix(f) == IF Torn(f) THEN SubSeq(f, 1, Len(f) - 1) ELSE f

Mutations(f) == [i \in DOMAIN f |-> f[i].mut]

Restored(f) ==
    IF \A i \in DOMAIN ValidPrefix(f) : f[i].form = "whole"
    THEN Replay(Mutations(ValidPrefix(f)))
    ELSE Invalid

Appending(c) == call[c].step = "appending"

-----------------------------------------------------------------------------
Call ==
    {Idle} \cup [step : {"queued"}, request : Requests]
           \cup [step : {"appending"}, mutation : SessionMutation]

Write ==
    [mutation : SessionMutation \cup {NoMutation}, step : {"start", "part", "whole"},
     attached : BOOLEAN]

LoaderOK ==
    \/ loader = Idle
    \/ /\ loader.step \in {"replay", "stage", "publish", "newline"}
       /\ IsState(loader.state)
       /\ loader.step \in {"replay", "stage"} => loader.lines \in Seq(Line)
       /\ loader.step = "replay" => loader.next \in 1 .. Len(loader.lines) + 1

\* Variables hold values of their types.
TypeOK ==
    /\ file \in Seq(Line)
    /\ staged # Absent => staged.lines \in Seq(Line)
    /\ mem = Closed \/ IsState(mem)
    /\ queue \in Seq(Caller)
    /\ call \in [Caller -> Call]
    /\ writes \subseteq Write
    /\ LoaderOK
    /\ acked \in Seq(SessionMutation)
    /\ crashes \in Nat

\* write_tail: the callers inside an operation are the queued ones, once each,
\* and only the first of them is past the lock.
LockExclusive ==
    /\ \A i, j \in DOMAIN queue : queue[i] = queue[j] => i = j
    /\ \A c \in Caller : call[c] # Idle <=> \E i \in DOMAIN queue : queue[i] = c
    /\ \A c \in Caller : Appending(c) => c = Head(queue)

\* An operation that wrote its line always succeeds in applying it: between its
\* validation and its apply no other operation changes the state.
AppendNeverRefused == \A c \in Caller : Appending(c) => Valid(mem, call[c].mutation)

\* Whatever crashes, failures and repairs did to the file, a session in memory
\* or being loaded is coherent: the replay refuses what is not.
LoadedCoherent ==
    /\ Open => Coherent(mem)
    /\ loader # Idle => Coherent(loader.state)

\* An operation left open by a crash is still the lane's only one after the
\* restart: the rule that append_record alone enforces survives a replay.
OneOpenAfterRestart == Open => OneOpenOperation(mem)

\* At every instant, a crash now included, every acknowledged mutation is in
\* the file, whole, on the line of its sequence number.
AckedDurable ==
    \A i \in DOMAIN acked :
        LET m == acked[i] IN
        m.seq \in DOMAIN file /\ file[m.seq].form = "whole" /\ file[m.seq].mut = m

\* A load never meets a line it refuses: only the last line can fail to parse,
\* and every other line is a mutation that applies.
LoadNeverRefused ==
    loader.step = "replay" /\ loader.next \in DOMAIN loader.lines =>
        LET line == loader.lines[loader.next] IN
        \/ line.form = "whole" /\ Valid(loader.state, line.mut)
        \/ line.form # "whole" /\ loader.next = Len(loader.lines)

\* The storage implements the abstract session log: an operation commits when
\* the last byte of its line's text is in the file, and neither a crash nor a
\* repair ever takes a committed mutation back.
Log == INSTANCE SessionLog WITH
           log <- Mutations(ValidPrefix(file)), acked <- acked

ImplementsSessionLog == Log!Spec

\* "Drop the unacknowledged partial append": the prefix a torn-tail repair
\* keeps holds every acknowledged mutation.
DropsOnlyUnacknowledged ==
    loader.step = "stage" =>
        \A i \in DOMAIN acked :
            \E k \in DOMAIN loader.lines : loader.lines[k].mut = acked[i]

\* Every operation returns, and a closed session opens again.
CallsReturn == \A c \in Caller : call[c] # Idle ~> call[c] = Idle
Reopens == ~Open ~> Open
CallsSettle == CallsReturn /\ Reopens
=============================================================================
