------------------------- MODULE JsonlStorageProofs -------------------------
(***************************************************************************)
(* What holds of the JSONL storage, for any callers, requests and bounds.  *)
(* Under every fault: types, the exclusive write lock, appends that always *)
(* apply, and coherent sessions.  SafeInv is the inductive invariant;      *)
(* there is one lemma per action.                                          *)
(*                                                                         *)
(* When the environment can only crash (Faults = {}): acknowledged         *)
(* mutations survive, files load, and lanes keep one open operation.  The  *)
(* invariant relates the file to the chain of sessions that replaying it   *)
(* goes through: the session in memory and the one being loaded are        *)
(* members of that chain, and an append in flight is one step beyond the   *)
(* member in memory.                                                       *)
(***************************************************************************)
EXTENDS JsonlStorage, SessionStateProofs, LockQueues, SequenceTheorems

\* No session state is the marker of a closed storage.
LEMMA StateNotClosed == \A s \in State : s # Closed
BY DEF State, Closed

\* The steps of a write keep the file a sequence of lines.
LEMMA FileType ==
    ASSUME NEW f \in Seq(Line), NEW m \in SessionMutation \cup {NoMutation}
    PROVE  /\ m \in SessionMutation => AddPart(f, m) \in Seq(Line)
           /\ m \in SessionMutation => AddRest(f, m) \in Seq(Line)
           /\ AddNewline(f) \in Seq(Line)
<1>1. Junk(TRUE) \in Line /\ Junk(FALSE) \in Line
    BY DEF Junk, Line
<1>2. \A line \in Line : Append(f, line) \in Seq(Line)
    OBVIOUS
<1>3. f # <<>> => \A line \in Line : PutLast(f, line) \in Seq(Line)
  <2>1. f # <<>> => Len(f) \in 1 .. Len(f)
      OBVIOUS
  <2> QED BY <2>1, ExceptSeq DEF PutLast
<1>4. f # <<>> => f[Len(f)] \in Line
    OBVIOUS
<1>5. \A line \in Line : [form |-> line.form, mut |-> line.mut, nl |-> TRUE] \in Line
    BY DEF Line
<1>6. m \in SessionMutation =>
        /\ [form |-> "part", mut |-> m, nl |-> FALSE] \in Line
        /\ [form |-> "whole", mut |-> m, nl |-> FALSE] \in Line
    BY DEF Line
<1>7. m \in SessionMutation => AddPart(f, m) \in Seq(Line)
    BY <1>1, <1>2, <1>3, <1>6 DEF AddPart, Terminated
<1>8. m \in SessionMutation => AddRest(f, m) \in Seq(Line)
    BY <1>1, <1>2, <1>3, <1>6 DEF AddRest, Terminated
<1>9. AddNewline(f) \in Seq(Line)
    BY <1>1, <1>2, <1>3, <1>4, <1>5 DEF AddNewline, Terminated
<1> QED BY <1>7, <1>8, <1>9

\* A closed session has no callers.
ClosedQuiet == ~Open => queue = <<>> /\ \A c \in Caller : call[c] = Idle

\* A repair is published only after it was staged.
PublishStaged == loader.step = "publish" => staged # Absent

\* Only the newline that a load appends is a write without a mutation.
WholeUnlessMutation == \A w \in writes : w.step # "whole" => w.mutation \in SessionMutation

\* The inductive invariant.  The first two conjuncts and the last two are what
\* the others need to be kept.
SafeInv ==
    /\ TypeOK
    /\ WholeUnlessMutation
    /\ LockExclusive
    /\ AppendNeverRefused
    /\ LoadedCoherent
    /\ ClosedQuiet
    /\ PublishStaged

\* The initial state satisfies the invariant.
LEMMA InitSafe == Init => SafeInv
<1> SUFFICES ASSUME Init PROVE SafeInv
    OBVIOUS
<1>1. InitState \in State /\ IsState(InitState)
    BY InitStateType, StateIsState
<1>2. TypeOK
    BY <1>1 DEF Init, TypeOK, LoaderOK, Call, Write
<1>3. LockExclusive /\ AppendNeverRefused /\ ClosedQuiet /\ PublishStaged /\ WholeUnlessMutation
    BY DEF Init, WholeUnlessMutation, LockExclusive, AppendNeverRefused, ClosedQuiet, PublishStaged, Idle, Appending
<1>4. LoadedCoherent
    BY InitCoherent DEF Init, LoadedCoherent
<1> QED BY <1>2, <1>3, <1>4 DEF SafeInv

\* What a caller is doing decides the fields of its call.
LEMMA CallTypes ==
    ASSUME NEW x \in Call
    PROVE  /\ x.step = "idle" <=> x = Idle
           /\ x.step = "queued" => x \in [step : {"queued"}, request : Requests] /\ x.request \in Request
           /\ x.step = "appending" => x \in [step : {"appending"}, mutation : SessionMutation]
           /\ x.step \in {"idle", "queued", "appending"}
BY JsonlAssumption DEF Call, Idle

\* LockExclusive, with the queue seen as a set.
LEMMA LockSets ==
    LockExclusive <=> /\ Distinct(queue)
                      /\ \A c \in Caller : call[c] # Idle <=> c \in Members(queue)
                      /\ \A c \in Caller : Appending(c) => c = Head(queue)
BY DEF LockExclusive, Distinct, Members

\* Releasing write_tail keeps the lock exclusive, and nobody is appending.
LEMMA LeaveKeepsLock ==
    ASSUME TypeOK, LockExclusive, NEW c \in Caller, queue # <<>>, Head(queue) = c, Leave(c)
    PROVE  /\ LockExclusive'
           /\ queue' \in Seq(Caller)
           /\ call' \in [Caller -> Call]
           /\ \A d \in Caller : ~Appending(d)'
<1>1. /\ queue \in Seq(Caller)
      /\ call \in [Caller -> Call]
      /\ queue' = Tail(queue)
      /\ call' = [call EXCEPT ![c] = Idle]
    BY DEF TypeOK, Leave
<1>2. /\ queue' \in Seq(Caller)
      /\ Distinct(queue')
      /\ Members(queue') = Members(queue) \ {c}
    BY <1>1, TailQueue, LockSets
<1>3. Idle \in Call /\ Idle.step # "appending"
    BY DEF Call, Idle
<1>4. \A d \in Caller : call'[d] # Idle <=> d \in Members(queue')
    BY <1>1, <1>2, LockSets
<1>5. \A d \in Caller : ~Appending(d)'
    BY <1>1, <1>3 DEF LockExclusive, Appending
<1>6. call' \in [Caller -> Call]
    BY <1>1, <1>3
<1>7. LockExclusive'
    BY <1>2, <1>4, <1>5 DEF LockExclusive, Distinct, Members
<1> QED BY <1>2, <1>5, <1>6, <1>7

\* An open session is a coherent state.
LEMMA MemState ==
    ASSUME SafeInv, Open
    PROVE  mem \in State /\ Coherent(mem) /\ PointersExist(mem)
BY StateIsState DEF SafeInv, TypeOK, Open, LoadedCoherent, Coherent

\* Queueing for write_tail.
LEMMA EnterSafe ==
    ASSUME SafeInv, NEW c \in Caller, NEW r \in Requests, Enter(c, r)
    PROVE  SafeInv'
<1>1. /\ queue \in Seq(Caller)
      /\ call \in [Caller -> Call]
      /\ queue' = Append(queue, c)
      /\ call' = [call EXCEPT ![c] = [step |-> "queued", request |-> r]]
      /\ call[c] = Idle /\ Open
      /\ UNCHANGED <<file, staged, mem, writes, loader, acked, crashes>>
    BY DEF SafeInv, TypeOK, Enter
<1>2. /\ Distinct(queue)
      /\ \A d \in Caller : call[d] # Idle <=> d \in Members(queue)
      /\ \A d \in Caller : Appending(d) => d = Head(queue)
    BY LockSets DEF SafeInv
<1>3. [step |-> "queued", request |-> r] \in Call /\ [step |-> "queued", request |-> r] # Idle
    BY DEF Call, Idle
<1>4. TypeOK'
    BY <1>1, <1>3 DEF SafeInv, TypeOK, LoaderOK
<1>5. LockExclusive'
  <2>1. c \notin Members(queue)
      BY <1>1, <1>2
  <2>2. Distinct(queue') /\ Members(queue') = Members(queue) \cup {c}
    <3>1. /\ DOMAIN queue' = 1 .. Len(queue) + 1 /\ DOMAIN queue = 1 .. Len(queue)
          /\ Len(queue) \in Nat
          /\ queue'[Len(queue) + 1] = c
          /\ \A i \in 1 .. Len(queue) : queue'[i] = queue[i]
        BY <1>1
    <3>2. Distinct(queue')
        BY <1>2, <2>1, <3>1 DEF Distinct, Members
    <3>3. Members(queue') = Members(queue) \cup {c}
        BY <3>1 DEF Members
    <3> QED BY <3>2, <3>3
  <2>3. \A d \in Caller : call'[d] # Idle <=> d \in Members(queue')
      BY <1>1, <1>2, <1>3, <2>2
  <2>4. ASSUME NEW d \in Caller, Appending(d)'
        PROVE  d = Head(queue')
    <3>1. call[d] = call'[d] /\ d # c /\ call[d] # Idle
        BY <1>1, <2>4 DEF Appending, Idle
    <3>2. d = Head(queue) /\ d \in Members(queue)
        BY <1>2, <2>4, <3>1 DEF Appending
    <3>3. queue # <<>>
        BY <3>2 DEF Members
    <3> QED BY <1>1, <3>2, <3>3
  <2> QED BY <2>2, <2>3, <2>4 DEF LockExclusive, Distinct, Members
<1>6. AppendNeverRefused'
  <2>1. \A d \in Caller : Appending(d)' => Appending(d) /\ call'[d] = call[d]
      BY <1>1 DEF Appending, Idle
  <2> QED BY <1>1, <2>1 DEF SafeInv, AppendNeverRefused
<1>7. LoadedCoherent' /\ ClosedQuiet' /\ PublishStaged' /\ WholeUnlessMutation'
    BY <1>1 DEF SafeInv, LoadedCoherent, ClosedQuiet, PublishStaged, Open, WholeUnlessMutation
<1> QED BY <1>4, <1>5, <1>6, <1>7 DEF SafeInv

\* Validating and starting the append, as the head of the queue.
LEMMA BeginAppendSafe ==
    ASSUME SafeInv, NEW c \in Caller, BeginAppend(c)
    PROVE  SafeInv'
<1> DEFINE m == MutationOf(mem, call[c].request)
<1>1. /\ call \in [Caller -> Call]
      /\ queue # <<>> /\ Head(queue) = c
      /\ call[c].step = "queued"
      /\ Accepts(mem, call[c].request)
      /\ call' = [call EXCEPT ![c] = [step |-> "appending", mutation |-> m]]
      /\ writes' = writes \cup {[mutation |-> m, step |-> "start", attached |-> TRUE]}
      /\ UNCHANGED <<file, staged, mem, queue, loader, acked, crashes>>
    BY DEF SafeInv, TypeOK, BeginAppend
<1>2. call[c].request \in Request /\ call[c] # Idle
    BY <1>1, CallTypes
<1>3. Open
    BY <1>1, <1>2 DEF SafeInv, ClosedQuiet
<1>4. mem \in State /\ PointersExist(mem)
    BY <1>3, MemState
<1>5. m \in SessionMutation /\ Valid(mem, m)
    BY <1>1, <1>2, <1>4, MutationOfType, AcceptedIsValid
<1> HIDE DEF m
<1>6. [step |-> "appending", mutation |-> m] \in Call /\ [step |-> "appending", mutation |-> m] # Idle
    BY <1>5 DEF Call, Idle
<1>7. TypeOK'
  <2>1. [mutation |-> m, step |-> "start", attached |-> TRUE] \in Write
      BY <1>5 DEF Write
  <2>2. writes' \subseteq Write
      BY <1>1, <2>1 DEF SafeInv, TypeOK
  <2> QED BY <1>1, <1>6, <2>2 DEF SafeInv, TypeOK, LoaderOK
<1>11. WholeUnlessMutation'
    BY <1>1, <1>5 DEF SafeInv, WholeUnlessMutation
<1>8. LockExclusive'
    BY <1>1, <1>2, <1>6 DEF SafeInv, LockExclusive, Appending
<1>9. AppendNeverRefused'
    BY <1>1, <1>5 DEF SafeInv, AppendNeverRefused, Appending
<1>10. LoadedCoherent' /\ ClosedQuiet' /\ PublishStaged'
    BY <1>1, <1>3 DEF SafeInv, LoadedCoherent, ClosedQuiet, PublishStaged, Open
<1> QED BY <1>7, <1>8, <1>9, <1>10, <1>11 DEF SafeInv

\* The operations that end without applying: rejection, failure, cancellation.
LEMMA LeaveSafe ==
    ASSUME SafeInv, NEW c \in Caller, call[c] # Idle, Head(queue) = c, Leave(c),
           UNCHANGED <<file, staged, mem, loader, acked, crashes>>, writes' \subseteq writes
    PROVE  SafeInv'
<1>1. Open /\ queue # <<>>
  <2>1. c \in Members(queue)
      BY LockSets DEF SafeInv
  <2> QED BY <2>1 DEF SafeInv, ClosedQuiet, Members
<1>2. /\ LockExclusive'
      /\ queue' \in Seq(Caller)
      /\ call' \in [Caller -> Call]
      /\ \A d \in Caller : ~Appending(d)'
    BY <1>1, LeaveKeepsLock DEF SafeInv
<1>3. TypeOK'
    BY <1>2 DEF SafeInv, TypeOK, LoaderOK
<1>4. AppendNeverRefused'
    BY <1>2 DEF AppendNeverRefused
<1>5. LoadedCoherent' /\ ClosedQuiet' /\ PublishStaged' /\ WholeUnlessMutation'
    BY <1>1 DEF SafeInv, LoadedCoherent, ClosedQuiet, PublishStaged, Open, WholeUnlessMutation
<1> QED BY <1>2, <1>3, <1>4, <1>5 DEF SafeInv

\* A caller that gives up waiting leaves the queue: the holder stays first.
LEMMA CancelWaitSafe ==
    ASSUME SafeInv, NEW c \in Caller, CancelWait(c)
    PROVE  SafeInv'
<1>1. /\ call[c].step = "queued" /\ call[c] # Idle
      /\ call' = [call EXCEPT ![c] = Idle]
      /\ call \in [Caller -> Call] /\ queue \in Seq(Caller)
      /\ UNCHANGED <<file, staged, mem, writes, loader, acked, crashes>>
    BY DEF CancelWait, SafeInv, TypeOK, Idle
<1>2. PICK k \in DOMAIN queue :
        /\ queue[k] = c
        /\ queue' \in Seq(Caller) /\ Distinct(queue')
        /\ Members(queue') = Members(queue) \ {queue[k]}
        /\ k # 1 => Head(queue') = Head(queue)
    BY <1>1, RemoveQueue, LockSets DEF CancelWait, SafeInv
<1>3. Open
    BY <1>2 DEF SafeInv, ClosedQuiet
<1>4. /\ Idle \in Call /\ Idle.step # "appending"
      /\ call' \in [Caller -> Call]
    BY <1>1 DEF Call, Idle
<1>5. \A d \in Caller : Appending(d)' => Appending(d) /\ call'[d] = call[d] /\ d # c
    BY <1>1, <1>4 DEF Appending
<1>6. \A d \in Caller : call'[d] # Idle <=> d \in Members(queue')
    BY <1>1, <1>2, LockSets DEF SafeInv
<1>7. ASSUME NEW d \in Caller, Appending(d)'
      PROVE  d = Head(queue')
  <2>1. d = Head(queue) /\ d # c
      BY <1>5, <1>7, LockSets DEF SafeInv
  <2>2. k # 1
      BY <1>1, <1>2, <2>1
  <2> QED BY <1>2, <2>1, <2>2
<1>8. LockExclusive'
    BY <1>2, <1>6, <1>7 DEF LockExclusive, Distinct, Members
<1>9. TypeOK'
    BY <1>1, <1>2, <1>4 DEF SafeInv, TypeOK, LoaderOK
<1>10. AppendNeverRefused'
    BY <1>1, <1>5 DEF SafeInv, AppendNeverRefused, Appending
<1>11. LoadedCoherent' /\ ClosedQuiet' /\ PublishStaged' /\ WholeUnlessMutation'
    BY <1>1, <1>3 DEF SafeInv, LoadedCoherent, ClosedQuiet, PublishStaged, Open, WholeUnlessMutation
<1> QED BY <1>8, <1>9, <1>10, <1>11 DEF SafeInv

\* A caller that is appending holds the lock of an open session.
LEMMA AppenderHoldsLock ==
    ASSUME SafeInv, NEW c \in Caller, call[c].step = "appending"
    PROVE  /\ call[c] # Idle /\ Head(queue) = c /\ queue # <<>> /\ Open
           /\ call[c].mutation \in SessionMutation
           /\ Valid(mem, call[c].mutation)
<1>1. call[c] # Idle
    BY DEF Idle
<1>2. Head(queue) = c /\ c \in Members(queue)
    BY <1>1, LockSets DEF SafeInv, Appending
<1>3. Open /\ queue # <<>>
    BY <1>1, <1>2 DEF SafeInv, ClosedQuiet, Members
<1>4. call[c].mutation \in SessionMutation
  <2>1. call[c] \in Call
      BY DEF SafeInv, TypeOK
  <2> QED BY <2>1, CallTypes
<1>5. Valid(mem, call[c].mutation)
    BY DEF SafeInv, AppendNeverRefused, Appending
<1> QED BY <1>1, <1>2, <1>3, <1>4, <1>5

\* Applying the appended mutation.
LEMMA EndAppendSafe ==
    ASSUME SafeInv, NEW c \in Caller, EndAppend(c)
    PROVE  SafeInv'
<1> DEFINE m == call[c].mutation
<1>1. /\ call[c].step = "appending"
      /\ Leave(c)
      /\ UNCHANGED <<file, staged, writes, loader, crashes>>
    BY DEF EndAppend
<1>2. /\ Head(queue) = c /\ queue # <<>> /\ Open
      /\ m \in SessionMutation /\ Valid(mem, m)
    BY <1>1, AppenderHoldsLock
<1>3. mem' = Apply(mem, m) /\ acked' = Append(acked, m)
    BY <1>2 DEF EndAppend
<1> HIDE DEF m
<1>4. mem \in State /\ Coherent(mem)
    BY <1>2, MemState
<1>5. mem' \in State /\ Coherent(mem') /\ mem' # Closed
    BY <1>2, <1>3, <1>4, ApplyType, ApplyKeepsCoherent, StateNotClosed
<1>6. /\ LockExclusive'
      /\ queue' \in Seq(Caller)
      /\ call' \in [Caller -> Call]
      /\ \A d \in Caller : ~Appending(d)'
    BY <1>1, <1>2, LeaveKeepsLock DEF SafeInv
<1>7. TypeOK'
  <2>1. acked' \in Seq(SessionMutation)
      BY <1>2, <1>3 DEF SafeInv, TypeOK
  <2>2. IsState(mem')
      BY <1>5, StateIsState
  <2> QED BY <1>1, <1>6, <2>1, <2>2 DEF SafeInv, TypeOK, LoaderOK
<1>8. AppendNeverRefused'
    BY <1>6 DEF AppendNeverRefused
<1>9. LoadedCoherent' /\ ClosedQuiet' /\ PublishStaged' /\ WholeUnlessMutation'
    BY <1>1, <1>5 DEF SafeInv, LoadedCoherent, ClosedQuiet, PublishStaged, Open, WholeUnlessMutation
<1> QED BY <1>6, <1>7, <1>8, <1>9 DEF SafeInv

\* Steps of the file system and of a load leave the callers alone.
CallersAlone == UNCHANGED <<queue, call, acked, crashes>>

\* A step that no caller takes keeps what is said of callers.
LEMMA CallersAloneSafe ==
    ASSUME SafeInv, CallersAlone, Open => mem' = mem
    PROVE  LockExclusive' /\ AppendNeverRefused' /\ ClosedQuiet'
<1>1. LockExclusive'
    BY DEF SafeInv, CallersAlone, LockExclusive, Appending
<1>2. AppendNeverRefused'
  <2>1. SUFFICES ASSUME NEW c \in Caller, call[c].step = "appending"
                 PROVE  Valid(mem', call[c].mutation)
      BY DEF AppendNeverRefused, Appending, CallersAlone
  <2>2. Open /\ Valid(mem, call[c].mutation)
      BY <2>1, AppenderHoldsLock
  <2> QED BY <2>2
<1>3. ClosedQuiet'
    BY DEF SafeInv, CallersAlone, ClosedQuiet, Open
<1> QED BY <1>1, <1>2, <1>3

\* The operating system writes.
LEMMA WriteStepSafe ==
    ASSUME SafeInv, NEW w \in writes, WriteStep(w)
    PROVE  SafeInv'
<1>1. /\ file \in Seq(Line) /\ writes \subseteq Write /\ w \in Write
      /\ UNCHANGED <<staged, mem, queue, call, loader, acked, crashes>>
    BY DEF SafeInv, TypeOK, WriteStep
<1>2. w.mutation \in SessionMutation \cup {NoMutation} /\ w.step \in {"start", "part", "whole"}
    BY <1>1 DEF Write
<1>3. w.step # "whole" => w.mutation \in SessionMutation
    BY DEF SafeInv, WholeUnlessMutation
<1>4. file' \in Seq(Line)
    BY <1>1, <1>2, <1>3, FileType DEF WriteStep
<1>5. writes' \subseteq Write /\ WholeUnlessMutation'
  <2>1. [w EXCEPT !.step = "part"] \in Write /\ [w EXCEPT !.step = "whole"] \in Write
      BY <1>1 DEF Write
  <2>2. CASE w.step = "start"
    <3>1. writes' = (writes \ {w}) \cup {[w EXCEPT !.step = "part"]}
        BY <2>2 DEF WriteStep
    <3>2. [w EXCEPT !.step = "part"].mutation = w.mutation
        BY <1>1 DEF Write
    <3> QED BY <1>1, <1>3, <2>1, <2>2, <3>1, <3>2 DEF SafeInv, WholeUnlessMutation
  <2>3. CASE w.step = "part"
    <3>1. writes' = (writes \ {w}) \cup {[w EXCEPT !.step = "whole"]}
        BY <2>3 DEF WriteStep
    <3>2. [w EXCEPT !.step = "whole"].step = "whole"
        BY <1>1 DEF Write
    <3> QED BY <1>1, <2>1, <3>1, <3>2 DEF SafeInv, WholeUnlessMutation
  <2>4. CASE w.step = "whole"
    <3>1. writes' = writes \ {w}
        BY <2>4 DEF WriteStep
    <3> QED BY <1>1, <3>1 DEF SafeInv, WholeUnlessMutation
  <2> QED BY <1>2, <2>2, <2>3, <2>4
<1>6. TypeOK'
    BY <1>1, <1>4, <1>5 DEF SafeInv, TypeOK, LoaderOK
<1>7. LoadedCoherent' /\ PublishStaged'
    BY <1>1 DEF SafeInv, LoadedCoherent, PublishStaged, Open
<1>8. LockExclusive' /\ AppendNeverRefused' /\ ClosedQuiet'
    BY <1>1, <1>7, CallersAloneSafe DEF CallersAlone
<1> QED BY <1>5, <1>6, <1>7, <1>8 DEF SafeInv

\* A write that nobody awaits is lost.
LEMMA LoseWriteSafe ==
    ASSUME SafeInv, NEW w \in writes, LoseWrite(w)
    PROVE  SafeInv'
<1>1. /\ writes' = writes \ {w}
      /\ UNCHANGED <<file, staged, mem, queue, call, loader, acked, crashes>>
    BY DEF LoseWrite
<1>2. TypeOK' /\ WholeUnlessMutation'
    BY <1>1 DEF SafeInv, TypeOK, LoaderOK, WholeUnlessMutation
<1>3. LoadedCoherent' /\ PublishStaged'
    BY <1>1 DEF SafeInv, LoadedCoherent, PublishStaged, Open
<1>4. LockExclusive' /\ AppendNeverRefused' /\ ClosedQuiet'
    BY <1>1, <1>3, CallersAloneSafe DEF CallersAlone
<1> QED BY <1>2, <1>3, <1>4 DEF SafeInv

\* What the loader is doing decides its fields, and what it has read is coherent.
LEMMA LoaderTypes ==
    ASSUME SafeInv
    PROVE  /\ loader.step # "idle" => /\ loader # Idle
                                      /\ loader.state \in State /\ Coherent(loader.state)
                                      /\ loader.state # Closed
           /\ loader.step \in {"replay", "stage"} => loader.lines \in Seq(Line)
           /\ loader.step = "replay" => loader.next \in 1 .. Len(loader.lines) + 1
           /\ Idle.step = "idle"
BY StateIsState, StateNotClosed DEF SafeInv, TypeOK, LoaderOK, LoadedCoherent, Idle

\* load reads the file.
LEMMA LoadReadSafe ==
    ASSUME SafeInv, LoadRead
    PROVE  SafeInv'
<1>1. /\ loader' = [step |-> "replay", lines |-> file, next |-> 1, state |-> InitState]
      /\ file \in Seq(Line)
      /\ UNCHANGED <<file, staged, mem, queue, call, writes, acked, crashes>>
    BY DEF LoadRead, SafeInv, TypeOK
<1>2. LoaderOK'
    BY <1>1, InitStateType, StateIsState DEF LoaderOK
<1>3. TypeOK' /\ WholeUnlessMutation' /\ PublishStaged'
    BY <1>1, <1>2 DEF SafeInv, TypeOK, WholeUnlessMutation, PublishStaged
<1>4. LoadedCoherent'
    BY <1>1, InitCoherent DEF SafeInv, LoadedCoherent, Open
<1>5. LockExclusive' /\ AppendNeverRefused' /\ ClosedQuiet'
    BY <1>1, CallersAloneSafe DEF CallersAlone
<1> QED BY <1>3, <1>4, <1>5 DEF SafeInv

\* load replays a line, or ends.
LEMMA LoadLineSafe ==
    ASSUME SafeInv, LoadLine
    PROVE  SafeInv'
<1> DEFINE line == loader.lines[loader.next]
<1>1. /\ loader.step = "replay" /\ loader.next \in DOMAIN loader.lines
      /\ UNCHANGED <<file, staged, mem, queue, call, writes, acked, crashes>>
    BY DEF LoadLine
<1>2. /\ loader.lines \in Seq(Line) /\ loader.next \in 1 .. Len(loader.lines)
      /\ line \in Line
      /\ loader.state \in State /\ Coherent(loader.state)
    BY <1>1, LoaderTypes
<1>3. LoaderOK' /\ PublishStaged' /\ (loader' # Idle => Coherent(loader'.state))
  <2>1. CASE line.form = "whole" /\ Valid(loader.state, line.mut)
    <3>1. line.mut \in SessionMutation
        BY <1>2, <2>1 DEF Line
    <3>2. IsState(Apply(loader.state, line.mut)) /\ Coherent(Apply(loader.state, line.mut))
        BY <1>2, <2>1, <3>1, ApplyType, ApplyKeepsCoherent, StateIsState
    <3>3. loader' = [step |-> "replay", lines |-> loader.lines, next |-> loader.next + 1,
                     state |-> Apply(loader.state, line.mut)]
        BY <2>1 DEF LoadLine
    <3> QED BY <1>2, <3>2, <3>3 DEF LoaderOK, PublishStaged
  <2>2. CASE line.form # "whole" /\ loader.next = Len(loader.lines)
    <3>1. loader' = [step |-> "stage", state |-> loader.state,
                     lines |-> SubSeq(loader.lines, 1, loader.next - 1)]
        BY <2>2 DEF LoadLine
    <3>2. SubSeq(loader.lines, 1, loader.next - 1) \in Seq(Line)
        BY <1>2
    <3> QED BY <1>2, <3>1, <3>2, StateIsState DEF LoaderOK, PublishStaged
  <2>3. CASE loader' = Idle
    BY <2>3 DEF LoaderOK, PublishStaged, Idle
  <2> QED BY <2>1, <2>2, <2>3 DEF LoadLine
<1>4. TypeOK' /\ WholeUnlessMutation' /\ LoadedCoherent'
    BY <1>1, <1>3 DEF SafeInv, TypeOK, WholeUnlessMutation, LoadedCoherent, Open
<1>5. LockExclusive' /\ AppendNeverRefused' /\ ClosedQuiet'
    BY <1>1, CallersAloneSafe DEF CallersAlone
<1> QED BY <1>3, <1>4, <1>5 DEF SafeInv

\* The steps that may open the session, and those that end a load.
LEMMA LoaderStepSafe ==
    ASSUME SafeInv, CallersAlone, loader.step # "idle",
           mem' = mem \/ mem' = Opened(loader.state),
           file' \in Seq(Line), staged' # Absent => staged'.lines \in Seq(Line),
           writes' \subseteq Write, WholeUnlessMutation',
           LoaderOK', PublishStaged', loader' # Idle => Coherent(loader'.state)
    PROVE  SafeInv'
<1>1. IsState(loader.state) /\ Coherent(loader.state) /\ loader.state # Closed
    BY LoaderTypes, StateIsState
<1>2. Open => mem' = mem
    BY DEF Opened
<1>3. TypeOK'
    BY <1>1 DEF SafeInv, TypeOK, CallersAlone, Opened
<1>4. LoadedCoherent'
    BY <1>1 DEF SafeInv, LoadedCoherent, Opened, Open
<1>5. LockExclusive' /\ AppendNeverRefused' /\ ClosedQuiet'
    BY <1>2, CallersAloneSafe
<1> QED BY <1>3, <1>4, <1>5 DEF SafeInv

\* load has replayed every line.
LEMMA LoadEndSafe ==
    ASSUME SafeInv, LoadEnd
    PROVE  SafeInv'
<1>1. /\ loader.step = "replay"
      /\ UNCHANGED <<file, staged, queue, call, writes, acked, crashes>>
    BY DEF LoadEnd
<1>2. mem' = mem \/ mem' = Opened(loader.state)
    BY DEF LoadEnd
<1>3. loader' \in {Idle, [step |-> "newline", state |-> loader.state]}
    BY DEF LoadEnd
<1>4. LoaderOK' /\ PublishStaged' /\ (loader' # Idle => Coherent(loader'.state))
    BY <1>1, <1>3, LoaderTypes, StateIsState DEF LoaderOK, PublishStaged, Idle
<1>5. /\ file' \in Seq(Line) /\ (staged' # Absent => staged'.lines \in Seq(Line))
      /\ writes' \subseteq Write /\ WholeUnlessMutation'
    BY <1>1 DEF SafeInv, TypeOK, WholeUnlessMutation
<1> QED BY <1>1, <1>2, <1>4, <1>5, LoaderStepSafe DEF CallersAlone

\* The valid prefix is written to the temporary file.
LEMMA StageRepairSafe ==
    ASSUME SafeInv, StageRepair
    PROVE  SafeInv'
<1>1. /\ loader.step = "stage"
      /\ staged' = [lines |-> loader.lines]
      /\ loader' = [step |-> "publish", state |-> loader.state]
      /\ UNCHANGED <<file, mem, queue, call, writes, acked, crashes>>
    BY DEF StageRepair
<1>2. loader.lines \in Seq(Line) /\ IsState(loader.state) /\ Coherent(loader.state)
    BY <1>1, LoaderTypes, StateIsState
<1>3. staged' # Absent
    BY <1>1 DEF Absent
<1>4. LoaderOK' /\ PublishStaged' /\ Coherent(loader'.state)
    BY <1>1, <1>2, <1>3 DEF LoaderOK, PublishStaged
<1>5. /\ file' \in Seq(Line) /\ staged'.lines \in Seq(Line)
      /\ writes' \subseteq Write /\ WholeUnlessMutation'
    BY <1>1, <1>2 DEF SafeInv, TypeOK, WholeUnlessMutation
<1> QED BY <1>1, <1>4, <1>5, LoaderStepSafe DEF CallersAlone

\* A loader that is done satisfies what is said of loaders.
LEMMA IdleLoader ==
    ASSUME loader' = Idle
    PROVE  LoaderOK' /\ PublishStaged' /\ (loader' # Idle => Coherent(loader'.state))
BY DEF LoaderOK, PublishStaged, Idle

\* The temporary file replaces the file.
LEMMA PublishRepairSafe ==
    ASSUME SafeInv, PublishRepair
    PROVE  SafeInv'
<1>1. /\ loader.step = "publish"
      /\ file' = staged.lines /\ staged' = Absent /\ loader' = Idle
      /\ writes' = {[w EXCEPT !.attached = FALSE] : w \in writes}
      /\ mem' = Opened(loader.state)
      /\ UNCHANGED <<queue, call, acked, crashes>>
    BY DEF PublishRepair
<1>2. staged.lines \in Seq(Line)
    BY <1>1 DEF SafeInv, TypeOK, PublishStaged
<1>3. writes' \subseteq Write /\ WholeUnlessMutation'
  <2>1. SUFFICES ASSUME NEW w \in writes
                 PROVE  LET v == [w EXCEPT !.attached = FALSE] IN
                        v \in Write /\ v.step = w.step /\ v.mutation = w.mutation
      BY <1>1 DEF SafeInv, WholeUnlessMutation
  <2>2. w \in Write
      BY DEF SafeInv, TypeOK
  <2> QED BY <2>2 DEF Write
<1> QED BY <1>1, <1>2, <1>3, IdleLoader, LoaderStepSafe DEF CallersAlone

\* A repair fails.
LEMMA FailRepairSafe ==
    ASSUME SafeInv, FailRepair
    PROVE  SafeInv'
<1>1. /\ loader.step \in {"stage", "publish", "newline"}
      /\ staged' \in {Absent, staged} /\ loader' = Idle
      /\ UNCHANGED <<file, mem, queue, call, writes, acked, crashes>>
    BY DEF FailRepair
<1>2. /\ file' \in Seq(Line) /\ (staged' # Absent => staged'.lines \in Seq(Line))
      /\ writes' \subseteq Write /\ WholeUnlessMutation'
    BY <1>1 DEF SafeInv, TypeOK, WholeUnlessMutation
<1> QED BY <1>1, <1>2, IdleLoader, LoaderStepSafe DEF CallersAlone

\* The missing newline is appended.
LEMMA RepairNewlineSafe ==
    ASSUME SafeInv, RepairNewline
    PROVE  SafeInv'
<1>1. /\ loader.step = "newline" /\ loader' = Idle
      /\ mem' = Opened(loader.state)
      /\ UNCHANGED <<staged, queue, call, acked, crashes>>
    BY DEF RepairNewline
<1>2. file' \in Seq(Line)
    BY FileType DEF SafeInv, TypeOK, RepairNewline
<1>3. writes' \subseteq Write /\ WholeUnlessMutation'
  <2>1. [mutation |-> NoMutation, step |-> "whole", attached |-> TRUE] \in Write
      BY DEF Write
  <2>2. CASE UNCHANGED writes
      BY <2>2 DEF SafeInv, TypeOK, WholeUnlessMutation
  <2>3. CASE writes' = writes \cup {[mutation |-> NoMutation, step |-> "whole", attached |-> TRUE]}
    <3>1. writes' \subseteq Write
        BY <2>1, <2>3 DEF SafeInv, TypeOK
    <3>2. ASSUME NEW w \in writes', w.step # "whole"
          PROVE  w.mutation \in SessionMutation
      <4>1. w \in writes
          BY <2>3, <3>2
      <4> QED BY <3>2, <4>1 DEF SafeInv, WholeUnlessMutation
    <3> QED BY <3>1, <3>2 DEF WholeUnlessMutation
  <2> QED BY <2>2, <2>3 DEF RepairNewline
<1>4. staged' # Absent => staged'.lines \in Seq(Line)
    BY <1>1 DEF SafeInv, TypeOK
<1> QED BY <1>1, <1>2, <1>3, <1>4, IdleLoader, LoaderStepSafe DEF CallersAlone

\* The process dies.
LEMMA CrashSafe ==
    ASSUME SafeInv, Crash
    PROVE  SafeInv'
<1>1. /\ mem' = Closed /\ queue' = <<>> /\ call' = [c \in Caller |-> Idle]
      /\ writes' = {} /\ loader' = Idle /\ crashes' = crashes + 1
      /\ UNCHANGED <<file, staged, acked>>
    BY DEF Crash
<1>2. TypeOK'
    BY <1>1 DEF SafeInv, TypeOK, LoaderOK, Call, Write
<1>3. LockExclusive' /\ AppendNeverRefused' /\ ClosedQuiet' /\ PublishStaged'
      /\ WholeUnlessMutation' /\ LoadedCoherent'
    BY <1>1 DEF LockExclusive, AppendNeverRefused, Appending, ClosedQuiet, PublishStaged,
                WholeUnlessMutation, LoadedCoherent, Open, Idle
<1> QED BY <1>2, <1>3 DEF SafeInv

\* The invariant is inductive.
LEMMA NextSafe ==
    ASSUME SafeInv, [Next]_vars
    PROVE  SafeInv'
<1>1. ASSUME NEW c \in Caller, NEW r \in Requests, Enter(c, r)
      PROVE  SafeInv'
    BY <1>1, EnterSafe
<1>2. ASSUME NEW c \in Caller, BeginAppend(c)
      PROVE  SafeInv'
    BY <1>2, BeginAppendSafe
<1>3. ASSUME NEW c \in Caller, Reject(c)
      PROVE  SafeInv'
  <2>1. call[c] # Idle
      BY <1>3 DEF Reject, Idle
  <2> QED BY <1>3, <2>1, LeaveSafe DEF Reject
<1>4. ASSUME NEW c \in Caller, EndAppend(c)
      PROVE  SafeInv'
    BY <1>4, EndAppendSafe
<1>5. ASSUME NEW c \in Caller, FailAppend(c)
      PROVE  SafeInv'
  <2>1. call[c] # Idle /\ Head(queue) = c
      BY <1>5, AppenderHoldsLock DEF FailAppend
  <2> QED BY <1>5, <2>1, LeaveSafe DEF FailAppend
<1>6. ASSUME NEW c \in Caller, CancelAppend(c)
      PROVE  SafeInv'
  <2>1. call[c] # Idle /\ Head(queue) = c
      BY <1>6, AppenderHoldsLock DEF CancelAppend
  <2> QED BY <1>6, <2>1, LeaveSafe DEF CancelAppend
<1>7. ASSUME NEW w \in writes, WriteStep(w) \/ LoseWrite(w)
      PROVE  SafeInv'
    BY <1>7, WriteStepSafe, LoseWriteSafe
<1>8. CASE Load
    BY <1>8, LoadReadSafe, LoadLineSafe, LoadEndSafe DEF Load
<1>9. CASE Repair
    BY <1>9, StageRepairSafe, PublishRepairSafe, RepairNewlineSafe DEF Repair
<1>10. CASE FailRepair
    BY <1>10, FailRepairSafe
<1>11. CASE Crash
    BY <1>11, CrashSafe
<1>12. CASE UNCHANGED vars
    BY <1>12 DEF vars, SafeInv, TypeOK, LoaderOK, WholeUnlessMutation, LockExclusive, Appending,
                 AppendNeverRefused, LoadedCoherent, Open, ClosedQuiet, PublishStaged
<1>13. ASSUME NEW c \in Caller, CancelWait(c)
      PROVE  SafeInv'
    BY <1>13, CancelWaitSafe
<1> QED BY <1>1, <1>2, <1>3, <1>4, <1>5, <1>6, <1>7, <1>8, <1>9, <1>10, <1>11, <1>12, <1>13 DEF Next, Attended, Step

\* SafeInv holds in every reachable state, whatever Faults is.
LEMMA AlwaysSafe == Spec => []SafeInv
<1>1. Init => SafeInv
    BY InitSafe
<1>2. SafeInv /\ [Next]_vars => SafeInv'
    BY NextSafe
<1> QED BY <1>1, <1>2, PTL DEF Spec

\* Variables hold values of their types, whatever the environment does.
THEOREM TypeCorrect == Spec => []TypeOK
<1>1. SafeInv => TypeOK
    BY DEF SafeInv
<1> QED BY <1>1, AlwaysSafe, PTL

\* write_tail is exclusive: the callers inside an operation are the queued ones,
\* and only the first of them is past the lock, whatever the environment does.
THEOREM LockIsExclusive == Spec => []LockExclusive
<1>1. SafeInv => LockExclusive
    BY DEF SafeInv
<1> QED BY <1>1, AlwaysSafe, PTL

\* An operation whose line was written always succeeds in applying it, even
\* when appends fail, are cancelled or share their file.
THEOREM AppendsApply == Spec => []AppendNeverRefused
<1>1. SafeInv => AppendNeverRefused
    BY DEF SafeInv
<1> QED BY <1>1, AlwaysSafe, PTL

\* A session in memory or being loaded is coherent, whatever crashes, failures,
\* cancellations, repairs and second storages did to its file.
THEOREM LoadsAreCoherent == Spec => []LoadedCoherent
<1>1. SafeInv => LoadedCoherent
    BY DEF SafeInv
<1> QED BY <1>1, AlwaysSafe, PTL

(***************************** Crashes only ********************************)

\* Every line but the last is a whole line with its newline; the last can also
\* be a whole line without it, or a part of one.
Shape(f) ==
    \A i \in 1 .. Len(f) :
        \/ f[i].form = "whole" /\ (i < Len(f) => f[i].nl)
        \/ f[i].form = "part" /\ i = Len(f) /\ ~f[i].nl

\* The lines that a load keeps.
Size(f) == IF Torn(f) THEN Len(f) - 1 ELSE Len(f)

\* st is the sequence of sessions that replaying f goes through.
Chain(st, f) ==
    /\ st[0] = InitState
    /\ \A i \in 0 .. Size(f) :
          st[i] \in State /\ st[i].sequence = i /\ WellFormed(st[i])
    /\ \A i \in 1 .. Size(f) :
          /\ Valid(st[i - 1], f[i].mut)
          /\ st[i] = Apply(st[i - 1], f[i].mut)

\* The two forms of a line, and a write on its way.
PartLine(m)      == [form |-> "part", mut |-> m, nl |-> FALSE]
WholeLine(m, nl) == [form |-> "whole", mut |-> m, nl |-> nl]
PendingWrite(m, step) == [mutation |-> m, step |-> step, attached |-> TRUE]

\* No append is in progress: the file f is the n mutations of the session.
Settled(ws, f, n) == ws = {} /\ Len(f) = n /\ Terminated(f) /\ ~Torn(f)

\* m is being appended to the n mutations of the session.
InFlight(ws, f, m, n) ==
    \/ ws = {PendingWrite(m, "start")} /\ Len(f) = n /\ Terminated(f) /\ ~Torn(f)
    \/ ws = {PendingWrite(m, "part")} /\ Len(f) = n + 1 /\ f[n + 1] = PartLine(m)
    \/ ws = {PendingWrite(m, "whole")} /\ Len(f) = n + 1 /\ f[n + 1] = WholeLine(m, FALSE)
    \/ ws = {} /\ Len(f) = n + 1 /\ f[n + 1] = WholeLine(m, TRUE)

\* An open session is the chain's member for the mutations applied so far, and
\* the file is settled there but for the append in flight.
MirrorsFile(st) ==
    Open => /\ loader = Idle
            /\ mem.sequence \in 0 .. Size(file)
            /\ mem = st[mem.sequence]
            /\ (\A c \in Caller : ~Appending(c)) => Settled(writes, file, mem.sequence)
            /\ \A c \in Caller : Appending(c) =>
                  /\ InFlight(writes, file, call[c].mutation, mem.sequence)
                  /\ OpensAlone(mem, call[c].mutation)

\* While the session is closed nothing writes, and a load works on the file
\* as it is.
LoaderOnFile(st) ==
    ~Open =>
        /\ writes = {}
        /\ loader.step = "replay" => /\ loader.lines = file
                                     /\ loader.next - 1 \in 0 .. Size(file)
                                     /\ loader.state = st[loader.next - 1]
        /\ loader.step = "stage" => /\ Torn(file)
                                    /\ loader.lines = SubSeq(file, 1, Len(file) - 1)
                                    /\ loader.state = st[Len(file) - 1]
        /\ loader.step = "publish" => /\ Torn(file)
                                      /\ staged.lines = SubSeq(file, 1, Len(file) - 1)
                                      /\ loader.state = st[Len(file) - 1]
        /\ loader.step = "newline" => /\ ~Torn(file) /\ ~Terminated(file)
                                      /\ loader.state = st[Len(file)]

\* The inductive invariant, next to SafeInv.
Durable(st) ==
    /\ Shape(file)
    /\ Chain(st, file)
    /\ MirrorsFile(st)
    /\ LoaderOnFile(st)
    /\ AckedDurable

DurableInv == \E st : Durable(st)

\* The initial state satisfies the invariant, with the chain of no mutations.
LEMMA InitDurable == Init => DurableInv
<1> SUFFICES ASSUME Init PROVE DurableInv
    OBVIOUS
<1> DEFINE st == [i \in {0} |-> InitState]
<1>1. InitState \in State /\ InitState.sequence = 0
    BY InitStateType DEF InitState
<1>2. Len(file) = 0 /\ ~Torn(file) /\ Terminated(file) /\ Size(file) = 0 /\ DOMAIN acked = {}
    BY DEF Init, Torn, Terminated, Size
<1>3. Shape(file) /\ AckedDurable
    BY <1>2 DEF Shape, AckedDurable
<1>4. Chain(st, file)
    BY <1>1, <1>2, InitWellFormed DEF Chain
<1>5. mem = InitState /\ mem # Closed /\ st[0] = InitState
    BY <1>1, StateNotClosed DEF Init
<1>6. \A c \in Caller : ~Appending(c)
    BY DEF Init, Appending, Idle
<1>7. MirrorsFile(st)
    BY <1>1, <1>2, <1>5, <1>6 DEF Init, MirrorsFile, Settled
<1>8. LoaderOnFile(st)
    BY <1>5 DEF LoaderOnFile, Open
<1> QED BY <1>3, <1>4, <1>7, <1>8 DEF Durable, DurableInv

\* g is f with one more line, or with another last line.
Extended(g, f, line) ==
    /\ Len(g) = Len(f) + 1 /\ g[Len(f) + 1] = line
    /\ \A i \in 1 .. Len(f) : g[i] = f[i]
Replaced(g, f, line) ==
    /\ Len(g) = Len(f) /\ g[Len(f)] = line
    /\ \A i \in 1 .. Len(f) - 1 : g[i] = f[i]

\* PutLast replaces the last line.
LEMMA PutLastReplaces ==
    ASSUME NEW f \in Seq(Line), f # <<>>, NEW line \in Line
    PROVE  Replaced(PutLast(f, line), f, line)
<1>1. Len(f) \in 1 .. Len(f)
    OBVIOUS
<1> DEFINE g == PutLast(f, line)
<1>2. /\ Len(g) = Len(f)
      /\ \A j \in 1 .. Len(f) : g[j] = IF j = Len(f) THEN line ELSE f[j]
    BY <1>1, ExceptSeq DEF PutLast
<1> HIDE DEF g
<1>3. g[Len(f)] = line
    BY <1>1, <1>2
<1>4. \A i \in 1 .. Len(f) - 1 : g[i] = f[i]
    BY <1>1, <1>2
<1>5. Replaced(g, f, line)
    BY <1>2, <1>3, <1>4 DEF Replaced
<1> QED BY <1>5 DEF g

\* A part of a line and a whole line are lines.
LEMMA LineTypes ==
    ASSUME NEW m \in SessionMutation
    PROVE  PartLine(m) \in Line /\ WholeLine(m, TRUE) \in Line /\ WholeLine(m, FALSE) \in Line
BY DEF PartLine, WholeLine, Line

\* The first two steps of a write, at the end of a file that is ready for them.
LEMMA FileSteps ==
    ASSUME NEW f \in Seq(Line), NEW m \in SessionMutation
    PROVE  /\ Terminated(f) => Extended(AddPart(f, m), f, PartLine(m))
           /\ f # <<>> /\ f[Len(f)] = PartLine(m) =>
                Replaced(AddRest(f, m), f, WholeLine(m, FALSE))
<1>1. ASSUME Terminated(f)
      PROVE  Extended(AddPart(f, m), f, PartLine(m))
  <2>1. AddPart(f, m) = Append(f, PartLine(m))
      BY <1>1 DEF AddPart, PartLine
  <2> QED BY <2>1, LineTypes DEF Extended
<1>2. ASSUME f # <<>>, f[Len(f)] = PartLine(m)
      PROVE  Replaced(AddRest(f, m), f, WholeLine(m, FALSE))
  <2>1. ~Terminated(f)
      BY <1>2 DEF Terminated, PartLine
  <2>2. AddRest(f, m) = PutLast(f, WholeLine(m, FALSE))
      BY <1>2, <2>1 DEF AddRest, PartLine, WholeLine
  <2> QED BY <1>2, <2>2, LineTypes, PutLastReplaces
<1> QED BY <1>1, <1>2

\* The last step of a write, and the newline a load appends.
LEMMA NewlineStep ==
    ASSUME NEW f \in Seq(Line), f # <<>>, ~f[Len(f)].nl, f[Len(f)].form = "whole"
    PROVE  /\ Replaced(AddNewline(f), f, WholeLine(f[Len(f)].mut, TRUE))
           /\ f[Len(f)].mut \in SessionMutation
<1>1. f[Len(f)] \in Line
    OBVIOUS
<1>2. f[Len(f)].mut \in SessionMutation
    BY <1>1 DEF Line
<1>4. AddNewline(f) = PutLast(f, WholeLine(f[Len(f)].mut, TRUE))
    BY DEF AddNewline, Terminated, WholeLine
<1> QED BY <1>2, <1>4, LineTypes, PutLastReplaces

\* The kept lines are the whole ones.
LEMMA SizeFacts ==
    ASSUME NEW f \in Seq(Line), Shape(f)
    PROVE  /\ Size(f) \in 0 .. Len(f) /\ Len(f) \in Nat
           /\ \A i \in 1 .. Size(f) : f[i].form = "whole"
           /\ \A i \in 1 .. Len(f) : f[i].form = "whole" => i <= Size(f)
           /\ Torn(f) <=> f # <<>> /\ f[Len(f)].form = "part"
<1>1. f = <<>> <=> Len(f) = 0
    OBVIOUS
<1> QED BY <1>1 DEF Shape, Size, Torn

\* Replaying does not look beyond the kept lines.
LEMMA ChainDepends ==
    ASSUME NEW f, NEW g, NEW st, Chain(st, f), Size(g) = Size(f),
           \A i \in 1 .. Size(f) : g[i].mut = f[i].mut
    PROVE  Chain(st, g)
BY DEF Chain

\* The mutations of the kept lines.
KeptLog(f) == [i \in 1 .. Size(f) |-> f[i].mut]

\* Files that keep the same mutations on as many lines keep the same log.
LEMMA KeepsLog ==
    ASSUME NEW f, NEW g, Size(g) = Size(f), \A i \in 1 .. Size(f) : g[i].mut = f[i].mut
    PROVE  KeptLog(g) = KeptLog(f)
BY DEF KeptLog

\* One more kept line is one more mutation.
LEMMA LogGrows ==
    ASSUME NEW f \in Seq(Line), NEW g, NEW n \in Nat, n <= Len(f), Size(f) = n, Size(g) = n + 1,
           \A i \in 1 .. n : g[i].mut = f[i].mut
    PROVE  KeptLog(g) = Append(KeptLog(f), g[n + 1].mut)
<1> DEFINE k == KeptLog(f)
<1>1. k = [i \in 1 .. n |-> f[i].mut]
    BY DEF KeptLog
<1>2. \A i \in 1 .. n : f[i] \in Line
    OBVIOUS
<1>3. \A line \in Line : line.mut \in SessionMutation \cup {NoMutation}
    BY DEF Line
<1>4. k \in Seq(SessionMutation \cup {NoMutation}) /\ Len(k) = n
    BY <1>1, <1>2, <1>3
<1> HIDE DEF k
<1> DEFINE a == Append(k, g[n + 1].mut)
<1>5. a = [i \in 1 .. n + 1 |-> IF i = n + 1 THEN g[n + 1].mut ELSE k[i]]
    BY <1>4
<1>6. \A i \in 1 .. n + 1 : (IF i = n + 1 THEN g[n + 1].mut ELSE k[i]) = g[i].mut
    BY <1>1
<1> QED BY <1>5, <1>6 DEF KeptLog, k

\* A line that was acknowledged stays as it is while whole lines do.
LEMMA AckedKept ==
    ASSUME AckedDurable, acked' = acked,
           \A i \in DOMAIN file : file[i].form = "whole" =>
               i \in DOMAIN file' /\ file'[i].form = "whole" /\ file'[i].mut = file[i].mut
    PROVE  AckedDurable'
BY DEF AckedDurable

\* At most one caller is appending: the head of the queue.
LEMMA OneAppends ==
    ASSUME SafeInv, NEW c \in Caller, call[c] # Idle, Head(queue) = c
    PROVE  \A d \in Caller : Appending(d) => d = c
BY DEF SafeInv, LockExclusive

\* A step that moves neither the file nor an append.
LEMMA SameFile ==
    ASSUME NEW st, Durable(st),
           UNCHANGED <<file, staged, mem, writes, loader, acked>>,
           \A c \in Caller : Appending(c)' <=> Appending(c),
           \A c \in Caller : Appending(c) => call'[c] = call[c]
    PROVE  Durable(st)'
<1>1. Shape(file)' /\ Chain(st, file)' /\ AckedDurable'
    BY DEF Durable, AckedDurable
<1>2. LoaderOnFile(st)'
    BY DEF Durable, LoaderOnFile, Open
<1>3. MirrorsFile(st)'
  <2>1. SUFFICES ASSUME Open
                 PROVE  /\ (\A c \in Caller : ~Appending(c)') => Settled(writes', file', mem'.sequence)
                        /\ \A c \in Caller : Appending(c)' =>
                              /\ InFlight(writes', file', call'[c].mutation, mem'.sequence)
                              /\ OpensAlone(mem', call'[c].mutation)
      BY DEF Durable, MirrorsFile, Open
  <2>2. (\A c \in Caller : ~Appending(c)') => Settled(writes', file', mem'.sequence)
      BY <2>1 DEF Durable, MirrorsFile, Settled
  <2>3. ASSUME NEW c \in Caller, Appending(c)'
        PROVE  /\ InFlight(writes', file', call'[c].mutation, mem'.sequence)
               /\ OpensAlone(mem', call'[c].mutation)
    <3>1. /\ InFlight(writes, file, call[c].mutation, mem.sequence)
          /\ OpensAlone(mem, call[c].mutation) /\ call'[c] = call[c]
        BY <2>1, <2>3 DEF Durable, MirrorsFile
    <3> QED BY <3>1
  <2> QED BY <2>2, <2>3
<1> QED BY <1>1, <1>2, <1>3 DEF Durable

\* Queueing touches no file.
LEMMA EnterDurable ==
    ASSUME SafeInv, NEW st, Durable(st), NEW c \in Caller, NEW r \in Requests, Enter(c, r)
    PROVE  Durable(st)'
<1>1. /\ call \in [Caller -> Call] /\ call[c] = Idle
      /\ call' = [call EXCEPT ![c] = [step |-> "queued", request |-> r]]
    BY DEF SafeInv, TypeOK, Enter
<1>2. \A d \in Caller : (Appending(d)' <=> Appending(d)) /\ (Appending(d) => call'[d] = call[d])
    BY <1>1 DEF Appending, Idle
<1> QED BY <1>2, SameFile DEF Enter

\* Nor does a rejected operation.
LEMMA RejectDurable ==
    ASSUME SafeInv, NEW st, Durable(st), NEW c \in Caller, Reject(c)
    PROVE  Durable(st)'
<1>1. call[c] # Idle /\ ~Appending(c) /\ Head(queue) = c /\ queue # <<>> /\ Leave(c)
    BY DEF Reject, Idle, Appending
<1>2. \A d \in Caller : ~Appending(d)
    BY <1>1, OneAppends
<1>3. \A d \in Caller : ~Appending(d)'
    BY <1>1, LeaveKeepsLock DEF SafeInv
<1> QED BY <1>2, <1>3, SameFile DEF Reject

\* The append starts at the end of a settled file.
LEMMA BeginAppendDurable ==
    ASSUME SafeInv, NEW st, Durable(st), NEW c \in Caller, BeginAppend(c)
    PROVE  Durable(st)'
<1> DEFINE m == MutationOf(mem, call[c].request)
<1>1. /\ call \in [Caller -> Call]
      /\ Head(queue) = c
      /\ call[c].step = "queued"
      /\ Accepts(mem, call[c].request)
      /\ call' = [call EXCEPT ![c] = [step |-> "appending", mutation |-> m]]
      /\ writes' = writes \cup {PendingWrite(m, "start")}
      /\ UNCHANGED <<file, staged, mem, loader, acked>>
    BY DEF SafeInv, TypeOK, BeginAppend, PendingWrite
<1>2. call[c] # Idle /\ ~Appending(c)
    BY <1>1 DEF Idle, Appending
<1>3. Open
    BY <1>2 DEF SafeInv, ClosedQuiet
<1>11. OpensAlone(mem, m)
  <2>1. call[c].request \in Request
      BY <1>1, CallTypes
  <2>2. mem \in State /\ PointersExist(mem)
      BY <1>3, MemState
  <2> QED BY <1>1, <2>1, <2>2, AcceptedIsValid
<1> HIDE DEF m
<1>4. Settled(writes, file, mem.sequence)
    BY <1>1, <1>2, <1>3, OneAppends DEF Durable, MirrorsFile
<1>5. InFlight(writes', file', m, mem'.sequence)
    BY <1>1, <1>4 DEF Settled, InFlight
<1>6. \A d \in Caller : Appending(d)' <=> d = c
    BY <1>1, <1>2, OneAppends DEF Appending
<1>7. call'[c].mutation = m
    BY <1>1
<1>8. MirrorsFile(st)'
    BY <1>1, <1>3, <1>5, <1>6, <1>7, <1>11 DEF Durable, MirrorsFile, Open
<1>9. Shape(file)' /\ Chain(st, file)' /\ AckedDurable'
    BY <1>1 DEF Durable, AckedDurable
<1>10. LoaderOnFile(st)'
    BY <1>1, <1>3 DEF LoaderOnFile, Open
<1> QED BY <1>8, <1>9, <1>10 DEF Durable

\* An append that fails before its first byte leaves the file settled.
LEMMA FailAppendDurable ==
    ASSUME Faults = {}, SafeInv, NEW st, Durable(st), NEW c \in Caller, FailAppend(c)
    PROVE  Durable(st)'
<1>1. /\ Leave(c) /\ call[c].step = "appending"
      /\ UNCHANGED <<file, staged, mem, loader, acked>>
    BY DEF FailAppend
<1>2. PICK w \in writes : w.step = "start" /\ writes' = writes \ {w}
    BY DEF FailAppend
<1>3. /\ Head(queue) = c /\ queue # <<>> /\ Open /\ Appending(c)
    BY <1>1, AppenderHoldsLock DEF Appending
<1>4. InFlight(writes, file, call[c].mutation, mem.sequence)
    BY <1>3 DEF Durable, MirrorsFile
<1>5. /\ writes = {PendingWrite(call[c].mutation, "start")}
      /\ Len(file) = mem.sequence /\ Terminated(file) /\ ~Torn(file)
  <2>1. w = PendingWrite(call[c].mutation, "start") \/ writes # {PendingWrite(call[c].mutation, "start")}
      OBVIOUS
  <2>2. /\ writes # {PendingWrite(call[c].mutation, "part")}
        /\ writes # {PendingWrite(call[c].mutation, "whole")}
        /\ writes # {}
      BY <1>2 DEF PendingWrite
  <2> QED BY <1>4, <2>1, <2>2 DEF InFlight
<1>6. Settled(writes', file', mem'.sequence)
    BY <1>1, <1>2, <1>5 DEF Settled
<1>7. \A d \in Caller : ~Appending(d)'
    BY <1>1, <1>3, LeaveKeepsLock DEF SafeInv
<1>8. MirrorsFile(st)'
    BY <1>1, <1>3, <1>6, <1>7 DEF Durable, MirrorsFile, Open
<1>9. Shape(file)' /\ Chain(st, file)' /\ AckedDurable'
    BY <1>1 DEF Durable, AckedDurable
<1>10. LoaderOnFile(st)'
    BY <1>1, <1>3 DEF LoaderOnFile, Open
<1> QED BY <1>8, <1>9, <1>10 DEF Durable

\* append_file returned: the line is whole, so the mutation may be acknowledged.
LEMMA EndAppendDurable ==
    ASSUME Faults = {}, SafeInv, NEW st, Durable(st), NEW c \in Caller, EndAppend(c)
    PROVE  /\ Durable(st)'
           /\ acked' = Append(acked, call[c].mutation)
           /\ call[c].mutation.seq = mem.sequence + 1 /\ mem.sequence \in Nat
           /\ Size(file) = mem.sequence + 1 /\ file[mem.sequence + 1].mut = call[c].mutation
           /\ \A d \in Caller : ~Appending(d)'
<1> DEFINE m == call[c].mutation
           n == mem.sequence
<1>1. /\ Leave(c) /\ Appending(c) /\ ~Writing(m)
      /\ UNCHANGED <<file, staged, writes, loader>>
    BY DEF EndAppend, Appending
<1>2. /\ Head(queue) = c /\ queue # <<>> /\ Open
      /\ m \in SessionMutation /\ Valid(mem, m)
    BY <1>1, AppenderHoldsLock DEF Appending
<1>3. mem' = Apply(mem, m) /\ acked' = Append(acked, m)
    BY <1>2 DEF EndAppend
<1>4. /\ loader = Idle /\ mem = st[n] /\ InFlight(writes, file, m, n)
      /\ Shape(file) /\ Chain(st, file) /\ AckedDurable
    BY <1>1, <1>2 DEF Durable, MirrorsFile
<1>5. writes = {} /\ Len(file) = n + 1 /\ file[n + 1] = WholeLine(m, TRUE)
  <2>1. \A step : PendingWrite(m, step) \notin writes
      BY <1>1 DEF PendingWrite, Writing
  <2> QED BY <1>4, <2>1 DEF InFlight
<1>6. m.seq = n + 1 /\ n \in Nat
  <2>1. mem \in State
      BY <1>2, MemState
  <2> QED BY <1>2, <2>1 DEF Valid, NextSequence, State
<1> HIDE DEF m, n
<1>7. file \in Seq(Line) /\ acked \in Seq(SessionMutation) /\ file # <<>>
    BY <1>5, <1>6 DEF SafeInv, TypeOK
<1>8. ~Torn(file) /\ Terminated(file) /\ Size(file) = n + 1 /\ file[n + 1].form = "whole" /\ file[n + 1].mut = m
    BY <1>5 DEF Torn, Terminated, Size, WholeLine
<1>9. /\ st[n + 1] = Apply(st[n], m)
      /\ st[n + 1] \in State /\ st[n + 1].sequence = n + 1
    BY <1>4, <1>6, <1>8 DEF Chain
<1>10. mem' = st[n + 1] /\ mem'.sequence = n + 1 /\ Open'
    BY <1>3, <1>4, <1>9, StateNotClosed DEF Open
<1>11. \A d \in Caller : ~Appending(d)'
    BY <1>1, <1>2, LeaveKeepsLock DEF SafeInv
<1>12. Settled(writes', file', mem'.sequence)
    BY <1>1, <1>5, <1>8, <1>10 DEF Settled
<1>13. MirrorsFile(st)'
    BY <1>1, <1>4, <1>6, <1>8, <1>10, <1>11, <1>12 DEF MirrorsFile
<1>14. AckedDurable'
  <2>1. DOMAIN acked' = DOMAIN acked \cup {Len(acked) + 1} /\ acked'[Len(acked) + 1] = m
        /\ \A i \in DOMAIN acked : acked'[i] = acked[i]
      BY <1>3, <1>7
  <2>2. n + 1 \in DOMAIN file
      BY <1>5, <1>6, <1>7
  <2> QED BY <1>1, <1>4, <1>6, <1>8, <2>1, <2>2 DEF AckedDurable
<1>15. Shape(file)' /\ Chain(st, file)' /\ LoaderOnFile(st)'
    BY <1>1, <1>4, <1>10 DEF LoaderOnFile
<1>16. Durable(st)'
    BY <1>13, <1>14, <1>15 DEF Durable
<1> QED BY <1>3, <1>6, <1>8, <1>11, <1>16 DEF m, n

\* Replaying goes on from a chain by one more valid line.
LEMMA ChainExtends ==
    ASSUME NEW f, NEW g, NEW st, Chain(st, f), NEW n \in Nat, Size(f) = n, Size(g) = n + 1,
           \A i \in 1 .. n : g[i].mut = f[i].mut,
           NEW m \in SessionMutation, g[n + 1].mut = m, Valid(st[n], m), OpensAlone(st[n], m)
    PROVE  \E st2 : Chain(st2, g) /\ \A i \in 0 .. n : st2[i] = st[i]
<1> DEFINE s2 == Apply(st[n], m)
<1>1. st[n] \in State /\ st[n].sequence = n /\ WellFormed(st[n])
    BY DEF Chain
<1>2. s2 \in State /\ s2.sequence = n + 1
    BY <1>1, ApplyType, AppliedLog DEF Valid, NextSequence
<1>7. WellFormed(s2)
    BY <1>1, ApplyKeepsWellFormed
<1> HIDE DEF s2
<1> DEFINE st2 == [i \in 0 .. n + 1 |-> IF i = n + 1 THEN s2 ELSE st[i]]
<1>3. st2[n + 1] = s2 /\ \A i \in 0 .. n : st2[i] = st[i]
    OBVIOUS
<1> HIDE DEF st2
<1>4. \A i \in 0 .. n + 1 : st2[i] \in State /\ st2[i].sequence = i /\ WellFormed(st2[i])
    BY <1>2, <1>3, <1>7 DEF Chain
<1>5. ASSUME NEW i \in 1 .. n + 1
      PROVE  Valid(st2[i - 1], g[i].mut) /\ st2[i] = Apply(st2[i - 1], g[i].mut)
  <2>1. CASE i = n + 1
      BY <1>3, <2>1 DEF s2
  <2>2. CASE i \in 1 .. n
      BY <1>3, <2>2 DEF Chain
  <2> QED BY <2>1, <2>2
<1>6. Chain(st2, g)
    BY <1>3, <1>4, <1>5 DEF Chain
<1> QED BY <1>3, <1>6

\* The append that a write belongs to.
LEMMA WriterInFlight ==
    ASSUME Faults = {}, SafeInv, NEW st, Durable(st), NEW w \in writes
    PROVE  /\ Open /\ loader = Idle /\ mem = st[mem.sequence] /\ mem.sequence \in Nat
           /\ \E c \in Caller :
                 /\ Appending(c)
                 /\ \A d \in Caller : Appending(d) => d = c
                 /\ call[c].mutation = w.mutation
                 /\ w.mutation \in SessionMutation
                 /\ Valid(mem, w.mutation) /\ OpensAlone(mem, w.mutation)
                 /\ w.step \in {"start", "part", "whole"}
                 /\ writes = {PendingWrite(w.mutation, w.step)} /\ w = PendingWrite(w.mutation, w.step)
                 /\ InFlight(writes, file, w.mutation, mem.sequence)
<1>1. Open
    BY DEF Durable, LoaderOnFile
<1>2. mem \in State /\ mem.sequence \in Nat
    BY <1>1, MemState DEF State
<1>3. PICK c \in Caller : Appending(c)
  <2>1. ~Settled(writes, file, mem.sequence)
      BY DEF Settled
  <2> QED BY <1>1, <2>1 DEF Durable, MirrorsFile
<1> DEFINE m == call[c].mutation
<1>4. /\ m \in SessionMutation /\ Valid(mem, m)
      /\ \A d \in Caller : Appending(d) => d = c
    BY <1>3, AppenderHoldsLock, OneAppends DEF Appending
<1>5. InFlight(writes, file, m, mem.sequence) /\ OpensAlone(mem, m)
    BY <1>1, <1>3 DEF Durable, MirrorsFile
<1>6. PICK step \in {"start", "part", "whole"} : writes = {PendingWrite(m, step)}
    BY <1>5 DEF InFlight
<1>7. w = PendingWrite(m, step) /\ w.mutation = m /\ w.step = step
    BY <1>6 DEF PendingWrite
<1>8. loader = Idle /\ mem = st[mem.sequence]
    BY <1>1 DEF Durable, MirrorsFile
<1> QED BY <1>1, <1>2, <1>3, <1>4, <1>5, <1>6, <1>7, <1>8

\* A part of a line at the end of a settled file leaves what a load keeps.
LEMMA PartShape ==
    ASSUME NEW f \in Seq(Line), Shape(f), Terminated(f), ~Torn(f),
           NEW m, NEW g \in Seq(Line), Extended(g, f, PartLine(m))
    PROVE  Shape(g) /\ Size(g) = Len(f) /\ Size(f) = Len(f)
<1>1. Len(f) \in Nat /\ (f = <<>> <=> Len(f) = 0) /\ Len(g) = Len(f) + 1 /\ g # <<>>
      /\ g[Len(f) + 1] = PartLine(m) /\ \A i \in 1 .. Len(f) : g[i] = f[i]
    BY DEF Extended
<1>2. \A i \in 1 .. Len(f) : f[i].form = "whole" /\ f[i].nl
    BY <1>1 DEF Shape, Terminated, Torn
<1>3. g[Len(g)].form = "part" /\ ~g[Len(g)].nl
    BY <1>1 DEF PartLine
<1>4. Shape(g)
    BY <1>1, <1>2, <1>3 DEF Shape
<1> QED BY <1>1, <1>3, <1>4 DEF Size, Torn

\* Completing the last line keeps all lines.
LEMMA WholeShape ==
    ASSUME NEW f \in Seq(Line), Shape(f), f # <<>>,
           NEW m, NEW nl \in BOOLEAN, NEW g \in Seq(Line), Replaced(g, f, WholeLine(m, nl))
    PROVE  Shape(g) /\ ~Torn(g) /\ Size(g) = Len(f) /\ (nl => Terminated(g))
<1>1. Len(f) \in Nat \ {0} /\ Len(g) = Len(f)
      /\ g[Len(f)] = WholeLine(m, nl) /\ \A i \in 1 .. Len(f) - 1 : g[i] = f[i]
    BY DEF Replaced
<1>2. \A i \in 1 .. Len(f) - 1 : f[i].form = "whole" /\ f[i].nl
    BY <1>1 DEF Shape
<1>3. g[Len(g)].form = "whole" /\ g[Len(g)].nl = nl
    BY <1>1 DEF WholeLine
<1>4. Shape(g)
    BY <1>1, <1>2, <1>3 DEF Shape
<1> QED BY <1>1, <1>3, <1>4 DEF Size, Torn, Terminated

\* A step of the append in flight: st2 is the chain of the grown file.
LEMMA AppendGoesOn ==
    ASSUME SafeInv, NEW st, Durable(st), Open, NEW st2, NEW c \in Caller, Appending(c),
           \A d \in Caller : Appending(d) => d = c,
           UNCHANGED <<mem, call, loader, acked>>,
           Shape(file'), Chain(st2, file'), mem.sequence \in 0 .. Size(file'),
           mem = st2[mem.sequence],
           InFlight(writes', file', call[c].mutation, mem.sequence),
           AckedDurable'
    PROVE  DurableInv'
<1>1. MirrorsFile(st2)'
    BY DEF Durable, MirrorsFile, Open, Appending
<1>2. LoaderOnFile(st2)'
    BY DEF LoaderOnFile, Open
<1>3. Durable(st2)'
    BY <1>1, <1>2 DEF Durable
<1> QED BY <1>3 DEF DurableInv

\* What the file f holds when the write of m is at a step.
AtStep(f, m, n, step) ==
    /\ step = "start" => Len(f) = n /\ Terminated(f) /\ ~Torn(f)
    /\ step = "part"  => Len(f) = n + 1 /\ f[n + 1] = PartLine(m)
    /\ step = "whole" => Len(f) = n + 1 /\ f[n + 1] = WholeLine(m, FALSE)

\* The step of the one write in flight tells what the file holds.
LEMMA StepInFlight ==
    ASSUME NEW f, NEW m, NEW n, NEW step \in {"start", "part", "whole"},
           InFlight({PendingWrite(m, step)}, f, m, n)
    PROVE  AtStep(f, m, n, step)
<1>1. \A s : {PendingWrite(m, step)} = {PendingWrite(m, s)} => s = step
  <2>1. \A s : PendingWrite(m, s).step = s
      BY DEF PendingWrite
  <2>2. \A x, y : {x} = {y} => x = y
      OBVIOUS
  <2> QED BY <2>1, <2>2
<1>2. {PendingWrite(m, step)} # {}
    OBVIOUS
<1> QED BY <1>1, <1>2 DEF InFlight, AtStep

\* The write goes on to its next step.
LEMMA StepTaken ==
    ASSUME NEW m, NEW w \in Write, NEW step, w = PendingWrite(m, step)
    PROVE  /\ [w EXCEPT !.step = "part"] = PendingWrite(m, "part")
           /\ [w EXCEPT !.step = "whole"] = PendingWrite(m, "whole")
<1>1. \A r \in Write :
        /\ [r EXCEPT !.step = "part"]
             = [mutation |-> r.mutation, step |-> "part", attached |-> r.attached]
        /\ [r EXCEPT !.step = "whole"]
             = [mutation |-> r.mutation, step |-> "whole", attached |-> r.attached]
    BY DEF Write
<1>2. w.mutation = m /\ w.attached = TRUE
    BY DEF PendingWrite
<1> QED BY <1>1, <1>2 DEF PendingWrite

\* The log a load would keep stays, or the mutation of the append in flight is added.
LogStep ==
    \/ KeptLog(file') = KeptLog(file)
    \/ /\ Open /\ Size(file) = mem.sequence
       /\ \E c \in Caller : /\ Appending(c)
                           /\ KeptLog(file') = Append(KeptLog(file), call[c].mutation)

\* Each step of a write leads to the next shape of the file; completing the text
\* extends the chain by the mutation.
LEMMA WriteStepDurable ==
    ASSUME Faults = {}, SafeInv, NEW st, Durable(st), NEW w \in writes, WriteStep(w)
    PROVE  DurableInv' /\ LogStep
<1> DEFINE n == mem.sequence
           m == w.mutation
<1>1. Open /\ mem = st[n] /\ n \in Nat
    BY WriterInFlight
<1>2. PICK c \in Caller :
          /\ Appending(c)
          /\ \A d \in Caller : Appending(d) => d = c
          /\ call[c].mutation = m
          /\ m \in SessionMutation
          /\ Valid(mem, m) /\ OpensAlone(mem, m)
          /\ w.step \in {"start", "part", "whole"}
          /\ writes = {PendingWrite(m, w.step)} /\ w = PendingWrite(m, w.step)
          /\ InFlight(writes, file, m, n)
    BY WriterInFlight
<1> HIDE DEF n, m
<1>3. /\ file \in Seq(Line) /\ Shape(file) /\ Chain(st, file) /\ AckedDurable
      /\ n \in 0 .. Size(file)
    BY <1>1 DEF Durable, MirrorsFile, SafeInv, TypeOK, n
<1>4. UNCHANGED <<mem, call, loader, acked>> /\ w.attached
    BY <1>2 DEF WriteStep, PendingWrite
<1>5. file' \in Seq(Line)
    BY WriteStepSafe DEF SafeInv, TypeOK
<1>9. w \in Write
    BY DEF SafeInv, TypeOK
<1>10. AtStep(file, m, n, w.step)
  <2>1. InFlight({PendingWrite(m, w.step)}, file, m, n)
      BY <1>2
  <2> QED BY <1>2, <2>1, StepInFlight
<1>6. CASE w.step = "start"
  <2>1. Len(file) = n /\ Terminated(file) /\ ~Torn(file)
      BY <1>10, <1>6 DEF AtStep
  <2>2. file' = AddPart(file, m) /\ writes' = {PendingWrite(m, "part")}
    <3>1. [w EXCEPT !.step = "part"] = PendingWrite(m, "part")
        BY <1>2, <1>9, StepTaken
    <3> QED BY <1>2, <1>4, <1>6, <3>1 DEF WriteStep, m
  <2>3. Extended(file', file, PartLine(m))
      BY <1>2, <1>3, <2>1, <2>2, FileSteps
  <2>4. Shape(file') /\ Size(file') = n /\ Size(file) = n
      BY <1>3, <1>5, <2>1, <2>3, PartShape
  <2>5. \A i \in 1 .. n : file'[i] = file[i]
      BY <2>1, <2>3 DEF Extended
  <2>6. Chain(st, file')
      BY <1>3, <2>4, <2>5, ChainDepends
  <2>7. InFlight(writes', file', m, n)
      BY <2>1, <2>2, <2>3 DEF InFlight, Extended
  <2>8. AckedDurable'
    <3>1. DOMAIN file = 1 .. n /\ DOMAIN file' = 1 .. n + 1
        BY <1>3, <1>5, <2>1, <2>3 DEF Extended
    <3>2. \A i \in DOMAIN file : i \in DOMAIN file' /\ file'[i] = file[i]
        BY <1>1, <2>5, <3>1
    <3> QED BY <1>3, <1>4, <3>2, AckedKept
  <2>9. DurableInv'
      BY <1>1, <1>2, <1>4, <2>4, <2>6, <2>7, <2>8, AppendGoesOn DEF n, m
  <2>10. \A i \in 1 .. Size(file) : file'[i].mut = file[i].mut
      BY <2>4, <2>5
  <2>11. KeptLog(file') = KeptLog(file)
      BY <2>4, <2>10, KeepsLog
  <2> QED BY <2>9, <2>11 DEF LogStep
<1>7. CASE w.step = "part"
  <2>1. Len(file) = n + 1 /\ file[n + 1] = PartLine(m) /\ file # <<>>
    <3>1. Len(file) = n + 1 /\ file[n + 1] = PartLine(m)
        BY <1>10, <1>7 DEF AtStep
    <3> QED BY <1>1, <1>3, <3>1
  <2>2. file' = AddRest(file, m) /\ writes' = {PendingWrite(m, "whole")}
    <3>1. [w EXCEPT !.step = "whole"] = PendingWrite(m, "whole")
        BY <1>2, <1>9, StepTaken
    <3> QED BY <1>2, <1>4, <1>7, <3>1 DEF WriteStep, m
  <2>3. Replaced(file', file, WholeLine(m, FALSE))
      BY <1>2, <1>3, <2>1, <2>2, FileSteps
  <2>4. Shape(file') /\ Size(file') = n + 1
      BY <1>3, <1>5, <2>1, <2>3, WholeShape
  <2>5. Size(file) = n
    <3>1. file[Len(file)].form = "part"
        BY <2>1 DEF PartLine
    <3> QED BY <1>1, <2>1, <3>1 DEF Size, Torn
  <2>6. (\A i \in 1 .. n : file'[i] = file[i]) /\ file'[n + 1] = WholeLine(m, FALSE)
      BY <1>1, <2>1, <2>3 DEF Replaced
  <2>7. PICK st2 : Chain(st2, file') /\ \A i \in 0 .. n : st2[i] = st[i]
    <3>1. file'[n + 1].mut = m
        BY <2>6 DEF WholeLine
    <3>2. \A i \in 1 .. n : file'[i].mut = file[i].mut
        BY <2>6
    <3>3. Valid(st[n], m) /\ OpensAlone(st[n], m) /\ m \in SessionMutation
        BY <1>1, <1>2
    <3> QED BY <1>1, <1>3, <2>4, <2>5, <3>1, <3>2, <3>3, ChainExtends
  <2>8. InFlight(writes', file', m, n)
      BY <2>1, <2>2, <2>3, <2>6 DEF InFlight, Replaced
  <2>9. AckedDurable'
    <3>1. DOMAIN file = 1 .. n + 1 /\ DOMAIN file' = 1 .. n + 1
        BY <1>3, <1>5, <2>1, <2>3 DEF Replaced
    <3>2. file[n + 1].form # "whole"
        BY <2>1 DEF PartLine
    <3> QED BY <1>1, <1>3, <1>4, <2>6, <3>1, <3>2, AckedKept
  <2>10. n \in 0 .. Size(file') /\ mem = st2[n]
      BY <1>1, <2>4, <2>7
  <2>11. DurableInv'
      BY <1>1, <1>2, <1>4, <2>4, <2>7, <2>8, <2>9, <2>10, AppendGoesOn DEF n, m
  <2>12. KeptLog(file') = Append(KeptLog(file), m)
    <3>1. file'[n + 1].mut = m
        BY <2>6 DEF WholeLine
    <3>2. \A i \in 1 .. n : file'[i].mut = file[i].mut
        BY <2>6
    <3>3. n <= Len(file)
        BY <1>1, <2>1
    <3> QED BY <1>1, <1>3, <2>4, <2>5, <3>1, <3>2, <3>3, LogGrows
  <2> QED BY <1>1, <1>2, <2>5, <2>11, <2>12 DEF LogStep, n
<1>8. CASE w.step = "whole"
  <2>1. Len(file) = n + 1 /\ file[n + 1] = WholeLine(m, FALSE) /\ file # <<>>
    <3>1. Len(file) = n + 1 /\ file[n + 1] = WholeLine(m, FALSE)
        BY <1>10, <1>8 DEF AtStep
    <3> QED BY <1>1, <1>3, <3>1
  <2>2. file[n + 1].form = "whole" /\ ~file[n + 1].nl /\ file[n + 1].mut = m
      BY <2>1 DEF WholeLine
  <2>3. file' = AddNewline(file) /\ writes' = {}
      BY <1>2, <1>4, <1>8 DEF WriteStep
  <2>4. Replaced(file', file, WholeLine(m, TRUE))
      BY <1>3, <2>1, <2>2, <2>3, NewlineStep
  <2>5. Shape(file') /\ Size(file') = n + 1 /\ Size(file) = n + 1
    <3>1. Shape(file') /\ Size(file') = n + 1
        BY <1>3, <1>5, <2>1, <2>4, WholeShape
    <3> QED BY <2>1, <2>2, <3>1 DEF Size, Torn
  <2>6. (\A i \in 1 .. n : file'[i] = file[i]) /\ file'[n + 1] = WholeLine(m, TRUE)
      BY <1>1, <2>1, <2>4 DEF Replaced
  <2>7. file'[n + 1].form = "whole" /\ file'[n + 1].mut = m
      BY <2>6 DEF WholeLine
  <2>8. Chain(st, file')
    <3>1. \A i \in 1 .. n + 1 : file'[i].mut = file[i].mut
      <4>1. SUFFICES ASSUME NEW i \in 1 .. n + 1 PROVE file'[i].mut = file[i].mut
          OBVIOUS
      <4>2. CASE i = n + 1
          BY <2>2, <2>7, <4>2
      <4>3. CASE i \in 1 .. n
          BY <2>6, <4>3
      <4> QED BY <1>1, <4>2, <4>3
    <3> QED BY <1>3, <2>5, <3>1, ChainDepends
  <2>9. InFlight(writes', file', m, n)
      BY <2>1, <2>3, <2>4, <2>6 DEF InFlight, Replaced
  <2>10. AckedDurable'
    <3>1. DOMAIN file = 1 .. n + 1 /\ DOMAIN file' = 1 .. n + 1
        BY <1>3, <1>5, <2>1, <2>4 DEF Replaced
    <3>2. SUFFICES ASSUME NEW i \in DOMAIN file, file[i].form = "whole"
                   PROVE  i \in DOMAIN file' /\ file'[i].form = "whole" /\ file'[i].mut = file[i].mut
        BY <1>3, <1>4, AckedKept
    <3>3. CASE i = n + 1
        BY <2>2, <2>7, <3>1, <3>2, <3>3
    <3>4. CASE i \in 1 .. n
        BY <2>6, <3>1, <3>2, <3>4
    <3> QED BY <1>1, <3>1, <3>3, <3>4
  <2>11. DurableInv'
      BY <1>1, <1>2, <1>4, <2>5, <2>8, <2>9, <2>10, AppendGoesOn DEF n, m
  <2>12. \A i \in 1 .. Size(file) : file'[i].mut = file[i].mut
    <3>1. SUFFICES ASSUME NEW i \in 1 .. n + 1 PROVE file'[i].mut = file[i].mut
        BY <2>5
    <3>2. CASE i = n + 1
        BY <2>2, <2>7, <3>2
    <3>3. CASE i \in 1 .. n
        BY <2>6, <3>3
    <3> QED BY <1>1, <3>2, <3>3
  <2>13. KeptLog(file') = KeptLog(file)
      BY <2>5, <2>12, KeepsLog
  <2> QED BY <2>11, <2>13 DEF LogStep
<1> QED BY <1>2, <1>6, <1>7, <1>8

\* With nothing shared, a load runs while the session is closed.
LEMMA LoaderAlone ==
    ASSUME SafeInv, NEW st, Durable(st), loader.step # "idle"
    PROVE  /\ ~Open /\ writes = {} /\ file \in Seq(Line) /\ Shape(file) /\ Chain(st, file)
           /\ AckedDurable
           /\ \A c \in Caller : ~Appending(c)
<1>1. ~Open
    BY LoaderTypes DEF Durable, MirrorsFile
<1>2. \A c \in Caller : ~Appending(c)
    BY <1>1 DEF SafeInv, ClosedQuiet, Appending, Idle
<1> QED BY <1>1, <1>2 DEF SafeInv, TypeOK, Durable, LoaderOnFile

\* A step of a load that leaves the session closed.
LEMMA StaysClosed ==
    ASSUME NEW st, Durable(st), ~Open, UNCHANGED <<file, mem, writes, acked>>,
           LoaderOnFile(st)'
    PROVE  Durable(st)'
<1>1. Shape(file)' /\ Chain(st, file)' /\ AckedDurable' /\ MirrorsFile(st)'
    BY DEF Durable, AckedDurable, MirrorsFile, Open
<1> QED BY <1>1 DEF Durable

\* A load ends: the session it read is open and the file is settled.
LEMMA Opens ==
    ASSUME NEW st, NEW n \in Nat, Shape(file'), Chain(st, file'), AckedDurable',
           mem' = st[n], loader' = Idle, Settled(writes', file', n), Size(file') = n,
           \A c \in Caller : ~Appending(c)'
    PROVE  Durable(st)'
<1>1. mem' \in State /\ mem'.sequence = n
    BY DEF Chain
<1>2. Open'
    BY <1>1, StateNotClosed DEF Open
<1>3. MirrorsFile(st)'
    BY <1>1 DEF MirrorsFile
<1>4. LoaderOnFile(st)'
    BY <1>2 DEF LoaderOnFile
<1> QED BY <1>3, <1>4 DEF Durable

\* A load starts from the file and the first state of the chain.
LEMMA LoadReadDurable ==
    ASSUME Faults = {}, SafeInv, NEW st, Durable(st), LoadRead
    PROVE  Durable(st)'
<1>1. /\ ~Open /\ UNCHANGED <<file, mem, writes, acked>>
      /\ loader' = [step |-> "replay", lines |-> file, next |-> 1, state |-> InitState]
    BY DEF LoadRead
<1>2. file \in Seq(Line) /\ Shape(file) /\ Chain(st, file) /\ writes = {}
    BY <1>1 DEF SafeInv, TypeOK, Durable, LoaderOnFile
<1>3. Size(file) \in Nat /\ st[0] = InitState
    BY <1>2, SizeFacts DEF Chain
<1>4. LoaderOnFile(st)'
    BY <1>1, <1>2, <1>3 DEF LoaderOnFile
<1> QED BY <1>1, <1>4, StaysClosed

\* Replaying a line goes one state along the chain; what does not parse is the
\* torn last line.
LEMMA LoadLineDurable ==
    ASSUME SafeInv, NEW st, Durable(st), LoadLine
    PROVE  Durable(st)'
<1> DEFINE i == loader.next
           line == loader.lines[i]
<1>1. /\ loader.step = "replay" /\ i \in DOMAIN loader.lines
      /\ UNCHANGED <<file, mem, writes, acked>>
    BY DEF LoadLine
<1>2. ~Open /\ writes = {} /\ file \in Seq(Line) /\ Shape(file) /\ Chain(st, file)
    BY <1>1, LoaderAlone
<1>3. /\ loader.lines = file /\ i - 1 \in 0 .. Size(file) /\ loader.state = st[i - 1]
      /\ i \in 1 .. Len(file) /\ line = file[i]
    BY <1>1, <1>2 DEF Durable, LoaderOnFile
<1>4. CASE line.form = "whole" /\ Valid(loader.state, line.mut)
  <2>1. loader' = [step |-> "replay", lines |-> loader.lines, next |-> i + 1,
                   state |-> Apply(loader.state, line.mut)]
      BY <1>4 DEF LoadLine
  <2>2. i \in 1 .. Size(file)
      BY <1>2, <1>3, <1>4, SizeFacts
  <2>3. st[i] = Apply(st[i - 1], file[i].mut)
      BY <1>2, <2>2 DEF Chain
  <2>4. /\ loader'.step = "replay" /\ loader'.lines = file /\ loader'.next - 1 = i
        /\ loader'.state = st[i]
      BY <1>3, <2>1, <2>3
  <2>5. LoaderOnFile(st)'
      BY <1>1, <1>2, <2>2, <2>4 DEF LoaderOnFile
  <2> QED BY <1>1, <1>2, <2>5, StaysClosed
<1>5. CASE line.form # "whole" /\ i = Len(loader.lines)
  <2>1. loader' = [step |-> "stage", state |-> loader.state,
                   lines |-> SubSeq(loader.lines, 1, i - 1)]
      BY <1>5 DEF LoadLine
  <2>2. Torn(file) /\ i = Len(file)
      BY <1>3, <1>5 DEF Torn
  <2>3. LoaderOnFile(st)'
      BY <1>1, <1>2, <1>3, <2>1, <2>2 DEF LoaderOnFile
  <2> QED BY <1>1, <1>2, <2>3, StaysClosed
<1>6. CASE loader' = Idle
  <2>1. LoaderOnFile(st)'
      BY <1>1, <1>2, <1>6 DEF LoaderOnFile, Idle
  <2> QED BY <1>1, <1>2, <2>1, StaysClosed
<1> QED BY <1>4, <1>5, <1>6 DEF LoadLine

\* The whole file replayed: the last state of the chain.
LEMMA LoadEndDurable ==
    ASSUME SafeInv, NEW st, Durable(st), LoadEnd
    PROVE  Durable(st)'
<1> DEFINE n == Len(file)
<1>1. /\ loader.step = "replay" /\ loader.next > Len(loader.lines)
      /\ UNCHANGED <<file, writes, acked, call>>
    BY DEF LoadEnd
<1>2. /\ ~Open /\ writes = {} /\ file \in Seq(Line) /\ Shape(file) /\ Chain(st, file)
      /\ AckedDurable /\ \A c \in Caller : ~Appending(c)
    BY <1>1, LoaderAlone
<1>3. /\ loader.lines = file /\ loader.next - 1 \in 0 .. Size(file)
      /\ loader.state = st[loader.next - 1]
      /\ loader.next \in 1 .. Len(loader.lines) + 1
    BY <1>1, <1>2, LoaderTypes DEF Durable, LoaderOnFile
<1>4. n \in Nat /\ loader.next - 1 = n /\ Size(file) = n /\ loader.state = st[n] /\ ~Torn(file)
    BY <1>1, <1>2, <1>3, SizeFacts DEF Size
<1>5. CASE Terminated(file)
  <2>1. mem' = st[n] /\ loader' = Idle
      BY <1>2, <1>3, <1>4, <1>5 DEF LoadEnd, Opened
  <2>2. Settled(writes', file', n) /\ Size(file') = n
      BY <1>1, <1>2, <1>4, <1>5 DEF Settled
  <2>3. Shape(file') /\ Chain(st, file') /\ AckedDurable' /\ \A c \in Caller : ~Appending(c)'
      BY <1>1, <1>2 DEF AckedDurable, Appending
  <2> QED BY <1>4, <2>1, <2>2, <2>3, Opens
<1>6. CASE ~Terminated(file)
  <2>1. loader' = [step |-> "newline", state |-> loader.state] /\ mem' = mem
      BY <1>3, <1>6 DEF LoadEnd
  <2>2. LoaderOnFile(st)'
      BY <1>1, <1>2, <1>4, <1>6, <2>1 DEF LoaderOnFile
  <2> QED BY <1>1, <1>2, <2>1, <2>2, StaysClosed
<1> QED BY <1>5, <1>6

\* The staged prefix is the kept lines.
LEMMA StageRepairDurable ==
    ASSUME SafeInv, NEW st, Durable(st), StageRepair
    PROVE  Durable(st)'
<1>1. /\ loader.step = "stage"
      /\ staged' = [lines |-> loader.lines]
      /\ loader' = [step |-> "publish", state |-> loader.state]
      /\ UNCHANGED <<file, mem, writes, acked>>
    BY DEF StageRepair
<1>2. ~Open /\ writes = {}
    BY <1>1, LoaderAlone
<1>3. Torn(file) /\ loader.lines = SubSeq(file, 1, Len(file) - 1) /\ loader.state = st[Len(file) - 1]
    BY <1>1, <1>2 DEF Durable, LoaderOnFile
<1>4. LoaderOnFile(st)'
    BY <1>1, <1>2, <1>3 DEF LoaderOnFile
<1> QED BY <1>1, <1>2, <1>4, StaysClosed

\* A failed repair leaves the file as it was.
LEMMA FailRepairDurable ==
    ASSUME SafeInv, NEW st, Durable(st), FailRepair
    PROVE  Durable(st)'
<1>1. /\ loader.step # "idle" /\ loader' = Idle
      /\ UNCHANGED <<file, mem, writes, acked>>
    BY DEF FailRepair
<1>2. ~Open /\ writes = {}
    BY <1>1, LoaderAlone
<1>3. LoaderOnFile(st)'
    BY <1>1, <1>2 DEF LoaderOnFile, Idle
<1> QED BY <1>1, <1>2, <1>3, StaysClosed

\* Dropping the torn line keeps every whole line.
LEMMA PublishRepairDurable ==
    ASSUME SafeInv, NEW st, Durable(st), PublishRepair
    PROVE  Durable(st)' /\ KeptLog(file') = KeptLog(file)
<1> DEFINE n == Len(file) - 1
<1>1. /\ loader.step = "publish" /\ loader' = Idle
      /\ file' = staged.lines
      /\ writes' = {[w EXCEPT !.attached = FALSE] : w \in writes}
      /\ mem' = Opened(loader.state)
      /\ UNCHANGED <<call, acked>>
    BY DEF PublishRepair
<1>2. /\ ~Open /\ writes = {} /\ file \in Seq(Line) /\ Shape(file) /\ Chain(st, file)
      /\ AckedDurable /\ \A c \in Caller : ~Appending(c)
    BY <1>1, LoaderAlone
<1>3. Torn(file) /\ staged.lines = SubSeq(file, 1, n) /\ loader.state = st[n]
    BY <1>1, <1>2 DEF Durable, LoaderOnFile
<1>4. /\ n \in Nat /\ Len(file) = n + 1 /\ Size(file) = n
      /\ file[n + 1].form = "part"
      /\ \A i \in 1 .. n : file[i].form = "whole" /\ file[i].nl
  <2>1. file # <<>> /\ file[Len(file)].form = "part"
      BY <1>2, <1>3, SizeFacts
  <2> QED BY <1>2, <1>3, <2>1 DEF Shape, Size
<1>5. file' \in Seq(Line) /\ Len(file') = n /\ \A i \in 1 .. n : file'[i] = file[i]
  <2>1. file' = SubSeq(file, 1, n)
      BY <1>1, <1>3
  <2>2. \A i \in 1 .. n : file[i] \in Line
      BY <1>2, <1>4
  <2> HIDE DEF n
  <2>3. SubSeq(file, 1, n) = [i \in 1 .. n |-> file[i]]
      BY <1>2, <1>4
  <2> QED BY <1>4, <2>1, <2>2, <2>3
<1>6. ~Torn(file') /\ Terminated(file') /\ Shape(file') /\ Size(file') = n
  <2>1. \A i \in 1 .. n : file'[i].form = "whole" /\ file'[i].nl
      BY <1>4, <1>5
  <2>2. file' = <<>> <=> n = 0
      BY <1>5
  <2> HIDE DEF n
  <2>3. Shape(file')
      BY <1>5, <2>1 DEF Shape
  <2>4. ~Torn(file') /\ Terminated(file')
      BY <1>4, <1>5, <2>1, <2>2 DEF Torn, Terminated
  <2> QED BY <1>5, <2>3, <2>4 DEF Size
<1>7. Chain(st, file')
    BY <1>2, <1>4, <1>5, <1>6, ChainDepends
<1>8. AckedDurable'
  <2>1. DOMAIN file = 1 .. n + 1 /\ DOMAIN file' = 1 .. n
      BY <1>2, <1>4, <1>5
  <2>2. \A i \in DOMAIN file : file[i].form = "whole" => i \in DOMAIN file' /\ file'[i] = file[i]
      BY <1>4, <1>5, <2>1
  <2> QED BY <1>1, <1>2, <2>2, AckedKept
<1>9. writes' = {} /\ mem' = st[n] /\ \A c \in Caller : ~Appending(c)'
    BY <1>1, <1>2, <1>3 DEF Opened, Appending
<1>10. Settled(writes', file', n)
    BY <1>5, <1>6, <1>9 DEF Settled
<1> HIDE DEF n
<1>11. Durable(st)'
    BY <1>1, <1>4, <1>6, <1>7, <1>8, <1>9, <1>10, Opens
<1>12. KeptLog(file') = KeptLog(file)
    BY <1>4, <1>5, <1>6, KeepsLog
<1> QED BY <1>11, <1>12

\* The newline settles the file.
LEMMA RepairNewlineDurable ==
    ASSUME Faults = {}, SafeInv, NEW st, Durable(st), RepairNewline
    PROVE  Durable(st)' /\ KeptLog(file') = KeptLog(file)
<1> DEFINE n == Len(file)
           m == file[n].mut
<1>1. /\ loader.step = "newline" /\ loader' = Idle
      /\ file' = AddNewline(file)
      /\ mem' = Opened(loader.state)
      /\ UNCHANGED <<call, writes, acked>>
    BY DEF RepairNewline
<1>2. /\ ~Open /\ writes = {} /\ file \in Seq(Line) /\ Shape(file) /\ Chain(st, file)
      /\ AckedDurable /\ \A c \in Caller : ~Appending(c)
    BY <1>1, LoaderAlone
<1>3. ~Torn(file) /\ ~Terminated(file) /\ loader.state = st[n]
    BY <1>1, <1>2 DEF Durable, LoaderOnFile
<1>4. /\ file # <<>> /\ n \in Nat \ {0} /\ Size(file) = n
      /\ file[n].form = "whole" /\ ~file[n].nl
    BY <1>2, <1>3 DEF Torn, Terminated, Size
<1>5. Replaced(file', file, WholeLine(m, TRUE))
    BY <1>1, <1>2, <1>4, NewlineStep
<1>6. file' \in Seq(Line)
    BY RepairNewlineSafe DEF SafeInv, TypeOK
<1>7. Shape(file') /\ ~Torn(file') /\ Size(file') = n /\ Terminated(file')
    BY <1>2, <1>4, <1>5, <1>6, WholeShape
<1>8. Len(file') = n /\ \A i \in 1 .. n : file'[i].form = "whole" /\ file'[i].mut = file[i].mut
  <2>1. /\ Len(file') = n /\ file'[n] = WholeLine(m, TRUE)
        /\ \A i \in 1 .. n - 1 : file'[i] = file[i]
      BY <1>5 DEF Replaced
  <2>2. file'[n].form = "whole" /\ file'[n].mut = m
      BY <2>1 DEF WholeLine
  <2>3. \A i \in 1 .. n - 1 : file[i].form = "whole"
      BY <1>2, <1>4 DEF Shape
  <2>4. SUFFICES ASSUME NEW i \in 1 .. n
                 PROVE  file'[i].form = "whole" /\ file'[i].mut = file[i].mut
      BY <2>1
  <2>5. CASE i = n
      BY <2>2, <2>5
  <2>6. CASE i \in 1 .. n - 1
      BY <2>1, <2>3, <2>6
  <2> QED BY <1>4, <2>5, <2>6
<1>9. Chain(st, file')
    BY <1>2, <1>4, <1>7, <1>8, ChainDepends
<1>10. AckedDurable'
  <2>1. DOMAIN file = 1 .. n /\ DOMAIN file' = 1 .. n
      BY <1>2, <1>6, <1>8
  <2> QED BY <1>1, <1>2, <1>8, <2>1, AckedKept
<1>11. writes' = {} /\ mem' = st[n] /\ \A c \in Caller : ~Appending(c)'
    BY <1>1, <1>2, <1>3 DEF Opened, Appending
<1>12. Settled(writes', file', n)
    BY <1>7, <1>8, <1>11 DEF Settled
<1> HIDE DEF n
<1>13. Durable(st)'
    BY <1>1, <1>4, <1>7, <1>9, <1>10, <1>11, <1>12, Opens
<1>14. KeptLog(file') = KeptLog(file)
    BY <1>4, <1>7, <1>8, KeepsLog
<1> QED BY <1>13, <1>14

\* A crash leaves the file, whatever shape it is in.
LEMMA CrashDurable ==
    ASSUME NEW st, Durable(st), Crash
    PROVE  Durable(st)'
<1>1. mem' = Closed /\ writes' = {} /\ loader' = Idle /\ UNCHANGED <<file, acked>>
    BY DEF Crash
<1>2. Shape(file)' /\ Chain(st, file)' /\ AckedDurable'
    BY <1>1 DEF Durable, AckedDurable
<1>3. MirrorsFile(st)' /\ LoaderOnFile(st)'
    BY <1>1 DEF MirrorsFile, LoaderOnFile, Open, Idle
<1> QED BY <1>2, <1>3 DEF Durable

\* The invariant is inductive when the environment can only crash.
LEMMA NextDurable ==
    ASSUME Faults = {}, SafeInv, DurableInv, [Next]_vars
    PROVE  DurableInv'
<1>1. PICK st : Durable(st)
    BY DEF DurableInv
<1>2. SUFFICES ASSUME ~\E w \in writes : WriteStep(w)
               PROVE  Durable(st)'
    BY <1>1, WriteStepDurable DEF DurableInv
<1>3. ASSUME NEW c \in Caller, NEW r \in Requests, Enter(c, r)
      PROVE  Durable(st)'
    BY <1>1, <1>3, EnterDurable
<1>4. ASSUME NEW c \in Caller, Step(c) \/ FailAppend(c)
      PROVE  Durable(st)'
    BY <1>1, <1>4, BeginAppendDurable, RejectDurable, EndAppendDurable, FailAppendDurable DEF Step
<1>5. ASSUME NEW c \in Caller
      PROVE  ~CancelAppend(c) /\ ~CancelWait(c)
    BY DEF CancelAppend, CancelWait
<1>6. ASSUME NEW w \in writes
      PROVE  ~LoseWrite(w)
    BY DEF LoseWrite
<1>7. CASE Load
    BY <1>1, <1>7, LoadReadDurable, LoadLineDurable, LoadEndDurable DEF Load
<1>8. CASE Repair
    BY <1>1, <1>8, StageRepairDurable, PublishRepairDurable, RepairNewlineDurable DEF Repair
<1>9. CASE FailRepair \/ Crash
    BY <1>1, <1>9, FailRepairDurable, CrashDurable
<1>10. CASE UNCHANGED vars
    BY <1>1, <1>10, SameFile DEF vars, Appending
<1> QED BY <1>2, <1>3, <1>4, <1>5, <1>6, <1>7, <1>8, <1>9, <1>10 DEF Next, Attended

\* DurableInv holds in every reachable state without faults.
LEMMA AlwaysDurable ==
    ASSUME Faults = {}
    PROVE  Spec => [](SafeInv /\ DurableInv)
<1>1. Init => SafeInv /\ DurableInv
    BY InitSafe, InitDurable
<1>2. SafeInv /\ DurableInv /\ [Next]_vars => (SafeInv /\ DurableInv)'
    BY NextSafe, NextDurable
<1> QED BY <1>1, <1>2, PTL DEF Spec

\* After any number of crashes, repairs and reloads a lane has at most one open
\* operation, though the replay does not check it: append_record's check before
\* the crash is enough.
THEOREM OperationsStayAlone ==
    ASSUME Faults = {}
    PROVE  Spec => []OneOpenAfterRestart
<1>1. ASSUME SafeInv, DurableInv, Open
      PROVE  OneOpenOperation(mem)
  <2>1. PICK st : Durable(st)
      BY <1>1 DEF DurableInv
  <2>2. mem.sequence \in 0 .. Size(file) /\ mem = st[mem.sequence] /\ Chain(st, file)
      BY <1>1, <2>1 DEF Durable, MirrorsFile
  <2> QED BY <2>2 DEF Chain, WellFormed
<1>2. SafeInv /\ DurableInv => OneOpenAfterRestart
    BY <1>1 DEF OneOpenAfterRestart
<1> QED BY <1>2, AlwaysDurable, PTL

\* If appends fail only before their first byte and append_file returns when the
\* bytes are in the file, a crash at any point, and the repairs of the next
\* load, never lose or alter a mutation whose operation returned Ok.
THEOREM NothingAckedIsLost ==
    ASSUME Faults = {}
    PROVE  Spec => []AckedDurable
<1>1. SafeInv /\ DurableInv => AckedDurable
    BY DEF DurableInv, Durable
<1> QED BY <1>1, AlwaysDurable, PTL

\* Under the same assumption a load never meets a line it refuses: whatever a
\* crash left behind, the session opens again.
THEOREM EveryFileLoads ==
    ASSUME Faults = {}
    PROVE  Spec => []LoadNeverRefused
<1>1. ASSUME SafeInv, DurableInv
      PROVE  LoadNeverRefused
  <2> DEFINE i == loader.next
             line == loader.lines[i]
  <2>1. SUFFICES ASSUME loader.step = "replay", i \in DOMAIN loader.lines
                 PROVE  \/ line.form = "whole" /\ Valid(loader.state, line.mut)
                        \/ line.form # "whole" /\ i = Len(loader.lines)
      BY DEF LoadNeverRefused
  <2>2. PICK st : Durable(st)
      BY <1>1 DEF DurableInv
  <2>3. ~Open /\ file \in Seq(Line) /\ Shape(file) /\ Chain(st, file)
      BY <1>1, <2>1, <2>2, LoaderAlone
  <2>4. loader.lines = file /\ loader.state = st[i - 1] /\ i \in 1 .. Len(file)
      BY <2>1, <2>2, <2>3 DEF Durable, LoaderOnFile
  <2>5. CASE line.form = "whole"
    <3>1. i \in 1 .. Size(file)
        BY <2>3, <2>4, <2>5, SizeFacts
    <3>2. Valid(st[i - 1], file[i].mut)
        BY <2>3, <3>1 DEF Chain
    <3> QED BY <2>4, <2>5, <3>2
  <2>6. CASE line.form # "whole"
      BY <2>3, <2>4, <2>6 DEF Shape
  <2> QED BY <2>5, <2>6
<1> QED BY <1>1, AlwaysDurable, PTL
(************* The JSONL storage implements the session log ***************)

\* The log that the refinement reads off the file is what a load would keep.
LEMMA LogIsKept ==
    ASSUME NEW f \in Seq(Line), Shape(f)
    PROVE  Mutations(ValidPrefix(f)) = KeptLog(f)
<1>1. Len(f) \in Nat /\ (f = <<>> <=> Len(f) = 0) /\ DOMAIN f = 1 .. Len(f)
    OBVIOUS
<1>2. CASE Torn(f)
  <2> DEFINE n == Len(f) - 1
  <2>1. n \in Nat /\ Size(f) = n /\ n <= Len(f)
      BY <1>1, <1>2 DEF Torn, Size
  <2> HIDE DEF n
  <2>2. SubSeq(f, 1, n) = [i \in 1 .. n |-> f[i]]
      BY <2>1
  <2>3. Mutations([i \in 1 .. n |-> f[i]]) = [i \in 1 .. n |-> f[i].mut]
      BY DEF Mutations
  <2> QED BY <1>2, <2>1, <2>2, <2>3 DEF ValidPrefix, KeptLog, n
<1>3. CASE ~Torn(f)
    BY <1>1, <1>3 DEF ValidPrefix, KeptLog, Mutations, Size
<1> QED BY <1>2, <1>3

\* Replaying it gives the last session of the chain.
LEMMA KeptReplays ==
    ASSUME NEW f \in Seq(Line), Shape(f), NEW st, Chain(st, f)
    PROVE  Replay(KeptLog(f)) = st[Size(f)]
<1> DEFINE n == Size(f)
           ms == KeptLog(f)
           g == [i \in 0 .. n |-> st[i]]
<1>1. n \in Nat /\ Len(ms) = n /\ \A i \in 1 .. n : ms[i] = f[i].mut
  <2>1. n \in Nat
      BY SizeFacts
  <2>2. ms = [i \in 1 .. n |-> f[i].mut]
      BY DEF KeptLog
  <2> HIDE DEF n, ms
  <2> QED BY <2>1, <2>2
<1>2. \A i \in 1 .. n : st[i] = Replayed(st[i - 1], ms[i])
  <2>1. SUFFICES ASSUME NEW i \in 1 .. n PROVE st[i] = Replayed(st[i - 1], ms[i])
      OBVIOUS
  <2>2. st[i - 1] \in State /\ Valid(st[i - 1], f[i].mut) /\ st[i] = Apply(st[i - 1], f[i].mut)
      BY <1>1 DEF Chain
  <2> QED BY <1>1, <2>2, StateNotInvalid DEF Replayed
<1>3. st[0] = InitState
    BY DEF Chain
<1> HIDE DEF n, ms
<1>4. g = [i \in 0 .. n |-> IF i = 0 THEN InitState ELSE Replayed(g[i - 1], ms[i])]
  <2>1. \A i \in 0 .. n : g[i] = IF i = 0 THEN InitState ELSE Replayed(g[i - 1], ms[i])
      BY <1>1, <1>2, <1>3
  <2> QED BY <2>1
<1>5. Passes(ms, n, g)
    BY <1>4 DEF Passes
<1>6. g[n] = st[n]
    BY <1>1
<1> HIDE DEF g
<1>7. Replay(ms) = g[n]
    BY <1>1, <1>5, ReplayPasses
<1> QED BY <1>6, <1>7 DEF ms, n

\* An append carries the mutation of a request that the session accepts.
Asked ==
    \A c \in Caller : Appending(c) =>
        \E r \in Requests : Accepts(mem, r) /\ call[c].mutation = MutationOf(mem, r)

\* What was acknowledged is in the session of memory.
AckedBefore == Open => \A i \in DOMAIN acked : acked[i].seq <= mem.sequence

RefinementInv == SafeInv /\ DurableInv /\ Asked /\ AckedBefore

\* A step that starts no append leaves memory alone, or nothing is being appended after it.
Calm ==
    /\ UNCHANGED <<mem, acked>>
    /\ \A c \in Caller : Appending(c)' => Appending(c) /\ call'[c] = call[c]
Quiet == \A c \in Caller : ~Appending(c)'

\* When a load opens a session nothing is being appended.
LEMMA LoadOpens ==
    ASSUME SafeInv, NEW s, mem' = Opened(s), UNCHANGED <<call, acked>>
    PROVE  Calm \/ Quiet
<1>1. CASE Open
    BY <1>1 DEF Opened, Calm, Appending
<1>2. CASE ~Open
    BY <1>2 DEF SafeInv, ClosedQuiet, Quiet, Appending, Idle
<1> QED BY <1>1, <1>2

\* Every step but the start of an append is calm or leaves it quiet.
LEMMA CalmOrQuiet ==
    ASSUME Faults = {}, SafeInv, DurableInv, [Next]_vars
    PROVE  Calm \/ Quiet \/ \E c \in Caller : BeginAppend(c)
<1>1. PICK st : Durable(st)
    BY DEF DurableInv
<1>2. ASSUME NEW c \in Caller, NEW r \in Requests, Enter(c, r)
      PROVE  Calm
  <2>1. call \in [Caller -> Call]
      BY DEF SafeInv, TypeOK
  <2> QED BY <1>2, <2>1 DEF Enter, Calm, Appending
<1>3. ASSUME NEW c \in Caller, Reject(c) \/ FailAppend(c)
      PROVE  Calm
  <2>1. call \in [Caller -> Call] /\ call' = [call EXCEPT ![c] = Idle] /\ UNCHANGED <<mem, acked>>
      BY <1>3 DEF SafeInv, TypeOK, Reject, FailAppend, Leave
  <2>2. ~Appending(c)'
      BY <2>1 DEF Appending, Idle
  <2> QED BY <2>1, <2>2 DEF Calm, Appending
<1>4. ASSUME NEW c \in Caller, EndAppend(c)
      PROVE  Quiet
    BY <1>1, <1>4, EndAppendDurable DEF Quiet
<1>5. ASSUME NEW c \in Caller
      PROVE  ~CancelAppend(c) /\ ~CancelWait(c)
    BY DEF CancelAppend, CancelWait
<1>6. ASSUME NEW w \in writes, WriteStep(w) \/ LoseWrite(w)
      PROVE  Calm
    BY <1>6 DEF WriteStep, LoseWrite, Calm, Appending
<1>7. ASSUME LoadRead \/ LoadLine \/ StageRepair \/ FailRepair \/ UNCHANGED vars
      PROVE  Calm
    BY <1>7 DEF LoadRead, LoadLine, StageRepair, FailRepair, vars, Calm, Appending
<1>8. CASE LoadEnd
  <2>1. mem' = mem \/ mem' = Opened(loader.state)
      BY <1>8 DEF LoadEnd
  <2>2. UNCHANGED <<call, acked>>
      BY <1>8 DEF LoadEnd
  <2> QED BY <2>1, <2>2, LoadOpens DEF Calm, Appending
<1>9. CASE PublishRepair \/ RepairNewline
  <2>1. mem' = Opened(loader.state) /\ UNCHANGED <<call, acked>>
      BY <1>9 DEF PublishRepair, RepairNewline
  <2> QED BY <2>1, LoadOpens
<1>10. CASE Crash
    BY <1>10 DEF Crash, Quiet, Appending, Idle
<1> QED BY <1>2, <1>3, <1>4, <1>5, <1>6, <1>7, <1>8, <1>9, <1>10 DEF Next, Attended, Step, Load, Repair

\* Whoever is appending was asked to.
LEMMA StaysAsked ==
    ASSUME Faults = {}, SafeInv, DurableInv, Asked, [Next]_vars
    PROVE  Asked'
<1>1. CASE Calm
    BY <1>1 DEF Calm, Asked
<1>2. CASE Quiet
    BY <1>2 DEF Quiet, Asked
<1>3. ASSUME NEW c \in Caller, BeginAppend(c)
      PROVE  Asked'
  <2> DEFINE r == call[c].request
             m == MutationOf(mem, r)
  <2>1. /\ call \in [Caller -> Call] /\ call[c].step = "queued" /\ Accepts(mem, r)
        /\ call' = [call EXCEPT ![c] = [step |-> "appending", mutation |-> m]]
        /\ mem' = mem
      BY <1>3 DEF BeginAppend, SafeInv, TypeOK
  <2>2. r \in Requests
      BY <2>1 DEF Call, Idle
  <2> HIDE DEF r, m
  <2>3. call'[c].mutation = m
      BY <2>1
  <2>4. ASSUME NEW d \in Caller, Appending(d)'
        PROVE  \E x \in Requests : Accepts(mem', x) /\ call'[d].mutation = MutationOf(mem', x)
    <3>1. CASE d = c
        BY <2>1, <2>2, <2>3, <3>1 DEF m
    <3>2. CASE d # c
      <4>1. call'[d] = call[d] /\ Appending(d)
          BY <2>1, <2>4, <3>2 DEF Appending
      <4> QED BY <2>1, <4>1 DEF Asked
    <3> QED BY <3>1, <3>2
  <2> QED BY <2>4 DEF Asked
<1> QED BY <1>1, <1>2, <1>3, CalmOrQuiet

\* With nothing being appended the file has no more lines than memory has mutations.
LEMMA StaysAcked ==
    ASSUME Faults = {}, SafeInv, DurableInv, AckedBefore, [Next]_vars, DurableInv', SafeInv'
    PROVE  AckedBefore'
<1>1. CASE Calm
    BY <1>1 DEF Calm, AckedBefore, Open
<1>2. CASE Quiet /\ Open'
  <2>1. PICK st : Durable(st)'
      BY DEF DurableInv
  <2>2. Settled(writes', file', mem'.sequence) /\ AckedDurable'
      BY <1>2, <2>1 DEF Durable, MirrorsFile, Quiet
  <2>3. file' \in Seq(Line) /\ Len(file') = mem'.sequence
      BY <2>2 DEF Settled, SafeInv, TypeOK
  <2>4. \A i \in DOMAIN acked' : acked'[i].seq \in DOMAIN file'
      BY <2>2 DEF AckedDurable
  <2>5. \A i \in DOMAIN acked' : acked'[i].seq <= mem'.sequence
      BY <2>3, <2>4
  <2> QED BY <2>5 DEF AckedBefore
<1>3. ASSUME NEW c \in Caller, BeginAppend(c)
      PROVE  AckedBefore'
    BY <1>3 DEF BeginAppend, AckedBefore, Open
<1>4. CASE ~Open'
    BY <1>4 DEF AckedBefore
<1> QED BY <1>1, <1>2, <1>3, <1>4, CalmOrQuiet

LEMMA AlwaysRefines ==
    ASSUME Faults = {}
    PROVE  Spec => []RefinementInv
<1>1. Init => RefinementInv
  <2>1. ASSUME Init PROVE Asked /\ AckedBefore
      BY <2>1 DEF Init, Asked, AckedBefore, Appending, Idle
  <2> QED BY <2>1, InitSafe, InitDurable DEF RefinementInv
<1>2. RefinementInv /\ [Next]_vars => RefinementInv'
    BY NextSafe, NextDurable, StaysAsked, StaysAcked DEF RefinementInv
<1> QED BY <1>1, <1>2, PTL DEF Spec

\* The operators of the abstract log are those of the storage.
LEMMA SameOperators ==
    /\ \A s, r : Log!Accepts(s, r) = Accepts(s, r)
    /\ \A s, r : Log!MutationOf(s, r) = MutationOf(s, r)
    /\ \A ms : Log!Replay(ms) = Replay(ms)
<1>1. \A s, r : Log!Accepts(s, r) = Accepts(s, r)
    BY Zenon DEF Log!Accepts, Accepts, Log!UsedIds, UsedIds,
       Log!AcceptsCreateLane, AcceptsCreateLane, Log!AcceptsMoveLane, AcceptsMoveLane,
       Log!AcceptsAppendEntry, AcceptsAppendEntry, Log!AcceptsAppendRecord, AcceptsAppendRecord,
       Log!AcceptsSetLabel, AcceptsSetLabel
<1>2. \A s, r : Log!MutationOf(s, r) = MutationOf(s, r)
    BY Zenon DEF Log!NextSequence, NextSequence, Log!MutationOf, MutationOf
<1>3. \A s, m : Log!Apply(s, m) = Apply(s, m)
    BY Zenon DEF Log!Apply, Apply, Log!ApplyEntry, ApplyEntry, Log!ApplyRecord, ApplyRecord,
       Log!ApplyLane, ApplyLane, Log!ApplyName, ApplyName, Log!ApplyLabel, ApplyLabel,
       Log!Put, Put, Log!Drop, Drop, Log!LogItem, LogItem, Log!OpenAfter, OpenAfter
<1>4. \A s, m : Log!Valid(s, m) = Valid(s, m)
    BY Zenon DEF Log!Valid, Valid, Log!NextSequence, NextSequence, Log!UsedIds, UsedIds,
       Log!ValidEntry, ValidEntry, Log!ValidRecord, ValidRecord, Log!ValidLane, ValidLane,
       Log!ValidLabel, ValidLabel
<1>5. Log!InitState = InitState /\ Log!Invalid = Invalid
    BY Zenon DEF Log!InitState, InitState, Log!Invalid, Invalid
<1>6. \A ms : Log!Replay(ms) = Replay(ms)
    BY Zenon, <1>3, <1>4, <1>5 DEF Log!Replay, Replay
<1> QED BY <1>1, <1>2, <1>6

\* Completing the text of a line commits its mutation; the other steps of a write do not show.
LEMMA WriteRefines ==
    ASSUME Faults = {}, RefinementInv, NEW w \in writes, WriteStep(w),
           NEW k, k = KeptLog(file), NEW l, l = KeptLog(file')
    PROVE  \/ l = k
           \/ /\ l # k
              /\ \E r \in Requests : Accepts(Replay(k), r) /\ l = Append(k, MutationOf(Replay(k), r))
<1>1. PICK st : Durable(st)
    BY DEF RefinementInv, DurableInv
<1>2. LogStep
    BY <1>1, WriteStepDurable DEF RefinementInv
<1>3. SUFFICES ASSUME Open, Size(file) = mem.sequence, NEW c \in Caller, Appending(c),
                      l = Append(k, call[c].mutation)
               PROVE  \/ l = k
                      \/ /\ l # k
                         /\ \E r \in Requests : /\ Accepts(Replay(k), r)
                                                /\ l = Append(k, MutationOf(Replay(k), r))
    BY <1>2 DEF LogStep
<1>4. Replay(k) = mem
  <2>1. file \in Seq(Line) /\ Shape(file) /\ Chain(st, file) /\ mem = st[mem.sequence]
      BY <1>1, <1>3 DEF RefinementInv, SafeInv, TypeOK, Durable, MirrorsFile
  <2> QED BY <1>3, <2>1, KeptReplays
<1>5. PICK r \in Requests : Accepts(mem, r) /\ call[c].mutation = MutationOf(mem, r)
    BY <1>3 DEF RefinementInv, Asked
<1> QED BY <1>3, <1>4, <1>5

\* The return of an operation acknowledges the last mutation of the log.
LEMMA ReturnRefines ==
    ASSUME Faults = {}, RefinementInv, NEW c \in Caller, EndAppend(c), NEW k, k = KeptLog(file)
    PROVE  /\ k # <<>> /\ \A i \in DOMAIN acked : acked[i] # k[Len(k)]
           /\ acked' = Append(acked, k[Len(k)])
           /\ file' = file
<1> DEFINE m == call[c].mutation
           n == mem.sequence
<1>1. PICK st : Durable(st)
    BY DEF RefinementInv, DurableInv
<1>2. /\ acked' = Append(acked, m) /\ m.seq = n + 1 /\ n \in Nat
      /\ Size(file) = n + 1 /\ file[n + 1].mut = m
    BY <1>1, EndAppendDurable DEF RefinementInv
<1>3. Open /\ \A i \in DOMAIN acked : acked[i].seq <= n
  <2>1. Open
      BY AppenderHoldsLock DEF EndAppend, RefinementInv
  <2> QED BY <2>1 DEF RefinementInv, AckedBefore
<1>4. acked \in Seq(SessionMutation)
    BY DEF RefinementInv, SafeInv, TypeOK
<1>5. \A x \in SessionMutation : x.seq \in Nat
    BY DEF SessionMutation, EntryMutation, RecordMutation, LaneMutation, NameMutation, LabelMutation
<1> HIDE DEF m, n
<1>6. k = [i \in 1 .. n + 1 |-> file[i].mut]
    BY <1>2 DEF KeptLog
<1>7. Len(k) = n + 1 /\ k[n + 1] = m /\ k # <<>>
    BY <1>2, <1>6
<1>8. \A i \in DOMAIN acked : acked[i] # m
  <2>1. \A i \in DOMAIN acked : acked[i].seq \in Nat /\ acked[i].seq # n + 1
      BY <1>2, <1>3, <1>4, <1>5
  <2> QED BY <1>2, <2>1
<1> QED BY <1>2, <1>7, <1>8 DEF EndAppend

\* The steps that change neither the file nor what was acknowledged.
LEMMA OthersRefine ==
    ASSUME Faults = {}, RefinementInv, [Next]_vars,
           ~(\E w \in writes : WriteStep(w)), ~(\E c \in Caller : EndAppend(c))
    PROVE  UNCHANGED acked /\ KeptLog(file') = KeptLog(file)
<1>1. PICK st : Durable(st)
    BY DEF RefinementInv, DurableInv
<1>2. CASE PublishRepair
    BY <1>1, <1>2, PublishRepairDurable DEF RefinementInv, PublishRepair
<1>3. CASE RepairNewline
    BY <1>1, <1>3, RepairNewlineDurable DEF RefinementInv, RepairNewline
<1>4. ASSUME NEW c \in Caller
      PROVE  ~CancelAppend(c) /\ ~CancelWait(c)
    BY DEF CancelAppend, CancelWait
<1>5. ASSUME NEW w \in writes
      PROVE  ~LoseWrite(w)
    BY DEF LoseWrite
<1>6. ASSUME UNCHANGED <<file, acked>>
      PROVE  KeptLog(file') = KeptLog(file)
    BY <1>6
<1>7. ASSUME NEW c \in Caller, NEW r \in Requests, Enter(c, r)
      PROVE  UNCHANGED <<file, acked>>
    BY <1>7 DEF Enter
<1>8. ASSUME NEW c \in Caller, BeginAppend(c) \/ Reject(c) \/ FailAppend(c)
      PROVE  UNCHANGED <<file, acked>>
    BY <1>8 DEF BeginAppend, Reject, FailAppend
<1>9. ASSUME Load \/ StageRepair \/ FailRepair \/ Crash \/ UNCHANGED vars
      PROVE  UNCHANGED <<file, acked>>
    BY <1>9 DEF Load, LoadRead, LoadLine, LoadEnd, StageRepair, FailRepair, Crash, vars
<1> QED BY <1>2, <1>3, <1>4, <1>5, <1>6, <1>7, <1>8, <1>9 DEF Next, Attended, Step, Repair

\* Without faults other than crashes the storage is an atomic log to its callers: what
\* the steps of its writes, crashes, loads and repairs do to the file is either one commit of a
\* request that the session accepts, or does not show.
THEOREM StorageImplementsLog ==
    ASSUME Faults = {}
    PROVE  Spec => ImplementsSessionLog
<1>1. Init => Log!Init
  <2>1. ASSUME Init PROVE Mutations(ValidPrefix(file)) = <<>> /\ acked = <<>>
      BY <2>1 DEF Init, ValidPrefix, Torn, Mutations
  <2> QED BY <2>1 DEF Log!Init
<1>2. ASSUME RefinementInv, RefinementInv', [Next]_vars
      PROVE  [Log!Next]_(Log!vars)
  <2> DEFINE k == KeptLog(file)
             l == KeptLog(file')
  <2>1. Mutations(ValidPrefix(file)) = k /\ Mutations(ValidPrefix(file')) = l
    <3>1. file \in Seq(Line) /\ Shape(file)
        BY <1>2 DEF RefinementInv, SafeInv, TypeOK, DurableInv, Durable
    <3>2. file' \in Seq(Line) /\ Shape(file')
        BY <1>2 DEF RefinementInv, SafeInv, TypeOK, DurableInv, Durable
    <3> QED BY <3>1, <3>2, LogIsKept
  <2> HIDE DEF k, l
  <2>2. Mutations(ValidPrefix(file))' = l
      BY <2>1
  <2>3. ASSUME l = k, UNCHANGED acked
        PROVE  UNCHANGED Log!vars
      BY <2>1, <2>2, <2>3 DEF Log!vars
  <2>4. ASSUME NEW w \in writes, WriteStep(w)
        PROVE  [Log!Next]_(Log!vars)
    <3>1. UNCHANGED acked
        BY <2>4 DEF WriteStep
    <3>2. \/ l = k
          \/ /\ l # k
             /\ \E r \in Requests : Accepts(Replay(k), r) /\ l = Append(k, MutationOf(Replay(k), r))
        BY <1>2, <2>4, WriteRefines DEF k, l
    <3>3. ASSUME l # k, NEW r \in Requests, Accepts(Replay(k), r),
                 l = Append(k, MutationOf(Replay(k), r))
          PROVE  Log!Next
      <4>1. Log!Commit(r)
          BY <2>1, <2>2, <3>1, <3>3, SameOperators DEF Log!Commit
      <4> QED BY <2>1, <2>2, <3>3, <4>1 DEF Log!Next
    <3> QED BY <2>3, <3>1, <3>2, <3>3
  <2>5. ASSUME NEW c \in Caller, EndAppend(c)
        PROVE  Log!Next
    <3>1. /\ k # <<>> /\ \A i \in DOMAIN acked : acked[i] # k[Len(k)]
          /\ acked' = Append(acked, k[Len(k)]) /\ file' = file
        BY <1>2, <2>5, ReturnRefines DEF k
    <3>2. l = k
        BY <3>1 DEF k, l
    <3>3. Log!Acknowledge
        BY <2>1, <2>2, <3>1, <3>2 DEF Log!Acknowledge
    <3> QED BY <3>3 DEF Log!Next
  <2>6. ASSUME ~(\E w \in writes : WriteStep(w)), ~(\E c \in Caller : EndAppend(c))
        PROVE  UNCHANGED Log!vars
      BY <1>2, <2>3, <2>6, OthersRefine DEF k, l
  <2> QED BY <2>4, <2>5, <2>6
<1> QED BY <1>1, <1>2, AlwaysRefines, PTL DEF Spec, ImplementsSessionLog, Log!Spec
=============================================================================
