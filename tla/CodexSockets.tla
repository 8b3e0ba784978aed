---------------------------- MODULE CodexSockets ----------------------------
(***************************************************************************)
(* The cached WebSocket of one session and account, and the requests that  *)
(* share it (src/ai/api/openai_codex_websocket.rs, the WebSocket half of   *)
(* openai_codex_responses.rs).  A step is a section under the cache's lock *)
(* or an await.  A request that finds the connection kept by an earlier    *)
(* one sends only what is new since, and names the response it goes on     *)
(* from, which the server knows on that connection only.                   *)
(***************************************************************************)
EXTENDS Naturals, Sequences, FiniteSets

CONSTANTS Asks,          \* the requests: numbers from 1
          Sockets,       \* bound: names for connections, used again when nobody holds them
          NoSocket,
          MaxAtOnce,     \* bounds the requests under way together
          MaxBusiness    \* bounds requests, failures, time-outs and aborts together

ASSUME CodexAssumption ==
    Asks \subseteq Nat \ {0} /\ NoSocket \notin Sockets /\ MaxBusiness \in Nat

VARIABLES turn,       \* where each request is
          asked,      \* its full input, a sequence of messages
          uses,       \* its connection
          went,       \* what it remembers of its attempts, see Fresh
          got,        \* whose answer it received over a WebSocket
          heard,      \* the context in which the server answered each request
          sockets,    \* the connections
          entry,      \* the cache's entry, or NoEntry
          timers,     \* the idle timer that the release of a request started
          fallback,   \* sse_fallback_sessions: the session does without WebSockets
          business,
          crossed     \* a request lost the connection it had marked as its own

codexVars == <<turn, asked, uses, went, got, heard, sockets, entry, timers, fallback,
               business, crossed>>
requestVars == <<asked, uses, went, got, heard>>

NoAsk   == 0
NoEntry == [socket |-> NoSocket]
NoReply == [asked |-> <<>>, id |-> NoAsk]      \* no continuation

Says(r)    == <<"says", r>>
Answers(r) == <<"answers", r>>

\* Whether the connection is (to be) the cache's, why the last attempt failed and whether
\* the answer had started by then, what has been retried, whether the caller has aborted.
Fresh == [cached |-> FALSE, why |-> "none", started |-> FALSE, retried |-> {}, aborted |-> FALSE]

Settled == {"answered", "failed"}
UnderWay(r) == turn[r] \notin Settled \cup {"new", "panicked"}
OnSocket(r) == turn[r] \in {"reuse", "send", "wait", "save", "release", "clear", "discard"}

\* close_silently; the peer closes too.
NotOpen    == [open |-> FALSE, alive |-> FALSE, known |-> {}, frames |-> <<>>]
OpenSocket == [open |-> TRUE, alive |-> TRUE, known |-> {}, frames |-> <<>>]
Shut(socks, s) == [socks EXCEPT ![s] = NotOpen]

CodexInit ==
    /\ turn = [r \in Asks |-> "new"]
    /\ asked = [r \in Asks |-> <<>>]
    /\ uses = [r \in Asks |-> NoSocket]
    /\ went = [r \in Asks |-> Fresh]
    /\ got = [r \in Asks |-> NoAsk]
    /\ heard = [r \in Asks |-> <<>>]
    /\ sockets = [s \in Sockets |-> NotOpen]
    /\ entry = NoEntry
    /\ timers = [r \in Asks |-> "none"]
    /\ fallback = FALSE /\ business = 0 /\ crossed = FALSE

Turns(r, from, to) == turn[r] = from /\ turn' = [turn EXCEPT ![r] = to]
Happens == business < MaxBusiness /\ business' = business + 1

\* JoinHandle::abort stops a timer that sleeps, not one that waits for the lock.
Aborted(t) == IF t # NoAsk /\ timers[t] = "sleeping" THEN [timers EXCEPT ![t] = "none"] ELSE timers
WithoutTimer == IF entry = NoEntry THEN timers ELSE Aborted(entry.timer)

(******************************** Requests *********************************)

\* run_stream: a conversation starts, or goes on from an answered request.  Requests are
\* numbered as they begin.
AskCodex(r) ==
    /\ \A q \in Asks : q < r => turn[q] # "new"
    /\ Cardinality({q \in Asks : UnderWay(q)}) < MaxAtOnce /\ Happens
    /\ Turns(r, "new", IF fallback THEN "sse" ELSE "acquire")
    /\ \/ asked' = [asked EXCEPT ![r] = <<Says(r)>>]
       \/ \E q \in Asks :
            /\ turn[q] = "answered"
            /\ asked' = [asked EXCEPT ![r] = asked[q] \o <<Answers(q), Says(r)>>]
    /\ UNCHANGED <<uses, went, got, heard, sockets, entry, timers, fallback, crossed>>

\* acquire_web_socket decides under the lock ...
Acquire(r) ==
    /\ timers' = WithoutTimer
    /\ \/ /\ entry = NoEntry
          /\ Turns(r, "acquire", "connect") /\ went' = [went EXCEPT ![r].cached = TRUE]
          /\ UNCHANGED <<sockets, entry>>
       \/ /\ entry # NoEntry /\ entry.busy
          /\ Turns(r, "acquire", "connect") /\ went' = [went EXCEPT ![r].cached = FALSE]
          /\ entry' = [entry EXCEPT !.timer = NoAsk]
          /\ UNCHANGED sockets
       \/ /\ entry # NoEntry /\ ~entry.busy /\ (entry.aged \/ ~sockets[entry.socket].open)
          /\ Turns(r, "acquire", "connect") /\ went' = [went EXCEPT ![r].cached = TRUE]
          /\ sockets' = Shut(sockets, entry.socket)
          /\ entry' = NoEntry
       \/ /\ entry # NoEntry /\ ~entry.busy /\ ~entry.aged /\ sockets[entry.socket].open
          /\ Turns(r, "acquire", "reuse") /\ went' = [went EXCEPT ![r].cached = TRUE]
          /\ entry' = [entry EXCEPT !.timer = NoAsk, !.busy = TRUE]
          /\ UNCHANGED sockets
    /\ uses' = [uses EXCEPT ![r] = entry.socket]
    /\ UNCHANGED <<asked, got, heard, fallback, business, crossed>>

\* ... and takes the lock again to fetch the socket it has decided to use, with an expect.
FetchReused(r) ==
    /\ Turns(r, "reuse", IF entry = NoEntry THEN "panicked" ELSE "send")
    /\ uses' = [uses EXCEPT ![r] = entry.socket]
    /\ crossed' = (crossed \/ entry.socket # uses[r])
    /\ UNCHANGED <<asked, went, got, heard, sockets, entry, timers, fallback, business>>

Free(s) == entry.socket # s /\ \A r \in Asks : OnSocket(r) => uses[r] # s

\* connect_web_socket succeeds; a connection that is to be cached takes the entry's place,
\* whatever was there.
Connected(r) ==
    /\ Turns(r, "connect", "send") /\ ~went[r].aborted
    /\ \E s \in Sockets : Free(s)
    /\ LET s == CHOOSE s \in Sockets : Free(s) IN
        /\ uses' = [uses EXCEPT ![r] = s]
        /\ sockets' = [sockets EXCEPT ![s] = OpenSocket]
        /\ entry' = IF went[r].cached
                    THEN [socket |-> s, busy |-> TRUE, aged |-> FALSE, timer |-> NoAsk, reply |-> NoReply]
                    ELSE entry
    /\ UNCHANGED <<asked, went, got, heard, timers, fallback, business, crossed>>

\* Why an attempt failed, and whether the answer had started by then.
Failing(r, why, started) == went' = [went EXCEPT ![r].why = why, ![r].started = started]

\* Refused, timed out, aborted: nothing is cached.
ConnectFails(r) ==
    /\ Turns(r, "connect", "judge") /\ Failing(r, "transport", FALSE)
    /\ IF went[r].aborted THEN UNCHANGED business ELSE Happens
    /\ UNCHANGED <<asked, uses, got, heard, sockets, entry, timers, fallback, crossed>>

Baseline(reply) == Append(reply.asked, Answers(reply.id))

\* Mutant: only the lengths are compared.
ContinuesAnything(r, reply) == reply # NoReply /\ Len(asked[r]) >= Len(Baseline(reply))

\* get_cached_web_socket_input_delta: what was asked and answered last is a prefix.
Continues(r, reply) ==
    /\ reply # NoReply
    /\ Len(asked[r]) >= Len(Baseline(reply))
    /\ SubSeq(asked[r], 1, Len(Baseline(reply))) = Baseline(reply)

\* cached_request_body, and the frame goes out.  The continuation is that of the entry,
\* whose connection need not be this one's.
SendFrame(r) ==
    /\ Turns(r, "send", "wait")
    /\ LET reply == IF went[r].cached /\ entry # NoEntry THEN entry.reply ELSE NoReply
           frame == IF Continues(r, reply)
                    THEN [of |-> r, base |-> reply.id,
                          input |-> SubSeq(asked[r], Len(Baseline(reply)) + 1, Len(asked[r]))]
                    ELSE [of |-> r, base |-> NoAsk, input |-> asked[r]]
       IN /\ sockets' = [sockets EXCEPT ![uses[r]].frames = Append(@, frame)]
          /\ entry' = IF went[r].cached /\ entry # NoEntry /\ ~Continues(r, reply)
                      THEN [entry EXCEPT !.reply = NoReply] ELSE entry
    /\ UNCHANGED <<asked, uses, went, got, heard, timers, fallback, business, crossed>>

\* The events of a socket go to whoever asks it for the next one.
Hears(r) == turn[r] = "wait" /\ sockets[uses[r]].alive /\ sockets[uses[r]].frames # <<>> /\ ~went[r].aborted
Frame(r) == Head(sockets[uses[r]].frames)
Recalls(r) == Frame(r).base \in sockets[uses[r]].known \cup {NoAsk}

\* response.completed: run_web_socket_request returns.
Completed(r) ==
    /\ Hears(r) /\ Recalls(r)
    /\ turn' = [turn EXCEPT ![r] = "save"]
    /\ LET frame == Frame(r)
           base  == IF frame.base = NoAsk THEN <<>> ELSE Append(heard[frame.base], Answers(frame.base))
       IN /\ heard' = [heard EXCEPT ![frame.of] = base \o frame.input]
          /\ got' = [got EXCEPT ![r] = frame.of]
          /\ sockets' = [sockets EXCEPT ![uses[r]].frames = Tail(@), ![uses[r]].known = @ \cup {frame.of}]
    /\ UNCHANGED <<asked, uses, went, entry, timers, fallback, business, crossed>>

\* The server refuses: an unknown previous response, its connection limit, or anything else.
ServerRefuses(r) ==
    /\ Hears(r)
    /\ turn' = [turn EXCEPT ![r] = "clear"]
    /\ sockets' = [sockets EXCEPT ![uses[r]].frames = Tail(@)]
    /\ \/ ~Recalls(r) /\ Failing(r, "previous_response_not_found", FALSE) /\ UNCHANGED business
       \/ Recalls(r) /\ Failing(r, "connection_limit", FALSE) /\ Happens
       \/ Recalls(r) /\ (\E started \in BOOLEAN : Failing(r, "api", started)) /\ Happens
    /\ UNCHANGED <<asked, uses, got, heard, entry, timers, fallback, crossed>>

\* The connection is gone, or nothing comes within the time-out, or the caller aborts.
Interrupted(r) ==
    /\ Turns(r, "wait", "clear") /\ \E started \in BOOLEAN : Failing(r, "transport", started)
    /\ \/ ~sockets[uses[r]].alive /\ UNCHANGED <<sockets, business>>
       \/ went[r].aborted /\ UNCHANGED <<sockets, business>>
       \/ Happens /\ sockets' = Shut(sockets, uses[r])
    /\ UNCHANGED <<asked, uses, got, heard, entry, timers, fallback, crossed>>

\* save_continuation, unless the caller has aborted meanwhile: into the entry of the key,
\* whichever connection it has by now.
SaveContinuation(r) ==
    /\ Turns(r, "save", "release")
    /\ entry' = IF went[r].cached /\ entry # NoEntry /\ ~went[r].aborted
                THEN [entry EXCEPT !.reply = [asked |-> asked[r], id |-> got[r]]] ELSE entry
    /\ UNCHANGED <<requestVars, sockets, timers, fallback, business, crossed>>

\* run_stream returns; what it remembered is gone.
Returns(r, outcome) ==
    /\ turn' = [turn EXCEPT ![r] = outcome]
    /\ went' = [went EXCEPT ![r] = Fresh]
    /\ uses' = [uses EXCEPT ![r] = NoSocket]

Outcome(r) == IF went[r].aborted THEN "failed" ELSE "answered"

\* release(true).
ReleaseSocket(r) ==
    LET mine == went[r].cached /\ entry.socket = uses[r]
        keep == went[r].cached /\ sockets[uses[r]].open IN
    /\ turn[r] = "release"
    /\ \/ /\ keep /\ mine
          /\ Turns(r, "release", "schedule") /\ UNCHANGED <<went, uses>>
          /\ entry' = [entry EXCEPT !.busy = FALSE, !.timer = NoAsk]
          /\ timers' = WithoutTimer
          /\ UNCHANGED sockets
       \/ /\ keep /\ entry = NoEntry
          /\ Turns(r, "release", "schedule") /\ UNCHANGED <<went, uses>>
          /\ UNCHANGED <<entry, timers, sockets>>
       \/ /\ ~keep \/ (entry # NoEntry /\ ~mine)
          /\ Returns(r, Outcome(r))
          /\ sockets' = Shut(sockets, uses[r])
          /\ entry' = IF mine THEN NoEntry ELSE entry
          /\ timers' = IF mine THEN WithoutTimer ELSE timers
    /\ UNCHANGED <<asked, got, heard, fallback, business, crossed>>

\* schedule_session_websocket_expiry: the handle goes to whatever entry there is, and a
\* handle that is overwritten lets its timer run.
Schedule(r) ==
    /\ turn[r] = "schedule" /\ Returns(r, Outcome(r))
    /\ timers' = [timers EXCEPT ![r] = "sleeping"]
    /\ entry' = IF entry = NoEntry THEN entry ELSE [entry EXCEPT !.timer = r]
    /\ UNCHANGED <<asked, got, heard, sockets, fallback, business, crossed>>

\* After an error: clear_continuation ...
ClearContinuation(r) ==
    /\ Turns(r, "clear", "discard")
    /\ entry' = IF went[r].cached /\ entry # NoEntry THEN [entry EXCEPT !.reply = NoReply] ELSE entry
    /\ UNCHANGED <<requestVars, sockets, timers, fallback, business, crossed>>

\* ... and release(false).
Discard(r) ==
    /\ Turns(r, "discard", "judge")
    /\ sockets' = Shut(sockets, uses[r])
    /\ IF went[r].cached /\ entry.socket = uses[r]
       THEN entry' = NoEntry /\ timers' = WithoutTimer
       ELSE UNCHANGED <<entry, timers>>
    /\ uses' = [uses EXCEPT ![r] = NoSocket]
    /\ UNCHANGED <<asked, went, got, heard, fallback, business, crossed>>

\* The two failures that are worth one more attempt each.
Retryable(r) ==
    \/ went[r].why = "previous_response_not_found"
    \/ went[r].why = "connection_limit" /\ ~went[r].started

TriesAgain(r) == ~went[r].aborted /\ Retryable(r) /\ went[r].why \notin went[r].retried

\* run_stream after a failed attempt: once more, without WebSockets from now on, or over.
Judge(r) ==
    /\ turn[r] = "judge"
    /\ LET limit   == went[r].why = "connection_limit" /\ ~went[r].started
           refused == went[r].why # "transport" /\ ~limit IN
       \/ /\ TriesAgain(r)
          /\ turn' = [turn EXCEPT ![r] = "acquire"] /\ UNCHANGED uses
          /\ went' = [went EXCEPT ![r].retried = @ \cup {went[r].why}, ![r].started = FALSE]
          /\ UNCHANGED fallback
       \/ /\ ~TriesAgain(r) /\ (went[r].aborted \/ refused)
          /\ Returns(r, "failed")
          /\ UNCHANGED fallback
       \/ /\ ~TriesAgain(r) /\ ~went[r].aborted /\ ~refused
          /\ IF went[r].started THEN Returns(r, "failed")
             ELSE turn' = [turn EXCEPT ![r] = "sse"] /\ UNCHANGED <<went, uses>>
          /\ fallback' = TRUE
    /\ UNCHANGED <<asked, got, heard, sockets, entry, timers, business, crossed>>

\* The request over HTTP, with its own retries, which end one way or the other.
OverHttp(r) ==
    /\ turn[r] = "sse"
    /\ \E outcome \in IF went[r].aborted THEN {"failed"} ELSE Settled : Returns(r, outcome)
    /\ UNCHANGED <<asked, got, heard, sockets, entry, timers, fallback, business, crossed>>

(**************************** Everything else ******************************)

CodexAbort(r) ==
    /\ UnderWay(r) /\ ~went[r].aborted /\ Happens
    /\ went' = [went EXCEPT ![r].aborted = TRUE]
    /\ UNCHANGED <<turn, asked, uses, got, heard, sockets, entry, timers, fallback, crossed>>

TimerElapses(t) ==
    /\ timers[t] = "sleeping"
    /\ timers' = [timers EXCEPT ![t] = "fired"]
    /\ UNCHANGED <<turn, requestVars, sockets, entry, fallback, business, crossed>>

\* Mutant: a timer that has fired is not told that its connection is in use again.
SparesNone(e) == FALSE

\* The timer returns where a request uses the connection.
Spares(e) == e.busy

\* The timer that has fired takes the lock; the entry may be another one by then.
TimerActs(t) ==
    /\ timers[t] = "fired"
    /\ IF entry = NoEntry
       THEN timers' = [timers EXCEPT ![t] = "none"] /\ UNCHANGED <<sockets, entry>>
       ELSE /\ timers' = [WithoutTimer EXCEPT ![t] = "none"]
            /\ IF Spares(entry)
               THEN entry' = [entry EXCEPT !.timer = NoAsk] /\ UNCHANGED sockets
               ELSE entry' = NoEntry /\ sockets' = Shut(sockets, entry.socket)
    /\ UNCHANGED <<turn, requestVars, fallback, business, crossed>>

\* A kept connection gets older than the server allows.
EntryAges ==
    /\ entry # NoEntry /\ ~entry.aged /\ Happens
    /\ entry' = [entry EXCEPT !.aged = TRUE]
    /\ UNCHANGED <<turn, requestVars, sockets, timers, fallback, crossed>>

\* The server closes a connection; its flag still says that it is open.
PeerCloses(s) ==
    /\ sockets[s].alive /\ Happens
    /\ sockets' = [sockets EXCEPT ![s].alive = FALSE]
    /\ UNCHANGED <<turn, requestVars, entry, timers, fallback, crossed>>

\* close_openai_codex_websocket_sessions: the session's resources go, used or not.
CloseSessions ==
    /\ entry # NoEntry /\ Happens
    /\ timers' = WithoutTimer
    /\ sockets' = Shut(sockets, entry.socket)
    /\ entry' = NoEntry /\ crossed' = TRUE
    /\ UNCHANGED <<turn, requestVars, fallback>>

Advances(r) ==
    \/ Acquire(r) \/ FetchReused(r) \/ Connected(r) \/ ConnectFails(r) \/ SendFrame(r)
    \/ Completed(r) \/ ServerRefuses(r) \/ Interrupted(r) \/ SaveContinuation(r)
    \/ ReleaseSocket(r) \/ Schedule(r) \/ ClearContinuation(r) \/ Discard(r) \/ Judge(r) \/ OverHttp(r)

CodexNext ==
    \/ \E r \in Asks : AskCodex(r) \/ Advances(r) \/ CodexAbort(r) \/ TimerElapses(r) \/ TimerActs(r)
    \/ EntryAges \/ CloseSessions
    \/ \E s \in Sockets : PeerCloses(s)

\* The tasks are polled, and what a request waits for comes or fails.
CodexFairness == WF_codexVars(\E r \in Asks : Advances(r))

CodexSpec == CodexInit /\ [][CodexNext]_codexVars /\ CodexFairness

(******************************** Properties *******************************)

\* "entry held busy under the lock" (openai_codex_websocket.rs:770): a request that has
\* decided to reuse a connection still finds it in the cache when it fetches it.
ReuseHoldsEntry == \A r \in Asks : turn[r] = "reuse" => entry.socket = uses[r]

\* A request that sends only what is new is answered in the context of all of its
\* messages, by an answer of its own, whatever connection the cache has by then; unless
\* two requests have come to share a socket, see ReuseHoldsEntry.
ContextComplete ==
    \A r \in Asks :
        (turn[r] = "answered" /\ got[r] # NoAsk /\ ~crossed) => (got[r] = r /\ heard[r] = asked[r])

\* With the same exception, no timer and no other request closes a connection in use.
InUseStaysOpen ==
    \A r \in Asks : (turn[r] \in {"send", "wait", "save"} /\ ~crossed) => sockets[uses[r]].open

\* Again and again no request is under way: each settles, after at most one more attempt
\* for either reason to retry, unless its task panics.
CodexSettles == []<>(\A r \in Asks : ~UnderWay(r))
=============================================================================
