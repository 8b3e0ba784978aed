----------------------------- MODULE DeviceLogin -----------------------------
(***************************************************************************)
(* Logins by device code (auth/oauth/device_code.rs and the five providers *)
(* that use it): the code is asked for, shown, and polled for at the pace  *)
(* and for the time that the server sets; then the token is exchanged, and *)
(* for GitHub Copilot the models are listed and enabled.  Kimi's refresh   *)
(* is here for its retries.  Time passes in ticks; timers count down.      *)
(***************************************************************************)
EXTENDS Integers, FiniteSets

CONSTANTS Issuers,                                    \* of the codes that are played
          MinInterval, DefaultInterval, SlowDownBy,   \* seconds, in ticks
          Millisecond,                                \* what a sleep is rounded down to, in ticks
          CodexLifetime, Lifetimes, Intervals,        \* what the servers may set
          RetryBudget, Delays, RateRetries,            \* of the rate-limited requests
          RefreshRetries, MaxModels                   \* bounds

Absent == -1

WholeTime(n) == n % Millisecond = 0

LongAgo == DefaultInterval + SlowDownBy      \* the clock of `since` stops here

\* What a server asks for is a number of milliseconds, and no more than the clock shows.
ASSUME DeviceAssumption ==
    /\ Issuers \subseteq {"codex", "radius", "kimi", "copilot", "xai"}
    /\ {MinInterval, DefaultInterval, SlowDownBy, Millisecond} \subseteq Nat \ {0}
    /\ MinInterval <= DefaultInterval
    /\ WholeTime(MinInterval) /\ WholeTime(DefaultInterval) /\ WholeTime(SlowDownBy)
    /\ \A i \in Intervals : i = Absent \/ (i \in 0..LongAgo /\ WholeTime(i))
    /\ {CodexLifetime, RetryBudget, RateRetries, RefreshRetries, MaxModels} \cup Lifetimes \cup Delays \subseteq Nat

VARIABLES issuer,
          stage,       \* choosing, starting, waiting, polling, exchanging, listing, enabling,
                       \* refreshing, pausing, in, out
          request,     \* what is awaited of a request: none, head, body
          left,        \* of the code's lifetime, or of the time for retries
          sleep,       \* until the sleep is over
          interval,    \* between two polls
          owed,        \* between two polls, as the server asked for it
          since,       \* the last answer to a poll
          retry,       \* of a rate-limited request, or of a refresh
          models,      \* to be enabled yet
          revoked      \* the signal of the interaction is cancelled

deviceVars == <<issuer, stage, request, left, sleep, interval, owed, since, retry, models, revoked>>

Least(m, n)    == IF m < n THEN m ELSE n
Greatest(m, n) == IF m < n THEN n ELSE m

DeviceInit ==
    /\ issuer \in Issuers
    /\ stage \in (IF issuer = "kimi" THEN {"starting", "refreshing"}
                  ELSE IF issuer = "xai" THEN {"starting"} ELSE {"choosing"})
    /\ request = (IF stage = "choosing" THEN "none" ELSE "head")
    /\ left = 0 /\ sleep = 0 /\ interval = 0 /\ owed = 0 /\ since = LongAgo
    /\ retry = 0 /\ models = 0 /\ revoked = FALSE

LoginSettled == stage \in {"in", "out"}

Timers == <<left, sleep, interval, owed, since>>

Moves(where) == stage' = where /\ request' = "none"
AsksFor(where) == stage' = where /\ request' = "head"

\* The timers are of no use any more.
Stops ==
    left' = 0 /\ sleep' = 0 /\ interval' = 0 /\ owed' = 0 /\ since' = LongAgo

Ends(how) ==
    Moves(how) /\ Stops /\ retry' = 0 /\ models' = 0 /\ UNCHANGED <<issuer, revoked>>

(****************************** The first steps ****************************)

\* The method or the domain is asked for; only Copilot looks at the signal afterwards.
Choose ==
    /\ stage = "choosing"
    /\ \/ Ends("out")
       \/ /\ ~(issuer = "copilot" /\ revoked) /\ AsksFor("starting")
          /\ UNCHANGED <<issuer, Timers, retry, models, revoked>>

HeadArrives ==
    /\ request = "head" /\ request' = "body"
    /\ UNCHANGED <<issuer, stage, Timers, retry, models, revoked>>

\* The interval that each provider makes of the one in the answer to the first request.
CodexInterval(i)   == i
RadiusInterval(i)  == IF i = Absent THEN DefaultInterval ELSE i
KimiInterval(i)    == IF i > 0 THEN i ELSE DefaultInterval
CopilotInterval(i) == IF i = Absent THEN DefaultInterval ELSE i
XaiInterval(i)     == IF i > 0 THEN i ELSE DefaultInterval

IntervalOf(i) ==
    Greatest(MinInterval, CASE issuer = "codex"   -> CodexInterval(i)
                            [] issuer = "radius"  -> RadiusInterval(i)
                            [] issuer = "kimi"    -> KimiInterval(i)
                            [] issuer = "copilot" -> CopilotInterval(i)
                            [] issuer = "xai"     -> XaiInterval(i))

\* Codex has a lifetime of its own; Kimi has one for a server that sets none.
LifetimeOf(l) == IF issuer = "codex" \/ (issuer = "kimi" /\ l = 0) THEN CodexLifetime ELSE l

WaitsFirst == issuer \in {"kimi", "copilot", "xai"}

\* A sleep, rounded down to milliseconds, and not beyond the end of the code's life.
Nap(l, i) == LET n == Least(l, i) IN n - (n % Millisecond)

\* The device code, or an answer without one.
Started ==
    /\ stage = "starting" /\ request = "body"
    /\ \/ Ends("out")
       \/ \E i \in Intervals, l \in Lifetimes :
             /\ ~(issuer = "codex" /\ i = Absent) /\ ~(issuer = "xai" /\ l = 0)
             /\ left' = LifetimeOf(l) /\ interval' = IntervalOf(i)
             /\ owed' = IF i = Absent THEN DefaultInterval ELSE i
             /\ since' = IF WaitsFirst THEN 0 ELSE LongAgo
             /\ IF WaitsFirst /\ left' > 0
                THEN IF revoked THEN sleep' = 0 /\ Moves("out")
                     ELSE sleep' = Nap(left', interval') /\ Moves("waiting")
                ELSE sleep' = 0 /\ Moves("waiting")
             /\ UNCHANGED <<issuer, retry, models, revoked>>

(********************************* The polls *******************************)

\* The head of the loop.
Wakes ==
    /\ stage = "waiting" /\ sleep = 0
    /\ IF left = 0 \/ revoked THEN Moves("out") ELSE AsksFor("polling")
    /\ UNCHANGED <<issuer, Timers, retry, models, revoked>>

\* What a server may answer: a status, what it says, and an interval.
Replies == [status : {200, 400, 403, 500}, says : {"token", "nothing", "pending", "slow_down", "denied"},
            interval : {Absent, MinInterval, LongAgo}]

Ok(a) == a.status = 200

ByName(a) == IF a.says \in {"pending", "slow_down"} THEN a.says ELSE "failed"

\* What each provider makes of the answer: complete, pending, slow_down or failed.
CodexReads(a) ==
    IF Ok(a) THEN IF a.says = "token" THEN "complete" ELSE "failed"
    ELSE IF a.status = 403 THEN "pending" ELSE ByName(a)

\* Any success is a token, whatever it says.
RadiusReads(a) == IF Ok(a) THEN "complete" ELSE ByName(a)

KimiReads(a) ==
    IF a.status = 500 THEN "failed"
    ELSE IF Ok(a) /\ a.says = "token" THEN "complete" ELSE ByName(a)

\* GitHub says no with a success.
CopilotReads(a) ==
    IF ~Ok(a) THEN "failed" ELSE IF a.says = "token" THEN "complete" ELSE ByName(a)

XaiReads(a) ==
    IF Ok(a) THEN IF a.says = "token" THEN "complete" ELSE "failed" ELSE ByName(a)

Reads(a) ==
    CASE issuer = "codex"   -> CodexReads(a)
      [] issuer = "radius"  -> RadiusReads(a)
      [] issuer = "kimi"    -> KimiReads(a)
      [] issuer = "copilot" -> CopilotReads(a)
      [] issuer = "xai"     -> XaiReads(a)

\* Codex and Radius do not read the interval of a slow_down.
NewInterval(a) == IF issuer \in {"codex", "radius"} THEN Absent ELSE a.interval

\* Mutant: a slow_down without an interval is taken for a pending one.
SlowerByNone(i, given) == IF given > 0 THEN Greatest(MinInterval, given) ELSE i

\* The server's interval, or five seconds more.
Slower(i, given) == IF given > 0 THEN Greatest(MinInterval, given) ELSE i + SlowDownBy

\* The bound of the model: an interval beyond it is as good as it.
Bounded(n) == Least(n, LongAgo)

Complete ==
    /\ IF issuer \in {"codex", "copilot"} THEN AsksFor("exchanging") ELSE Moves("in")
    /\ Stops /\ UNCHANGED <<issuer, retry, models, revoked>>

\* Back in the loop, with the pause between two polls.
NotYet(slow, given) ==
    /\ interval' = IF slow THEN Bounded(Slower(interval, given)) ELSE interval
    /\ owed' = IF ~slow THEN owed ELSE IF given > 0 THEN given ELSE Bounded(owed + SlowDownBy)
    /\ since' = 0
    /\ IF left = 0 \/ revoked THEN sleep' = 0 /\ Moves("out")
       ELSE sleep' = Nap(left, interval') /\ Moves("waiting")
    /\ UNCHANGED <<issuer, left, retry, models, revoked>>

PollAnswered ==
    /\ stage = "polling" /\ request = "body"
    /\ \E a \in Replies :
          CASE Reads(a) = "complete"  -> Complete
            [] Reads(a) = "failed"    -> Ends("out")
            [] Reads(a) = "pending"   -> NotYet(FALSE, Absent)
            [] Reads(a) = "slow_down" -> NotYet(TRUE, NewInterval(a))

(*************************** What comes after them *************************)

\* The models are listed, and each is enabled, within a budget of time of its own.
FetchesModels(where) ==
    /\ AsksFor(where) /\ left' = RetryBudget /\ retry' = 0
    /\ UNCHANGED <<issuer, sleep, interval, owed, since, revoked>>

\* Codex exchanges an authorization code, Copilot GitHub's token.
TokenExchanged ==
    /\ stage = "exchanging" /\ request = "body"
    /\ \/ Ends("out")
       \/ issuer = "codex" /\ Ends("in")
       \/ issuer = "copilot" /\ FetchesModels("listing") /\ UNCHANGED models

\* The next model, or the end.
EnablesNext(n) ==
    IF n > 0 THEN FetchesModels("enabling") /\ models' = n
    ELSE Ends("in")

Listed == \E n \in 0..MaxModels : EnablesNext(n)

\* A model that is not enabled is no failure, unless the login is cancelled or the
\* server has enough of requests: that ends the batch.
ModelFails(limited) ==
    IF revoked THEN Ends("out") ELSE EnablesNext(IF limited THEN 0 ELSE models - 1)

\* The server answers with a 429: again after a delay, if that is within the budget.
RateLimited ==
    /\ stage \in {"listing", "enabling"} /\ request = "body"
    /\ \E d \in Delays :
          IF retry < RateRetries /\ d < left
          THEN /\ stage' = stage /\ request' = "none" /\ sleep' = d
               /\ UNCHANGED <<issuer, left, interval, owed, since, retry, models, revoked>>
          ELSE IF stage = "listing" THEN Ends("out") ELSE ModelFails(TRUE)

RetriesFetch ==
    /\ stage \in {"listing", "enabling"} /\ request = "none" /\ sleep = 0
    /\ AsksFor(stage) /\ retry' = retry + 1
    /\ UNCHANGED <<issuer, Timers, models, revoked>>

FetchAnswered ==
    /\ request = "body"
    /\ \/ stage = "listing" /\ (Listed \/ Ends("out"))
       \/ stage = "enabling" /\ EnablesNext(models - 1)

(****************************** Kimi's refresh *****************************)

\* A second before the first retry, then twice as much each time.
RefreshPause ==
    /\ Moves("pausing") /\ retry' = retry + 1 /\ sleep' = 2 ^ retry
    /\ UNCHANGED <<issuer, left, interval, owed, since, models, revoked>>

Refreshed ==
    /\ stage = "refreshing" /\ request = "body"
    /\ \/ Ends("in")
       \/ Ends("out")
       \/ retry < RefreshRetries /\ RefreshPause

RefreshAgain ==
    /\ stage = "pausing" /\ sleep = 0
    /\ IF revoked THEN Moves("out") ELSE AsksFor("refreshing")
    /\ UNCHANGED <<issuer, Timers, retry, models, revoked>>

(******************************** Failures *********************************)

\* A request that fails before there is a head.
RequestFails ==
    /\ request = "head"
    /\ CASE stage = "refreshing" -> IF retry < RefreshRetries THEN RefreshPause ELSE Ends("out")
         [] stage = "enabling"   -> ModelFails(FALSE)
         [] OTHER                -> Ends("out")

\* Kimi and Copilot limit the time until the head arrives, and no one limits the body.
LimitsHead == issuer \in {"kimi", "copilot"}

TimesOut == LimitsHead /\ RequestFails

\* A sleep ends with the signal.
CutShort ==
    /\ revoked /\ request = "none" /\ sleep > 0 /\ ~LoginSettled
    /\ Ends("out")

Revoke ==
    /\ ~revoked /\ ~LoginSettled /\ revoked' = TRUE
    /\ UNCHANGED <<issuer, stage, request, Timers, retry, models>>

\* One tick for every timer.
Tick ==
    /\ ~LoginSettled /\ (left > 0 \/ sleep > 0)
    /\ left' = Greatest(0, left - 1) /\ sleep' = Greatest(0, sleep - 1)
    /\ since' = Least(LongAgo, since + 1)
    /\ UNCHANGED <<issuer, stage, request, interval, owed, retry, models, revoked>>

DeviceNext ==
    \/ Choose \/ HeadArrives \/ Started \/ Wakes \/ PollAnswered \/ TokenExchanged
    \/ RateLimited \/ RetriesFetch \/ FetchAnswered \/ Refreshed \/ RefreshAgain
    \/ RequestFails \/ CutShort \/ Revoke \/ Tick

\* Time passes, a timer that is over wakes its task, a time limit is kept.
DeviceSteps == Wakes \/ RetriesFetch \/ RefreshAgain \/ CutShort \/ TimesOut

DeviceFairness == WF_deviceVars(DeviceSteps) /\ WF_deviceVars(Tick)

DeviceSpec == DeviceInit /\ [][DeviceNext]_deviceVars /\ DeviceFairness

(******************************** Properties *******************************)

\* No poll comes sooner after the answer to the one before, or after the code, than
\* the server asked for, none after the end of the code's life or of the login; but
\* for one in the last millisecond of the code's life, which sleeps are rounded to.
PollsPaced ==
    [][(stage = "waiting" /\ stage' = "polling") =>
          /\ left > 0 /\ ~revoked
          /\ since >= owed \/ left < Millisecond]_deviceVars

\* However often the server says no, a login or a refresh comes to an end, or stays in
\* a request: in a body, or in a head where there is no limit on it.
DeviceSettles ==
    <>[](\/ LoginSettled \/ stage = "choosing"
         \/ request = "body" \/ (request = "head" /\ ~LimitsHead))
=============================================================================
