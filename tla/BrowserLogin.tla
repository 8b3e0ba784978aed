---------------------------- MODULE BrowserLogin ----------------------------
(***************************************************************************)
(* Logins through the browser (auth/oauth/anthropic.rs, openai_codex.rs,   *)
(* openrouter.rs, radius.rs).  The tabs of the browser call a server on    *)
(* the loopback back, the user may paste the code into a prompt meanwhile, *)
(* and the first to settle the login's wait hands it on: to the exchange   *)
(* of the code for a token, which OpenRouter's tabs do themselves.         *)
(***************************************************************************)
EXTENDS FiniteSets

CONSTANTS Sites,     \* of the providers that are played
          Tabs       \* of the browser

ASSUME SitesAssumption == Sites \subseteq {"anthropic", "codex", "openrouter", "radius"}

VARIABLES site,
          login,       \* choosing, opening, waiting, manual, exchanging, in, out
          port,        \* of the callback server: free, bound, closing
          wait,        \* what settled it: open, none, error, key, callback
          claimed,     \* whether a tab has claimed OpenRouter's exchange
          tab,         \* of each: away, accepted, checked, exchanging, done
          brings,      \* what each calls back with: code, foreign, denied, empty
          prompt,      \* for the code: none, asking, told, handing, over
          pasted,      \* what came of it: nothing, error, blank, or a code, own (bare or
                       \* with the login's state) or foreign
          used,        \* the code that is exchanged: none, callback, or what was pasted
          stopped      \* the signal of the interaction is cancelled

browserVars == <<site, login, port, wait, claimed, tab, brings, prompt, pasted, used, stopped>>

BrowserInit ==
    /\ site \in Sites
    /\ login = (IF site \in {"codex", "radius"} THEN "choosing" ELSE "opening")
    /\ port = "free" /\ wait = "open" /\ claimed = FALSE
    /\ tab = [t \in Tabs |-> "away"]
    /\ brings \in [Tabs -> {"code", "foreign", "denied", "empty"}]
    /\ prompt = "none" /\ pasted = "nothing" /\ used = "none" /\ stopped = FALSE

IsOver == login \in {"in", "out"}

Shuts == port' = IF port = "bound" THEN "closing" ELSE port

\* settle, finish: the first one wins, and all but Anthropic's stops the server.
SettleWait(what) ==
    IF wait = "open"
    THEN wait' = what /\ (IF site = "anthropic" THEN UNCHANGED port ELSE Shuts)
    ELSE UNCHANGED <<wait, port>>

\* The end of a login: the prompt is aborted (it sees that the login is over), the
\* server closed.
Leaves(how) == login' = how /\ Shuts

(********************************* The login *******************************)

\* The method is chosen, or not.
ChooseMethod ==
    /\ login = "choosing" /\ login' \in {"opening", "out"}
    /\ UNCHANGED <<site, port, wait, claimed, tab, brings, prompt, pasted, used, stopped>>

\* The callback server.  Without it Anthropic and OpenRouter fail; for Codex and Radius
\* the wait ends at once with no code.
Opens ==
    /\ login = "opening"
    /\ \/ /\ ~(site = "openrouter" /\ stopped)
          /\ login' = "waiting" /\ port' = "bound" /\ wait' = wait
          /\ prompt' = IF site = "radius" THEN "none" ELSE "asking"
       \/ /\ IF site \in {"codex", "radius"}
             THEN /\ login' = "waiting" /\ wait' = "none"
                  /\ prompt' = IF site = "radius" THEN "none" ELSE "asking"
             ELSE login' = "out" /\ UNCHANGED <<wait, prompt>>
          /\ UNCHANGED port
    /\ UNCHANGED <<site, claimed, tab, brings, pasted, used, stopped>>

Exchanges(code) == login' = "exchanging" /\ used' = code /\ UNCHANGED port

Fails == Leaves("out") /\ UNCHANGED used

\* Mutant: the state of a pasted redirect is not compared.
ExchangesAnything ==
    IF pasted \in {"error", "blank", "nothing"} THEN Fails ELSE Exchanges(pasted)

\* parse_authorization_input, and the check of the state that came with the code.
ExchangesPasted ==
    CASE pasted \in {"error", "blank", "nothing"} -> Fails
      [] pasted = "foreign" -> Fails
      [] pasted = "own" -> Exchanges(pasted)

\* A prompt that failed goes first, then the tab's code, then what was pasted already;
\* else the prompt is waited for.
AnthropicGoesOn ==
    /\ site = "anthropic"
    /\ CASE pasted = "error"   -> Fails
         [] pasted # "error" /\ wait = "callback" -> Exchanges("callback")
         [] pasted \notin {"error", "nothing"} /\ wait = "none" -> ExchangesPasted
         [] pasted = "nothing" /\ wait = "none" -> login' = "manual" /\ UNCHANGED <<port, used>>

CodexGoesOn ==
    /\ site = "codex"
    /\ CASE pasted = "error"   -> Fails
         [] pasted # "error" /\ wait = "callback" -> Exchanges("callback")
         [] pasted \notin {"error", "nothing"} /\ wait = "none" -> ExchangesPasted
         [] pasted = "nothing" /\ wait = "none" -> login' = "manual" /\ UNCHANGED <<port, used>>

\* OpenRouter's wait ends with the key, with an error, or with neither.
OpenRouterGoesOn ==
    /\ site = "openrouter"
    /\ IF wait = "error" \/ pasted = "error" THEN Fails
       ELSE IF wait = "key" THEN Leaves("in") /\ UNCHANGED used
       ELSE login' = "manual" /\ UNCHANGED <<port, used>>

\* Radius asks for no code: without one from a tab there is none.
RadiusGoesOn ==
    /\ site = "radius"
    /\ IF wait = "callback" THEN Exchanges("callback") ELSE Fails

GoesOn ==
    /\ login = "waiting" /\ wait # "open"
    /\ AnthropicGoesOn \/ CodexGoesOn \/ OpenRouterGoesOn \/ RadiusGoesOn
    /\ UNCHANGED <<site, wait, claimed, tab, brings, prompt, pasted, stopped>>

\* OpenRouter compares no state: the path and the verifier are the login's own.
TakesPasted ==
    /\ login = "manual" /\ prompt = "over"
    /\ IF site = "openrouter" /\ pasted \in {"own", "foreign"}
       THEN IF stopped THEN Fails ELSE Exchanges(pasted)
       ELSE ExchangesPasted
    /\ UNCHANGED <<site, wait, claimed, tab, brings, prompt, pasted, stopped>>

\* The token, or a failure of the request.
CodeExchanged ==
    /\ login = "exchanging" /\ \E how \in {"in", "out"} : Leaves(how)
    /\ UNCHANGED <<site, wait, claimed, tab, brings, prompt, pasted, used, stopped>>

(********************************* The prompt ******************************)

\* The user answers, or the prompt fails: so it does when the login has aborted it.
PromptAnswered ==
    /\ prompt = "asking" /\ prompt' = "told"
    /\ pasted' \in (IF IsOver THEN {"error"}
                    ELSE {"error", "blank", "own", "foreign"})
    /\ UNCHANGED <<site, login, port, wait, claimed, tab, brings, used, stopped>>

\* Mutant: only an input is handed over.
HandsInputOver ==
    /\ prompt = "told"
    /\ IF pasted = "error" THEN prompt' = "over" /\ UNCHANGED <<wait, port>>
       ELSE SettleWait("none") /\ prompt' = "over"
    /\ UNCHANGED <<site, login, claimed, tab, brings, pasted, used, stopped>>

\* cancel_wait; OpenRouter's looks for a claim first, and settles in a second step.
HandsOver ==
    /\ prompt = "told"
    /\ IF site = "openrouter"
       THEN prompt' = (IF claimed THEN "over" ELSE "handing") /\ UNCHANGED <<wait, port>>
       ELSE IF site = "codex" /\ port = "free"       \* there is no server to settle
       THEN prompt' = "over" /\ UNCHANGED <<wait, port>>
       ELSE SettleWait("none") /\ prompt' = "over"
    /\ UNCHANGED <<site, login, claimed, tab, brings, pasted, used, stopped>>

SettlesUnclaimed ==
    /\ prompt = "handing" /\ prompt' = "over" /\ SettleWait("none")
    /\ UNCHANGED <<site, login, claimed, tab, brings, pasted, used, stopped>>

(********************************** The tabs *******************************)

\* A connection is accepted while the server listens, and served whatever becomes of it.
Arrives(t) ==
    /\ port = "bound" /\ tab[t] = "away"
    /\ tab' = [tab EXCEPT ![t] = "accepted"]
    /\ UNCHANGED <<site, login, port, wait, claimed, brings, prompt, pasted, used, stopped>>

Served(t, where) ==
    /\ tab' = [tab EXCEPT ![t] = where]
    /\ UNCHANGED <<site, login, claimed, brings, prompt, pasted, used, stopped>>

NoSettle == UNCHANGED <<wait, port>>

\* A page, and the login's wait settled if the tab brought its code and its state.
AnthropicServes(t) ==
    /\ site = "anthropic" /\ tab[t] = "accepted" /\ Served(t, "done")
    /\ IF brings[t] = "code" THEN SettleWait("callback") ELSE NoSettle

CodexServes(t) ==
    /\ site = "codex" /\ tab[t] = "accepted" /\ Served(t, "done")
    /\ IF brings[t] = "code" THEN SettleWait("callback") ELSE NoSettle

\* Radius takes a refusal for an end.
RadiusServes(t) ==
    /\ site = "radius" /\ tab[t] = "accepted" /\ Served(t, "done")
    /\ CASE brings[t] = "code"   -> SettleWait("callback")
         [] brings[t] = "denied" -> SettleWait("none")
         [] brings[t] \in {"foreign", "empty"} -> NoSettle

\* OpenRouter: a login that is claimed or settled is used, and another path is another
\* login's.  The claim comes in a step of its own.
OpenRouterChecks(t) ==
    /\ site = "openrouter" /\ tab[t] = "accepted"
    /\ IF claimed \/ wait # "open" \/ brings[t] \in {"foreign", "empty"}
       THEN Served(t, "done") /\ NoSettle
       ELSE IF brings[t] = "denied" THEN Served(t, "done") /\ SettleWait("error")
       ELSE Served(t, "checked") /\ NoSettle

OpenRouterClaims(t) ==
    /\ tab[t] = "checked" /\ claimed' = TRUE
    /\ tab' = [tab EXCEPT ![t] = IF stopped THEN "done" ELSE "exchanging"]
    /\ IF stopped THEN SettleWait("error") ELSE NoSettle
    /\ UNCHANGED <<site, login, brings, prompt, pasted, used, stopped>>

\* Within thirty seconds for the head of the answer.
OpenRouterExchanged(t) ==
    /\ tab[t] = "exchanging" /\ Served(t, "done")
    /\ \E what \in {"key", "error"} : SettleWait(what)

Serves(t) == AnthropicServes(t) \/ CodexServes(t) \/ RadiusServes(t) \/ OpenRouterChecks(t) \/ OpenRouterClaims(t)

(********************************* The watchers ****************************)

StopLogin ==
    /\ ~stopped /\ ~IsOver /\ stopped' = TRUE
    /\ UNCHANGED <<site, login, port, wait, claimed, tab, brings, prompt, pasted, used>>

\* The signal settles the wait, unless the server was shut down before.
HearsStop ==
    /\ stopped /\ port = "bound" /\ wait = "open"
    /\ SettleWait(IF site = "openrouter" THEN "error" ELSE "none")
    /\ UNCHANGED <<site, login, claimed, tab, brings, prompt, pasted, used, stopped>>

\* OpenRouter's login ends after five minutes.
Expires ==
    /\ site = "openrouter" /\ port = "bound" /\ SettleWait("error")
    /\ UNCHANGED <<site, login, claimed, tab, brings, prompt, pasted, used, stopped>>

\* The task that listens ends, and the port is free again.
Frees ==
    /\ port = "closing" /\ port' = "free"
    /\ UNCHANGED <<site, login, wait, claimed, tab, brings, prompt, pasted, used, stopped>>

BrowserNext ==
    \/ ChooseMethod \/ Opens \/ GoesOn \/ TakesPasted \/ CodeExchanged
    \/ PromptAnswered \/ HandsOver \/ SettlesUnclaimed
    \/ \E t \in Tabs : Arrives(t) \/ Serves(t) \/ OpenRouterExchanged(t)
    \/ StopLogin \/ HearsStop \/ Expires \/ Frees

\* The tasks of the runtime and its timers; not the user, the browser or the provider.
BrowserTasks ==
    \/ GoesOn \/ TakesPasted \/ HandsOver \/ SettlesUnclaimed
    \/ HearsStop \/ Expires \/ Frees \/ \E t \in Tabs : Serves(t)

BrowserFairness == WF_browserVars(BrowserTasks)

BrowserSpec == BrowserInit /\ [][BrowserNext]_browserVars /\ BrowserFairness

(******************************** Properties *******************************)

\* Where a login has a state to compare, no code with the state of another is exchanged,
\* whichever way it comes in and whatever is settled by whom in the meantime.
OwnCodeOnly ==
    /\ site # "openrouter" => used # "foreign"
    /\ used = "callback" => \E t \in Tabs : tab[t] = "done" /\ brings[t] = "code"

\* A login stays where it is only for its user or its provider: for a tab to call back,
\* an answer to the prompt, a request; and not for them once it is cancelled, but for
\* the prompt, which does not hear of it.  When it is over its port is free.
BrowserSettles ==
    <>[](\/ IsOver /\ port = "free"
         \/ login \in {"choosing", "opening", "exchanging"}
         \/ login = "manual" /\ prompt = "asking"
         \/ /\ login = "waiting" /\ site # "openrouter" /\ ~stopped
            /\ prompt \in {"none", "asking"} /\ port = "bound")
=============================================================================
