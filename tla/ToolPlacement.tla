---------------------------- MODULE ToolPlacement ----------------------------
(***************************************************************************)
(* Where a request defines the tools of its context.  A tool that a result *)
(* added is not defined up front but at that result, so that the cached    *)
(* beginning of the conversation stays as it was; a tool that was used     *)
(* before stays in front (utils/deferred_tools.rs).  Each protocol writes  *)
(* the introduction its own way, in a pass over the messages that knows    *)
(* of the split only which names were deferred.                            *)
(***************************************************************************)
EXTENDS Integers, Sequences

CONSTANTS Tools,             \* names
          Alias,             \* what Claude Code calls a tool
          Rosters,           \* the tools of a context
          MaxTurns           \* bound

VARIABLES talk,              \* turns: a call and whether its message failed, or a result and what it added
          roster

toolVars == <<talk, roster>>

Modes == {"anthropic", "claudecode", "additional", "search", "kimi", "plain"}

CallTurn(t, failed) == [turn |-> "call", tool |-> t, failed |-> failed]
ResultTurn(added)   == [turn |-> "result", added |-> added]

(******************************** The request ******************************)

\* With an OAuth token the tools go by Claude Code's names.
Normalized(mode, t) == IF mode = "claudecode" THEN Alias[t] ELSE t
Names(mode, ts)     == {Normalized(mode, t) : t \in ts}

\* The messages without the failed ones; what is inserted for calls without a result
\* adds no tool.
Sent == SelectSeq(talk, LAMBDA m : m.turn = "call" => ~m.failed)

\* Anthropic splits by the messages it sends, Responses by those of the context.
SplitBy(mode) == IF mode \in {"anthropic", "claudecode"} THEN Sent ELSE talk

NotYetUsed(mode, log, n, i) ==
    \A j \in 1..(i - 1) : log[j].turn = "call" => Normalized(mode, log[j].tool) # n

\* split_deferred_tools: added by some result before it was used.
SplitDeferred(mode) ==
    LET log == SplitBy(mode) IN
    {n \in Names(mode, roster) : \E i \in DOMAIN log :
         /\ log[i].turn = "result" /\ n \in Names(mode, log[i].added)
         /\ NotYetUsed(mode, log, n, i)}

AddedSometime ==
    {n \in roster : \E i \in DOMAIN talk : talk[i].turn = "result" /\ n \in talk[i].added}

\* Anthropic refuses a request all of whose tools are deferred.
Deferred(mode) ==
    CASE mode = "plain" -> {}
      [] mode = "kimi"  -> AddedSometime
      [] mode \in {"anthropic", "claudecode"} ->
             IF SplitDeferred(mode) = Names(mode, roster) THEN {} ELSE SplitDeferred(mode)
      [] mode \in {"additional", "search"} -> SplitDeferred(mode)

Immediate(mode) == Names(mode, roster) \ Deferred(mode)

\* What the result at i introduces: tool references in its place, an item of additional
\* tools behind it, or a made-up search for them and its outcome.
Introduces(mode, i) ==
    {n \in Deferred(mode) : /\ Sent[i].turn = "result" /\ n \in Names(mode, Sent[i].added)
                            /\ \A j \in 1..(i - 1) :
                                   Sent[j].turn = "result" => n \notin Names(mode, Sent[j].added)}

\* Kimi is sent a system message with tools after each run of results, whatever it was
\* sent before.
EndsRun(i) == Sent[i].turn = "result" /\ (i < Len(Sent) => Sent[i + 1].turn # "result")
InRun(j, i) == j <= i /\ \A k \in j..i : Sent[k].turn = "result"
KimiIntroduces(i) ==
    IF ~EndsRun(i) THEN {} ELSE {n \in roster : \E j \in 1..i : InRun(j, i) /\ n \in Sent[j].added}

IntroducedAt(mode, i) == IF mode = "kimi" THEN KimiIntroduces(i) ELSE Introduces(mode, i)

(******************************** Behaviours *******************************)

ToolInit == talk = <<>> /\ roster \in Rosters

AssistantUses ==
    \E t \in Tools, failed \in BOOLEAN : talk' = Append(talk, CallTurn(t, failed))

\* A result follows its call, or another result.
ResultAdds ==
    talk # <<>> /\ \E added \in SUBSET Tools : talk' = Append(talk, ResultTurn(added))

ToolNext == Len(talk) < MaxTurns /\ (AssistantUses \/ ResultAdds) /\ UNCHANGED roster

(******************************** Properties *******************************)

\* The places of a request that introduce a tool.
IntroducedIn(mode, n) == {i \in DOMAIN Sent : n \in IntroducedAt(mode, i)}

\* Every tool of a request reaches the provider in one place: in front, or introduced by
\* one result (by one or more for Kimi), and then no call that is sent comes before it;
\* a result introduces nothing else, and Anthropic never has only deferred tools.
ToolsReach ==
    \A mode \in Modes :
        /\ \A n \in Deferred(mode) :
               /\ IntroducedIn(mode, n) # {}
               /\ mode # "kimi" => \A i, j \in IntroducedIn(mode, n) : i = j
               /\ mode # "kimi" => \A i \in IntroducedIn(mode, n), j \in DOMAIN Sent :
                      Sent[j].turn = "call" /\ Normalized(mode, Sent[j].tool) = n => i < j
        /\ \A i \in DOMAIN Sent : IntroducedAt(mode, i) \subseteq Deferred(mode)
        /\ mode \in {"anthropic", "claudecode"} /\ roster # {} => Immediate(mode) # {}
=============================================================================
