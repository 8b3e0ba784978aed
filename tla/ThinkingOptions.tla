--------------------------- MODULE ThinkingOptions ---------------------------
(***************************************************************************)
(* How a request for thinking becomes a request of a provider: the caller  *)
(* asks for a level, stream_simple of the model's protocol adapts it (the  *)
(* level the model supports, the tokens that fit the context window, the   *)
(* budget that leaves room for an answer), and build_params writes the     *)
(* fields the provider reads.  The three steps know of each other only by  *)
(* the options they hand on.                                               *)
(***************************************************************************)
EXTENDS Integers

CONSTANTS Unset,             \* of an option, a field, or a level in a model's map
          RequestModels,     \* models: [api, kind, reasoning, map, efforts, field]: the protocol, the
                             \* kind of model it tells apart, and the model's thinking_level_map and
                             \* whether a Completions server takes efforts and a field for the budget
          Rooms,             \* [limit, window, used, wants]: the model's limits, the context's size
                             \* and the tokens asked for
          CustomBudgets      \* of the caller, by level

VARIABLES target, room,
          asked,             \* SimpleStreamOptions, as far as thinking goes
          options,           \* the protocol's own options
          params,            \* the request body
          made               \* asked, adapted, built, refused

requestVars == <<target, room, asked, options, params, made>>

Levels == <<"off", "minimal", "low", "medium", "high", "xhigh", "max">>
LevelNames == {Levels[i] : i \in 1..7}
Rank(l) == CHOOSE i \in 1..7 : Levels[i] = l

Smaller(m, n) == IF m < n THEN m ELSE n
Larger(m, n)  == IF m < n THEN n ELSE m
Monus(m, n)   == IF m < n THEN 0 ELSE m - n

(***************************** A model's levels ****************************)

\* What the map makes of a level: nothing for a level it does not have or marks as null.
Mapped(l) == IF target.map[l] = "null" THEN Unset ELSE target.map[l]
Effort(l) == IF Mapped(l) = Unset THEN l ELSE Mapped(l)
OffSupported == target.map["off"] # "null"

SupportedLevels ==
    IF ~target.reasoning THEN {"off"}
    ELSE {l \in LevelNames : /\ target.map[l] # "null"
                             /\ l \in {"xhigh", "max"} => target.map[l] # Unset}

\* The level itself, or the next one up that is supported, or else the next one down.
ClampLevel(l) ==
    LET above == {k \in SupportedLevels : Rank(k) >= Rank(l)} IN
    IF above # {} THEN CHOOSE k \in above : \A j \in above : Rank(k) <= Rank(j)
    ELSE IF SupportedLevels = {} THEN "off"
    ELSE CHOOSE k \in SupportedLevels : \A j \in SupportedLevels : Rank(j) <= Rank(k)

\* What most protocols make of the level asked for.
Clamped ==
    IF asked.level = Unset \/ ClampLevel(asked.level) = "off" THEN Unset ELSE ClampLevel(asked.level)

(********************************** Tokens *********************************)

ContextSafety == 4096
MinMax        == 1
MinAnswer     == 1024

ClampMaxTokens(n) ==
    IF room.window = 0 THEN Larger(n, MinMax)
    ELSE Smaller(n, Larger(Monus(Monus(room.window, room.used), ContextSafety), MinMax))

BaseOptions ==
    [max |-> ClampMaxTokens(IF room.wants = Unset THEN room.limit ELSE room.wants),
     level |-> Unset, enabled |-> Unset, effort |-> Unset, budget |-> Unset,
     prompt |-> FALSE, budgets |-> asked.budgets]

DefaultBudget == [minimal |-> 1024, low |-> 2048, medium |-> 8192, high |-> 16384]
ClampReasoning(l) == IF l \in {"xhigh", "max"} THEN "high" ELSE l

BudgetForLevel(l, budgets) ==
    LET c == ClampReasoning(l) IN IF budgets[c] = Unset THEN DefaultBudget[c] ELSE budgets[c]

AnswerRoomBudget(budget, ceiling) == Smaller(budget, Monus(ceiling, MinAnswer))

\* Room for the thinking on top of the answer's, as far as the model goes.
Adjusted(base, l) ==
    LET budget == BudgetForLevel(l, asked.budgets)
        most   == Smaller(base + budget, room.limit) IN
    [max |-> most, budget |-> IF most <= budget THEN AnswerRoomBudget(budget, most) ELSE budget]

\* After that, the context may not have the room.
Fitted(l) ==
    LET adjusted == Adjusted(BaseOptions.max, l)
        most     == ClampMaxTokens(adjusted.max) IN
    [max |-> most, budget |-> Smaller(adjusted.budget, Monus(most, MinAnswer))]

(****************************** Adapting: each API *************************)

AnthropicEffort(l) ==
    IF Mapped(l) # Unset THEN IF Mapped(l) \in {"low", "medium", "high", "xhigh", "max"} THEN Mapped(l) ELSE "high"
    ELSE IF l \in {"minimal", "low"} THEN "low" ELSE IF l = "medium" THEN l ELSE "high"

AdaptAnthropic ==
    IF asked.level = Unset THEN [BaseOptions EXCEPT !.enabled = FALSE]
    ELSE IF target.kind = "adaptive"
    THEN [BaseOptions EXCEPT !.enabled = TRUE, !.effort = AnthropicEffort(asked.level)]
    ELSE [BaseOptions EXCEPT !.enabled = TRUE, !.max = Fitted(asked.level).max,
                             !.budget = Fitted(asked.level).budget]

\* The budget goes where the level's is looked up: that of high for the levels above it.
SetBudgetOfLevel(budgets, l, budget) ==
    IF l \in DOMAIN budgets THEN [budgets EXCEPT ![l] = budget] ELSE budgets
SetBudget(budgets, l, budget) == [budgets EXCEPT ![ClampReasoning(l)] = budget]

AdaptBedrock ==
    IF asked.level = Unset THEN BaseOptions
    ELSE IF target.kind = "claude"
    THEN [BaseOptions EXCEPT !.level = asked.level, !.max = Fitted(asked.level).max,
             !.budgets = SetBudget(asked.budgets, asked.level, Fitted(asked.level).budget)]
    ELSE [BaseOptions EXCEPT !.level = asked.level]

\* Completions, the three kinds of Responses: the clamped level, unless it is off.
AdaptOpenai == [BaseOptions EXCEPT !.level = Clamped]

AdaptMistral ==
    IF ~target.reasoning \/ Clamped = Unset THEN BaseOptions
    ELSE IF target.kind = "effort"
    THEN [BaseOptions EXCEPT !.effort = IF Mapped(Clamped) = Unset THEN "high" ELSE Mapped(Clamped)]
    ELSE [BaseOptions EXCEPT !.prompt = TRUE]

\* Google's levels, in lower case; the level off stands for high here.
GoogleLevel(l)  == IF l = "off" THEN "high" ELSE Effort(l)
GoogleRefuses(l) == GoogleLevel(l) \notin {"minimal", "low", "medium", "high"}

GoogleEffort(l) ==
    IF target.kind = "pro3" THEN IF l \in {"minimal", "low"} THEN "low" ELSE "high"
    ELSE IF target.kind = "gemma4" THEN IF l \in {"minimal", "low"} THEN "minimal" ELSE "high"
    ELSE l

\* -1 leaves the budget to the model.
Dynamic == -1
GoogleBudget(l) ==
    IF asked.budgets[l] # Unset THEN asked.budgets[l]
    ELSE IF target.kind \notin {"pro25", "lite25", "flash25"} THEN Dynamic
    ELSE CASE l = "minimal" -> IF target.kind = "lite25" /\ target.api = "google" THEN 512 ELSE 128
           [] l = "low"     -> 2048
           [] l = "medium"  -> 8192
           [] l = "high"    -> IF target.kind = "pro25" THEN 32768 ELSE 24576

\* Vertex knows no Gemma.
ByLevel == target.kind \in {"pro3", "flash3"} \/ (target.kind = "gemma4" /\ target.api = "google")

AdaptGoogle ==
    IF asked.level = Unset THEN [BaseOptions EXCEPT !.enabled = FALSE]
    ELSE LET l == GoogleLevel(ClampLevel(asked.level)) IN
         IF ByLevel THEN [BaseOptions EXCEPT !.enabled = TRUE, !.effort = GoogleEffort(l)]
         ELSE [BaseOptions EXCEPT !.enabled = TRUE, !.budget = GoogleBudget(l)]

(****************************** Building: each API *************************)

\* The fields of a body: whether it says to think, how hard, and for how many tokens.
Body == [max |-> options.max, thinking |-> Unset, effort |-> Unset, budget |-> Unset]

BuildAnthropic ==
    IF ~target.reasoning THEN Body
    ELSE IF ~options.enabled
    THEN IF OffSupported THEN [Body EXCEPT !.thinking = "off"] ELSE Body
    ELSE IF target.kind = "adaptive" THEN [Body EXCEPT !.thinking = "on", !.effort = options.effort]
    ELSE [Body EXCEPT !.thinking = "on", !.budget = options.budget]

\* The native xhigh comes before the map.
BedrockEffort(l) == IF l = "xhigh" /\ target.kind = "native" THEN l ELSE AnthropicEffort(l)

BuildBedrock ==
    IF options.level = Unset \/ ~target.reasoning \/ target.kind = "other" THEN Body
    ELSE IF target.kind \in {"adaptive", "native"}
    THEN [Body EXCEPT !.thinking = "on", !.effort = BedrockEffort(options.level)]
    ELSE [Body EXCEPT !.thinking = "on", !.budget = BudgetForLevel(options.level, options.budgets)]

\* A ceiling of zero is not sent; the model's own is then the one that holds.
CompletionsMax == IF options.max > 0 THEN options.max ELSE Unset
CompletionsBudget ==
    LET budget == AnswerRoomBudget(BudgetForLevel(options.level, options.budgets),
                                   IF CompletionsMax = Unset THEN room.limit ELSE CompletionsMax) IN
    IF options.level = Unset \/ ~target.reasoning \/ budget = 0 THEN Unset ELSE budget

OffOrNone == IF Mapped("off") = Unset THEN "none" ELSE Mapped("off")

\* The values of a chat template whose variables are all three configured.
Template(budget) ==
    LET own == IF options.level = Unset THEN Unset ELSE Mapped(options.level) IN
    [thinking |-> IF options.level = Unset THEN "off" ELSE "on", budget |-> budget,
     effort |-> IF own # Unset THEN own ELSE IF Mapped("off") # Unset THEN Mapped("off") ELSE options.level]

Formatted(budget) ==
    LET thinks  == options.level # Unset
        effort  == IF thinks THEN Effort(options.level) ELSE Unset
        ifTold  == IF target.efforts THEN effort ELSE Unset
        Says(t, e) == [thinking |-> t, effort |-> e, budget |-> Unset]
        switch  == IF thinks THEN "on" ELSE "off" IN
    CASE target.kind \in {"zai", "qwen", "together"}   -> Says(switch, ifTold)
      [] target.kind = "qwentemplate"                  -> Says(switch, Unset)
      [] target.kind = "template"                      -> Template(budget)
      [] target.kind = "baseten" ->
             [Template(budget) EXCEPT
                 !.effort = IF ~target.efforts THEN Unset ELSE IF thinks THEN effort ELSE Mapped("off")]
      [] target.kind = "deepseek" ->
             Says(IF thinks \/ OffSupported THEN switch ELSE Unset, ifTold)
      [] target.kind \in {"openrouter", "string"} ->
             Says(Unset, IF thinks THEN effort ELSE IF OffSupported THEN OffOrNone ELSE Unset)
      [] target.kind = "antling" -> Says(Unset, IF thinks THEN Mapped(options.level) ELSE Unset)
      [] target.kind = "openai"  ->
             Says(Unset, IF ~target.efforts THEN Unset ELSE IF thinks THEN effort ELSE Mapped("off"))

\* Independently of the format, some servers take the budget in a field of its own.
BuildCompletions ==
    IF ~target.reasoning THEN [Body EXCEPT !.max = CompletionsMax]
    ELSE LET says == Formatted(CompletionsBudget) IN
         [max |-> CompletionsMax, thinking |-> says.thinking, effort |-> says.effort,
          budget |-> IF target.field THEN CompletionsBudget ELSE says.budget]

MinOutput == 16
ResponsesMax == IF options.max > 0 THEN Larger(options.max, MinOutput) ELSE Unset

\* Copilot is not told to stop thinking.
BuildResponses ==
    [max |-> ResponsesMax, thinking |-> Unset, budget |-> Unset,
     effort |-> IF ~target.reasoning THEN Unset
                ELSE IF options.level # Unset THEN Effort(options.level)
                ELSE IF target.kind # "copilot" /\ OffSupported THEN OffOrNone ELSE Unset]

\* Codex sends no ceiling.
BuildCodex ==
    [max |-> Unset, thinking |-> Unset, budget |-> Unset,
     effort |-> IF options.level = Unset THEN Unset ELSE Effort(options.level)]

BuildMistral ==
    [Body EXCEPT !.thinking = IF options.prompt THEN "on" ELSE Unset, !.effort = options.effort]

\* The Gemini 3 and Gemma models cannot be switched off: the lowest level they have.
GoogleDisabled ==
    CASE target.kind = "pro3"                     -> [Body EXCEPT !.effort = "low"]
      [] target.kind = "flash3" \/ (target.kind = "gemma4" /\ target.api = "google")
                                                  -> [Body EXCEPT !.effort = "minimal"]
      [] OTHER                                    -> [Body EXCEPT !.thinking = "off", !.budget = 0]

BuildGoogle ==
    IF ~target.reasoning THEN Body
    ELSE IF ~options.enabled THEN GoogleDisabled
    ELSE [Body EXCEPT !.thinking = "on", !.effort = options.effort, !.budget = options.budget]

(******************************** Behaviours *******************************)

NoParams == [max |-> Unset, thinking |-> Unset, effort |-> Unset, budget |-> Unset]

ThinkingInit ==
    /\ target \in RequestModels /\ room \in Rooms
    /\ asked \in [level : (LevelNames \ {"off"}) \union {Unset}, budgets : CustomBudgets]
    /\ options = Unset /\ params = NoParams /\ made = "asked"

\* stream_simple; Google's refuses a level that its map gives a name Google does not have.
Adapt ==
    /\ made = "asked"
    /\ UNCHANGED <<target, room, asked, params>>
    /\ IF target.api \in {"google", "vertex"} /\ asked.level # Unset /\ GoogleRefuses(ClampLevel(asked.level))
       THEN made' = "refused" /\ options' = options
       ELSE /\ made' = "adapted"
            /\ options' = CASE target.api = "anthropic" -> AdaptAnthropic
                            [] target.api = "bedrock"   -> AdaptBedrock
                            [] target.api = "mistral"   -> AdaptMistral
                            [] target.api \in {"google", "vertex"} -> AdaptGoogle
                            [] OTHER                    -> AdaptOpenai

BuildBody ==
    /\ made = "adapted" /\ made' = "built"
    /\ params' = CASE target.api = "anthropic"   -> BuildAnthropic
                   [] target.api = "bedrock"     -> BuildBedrock
                   [] target.api = "completions" -> BuildCompletions
                   [] target.api \in {"responses", "azure"}   -> BuildResponses
                   [] target.api = "codex"       -> BuildCodex
                   [] target.api = "mistral"     -> BuildMistral
                   [] target.api \in {"google", "vertex"}     -> BuildGoogle
    /\ UNCHANGED <<target, room, asked, options>>

ThinkingNext == Adapt \/ BuildBody

(******************************** Properties *******************************)

\* A budget leaves room for an answer within the ceiling that the same request sends, or
\* within the model's if it sends none (Google's budgets are apart from its ceiling).
AnswerRoom ==
    target.api \notin {"google", "vertex"} /\ params.budget \notin {Unset, 0} =>
        params.budget + MinAnswer <= (IF params.max = Unset THEN room.limit ELSE params.max)

\* Who does not ask for thinking is not sent a request to think, and who asks for a level
\* is not sent one to stop, unless the model supports no more than off.
SwitchHolds ==
    /\ asked.level = Unset => params.thinking # "on"
    /\ asked.level # Unset /\ SupportedLevels # {"off"} => params.thinking # "off"

\* Where the level is clamped, the effort sent is the name of a level the model supports.
EffortSupported ==
    target.api \in {"completions", "responses", "azure", "codex"} /\ target.reasoning
    /\ params.effort # Unset /\ asked.level # Unset =>
        \E l \in SupportedLevels \ {"off"} : params.effort = Effort(l)

\* Thinking fits: the fields of a built request agree with each other, with the model's
\* limits and with what the caller asked for (simple_options.rs and every build_params).
ThinkingFits == made = "built" => AnswerRoom /\ SwitchHolds /\ EffortSupported
=============================================================================
