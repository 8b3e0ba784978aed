----------------------------- MODULE MCRecords -----------------------------
(***************************************************************************)
(* What is kept and what is made of it: the storage of one session under   *)
(* every fault, the repository of sessions, the files that tools change,   *)
(* the requests a conversation becomes (its messages, its tools and the    *)
(* thinking that is asked for), what it is cut down to, the catalogue of   *)
(* models, the text of an edited file and of a streamed answer, and the log *)
(* of a lane.  They share no state here: a behaviour is one of the         *)
(* component that its scenario names.                                      *)
(***************************************************************************)
EXTENDS MCJsonlStorage, JsonlRepo, FileMutations, Conversation, LaneRecovery, ThinkingOptions,
        ToolPlacement, Compaction, ModelRegistry, EditText, WireText

VARIABLE scenario

(******************************** Constants ********************************)

\* Two edits of one file, one of them through a link, and a write; or all three of a
\* file that is not there yet.
PathAt(p) == IF p = "link" THEN "file" ELSE p
PathsNamed ==
    {[edit |-> "file", linkedit |-> "link", write |-> "file"],
     [edit |-> "new", linkedit |-> "new", write |-> "new"]}

\* A create and a fork that want the same, and a create that does not.
Wants(m) == IF m = "other" THEN "elsewhere" ELSE "here"

\* The kinds of models that the protocols tell apart; with the maps of the catalogue.
Kinds ==
    [anthropic |-> {"adaptive", "budget"}, bedrock |-> {"adaptive", "native", "claude", "other"},
     completions |-> {"zai", "qwen", "qwentemplate", "template", "baseten", "deepseek",
                      "openrouter", "string", "antling", "together", "openai"},
     responses |-> {"plain", "copilot"}, azure |-> {"plain"}, codex |-> {"plain"},
     mistral |-> {"effort", "prompt"},
     google |-> {"pro3", "flash3", "gemma4", "pro25", "lite25", "flash25", "plain"},
     vertex |-> {"pro3", "flash3", "gemma4", "pro25", "lite25", "flash25", "plain"}]

NoMap == [l \in LevelNames |-> Unset]
Maps ==
    {NoMap, [NoMap EXCEPT !["off"] = "null", !["xhigh"] = "xhigh", !["max"] = "max"],
     [NoMap EXCEPT !["minimal"] = "low", !["xhigh"] = "xhigh"],
     [off |-> "none", minimal |-> "null", low |-> "low", medium |-> "medium", high |-> "high",
      xhigh |-> "null", max |-> "null"],
     [off |-> "null", minimal |-> "null", low |-> "low", medium |-> "null", high |-> "high",
      xhigh |-> "null", max |-> "max"],
     [off |-> "none", minimal |-> "null", low |-> "null", medium |-> "null", high |-> "default",
      xhigh |-> "null", max |-> "null"]}

ModelsOf(api) ==
    [api : {api}, kind : Kinds[api], reasoning : {TRUE}, map : Maps,
     efforts : {api = "completions"}, field : {FALSE}]
    \union [api : {api}, kind : Kinds[api], reasoning : {FALSE}, map : {NoMap},
            efforts : {FALSE}, field : {FALSE}]
MoreCompletions ==
    [api : {"completions"}, kind : Kinds["completions"], reasoning : {TRUE}, map : Maps,
     efforts : {FALSE}, field : {TRUE}]
AllTargets == UNION {ModelsOf(api) : api \in DOMAIN Kinds} \union MoreCompletions

\* Plenty of room; little, because of the caller, the context or the model; and none asked for.
SomeRooms ==
    {[limit |-> 64000, window |-> 200000, used |-> 1000, wants |-> Unset],
     [limit |-> 64000, window |-> 200000, used |-> 1000, wants |-> 500],
     [limit |-> 64000, window |-> 64000, used |-> 58000, wants |-> 20000],
     [limit |-> 64000, window |-> 64000, used |-> 62000, wants |-> 4000],
     [limit |-> 4096, window |-> 0, used |-> 10, wants |-> 0]}

NoBudgets == [minimal |-> Unset, low |-> Unset, medium |-> Unset, high |-> Unset]
SomeBudgets == {NoBudgets, [NoBudgets EXCEPT !["low"] = 512, !["high"] = 50000]}

\* Two tools that Claude Code calls the same.
ClaudeCodeName == [read |-> "Read", Read |-> "Read"]
SomeRosters == {{"read"}, {"read", "Read"}}

\* Files of every kind of line end; edits whose texts are in others or are not there.
TextsOf(chars, n) == UNION {[1..k -> chars] : k \in 0..n}
SomeFiles ==
    TextsOf({"x", "fancy", "space", "newline"}, 4)
        \union {u \in TextsOf({"x", "cr", "newline"}, 4) : \E i \in DOMAIN u : u[i] = "cr"}
OldTexts ==
    {<<>>, <<"x">>, <<"x", "x">>, <<"x", "space">>, <<"newline">>, <<"x", "newline">>,
     <<"space">>, <<"fancy">>}
OneEdit == [old : OldTexts, new : {<<>>, <<"y">>}]
LinesJoined == [old |-> <<"x", "newline", "x">>, new |-> <<"y">>]
SomeEdits ==
    {<<e>> : e \in OneEdit \union {LinesJoined}}
        \union {<<e, f>> : e \in {d \in OneEdit : d.old \notin {<<>>, <<"x", "x">>}},
                          f \in {d \in OneEdit : d.old # <<>> /\ d.new = <<"y">>}}
SomeLines == TextsOf({"p", "q"}, 4)

\* Bodies of two blocks or fewer with each kind of line end; and a last line that has none.
LineEnds == {<<"lf">>, <<"cr">>, <<"cr", "lf">>}
SomeFields == {<<>>, <<"event", "x">>, <<"data", "w1", "w2">>, <<"data", "bad">>, <<"colon">>}
SomeBodies ==
    {f \o e \o g \o e \o rest : e \in LineEnds, f \in SomeFields, g \in SomeFields,
                             rest \in {<<>>, <<"data", "x">>}}
        \union {f \o e \o g \o e \o e \o <<"data">> \o e \o e :
                    e \in LineEnds, f \in SomeFields, g \in SomeFields}

\* Values of every kind, with the ways in which a model writes them.
Spelt(value, chars, raw) == [value |-> value, text |-> chars, raw |-> raw]
Quoted(chars) == <<"quote">> \o chars \o <<"quote">>
Numeric(chars) == Spelt([kind |-> "number", text |-> chars], chars, FALSE)
TrueValue == [kind |-> "true"]
SomeValues ==
    {Spelt(String(<<"x", "control">>), Quoted(<<"x", "bs", "n">>), FALSE),
     Spelt(String(<<"x", "control", "x">>), Quoted(<<"x", "control", "x">>), TRUE),
     Spelt(String(<<"bs", "x">>), Quoted(<<"bs", "x">>), TRUE),
     Spelt(String(<<"code", "bs">>), Quoted(<<"bs", "u", "1", "e", "1", "1", "bs", "bs">>), FALSE),
     Spelt(String(<<"quote">>), Quoted(<<"bs", "quote">>), FALSE),
     Numeric(<<"-", "1", ".", "1", "e", "-", "1">>),
     Spelt(TrueValue, <<"space">> \o Word \o <<"space">>, FALSE),
     Spelt(Array(<<[kind |-> "number", text |-> <<"1">>], String(<<>>)>>),
            <<"[", "1", ",", "quote", "quote", "]">>, FALSE),
     Spelt(Array(<<>>), <<"[", "]">>, FALSE),
     Spelt(Object(<<"x">> :> Array(<<TrueValue>>)),
            <<"{", "quote", "x", "quote", ":", "space", "[">> \o Word \o <<"]", "}">>, FALSE)}
SomeMembers ==
    {[key |-> k, value |-> v.value, raw |-> v.raw, text |-> Quoted(k) \o <<":">> \o v.text] :
        k \in {<<"x">>, <<"n">>}, v \in SomeValues}
SomeArguments ==
    {<<>>} \union {<<m>> : m \in SomeMembers}
        \union {c \in SomeMembers \X SomeMembers : c[1].key # c[2].key}

(******************************** Behaviours *******************************)

\* The calls that change files have gone; the others rest in their initial states.
MutationsRest ==
    /\ path = CHOOSE p \in Namings : TRUE
    /\ stage = [c \in Calls |-> "gone"] /\ key = path
    /\ lock = [c \in Calls |-> NoCall] /\ queues = [p \in Paths |-> NoCall]
    /\ seen = [c \in Calls |-> <<>>] /\ text = [p \in Paths |-> <<>>] /\ serial = text

\* So have the requests, the tools and the compactions.
RequestRests ==
    /\ target = CHOOSE x \in RequestModels : TRUE
    /\ room = CHOOSE x \in Rooms : TRUE
    /\ asked = [level |-> Unset, budgets |-> NoBudgets]
    /\ options = Unset /\ params = NoParams /\ made = "rests"
ToolsRest == talk = <<>> /\ roster = {}
RegistryRests ==
    /\ generation = 0 /\ registered = 0 /\ held = [o \in Objects |-> 0] /\ shelf = 0 /\ newest = 0
    /\ refresh = [r \in ListRefreshes |-> Unstarted] /\ quits = {} /\ owner = "over"
    /\ legacy = FALSE /\ overtook = FALSE
CompactionRests == branch = <<>> /\ facts = 0 /\ work = NoWork

EditRests == original = <<>> /\ wish = <<>> /\ verdict = [says |-> "rests"]
WireRests ==
    /\ body = <<>> /\ came = <<>> /\ torn = FALSE /\ undecoded = <<>> /\ line = <<>>
    /\ pending = NoEvent /\ ready = <<>> /\ heard = <<>> /\ feed = "done"
    /\ written = <<>> /\ arguments = Object(<<>>)

OldVars == <<vars, repoVars, mutationVars, history, laneVars>>
NewVars == <<requestVars, toolVars, compactionVars, registryVars, editVars, wireVars>>

RecordsInit ==
    /\ scenario \in {"storage", "repository", "mutations", "conversation", "lane",
                     "request", "tools", "compaction", "registry", "edit", "wire"}
    /\ IF scenario = "mutations" THEN MutationInit ELSE MutationsRest
    /\ IF scenario = "request" THEN ThinkingInit ELSE RequestRests
    /\ IF scenario = "tools" THEN ToolInit ELSE ToolsRest
    /\ IF scenario = "compaction" THEN CompactionInit ELSE CompactionRests
    /\ IF scenario = "registry" THEN RegistryInit ELSE RegistryRests
    /\ IF scenario = "edit" THEN EditInit ELSE EditRests
    /\ IF scenario = "wire" THEN WireInit ELSE WireRests
    /\ Init /\ RepoInit /\ ConversationInit /\ LaneInit

KeptNext ==
    \/ scenario = "storage" /\ Next /\ UNCHANGED <<repoVars, mutationVars, history, laneVars>>
    \/ scenario = "repository" /\ RepoNext /\ UNCHANGED <<vars, mutationVars, history, laneVars>>
    \/ scenario = "mutations" /\ MutationNext /\ UNCHANGED <<vars, repoVars, history, laneVars>>
    \/ scenario = "conversation" /\ ConversationNext /\ UNCHANGED <<vars, repoVars, mutationVars, laneVars>>
    \/ scenario = "lane" /\ LaneNext /\ UNCHANGED <<vars, repoVars, mutationVars, history>>

MadeNext ==
    \/ /\ scenario = "request" /\ ThinkingNext
       /\ UNCHANGED <<toolVars, compactionVars, registryVars, editVars, wireVars>>
    \/ /\ scenario = "tools" /\ ToolNext
       /\ UNCHANGED <<requestVars, compactionVars, registryVars, editVars, wireVars>>
    \/ /\ scenario = "compaction" /\ CompactionNext
       /\ UNCHANGED <<requestVars, toolVars, registryVars, editVars, wireVars>>
    \/ /\ scenario = "registry" /\ RegistryNext
       /\ UNCHANGED <<requestVars, toolVars, compactionVars, editVars, wireVars>>
    \/ /\ scenario = "edit" /\ EditNext
       /\ UNCHANGED <<requestVars, toolVars, compactionVars, registryVars, wireVars>>
    \/ /\ scenario = "wire" /\ WireNext
       /\ UNCHANGED <<requestVars, toolVars, compactionVars, registryVars, editVars>>

RecordsNext ==
    /\ UNCHANGED scenario
    /\ (KeptNext /\ UNCHANGED NewVars) \/ (MadeNext /\ UNCHANGED OldVars)

RecordsSpec == RecordsInit /\ [][RecordsNext]_<<scenario, OldVars, NewVars>>

(******************************** Properties *******************************)

\* A request asks for no more thinking than the model can do, defines every tool that it
\* mentions, and replays its history in a form that the provider accepts.
RequestsFit == ThinkingFits /\ ToolsReach /\ ReplayHolds

\* An edit changes what it says, and its patch says what it changed.
EditsHold == EditsExact /\ PatchApplies
=============================================================================
