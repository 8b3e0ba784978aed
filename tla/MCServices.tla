----------------------------- MODULE MCServices -----------------------------
(***************************************************************************)
(* The services around the agent that share no state, each for itself: a   *)
(* behaviour is one of the component that its scenario names, while the    *)
(* others rest in one state in which nothing of them is under way.         *)
(***************************************************************************)
EXTENDS ProviderStreams, LazyStream, Credentials, CodexSockets, DeviceLogin, BrowserLogin,
        ModelRegistry, ShellRuns

VARIABLE scenario

\* What a command writes at once: more than is shown, and a wide character in two parts,
\* whose second part is invalid by itself.
SomePieces ==
    {<<"one", "one", "newline", "one">>, <<"one", "w1">>,
     <<"w2", "control", "one", "newline", "one", "one", "one">>}

\* A command that ends, one with a deadline that does not, two that leave a process
\* behind, and one whose listener is not the tool's.
Cmd(deadline, keeper, endless, plain) ==
    [deadline |-> deadline, keeper |-> keeper, endless |-> endless, plain |-> plain]
SomeCommands ==
    {Cmd(FALSE, "none", FALSE, FALSE), Cmd(TRUE, "none", TRUE, FALSE), Cmd(FALSE, "group", FALSE, FALSE),
     Cmd(TRUE, "detached", FALSE, FALSE), Cmd(FALSE, "none", FALSE, TRUE)}

\* An interval that is absent, nothing, or more than any default.
ServerIntervals == {Absent, 0, 6}

(********************************** At rest ********************************)

ProviderRests ==
    /\ protocol = "pi" /\ phase = "settled" /\ attempts = 1 /\ message = Silent([keys |-> <<>>])
    /\ body = <<>> /\ said = <<>> /\ cancelled = FALSE /\ ending = "error"
    /\ framing = [hello |-> FALSE, stop |-> "none", last |-> FALSE, deltas |-> 0]

StreamRests ==
    /\ inner = In!Empty /\ outer = Out!Empty /\ awake = Tasks
    /\ pc = [t \in Tasks |-> "done"]
    /\ sent = <<Event(1, TRUE)>> /\ received = <<>> /\ carried = NoResult
    /\ answer = [t \in {"reader", "asker"} |-> Event(1, TRUE)]

CredentialsRest ==
    /\ credential = 0 /\ age = [v \in 1..MaxTokens |-> "fresh"] /\ live = {1} /\ issued = 1
    /\ at = [c \in Clients |-> "settled"] /\ token = [c \in Clients |-> 0]
    /\ holder = Nobody /\ cut = {} /\ lost = FALSE

CodexRests ==
    /\ turn = [r \in Asks |-> "failed"] /\ asked = [r \in Asks |-> <<>>]
    /\ uses = [r \in Asks |-> NoSocket] /\ went = [r \in Asks |-> Fresh]
    /\ got = [r \in Asks |-> NoAsk] /\ heard = [r \in Asks |-> <<>>]
    /\ sockets = [s \in Sockets |-> NotOpen] /\ entry = NoEntry
    /\ timers = [r \in Asks |-> "none"]
    /\ fallback = FALSE /\ business = MaxBusiness /\ crossed = FALSE

DeviceRests ==
    /\ issuer = "codex" /\ stage = "out" /\ request = "none"
    /\ left = 0 /\ sleep = 0 /\ interval = 0 /\ owed = 0 /\ since = LongAgo
    /\ retry = 0 /\ models = 0 /\ revoked = FALSE

BrowserRests ==
    /\ site = "radius" /\ login = "out" /\ port = "free" /\ wait = "open" /\ claimed = FALSE
    /\ tab = [t \in Tabs |-> "away"] /\ brings = [t \in Tabs |-> "empty"]
    /\ prompt = "none" /\ pasted = "nothing" /\ used = "none" /\ stopped = FALSE

RegistryRests ==
    /\ generation = 0 /\ registered = 0 /\ held = [o \in Objects |-> 0] /\ shelf = 0 /\ newest = 0
    /\ refresh = [r \in ListRefreshes |-> Unstarted] /\ quits = {} /\ owner = "over"
    /\ legacy = FALSE /\ overtook = FALSE

ShellRests ==
    /\ command = Cmd(FALSE, "none", FALSE, FALSE) /\ script = <<>>
    /\ written = [s \in Streams |-> <<>>] /\ pipe = written
    /\ child = "none" /\ keeping = FALSE /\ known = FALSE
    /\ reading = "over" /\ undecoded = <<>> /\ given = <<>> /\ capture = NoCapture
    /\ watching = FALSE /\ late = FALSE /\ halted = TRUE /\ broke = FALSE
    /\ outcome = "aborted" /\ saved = <<>> /\ reply = [says |-> "aborted", shows |-> <<>>]

(******************************** Behaviours *******************************)

MCInit ==
    /\ scenario \in {"provider", "stream", "credentials", "codex", "device", "browser",
                    "registry", "shell"}
    /\ IF scenario = "provider"    THEN ProviderInit   ELSE ProviderRests
    /\ IF scenario = "stream"      THEN Init           ELSE StreamRests
    /\ IF scenario = "credentials" THEN CredentialInit ELSE CredentialsRest
    /\ IF scenario = "codex"       THEN CodexInit      ELSE CodexRests
    /\ IF scenario = "device"      THEN DeviceInit     ELSE DeviceRests
    /\ IF scenario = "browser"     THEN BrowserInit    ELSE BrowserRests
    /\ IF scenario = "registry"    THEN RegistryInit   ELSE RegistryRests
    /\ IF scenario = "shell"       THEN ShellInit      ELSE ShellRests

MCNext ==
    /\ UNCHANGED scenario
    /\ \/ /\ scenario = "provider" /\ ProviderNext
          /\ UNCHANGED <<vars, credentialVars, codexVars, deviceVars, browserVars, registryVars, shellVars>>
       \/ /\ scenario = "stream" /\ Next
          /\ UNCHANGED <<providerVars, credentialVars, codexVars, deviceVars, browserVars, registryVars, shellVars>>
       \/ /\ scenario = "credentials" /\ CredentialNext
          /\ UNCHANGED <<providerVars, vars, codexVars, deviceVars, browserVars, registryVars, shellVars>>
       \/ /\ scenario = "codex" /\ CodexNext
          /\ UNCHANGED <<providerVars, vars, credentialVars, deviceVars, browserVars, registryVars, shellVars>>
       \/ /\ scenario = "device" /\ DeviceNext
          /\ UNCHANGED <<providerVars, vars, credentialVars, codexVars, browserVars, registryVars, shellVars>>
       \/ /\ scenario = "browser" /\ BrowserNext
          /\ UNCHANGED <<providerVars, vars, credentialVars, codexVars, deviceVars, registryVars, shellVars>>
       \/ /\ scenario = "registry" /\ RegistryNext
          /\ UNCHANGED <<providerVars, vars, credentialVars, codexVars, deviceVars, browserVars, shellVars>>
       \/ /\ scenario = "shell" /\ ShellNext
          /\ UNCHANGED <<providerVars, vars, credentialVars, codexVars, deviceVars, browserVars, registryVars>>

\* Each component's own fairness; what rests has no step.
MCSpec ==
    /\ MCInit
    /\ [][MCNext]_<<scenario, providerVars, vars, credentialVars, codexVars, deviceVars,
                    browserVars, registryVars, shellVars>>
    /\ WF_providerVars(scenario = "provider" /\ Polled)
    /\ WF_vars(scenario = "stream" /\ ProviderStep) /\ WF_vars(scenario = "stream" /\ ForwarderStep)
    /\ WF_vars(scenario = "stream" /\ ReaderStep) /\ WF_vars(scenario = "stream" /\ AskResult("asker"))
    /\ \A c \in Requests : WF_credentialVars(scenario = "credentials" /\ Proceeds(c))
    /\ WF_codexVars(scenario = "codex" /\ \E r \in Asks : Advances(r))
    /\ WF_deviceVars(scenario = "device" /\ DeviceSteps) /\ WF_deviceVars(scenario = "device" /\ Tick)
    /\ WF_browserVars(scenario = "browser" /\ BrowserTasks)
    /\ WF_registryVars(scenario = "registry" /\ \E r \in ListRefreshes : RefreshSteps(r))
    /\ WF_shellVars(scenario = "shell" /\ CallSteps)
    /\ WF_shellVars(scenario = "shell" /\ WatchExpires)
    /\ WF_shellVars(scenario = "shell" /\ (ChildWrites \/ ChildEnds))

\* The commands alone.
CommandsSpec == MCSpec /\ scenario = "shell"

(******************************** Properties *******************************)

\* A message that is done says what the provider sent, and all of it.
DoneSaysAll == DoneIsComplete /\ FinalIsSaid

\* Whatever was begun comes to an end, each component's promise of it: a cancelled
\* provider call, a request for a token, a Codex request, a login of either kind, the
\* reading of an answer, a refresh of the models, and a command.
AllSettle ==
    /\ CancelSettles /\ RequestsSettle /\ CodexSettles /\ DeviceSettles /\ BrowserSettles
    /\ Answered /\ RefreshesSettle /\ ShellReturns
=============================================================================
