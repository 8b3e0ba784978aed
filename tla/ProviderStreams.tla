--------------------------- MODULE ProviderStreams ---------------------------
(***************************************************************************)
(* One request to a model, in any of the protocols of src/ai/api: the      *)
(* request and its retries, the answer as the provider sends it, the       *)
(* decoder of its protocol, the caller's signal, and the one event that    *)
(* settles the stream.                                                     *)
(***************************************************************************)
EXTENDS AnthropicStream, CompletionsStream, ResponsesStream, MistralStream, GoogleStream,
        BedrockStream, PiMessagesStream, SequencesExt

CONSTANTS Protocols,     \* those of them that are used
          MaxRetries,    \* options.max_retries
          Reasons,       \* the reasons a provider stops for
          MaxBlocks, MaxDeltas     \* bounds of an answer

ASSUME ProviderAssumption ==
    /\ Protocols \subseteq {"anthropic", "completions", "compat", "responses", "azure",
                           "codex", "mistral", "google", "vertex", "bedrock", "pi"}
    /\ "none" \notin Reasons

VARIABLES protocol,
          phase,         \* request, backoff, reading, settled
          attempts,
          message,       \* what run_stream builds and pushes
          body,          \* the items that bedrock has collected
          said,          \* what the provider said: its blocks
          framing,       \* what the provider sent beside its blocks
          cancelled,     \* the caller's signal
          ending         \* none, done, error, aborted

providerVars == <<protocol, phase, attempts, message, body, said, framing, cancelled, ending>>

(*************************** The answer's decoders *************************)

Opening ==
    CASE protocol = "anthropic" -> AnthropicOpen
      [] protocol \in {"completions", "compat"} -> CompletionsOpen
      [] protocol = "responses" -> ResponsesOpen
      [] protocol = "azure"     -> AzureOpen
      [] protocol = "codex"     -> CodexOpen
      [] protocol = "mistral"   -> MistralOpen
      [] protocol = "google"    -> GoogleOpen
      [] protocol = "vertex"    -> VertexOpen
      [] protocol = "bedrock"   -> BedrockOpen
      [] protocol = "pi"        -> PiOpen

Decoded(w) ==
    CASE protocol = "anthropic" -> AnthropicEvent(message, w)
      [] protocol \in {"completions", "compat"} -> CompletionsEvent(message, w)
      [] protocol \in {"responses", "azure"}    -> ResponsesEvent(message, w)
      [] protocol = "codex"     -> CodexEvent(message, w)
      [] protocol = "mistral"   -> MistralEvent(message, w)
      [] protocol = "google"    -> GoogleEvent(message, w)
      [] protocol = "vertex"    -> VertexEvent(message, w)
      [] protocol = "pi"        -> PiEvent(message, w)
      [] protocol = "bedrock"   -> message

\* The message when the body is at its end: e is the message so far.
Over(e, items) ==
    CASE protocol = "anthropic"   -> AnthropicOver(e)
      [] protocol = "completions" -> CompletionsOver(e, FALSE)
      [] protocol = "compat"      -> CompletionsOver(e, TRUE)
      [] protocol = "responses"   -> ResponsesOver(e)
      [] protocol = "azure"       -> AzureOver(e)
      [] protocol = "codex"       -> CodexOver(e)
      [] protocol = "mistral"     -> MistralOver(e)
      [] protocol = "google"      -> GoogleOver(e)
      [] protocol = "vertex"      -> VertexOver(e)
      [] protocol = "bedrock"     -> DriveItems(items)
      [] protocol = "pi"          -> IF e.stop = "Pending" THEN PiUnfinished(e) ELSE e

\* The item after which a protocol reads no more.
LastItem(w) ==
    \/ protocol = "codex"   /\ w.type = "stop"
    \/ protocol = "mistral" /\ w.type = "over"
    \/ protocol = "pi"      /\ w.type \in {"stop", "error"}

(******************************** The request ******************************)

Retries == IF protocol \in {"bedrock", "pi"} THEN 0 ELSE MaxRetries

ProviderInit ==
    /\ protocol \in Protocols
    /\ phase = "request" /\ attempts = 1
    /\ message = Silent([keys |-> <<>>]) /\ body = <<>>
    /\ said = <<>>
    /\ framing = [hello |-> FALSE, stop |-> "none", last |-> FALSE, deltas |-> 0]
    /\ cancelled = FALSE /\ ending = "none"

\* stream: the Done event, or the Error event that names the signal.  pi_messages
\* pushes what the other instance said without a look at the signal.
Settle(e) ==
    /\ phase' = "settled"
    /\ message' = e
    /\ ending' = CASE ~Refused(e, cancelled /\ protocol # "pi") -> "done"
                   [] OTHER -> IF cancelled THEN "aborted" ELSE "error"

ResponseArrives ==
    /\ phase = "request"
    /\ phase' = "reading" /\ message' = Opening
    /\ UNCHANGED <<protocol, attempts, body, said, framing, cancelled, ending>>

\* A failed attempt: a status or a transport error, retryable or not, or a delay
\* that the server asks for and the caller does not grant.
AttemptFailed ==
    /\ phase = "request"
    /\ \/ /\ attempts <= Retries /\ ~cancelled
          /\ phase' = "backoff" /\ UNCHANGED <<message, ending>>
       \/ Settle(Fail(message))
    /\ UNCHANGED <<protocol, attempts, body, said, framing, cancelled>>

\* The transport gives up on a request whose signal is cancelled.
RequestAborted ==
    /\ phase = "request" /\ cancelled
    /\ Settle(Fail(message))
    /\ UNCHANGED <<protocol, attempts, body, said, framing, cancelled>>

\* abortable_sleep_provider
BackedOff ==
    /\ phase = "backoff"
    /\ IF cancelled THEN Settle(Fail(message)) /\ UNCHANGED attempts
       ELSE phase' = "request" /\ attempts' = attempts + 1 /\ UNCHANGED <<message, ending>>
    /\ UNCHANGED <<protocol, body, said, framing, cancelled>>

(******************************** The answer *******************************)

\* An item arrives and is decoded.  The protocols that look at the signal at every
\* event take none after it.
ChecksSignal == protocol \in {"anthropic", "codex"}

Arrive(w) ==
    /\ body' = IF protocol = "bedrock" THEN Append(body, w) ELSE body
    /\ LET e == Decoded(w) IN
       IF e.failed \/ LastItem(w)
       THEN Settle(IF e.failed THEN e ELSE Over(e, body))
       ELSE message' = e /\ UNCHANGED <<phase, ending>>
    /\ UNCHANGED <<protocol, attempts, cancelled>>

Speaking == phase = "reading" /\ framing.hello /\ framing.stop = "none" /\ ~(cancelled /\ ChecksSignal)

\* Whether a delta names its block: where it does not, text and thinking go on at
\* the end of the answer.
Indexed == protocol \in {"anthropic", "responses", "azure", "codex", "bedrock", "pi"}

Announces == protocol \notin {"google", "vertex"}

KindsOf == IF Indexed /\ protocol # "pi"
           THEN {"text", "thinking", "call", "other"} ELSE {"text", "thinking", "call"}

Open(i) == i \in DOMAIN said /\ said[i].open

Hello ==
    /\ phase = "reading" /\ ~framing.hello /\ ~(cancelled /\ ChecksSignal)
    /\ framing' = [framing EXCEPT !.hello = TRUE]
    /\ Arrive(Wire("hello", 0, "message", <<>>))
    /\ UNCHANGED said

Begin(kind) ==
    /\ Speaking /\ Len(said) < MaxBlocks
    /\ \/ protocol # "bedrock"        \* its blocks follow one another
       \/ \A i \in DOMAIN said : ~said[i].open
    /\ kind \in KindsOf /\ (Announces \/ kind # "call")
    /\ said' = Append(said, [kind |-> kind, text |-> <<>>, open |-> TRUE])
    /\ Arrive(Wire("begin", Len(said) + 1, kind, <<>>))
    /\ UNCHANGED framing

Delta(i) ==
    /\ Speaking /\ Open(i) /\ framing.deltas < MaxDeltas
    /\ Indexed \/ said[i].kind = "call" \/ i = Len(said)
    /\ framing' = [framing EXCEPT !.deltas = @ + 1]
    /\ said' = [said EXCEPT ![i].text = Append(@, framing'.deltas)]
    /\ Arrive(Wire("delta", i, said[i].kind, <<framing'.deltas>>))

End(i) ==
    /\ Speaking /\ Open(i)
    /\ said' = [said EXCEPT ![i].open = FALSE]
    /\ Arrive(Wire("end", i, said[i].kind, said[i].text))
    /\ UNCHANGED framing

\* A block in one item: the calls of google, an output item that was not added.
Whole ==
    /\ Speaking /\ Len(said) < MaxBlocks /\ framing.deltas < MaxDeltas
    /\ protocol \in {"google", "vertex", "responses", "azure", "codex"}
    /\ LET kind == IF Announces THEN "text" ELSE "call" IN
       /\ framing' = [framing EXCEPT !.deltas = @ + 1]
       /\ said' = Append(said, [kind |-> kind, text |-> <<framing'.deltas>>, open |-> FALSE])
       /\ Arrive(Wire("whole", Len(said) + 1, kind, <<framing'.deltas>>))

Stop(why) ==
    /\ Speaking /\ \A i \in DOMAIN said : ~said[i].open
    /\ framing' = [framing EXCEPT !.stop = why]
    /\ Arrive(Wire("stop", 0, why, <<>>))
    /\ UNCHANGED said

\* message_stop, [DONE], metadata.
Farewell ==
    /\ phase = "reading" /\ framing.stop # "none" /\ ~framing.last /\ ~(cancelled /\ ChecksSignal)
    /\ framing' = [framing EXCEPT !.last = TRUE]
    /\ Arrive(Wire("over", 0, "message", <<>>))
    /\ UNCHANGED said

ErrorItem ==
    /\ Speaking
    /\ framing' = [framing EXCEPT !.stop = "Error", !.last = TRUE]
    /\ Arrive(Wire("error", 0, "message", <<>>))
    /\ UNCHANGED said

\* The body ends, where it should or before.
BodyEnds ==
    /\ phase = "reading"
    /\ Settle(Over(message, body))
    /\ UNCHANGED <<protocol, attempts, body, said, framing, cancelled>>

\* The connection breaks, a read times out, or the signal stops the read.
BodyFails ==
    /\ phase = "reading"
    /\ Settle(Fail(message))
    /\ UNCHANGED <<protocol, attempts, body, said, framing, cancelled>>

ReadAborted == cancelled /\ BodyFails

ProviderCancel ==
    /\ phase # "settled" /\ ~cancelled
    /\ cancelled' = TRUE
    /\ UNCHANGED <<protocol, phase, attempts, message, body, said, framing, ending>>

ProviderAnswers ==
    \/ Hello \/ Whole \/ Farewell \/ ErrorItem
    \/ \E kind \in {"text", "thinking", "call", "other"} : Begin(kind)
    \/ \E i \in 1..MaxBlocks : Delta(i) \/ End(i)
    \/ \E why \in Reasons : Stop(why)

ProviderNext ==
    \/ ResponseArrives \/ AttemptFailed \/ RequestAborted \/ BackedOff
    \/ ProviderAnswers \/ BodyEnds \/ BodyFails \/ ProviderCancel

\* The runtime owes the caller a look at its signal: fetch, sleep and body race it.
\* It owes nothing else: a provider may stay silent.
Polled == RequestAborted \/ BackedOff \/ ReadAborted

ProviderFairness == WF_providerVars(Polled)

ProviderSpec == ProviderInit /\ [][ProviderNext]_providerVars

(******************************** Properties *******************************)

ProviderTypeOK ==
    /\ protocol \in Protocols
    /\ phase \in {"request", "backoff", "reading", "settled"}
    /\ attempts \in 1..(MaxRetries + 1)
    /\ cancelled \in BOOLEAN
    /\ ending \in {"none", "done", "error", "aborted"}
    /\ (ending = "none") = (phase # "settled")

\* What the caller hears of one block: its start before anything else, its deltas, and
\* nothing behind its end.
Mentions(events, i) == \E k \in DOMAIN events : events[k].index = i
Nests(events, i) ==
    \A k \in DOMAIN events : events[k].index = i =>
        /\ events[k].type \in {"start", "delta", "end"}
        /\ events[k].type = "start" <=> \A j \in 1..(k - 1) : events[j].index # i
        /\ \A j \in 1..(k - 1) : events[j].index = i => events[j].type # "end"
HasEnded(events, i) == \E k \in DOMAIN events : events[k].index = i /\ events[k].type = "end"

IndexesBlocks == protocol \notin {"google", "vertex"}

\* The events of every protocol nest: Start comes first and once; every block starts
\* once, then has its deltas, then ends, and on Done all have ended; the index of an
\* event is that of a block of its kind in the snapshot that goes with it.  (The
\* Google protocols are apart: see GoogleFinalIsSaid.)
EventsNest ==
    IndexesBlocks =>
    /\ \A k \in DOMAIN message.events :
          LET e == message.events[k] IN
          IF k = 1 THEN e.kind = "message" ELSE e.kind # "message" /\ e.names = e.kind
    /\ \A i \in DOMAIN message.content :
          /\ Mentions(message.events, i) /\ Nests(message.events, i)
          /\ ending = "done" => HasEnded(message.events, i)

\* A stream is Done only if the provider finished its answer: it gave a reason to
\* stop that is not an error, it sent what its protocol ends an answer with, and no
\* block was left open.  Endpoints whose compat settings say that they give no
\* reason are believed.
DoneIsComplete ==
    (ending = "done" /\ protocol # "compat") =>
        /\ framing.stop \in Reasons \ {"Error"}
        /\ protocol = "anthropic" => framing.last
        /\ \A i \in DOMAIN said : ~said[i].open

\* The text of a kind, and the calls one by one.
TextOf(blocks, kind) ==
    FlattenSeq([i \in DOMAIN blocks |-> IF blocks[i].kind = kind THEN blocks[i].text ELSE <<>>])
CallsOf(blocks) == SelectSeq([i \in DOMAIN blocks |-> IF blocks[i].kind = "call" THEN blocks[i].text ELSE <<>>],
                             LAMBDA t : t # <<>>)
Same(blocks) ==
    /\ \A kind \in {"text", "thinking"} : TextOf(blocks, kind) = TextOf(said, kind)
    /\ CallsOf(blocks) = CallsOf(said)

\* The message that Done carries says what the provider said, kind by kind and call
\* by call: no delta is lost, doubled, or put in another block, however the blocks
\* interleave and whatever the index the provider gives them.
FinalIsSaid ==
    (ending = "done" /\ IndexesBlocks) => Same(message.content)

\* The same of the Google protocols.
GoogleFinalIsSaid ==
    (ending = "done" /\ ~IndexesBlocks) => Same(message.content)

\* A caller that cancels gets its last event: no request, sleep or read outlives the
\* signal, even if the provider never says another word.
CancelSettles == cancelled ~> (phase = "settled")
=============================================================================
