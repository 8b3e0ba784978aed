--------------------------- MODULE AssistantStream ---------------------------
(***************************************************************************)
(* What the decoders of the provider protocols (src/ai/api) have in        *)
(* common: the message that run_stream builds, output.content, and the     *)
(* events it pushes beside it, each with the index of a block and a        *)
(* snapshot of the message.  A block's content is the sequence of the      *)
(* deltas it was made of.  Positions count from 1.                         *)
(***************************************************************************)
EXTENDS Naturals, Sequences

\* One thing a provider sends, whatever its protocol calls it.  index is the
\* provider's own name of a block.
Wire(type, index, kind, text) ==
    [type |-> type, index |-> index, kind |-> kind, text |-> text]

\* An AssistantMessageEvent: names is the kind of the block that its snapshot
\* of the message has at its index.
MessageEvent(d, type, kind, i, text) ==
    [type |-> type, kind |-> kind, index |-> i, text |-> text,
     names |-> IF i \in DOMAIN d.content THEN d.content[i].kind ELSE "nothing"]

Push(d, type, kind, i, text) ==
    [d EXCEPT !.events = Append(@, MessageEvent(d, type, kind, i, text))]

\* run_stream before and after its Start event: the message, what the protocol
\* keeps beside it, and whether it has returned an error.
Silent(scratch) ==
    [content |-> <<>>, stop |-> "Pending", failed |-> FALSE, scratch |-> scratch, events |-> <<>>]

PushStart(d) == Push(d, "start", "message", 0, <<>>)

Accepted(scratch) == PushStart(Silent(scratch))

Fail(d) == [d EXCEPT !.failed = TRUE]

\* A block at the end of the message, known to the provider as key; a delta; an
\* end; a block that the provider will not name again.
Opened(d, key, kind) ==
    LET grown == [d EXCEPT !.content = Append(@, [kind |-> kind, text |-> <<>>]),
                           !.scratch.keys = Append(@, key)]
    IN  Push(grown, "start", kind, Len(grown.content), <<>>)

Grown(d, kind, i, text) ==
    Push([d EXCEPT !.content[i].text = @ \o text], "delta", kind, i, text)

Closed(d, i) == Push(d, "end", d.content[i].kind, i, d.content[i].text)

Forgotten(d, i) == [d EXCEPT !.scratch.keys[i] = 0]

\* The blocks known as key, and the one of them that a search finds.
Known(d, key) == {i \in DOMAIN d.content : d.scratch.keys[i] = key}
FirstOf(S)    == CHOOSE i \in S : \A j \in S : i <= j

OfKind(d, kind)    == {i \in DOMAIN d.content : d.content[i].kind = kind}

\* The blocks of S end, in the order of the message.
ClosedAll(d, S) ==
    LET closed[n \in 0..Len(d.content)] ==
            IF n = 0 THEN d ELSE IF n \in S THEN Closed(closed[n - 1], n) ELSE closed[n - 1]
    IN  closed[Len(d.content)]

\* A message with a call stops for its tools, whatever the provider's word.
StopFor(d, why) == IF OfKind(d, "call") # {} /\ why = "Stop" THEN "ToolUse" ELSE why

\* What every protocol checks when its events are over.
Refused(d, cancelled) == d.failed \/ cancelled \/ d.stop \in {"Pending", "Error", "Aborted"}
=============================================================================
