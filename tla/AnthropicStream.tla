--------------------------- MODULE AnthropicStream ---------------------------
(***************************************************************************)
(* src/ai/api/anthropic_messages.rs: blocks are announced with an index,   *)
(* filled and ended; message_delta has the reason to stop, message_stop    *)
(* ends the answer.                                                        *)
(***************************************************************************)
EXTENDS AssistantStream

AnthropicOpen == Accepted([keys |-> <<>>, sawStart |-> FALSE, sawStop |-> FALSE])

AnthropicHello(d) == [d EXCEPT !.scratch.sawStart = TRUE]

\* A block of a type it does not know is passed over.
AnthropicBegin(d, w) == IF w.kind = "other" THEN d ELSE Opened(d, w.index, w.kind)

\* Mutant: deltas go to the block at the provider's index.
AnthropicDeltaByIndex(d, w) ==
    IF w.index \in DOMAIN d.content THEN Grown(d, w.kind, w.index, w.text) ELSE d

\* A delta for a block that is not there, or of another kind, is dropped.
AnthropicDelta(d, w) ==
    LET found == Known(d, w.index) \cap OfKind(d, w.kind) IN
    IF found = {} THEN d ELSE Grown(d, w.kind, FirstOf(found), w.text)

AnthropicEnd(d, w) ==
    IF Known(d, w.index) = {} THEN d ELSE Closed(d, FirstOf(Known(d, w.index)))

AnthropicStopReason(d, why) ==
    IF why = "unhandled" THEN Fail(d) ELSE [d EXCEPT !.stop = why]

AnthropicOver(d) == IF d.scratch.sawStart /\ ~d.scratch.sawStop THEN Fail(d) ELSE d

AnthropicEvent(d, w) ==
    CASE w.type = "hello" -> AnthropicHello(d)
      [] w.type = "begin" -> AnthropicBegin(d, w)
      [] w.type = "delta" -> AnthropicDelta(d, w)
      [] w.type = "end"   -> AnthropicEnd(d, w)
      [] w.type = "stop"  -> AnthropicStopReason(d, w.kind)
      [] w.type = "over"  -> [d EXCEPT !.scratch.sawStop = TRUE]
      [] w.type = "error" -> Fail(d)
=============================================================================
