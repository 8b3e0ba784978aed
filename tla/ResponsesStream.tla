--------------------------- MODULE ResponsesStream ---------------------------
(***************************************************************************)
(* src/ai/api/openai_responses_shared.rs, which openai_responses.rs,       *)
(* azure_openai_responses.rs and openai_codex_responses.rs share: items at *)
(* output indexes, each in a slot until it is done.                        *)
(***************************************************************************)
EXTENDS AssistantStream

ResponsesOpen == Accepted([keys |-> <<>>, terminal |-> FALSE])
AzureOpen     == Accepted([keys |-> <<>>, terminal |-> FALSE])
CodexOpen     == Accepted([keys |-> <<>>, terminal |-> FALSE])

\* A slot is inserted at its output index, over an earlier one; an item of a type
\* it does not know has none.
CreateSlot(d, w) ==
    IF w.kind = "other" THEN d
    ELSE Opened([d EXCEPT !.scratch.keys = [i \in DOMAIN @ |-> IF @[i] = w.index THEN 0 ELSE @[i]]],
                w.index, w.kind)

Slot(d, w) == Known(d, w.index) \cap OfKind(d, w.kind)

ResponsesDelta(d, w) ==
    IF Slot(d, w) = {} THEN d ELSE Grown(d, w.kind, FirstOf(Slot(d, w)), w.text)

\* output_item.done has the whole content of its item, which replaces what was
\* streamed; an item that was never added is made now, unless it is a call.
ResponsesItemDone(d, w) ==
    LET e == IF Slot(d, w) = {} /\ w.kind \in {"text", "thinking"} THEN CreateSlot(d, w) ELSE d IN
    IF Slot(e, w) = {} THEN e
    ELSE LET i == FirstOf(Slot(e, w)) IN
         Forgotten(Closed([e EXCEPT !.content[i].text = w.text], i), i)

FinalizeResponse(d, why) ==
    IF why = "unhandled" THEN Fail(d)
    ELSE [d EXCEPT !.stop = StopFor(d, why), !.scratch.terminal = TRUE]

ResponsesOver(d) == IF d.scratch.terminal THEN d ELSE Fail(d)
AzureOver(d)     == ResponsesOver(d)
CodexOver(d)     == ResponsesOver(d)

ResponsesEvent(d, w) ==
    CASE w.type = "begin" -> CreateSlot(d, w)
      [] w.type = "delta" -> ResponsesDelta(d, w)
      [] w.type \in {"end", "whole"} -> ResponsesItemDone(d, w)
      [] w.type = "stop"  -> FinalizeResponse(d, w.kind)
      [] w.type = "error" -> Fail(d)
      [] OTHER            -> d

\* The Codex streams end with the terminal event, and take an unknown status
\* for none.
CodexEvent(d, w) ==
    IF w.type = "stop" /\ w.kind = "unhandled" THEN FinalizeResponse(d, "Stop")
    ELSE ResponsesEvent(d, w)
=============================================================================
