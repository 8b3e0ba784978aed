--------------------------- MODULE PiMessagesStream ---------------------------
(***************************************************************************)
(* src/ai/api/pi_messages.rs: another instance's events, rebuilt into a    *)
(* message.  The stream's done or error event is the end of the answer.    *)
(***************************************************************************)
EXTENDS AssistantStream

PiOpen == Silent([keys |-> <<>>])

\* text_start, thinking_start and toolcall_start: the block at contentIndex.
PiBegin(d, w) ==
    IF w.index = Len(d.content) + 1 THEN Opened(d, w.index, w.kind)
    ELSE Push([d EXCEPT !.content[w.index] = [kind |-> w.kind, text |-> <<>>]],
              "start", w.kind, w.index, <<>>)

PiDelta(d, w) ==
    IF w.index \in OfKind(d, w.kind) THEN Grown(d, w.kind, w.index, w.text)
    ELSE Push(d, "delta", w.kind, w.index, w.text)

\* text_end, thinking_end and toolcall_end have the whole content of the block.
PiEnd(d, w) ==
    IF w.index \in OfKind(d, w.kind)
    THEN Closed([d EXCEPT !.content[w.index].text = w.text], w.index)
    ELSE Push(d, "end", w.kind, w.index, w.text)

\* A reason that is not known is a stop.
PiStopReason(d, why) == [d EXCEPT !.stop = IF why = "unhandled" THEN "Stop" ELSE why]

\* The error that takes the place of an answer that does not end has no content.
PiUnfinished(d) == Fail([d EXCEPT !.content = <<>>])

PiEvent(d, w) ==
    CASE w.type = "hello" -> PushStart(d)
      [] w.type = "begin" -> PiBegin(d, w)
      [] w.type = "delta" -> PiDelta(d, w)
      [] w.type = "end"   -> PiEnd(d, w)
      [] w.type = "stop"  -> PiStopReason(d, w.kind)
      [] w.type = "error" -> [d EXCEPT !.stop = "Error"]
=============================================================================
