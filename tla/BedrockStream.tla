----------------------------- MODULE BedrockStream -----------------------------
(***************************************************************************)
(* src/ai/api/bedrock_converse_stream.rs: the whole body is read before    *)
(* its items are driven.  Blocks have an index until they stop; only a     *)
(* call is announced.                                                      *)
(***************************************************************************)
EXTENDS AssistantStream

BedrockOpen == Silent([keys |-> <<>>])

\* handle_content_block_start
BedrockBegin(d, w) == IF w.kind = "call" THEN Opened(d, w.index, "call") ELSE d

\* handle_content_block_delta: text and thinking open their block.
BedrockAt(d, w) ==
    IF Known(d, w.index) = {} /\ w.kind # "call" THEN Opened(d, w.index, w.kind) ELSE d

BedrockDelta(d, w) ==
    LET e     == BedrockAt(d, w)
        found == Known(e, w.index) \cap OfKind(e, w.kind)
    IN  IF found = {} \/ w.kind = "other" THEN d ELSE Grown(e, w.kind, FirstOf(found), w.text)

\* handle_content_block_stop
BedrockEnd(d, w) ==
    IF Known(d, w.index) = {} THEN d
    ELSE Forgotten(Closed(d, FirstOf(Known(d, w.index))), FirstOf(Known(d, w.index)))

\* messageStop, through map_stop_reason.
BedrockStopReason(d, why) == [d EXCEPT !.stop = IF why = "unhandled" THEN "Error" ELSE why]

\* One item of drive_items; after an error the rest are not driven.
BedrockEvent(d, w) ==
    CASE d.failed          -> d
      [] w.type = "hello" /\ ~d.failed -> PushStart(d)
      [] w.type = "begin" /\ ~d.failed -> BedrockBegin(d, w)
      [] w.type = "delta" /\ ~d.failed -> BedrockDelta(d, w)
      [] w.type = "end"   /\ ~d.failed -> BedrockEnd(d, w)
      [] w.type = "stop"  /\ ~d.failed -> BedrockStopReason(d, w.kind)
      [] w.type = "error" /\ ~d.failed -> Fail(d)
      [] w.type = "over"  /\ ~d.failed -> d

\* drive_items over the body that was collected.
DriveItems(items) ==
    LET driven[n \in 0..Len(items)] ==
            IF n = 0 THEN BedrockOpen ELSE BedrockEvent(driven[n - 1], items[n])
    IN  driven[Len(items)]
=============================================================================
