-------------------------- MODULE CompletionsStream --------------------------
(***************************************************************************)
(* src/ai/api/openai_completions.rs: chunks of text, thinking and calls,   *)
(* without block boundaries.  A message has at most one text block and one *)
(* thinking block, and its blocks end together when the body does.         *)
(***************************************************************************)
EXTENDS AssistantStream

CompletionsOpen == Accepted([keys |-> <<>>, finished |-> FALSE])

\* ensure_text_block and ensure_thinking_block; a call is found by its index or
\* its id, one key here.
CompletionsAt(d, w) ==
    IF w.kind = "call" THEN Known(d, w.index) \cap OfKind(d, "call") ELSE OfKind(d, w.kind)

Ensured(d, w) == IF CompletionsAt(d, w) = {} THEN Opened(d, w.index, w.kind) ELSE d

CompletionsDelta(d, w) ==
    LET e == Ensured(d, w) IN Grown(e, w.kind, FirstOf(CompletionsAt(e, w)), w.text)

\* A finish reason that is not known is an error.
CompletionsStopReason(d, why) ==
    [d EXCEPT !.stop = IF why = "unhandled" THEN "Error" ELSE why, !.scratch.finished = TRUE]

\* Some endpoints send no finish reason: optional.
CompletionsOver(d, optional) ==
    LET e == ClosedAll(d, DOMAIN d.content) IN
    IF d.scratch.finished \/ ~optional THEN e
    ELSE [e EXCEPT !.stop = StopFor(e, "Stop")]

\* The first chunk of a call names it; [DONE] is not JSON, and an error object
\* has no choices: both are skipped.
CompletionsEvent(d, w) ==
    CASE w.type = "begin" /\ w.kind = "call" -> CompletionsDelta(d, w)
      [] w.type = "delta" -> CompletionsDelta(d, w)
      [] w.type = "stop"  -> CompletionsStopReason(d, w.kind)
      [] OTHER            -> d
=============================================================================
