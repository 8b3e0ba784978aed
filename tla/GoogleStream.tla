----------------------------- MODULE GoogleStream -----------------------------
(***************************************************************************)
(* src/ai/api/google_generative_ai.rs and google_vertex.rs: parts of text  *)
(* and thinking, gathered in a current block beside the message, and whole *)
(* calls.                                                                  *)
(***************************************************************************)
EXTENDS AssistantStream

GoogleOpen == Accepted([keys |-> <<>>, current |-> "none", copy |-> <<>>])

\* block_index: the last block of the message, or the first place.
LastIndex(d) == IF d.content = <<>> THEN 1 ELSE Len(d.content)

GoogleFinish(d) ==
    IF d.scratch.current = "none" THEN d
    ELSE [Push(d, "end", d.scratch.current, LastIndex(d), d.scratch.copy)
            EXCEPT !.scratch.current = "none"]

GoogleSwitched(d, kind) ==
    IF d.scratch.current = kind THEN d
    ELSE [Opened(GoogleFinish(d), 0, kind)
            EXCEPT !.scratch.current = kind, !.scratch.copy = <<>>]

\* The text grows in the current block only: the block of the message stays as
\* it was pushed.
GoogleText(d, w) ==
    LET e == GoogleSwitched(d, w.kind)
    IN  Push([e EXCEPT !.scratch.copy = @ \o w.text], "delta", w.kind, LastIndex(e), w.text)

\* The start and the delta of a call are pushed before the call is.
GoogleCall(d, w) ==
    LET e == GoogleFinish(d)
        f == Push(Push(e, "start", "call", LastIndex(e), <<>>), "delta", "call", LastIndex(e), w.text)
        g == [f EXCEPT !.content = Append(@, [kind |-> "call", text |-> w.text]),
                       !.scratch.keys = Append(@, w.index)]
    IN  Closed(g, Len(g.content))

GoogleStopReason(d, why) ==
    [d EXCEPT !.stop = IF why = "unhandled" THEN "Error" ELSE StopFor(d, why)]

GoogleOver(d) == GoogleFinish(d)

GoogleEvent(d, w) ==
    CASE w.type = "delta" /\ w.kind \in {"text", "thinking"} -> GoogleText(d, w)
      [] w.type = "whole" /\ w.kind = "call" -> GoogleCall(d, w)
      [] w.type = "stop" -> GoogleStopReason(d, w.kind)
      [] OTHER           -> d

\* google_vertex.rs repeats the loop of google_generative_ai.rs.
VertexOpen        == GoogleOpen
VertexText(d, w)  == GoogleText(d, w)
VertexCall(d, w)  == GoogleCall(d, w)
VertexOver(d)     == GoogleOver(d)

VertexEvent(d, w) ==
    CASE w.type = "delta" /\ w.kind \in {"text", "thinking"} -> VertexText(d, w)
      [] w.type = "whole" /\ w.kind = "call" -> VertexCall(d, w)
      [] OTHER           -> GoogleEvent(d, w)
=============================================================================
