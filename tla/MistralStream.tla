---------------------------- MODULE MistralStream ----------------------------
(***************************************************************************)
(* src/ai/api/mistral_conversations.rs: text and thinking alternate, each  *)
(* in a current block that is kept as a copy beside the message; calls are *)
(* found by their key and end when the events do.                          *)
(***************************************************************************)
EXTENDS AssistantStream

MistralOpen == Accepted([keys |-> <<>>, current |-> "none", copy |-> <<>>])

\* Mutant: a block that gives way to another one does not end.
FinishCurrentSilent(d) == d

\* finish_current_block: the current block is the last one of the message.
FinishCurrent(d) ==
    IF d.scratch.current = "none" THEN d
    ELSE Push(d, "end", d.scratch.current, Len(d.content), d.scratch.copy)

\* sync_current_block: the copy is written back after every delta.
SyncCurrent(d) == [d EXCEPT !.content[Len(d.content)].text = d.scratch.copy]

Switched(d, kind) ==
    IF d.scratch.current = kind THEN d
    ELSE LET e == Opened(FinishCurrent(d), 0, kind)
         IN  [e EXCEPT !.scratch.current = kind, !.scratch.copy = <<>>]

MistralContent(d, w) ==
    LET e == Switched(d, w.kind)
        f == SyncCurrent([e EXCEPT !.scratch.copy = @ \o w.text])
    IN  Push(f, "delta", w.kind, Len(f.content), w.text)

MistralCall(d, w) ==
    LET e == [FinishCurrent(d) EXCEPT !.scratch.current = "none"]
        f == IF Known(e, w.index) = {} THEN Opened(e, w.index, "call") ELSE e
    IN  Grown(f, "call", FirstOf(Known(f, w.index)), w.text)

\* The calls end in the order of their keys, which is that of their blocks here.
MistralOver(d) == ClosedAll(FinishCurrent(d), OfKind(d, "call"))

MistralEvent(d, w) ==
    CASE w.type = "delta" /\ w.kind # "call" -> MistralContent(d, w)
      [] w.type \in {"begin", "delta"} /\ w.kind = "call" -> MistralCall(d, w)
      [] w.type = "stop" -> [d EXCEPT !.stop = IF w.kind = "unhandled" THEN "Error" ELSE w.kind]
      [] OTHER -> d
=============================================================================
