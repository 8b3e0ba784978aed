------------------------------- MODULE WireText -------------------------------
(***************************************************************************)
(* The two decoders that every streamed answer goes through (src/ai/utils):*)
(* the events that sse.rs makes of a body which arrives in chunks, and the *)
(* arguments that json_parse.rs makes of a tool call as far as it has been *)
(* written.  A body and a JSON text are sequences of the kinds of bytes    *)
(* and characters that this tells apart: "event" and "data" begin a line   *)
(* with that field, "colon" a comment, and "w1", "w2" are the bytes of one *)
(* wide character.                                                         *)
(***************************************************************************)
EXTENDS Naturals, Sequences, FiniteSets, TLC
LOCAL INSTANCE SequencesExt
LOCAL INSTANCE FiniteSetsExt

CONSTANTS Bodies,      \* what a server may send
          WrittenCalls \* the arguments a model may write: sequences of members, records
                       \* key, value, text and raw (the text is not JSON as it stands)

VARIABLES body,        \* what is still to come
          came,        \* what has come
          torn,        \* a chunk ended between the two characters of one line end
          undecoded,   \* SseDecoder.byte_buffer
          line,        \* SseDecoder.buffer
          pending,     \* SseDecoderState
          ready,       \* SseBuffer.events
          heard,       \* the events that the reader was given
          feed,        \* "open", "failed" or "done"; "args", this is about a tool call
          written,     \* the members that the model writes
          arguments    \* what they are taken for

sseVars == <<body, came, torn, undecoded, line, pending, ready, heard, feed>>
wireVars == <<sseVars, written, arguments>>

(******************************* Lines, events *****************************)

NoEvent == [event |-> <<>>, data |-> <<>>]   \* event: none or one name

Failure == [event |-> <<<<"__error__">>>>, data |-> <<>>]

\* Mutant: the name of an event stays for the next one.
DecodeLineKeeps(state, text) ==
    IF text = <<>>
    THEN [state |-> [state EXCEPT !.data = <<>>], out |-> IF state = NoEvent THEN <<>> ELSE <<state>>]
    ELSE [state |-> CASE text[1] = "event" -> [state EXCEPT !.event = <<Tail(text)>>]
                      [] text[1] = "data"  -> [state EXCEPT !.data = Append(@, Tail(text))]
                      [] OTHER -> state,
          out |-> <<>>]

\* decode_line and flush: the decoder's state after a line, and the events it completes.
DecodeLine(state, text) ==
    IF text = <<>>
    THEN [state |-> NoEvent, out |-> IF state = NoEvent THEN <<>> ELSE <<state>>]
    ELSE [state |-> CASE text[1] = "event" -> [state EXCEPT !.event = <<Tail(text)>>]
                      [] text[1] = "data"  -> [state EXCEPT !.data = Append(@, Tail(text))]
                      [] OTHER -> state,
          out |-> <<>>]

\* consume_line, as long as there is a line end: a "cr" at the end of the buffer is one.
RECURSIVE Consumed(_)
Consumed(d) ==
    LET breaks == {i \in DOMAIN d.line : d.line[i] \in {"cr", "lf"}}
        at == Min(breaks)
        width == IF d.line[at] = "cr" /\ at < Len(d.line) /\ d.line[at + 1] = "lf" THEN 2 ELSE 1
        decoded == DecodeLine(d.state, SubSeq(d.line, 1, at - 1))
    IN  IF breaks = {} THEN d
        ELSE Consumed([line |-> SubSeq(d.line, at + width, Len(d.line)),
                       state |-> decoded.state, out |-> d.out \o decoded.out])

PushText(text) == Consumed([line |-> line \o text, state |-> pending, out |-> <<>>])

IsUtf8(t) ==
    \A i \in DOMAIN t :
        /\ t[i] # "bad"
        /\ t[i] = "w1" => (i < Len(t) /\ t[i + 1] = "w2")
        /\ t[i] = "w2" => (i > 1 /\ t[i - 1] = "w1")
ValidUpTo(t) == Max({n \in 0..Len(t) : IsUtf8(SubSeq(t, 1, n))})

\* from_utf8_lossy: "bad" for what is none.
Lossy(t) ==
    [i \in DOMAIN t |->
        IF \/ t[i] = "w1" /\ (i = Len(t) \/ t[i + 1] # "w2")
           \/ t[i] = "w2" /\ (i = 1 \/ t[i - 1] # "w1")
        THEN "bad" ELSE t[i]]

(******************************* The stream ********************************)

NotAsked == UNCHANGED <<written, arguments>>

\* push_bytes: what is valid is decoded; what begins with an invalid byte waits for more,
\* and so does all that comes behind it.
ChunkArrives ==
    /\ feed = "open" /\ ready = <<>> /\ body # <<>>
    /\ \E n \in 1..Len(body) :
       \E bytes \in {undecoded \o SubSeq(body, 1, n)} :
       \E pushed \in {PushText(SubSeq(bytes, 1, ValidUpTo(bytes)))} :
          /\ came' = came \o SubSeq(body, 1, n) /\ body' = SubSeq(body, n + 1, Len(body))
          /\ undecoded' = SubSeq(bytes, ValidUpTo(bytes) + 1, Len(bytes))
          /\ line' = pushed.line /\ pending' = pushed.state /\ ready' = pushed.out
          /\ torn' = (torn \/ (Last(came') = "cr" /\ body' # <<>> /\ body'[1] = "lf"))
    /\ UNCHANGED <<heard, feed>> /\ NotAsked

\* An error of the connection, or an abort; the reader is told.
BodyFails ==
    /\ feed = "open" /\ ready = <<>>
    /\ feed' = "failed" /\ heard' = Append(heard, Failure)
    /\ UNCHANGED <<body, came, torn, undecoded, line, pending, ready>> /\ NotAsked

\* finish: the bytes and the line that are left, and the event they end.
BodyOver ==
    /\ feed = "open" /\ ready = <<>> /\ body = <<>>
    /\ \E pushed \in {PushText(Lossy(undecoded))} :
       \E last \in {IF pushed.line = <<>> THEN [state |-> pushed.state, out |-> <<>>]
                    ELSE DecodeLine(pushed.state, pushed.line)} :
          ready' = pushed.out \o last.out \o DecodeLine(last.state, <<>>).out
    /\ undecoded' = <<>> /\ line' = <<>> /\ pending' = NoEvent /\ feed' = "done"
    /\ UNCHANGED <<body, came, torn, heard>> /\ NotAsked

ReaderTakes ==
    /\ ready # <<>>
    /\ heard' = Append(heard, Head(ready)) /\ ready' = Tail(ready)
    /\ UNCHANGED <<body, came, torn, undecoded, line, pending, feed>> /\ NotAsked

(*********************************** JSON **********************************)

Ok(v, i) == [ok |-> TRUE, value |-> v, next |-> i]
Fails(i) == [ok |-> FALSE, value |-> <<>>, next |-> i]

\* Where serde_json refuses, the lenient parser returns what it has.
Stop(strict, v, i) == IF strict THEN Fails(i) ELSE Ok(v, i)

CharAt(c, i, char) == i <= Len(c) /\ c[i] = char
Skip(c, i) == Min({j \in i..(Len(c) + 1) : ~CharAt(c, j, "space")})

String(out) == [kind |-> "text", text |-> out]
Object(map) == [kind |-> "object", map |-> map]
Array(items) == [kind |-> "array", items |-> items]

Escapes == {"quote", "bs", "n"}
Unescaped(char) == IF char = "n" THEN "control" ELSE char
IsHex(c, i) == i + 3 <= Len(c) /\ \A j \in i..(i + 3) : c[j] \in {"1", "e"}

\* parse_string, behind the opening quote.
RECURSIVE TextAt(_, _, _, _)
TextAt(c, i, out, strict) ==
    CASE i > Len(c) -> Stop(strict, String(out), i)
      [] CharAt(c, i, "quote") -> Ok(String(out), i + 1)
      [] CharAt(c, i, "control") -> Fails(i + 1)
      [] CharAt(c, i, "bs") ->
            CASE i = Len(c) -> Stop(strict, String(Append(out, "bs")), i + 1)
              [] i < Len(c) /\ c[i + 1] \in Escapes ->
                    TextAt(c, i + 2, Append(out, Unescaped(c[i + 1])), strict)
              [] CharAt(c, i + 1, "u") ->
                    IF IsHex(c, i + 2) THEN TextAt(c, i + 6, Append(out, "code"), strict)
                    ELSE Stop(strict, String(out), i + 2)
              [] OTHER -> Fails(i + 2)
      [] OTHER -> TextAt(c, i + 1, Append(out, c[i]), strict)

Word == <<"t", "r", "u", "e">>
WordAt(c, i, strict) ==
    LET rest == SubSeq(c, i, IF i + 3 <= Len(c) THEN i + 3 ELSE Len(c)) IN
    IF rest = Word THEN Ok([kind |-> "true"], i + 4)
    ELSE IF IsPrefix(rest, Word) THEN Stop(strict, [kind |-> "true"], Len(c) + 1)
    ELSE Fails(i)

\* is_strict_json_number, and what is left of a number that ends in its exponent.
Digits(t) == t # <<>> /\ \A k \in DOMAIN t : t[k] = "1"
Unsigned(t) == IF t # <<>> /\ t[1] = "-" THEN Tail(t) ELSE t
IsNumber(t) ==
    \E a \in 0..Len(t) : \E b \in a..Len(t) :
        LET fraction == SubSeq(t, a + 1, b)  exponent == SubSeq(t, b + 1, Len(t)) IN
        /\ Digits(Unsigned(SubSeq(t, 1, a)))
        /\ fraction = <<>> \/ (fraction[1] = "." /\ Digits(Tail(fraction)))
        /\ exponent = <<>> \/ (exponent[1] = "e" /\ Digits(Unsigned(Tail(exponent))))
TrimEnd(t, char) == SubSeq(t, 1, Max({0} \union {n \in DOMAIN t : t[n] # char}))
Mantissa(t) == TrimEnd(TrimEnd(TrimEnd(t, "-"), "e"), "-")

NumberAt(c, i, strict) ==
    LET end == Min({j \in i..(Len(c) + 1) : j > Len(c) \/ c[j] \notin {"1", "-", ".", "e"}})
        digits == SubSeq(c, i, end - 1)
    IN  IF IsNumber(digits) THEN Ok([kind |-> "number", text |-> digits], end)
        ELSE IF end > Len(c) /\ Mantissa(digits) # digits /\ IsNumber(Mantissa(digits))
             THEN Stop(strict, [kind |-> "number", text |-> Mantissa(digits)], end)
        ELSE Fails(end)

\* parse_value, parse_object and parse_array; after a comma, serde_json wants more.
RECURSIVE ValueAt(_, _, _), MembersAt(_, _, _, _, _), MemberAt(_, _, _, _),
          MembersEnd(_, _, _, _), ItemsAt(_, _, _, _, _), ItemsEnd(_, _, _, _)
ValueAt(c, from, strict) ==
    LET i == Skip(c, from) IN
    CASE i > Len(c) -> Fails(i)
      [] CharAt(c, i, "{") -> MembersAt(c, i + 1, <<>>, FALSE, strict)
      [] CharAt(c, i, "[") -> ItemsAt(c, i + 1, <<>>, FALSE, strict)
      [] CharAt(c, i, "quote") -> TextAt(c, i + 1, <<>>, strict)
      [] CharAt(c, i, "t") -> WordAt(c, i, strict)
      [] OTHER -> NumberAt(c, i, strict)

MembersAt(c, from, map, more, strict) ==
    LET i == Skip(c, from) IN
    CASE CharAt(c, i, "}") /\ ~(strict /\ more) -> Ok(Object(map), i + 1)
      [] CharAt(c, i, "quote") -> MemberAt(c, TextAt(c, i + 1, <<>>, strict), map, strict)
      [] OTHER -> Stop(strict, Object(map), i)

MemberAt(c, key, map, strict) ==
    LET colon == Skip(c, key.next) IN
    IF ~key.ok THEN key
    ELSE IF ~CharAt(c, colon, ":") THEN Stop(strict, Object(map), colon)
    ELSE MembersEnd(c, ValueAt(c, colon + 1, strict), <<key.value.text, map>>, strict)

MembersEnd(c, value, read, strict) ==
    LET k == Skip(c, value.next)  map == (read[1] :> value.value) @@ read[2] IN
    IF ~value.ok THEN Stop(strict, Object(read[2]), value.next)
    ELSE IF CharAt(c, k, ",") THEN MembersAt(c, k + 1, map, TRUE, strict)
    ELSE IF CharAt(c, k, "}") THEN Ok(Object(map), k + 1)
    ELSE Stop(strict, Object(map), k)

ItemsAt(c, from, items, more, strict) ==
    LET i == Skip(c, from) IN
    CASE i > Len(c) -> Stop(strict, Array(items), i)
      [] CharAt(c, i, "]") /\ ~(strict /\ more) -> Ok(Array(items), i + 1)
      [] OTHER -> ItemsEnd(c, ValueAt(c, i, strict), items, strict)

ItemsEnd(c, item, before, strict) ==
    LET k == Skip(c, item.next)  items == Append(before, item.value) IN
    IF ~item.ok THEN Stop(strict, Array(before), item.next)
    ELSE IF CharAt(c, k, ",") THEN ItemsAt(c, k + 1, items, TRUE, strict)
    ELSE IF CharAt(c, k, "]") THEN Ok(Array(items), k + 1)
    ELSE Stop(strict, Array(items), k)

\* repair_json: inside a string, control characters are escaped and a backslash that
\* begins no escape is doubled.
RECURSIVE RepairedFrom(_, _, _)
RepairedFrom(c, i, inside) ==
    CASE i > Len(c) -> <<>>
      [] CharAt(c, i, "quote") -> <<c[i]>> \o RepairedFrom(c, i + 1, ~inside)
      [] inside /\ CharAt(c, i, "control") -> <<"bs", "n">> \o RepairedFrom(c, i + 1, TRUE)
      [] inside /\ CharAt(c, i, "bs") ->
            IF CharAt(c, i + 1, "u") /\ IsHex(c, i + 2)
            THEN SubSeq(c, i, i + 5) \o RepairedFrom(c, i + 6, TRUE)
            ELSE IF i < Len(c) /\ c[i + 1] \in Escapes
            THEN SubSeq(c, i, i + 1) \o RepairedFrom(c, i + 2, TRUE)
            ELSE <<"bs", "bs">> \o RepairedFrom(c, i + 1, TRUE)
      [] OTHER -> <<c[i]>> \o RepairedFrom(c, i + 1, inside)
RepairJson(c) == RepairedFrom(c, 1, FALSE)

Entire(c, parsed) == IF parsed.ok /\ Skip(c, parsed.next) > Len(c) THEN parsed ELSE Fails(1)
Strictly(c) == Entire(c, ValueAt(c, 1, TRUE))

FirstOf(tries) ==
    LET good == {k \in DOMAIN tries : tries[k].ok} IN
    IF good = {} THEN Fails(1) ELSE tries[Min(good)]
ParseWithRepair(c) == FirstOf(<<Strictly(c), Strictly(RepairJson(c))>>)

OrNothing(parsed) == IF parsed.ok THEN parsed.value ELSE Object(<<>>)
ParseStreaming(c) ==
    OrNothing(FirstOf(<<ParseWithRepair(c), ValueAt(c, 1, FALSE), ValueAt(RepairJson(c), 1, FALSE)>>))

(********************************* The call ********************************)

TextOfCall(members) ==
    <<"{">> \o FlattenSeq([k \in DOMAIN members |->
                  (IF k = 1 THEN <<>> ELSE <<",">>) \o members[k].text]) \o <<"}">>

\* A delta: the providers parse all they have of a call's arguments again.
ArgumentsGrow ==
    /\ feed = "args" /\ body # <<>>
    /\ came' = Append(came, body[1]) /\ body' = Tail(body)
    /\ arguments' = ParseStreaming(came')
    /\ UNCHANGED <<torn, undecoded, line, pending, ready, heard, feed, written>>

WireInit ==
    /\ \/ body \in Bodies /\ feed = "open" /\ written = <<>>
       \/ written \in WrittenCalls /\ body = TextOfCall(written) /\ feed = "args"
    /\ came = <<>> /\ torn = FALSE /\ undecoded = <<>> /\ line = <<>> /\ pending = NoEvent
    /\ ready = <<>> /\ heard = <<>> /\ arguments = Object(<<>>)

WireNext == ChunkArrives \/ BodyFails \/ BodyOver \/ ReaderTakes \/ ArgumentsGrow

WireSpec == WireInit /\ [][WireNext]_wireVars

(******************************** Properties *******************************)

\* What a body says, read at once: lines end at "cr", "lf" or both, blocks of lines at a
\* blank one, and a block is an event if it has a field that counts.
EndsLine(t, i) == t[i] = "lf" \/ (t[i] = "cr" /\ ~(i < Len(t) /\ t[i + 1] = "lf"))
LineOf(t, i) == Cardinality({j \in 1..(i - 1) : EndsLine(t, j)}) + 1
IsText(byte) == byte \notin {"cr", "lf"}
LinesIn(t) ==
    [n \in 1..(Cardinality({j \in DOMAIN t : EndsLine(t, j)}) + 1) |->
        LET own == SelectSeq([i \in DOMAIN t |-> i], LAMBDA i : IsText(t[i]) /\ LineOf(t, i) = n)
        IN  [k \in DOMAIN own |-> t[own[k]]]]
BlockOf(lines, n) == Cardinality({m \in 1..n : lines[m] = <<>>})
EventOf(block) ==
    LET names == SelectSeq(block, LAMBDA l : l[1] = "event")
        datas == SelectSeq(block, LAMBDA l : l[1] = "data")
    IN  [event |-> IF names = <<>> THEN <<>> ELSE <<Tail(Last(names))>>,
         data |-> [k \in DOMAIN datas |-> Tail(datas[k])]]
EventsIn(t) ==
    LET lines == LinesIn(t)
        of[b \in 0..Len(lines)] ==
            EventOf([k \in DOMAIN SelectSeq([n \in DOMAIN lines |-> n],
                                            LAMBDA n : lines[n] # <<>> /\ BlockOf(lines, n) = b) |->
                lines[SelectSeq([n \in DOMAIN lines |-> n],
                                LAMBDA n : lines[n] # <<>> /\ BlockOf(lines, n) = b)[k]]])
    IN  SelectSeq([b \in 1..(Len(lines) + 1) |-> of[b - 1]], LAMBDA e : e # NoEvent)

\* However the bytes of a body are cut into chunks, unless between the two characters of
\* one line end, the reader hears the events that the body says, each once and in order;
\* every one that has come whole before an invalid byte at once, and all of them in the end.
FramesExact ==
    (feed # "args" /\ ~torn) =>
        LET told == SelectSeq(heard, LAMBDA e : e # Failure) \o ready
            all == EventsIn(Lossy(came \o body))
            whole == SubSeq(came, 1, ValidUpTo(came))
            ended == {i \in DOMAIN whole : EndsLine(whole, i)}
        IN  /\ IsPrefix(told, all)
            /\ feed = "done" => told = all
            /\ feed = "open" /\ ended # {} =>
                  Len(told) + 1 >= Len(EventsIn(SubSeq(whole, 1, Max(ended))))

\* One value shows part of another.  The number and the word that are still being
\* written are taken for what they are so far, and a backslash for itself.
RECURSIVE Shows(_, _)
Shows(part, whole) ==
    /\ part.kind = whole.kind
    /\ CASE part.kind = "text" ->
              IsPrefix(part.text, whole.text)
              \/ (part.text # <<>> /\ Last(part.text) = "bs" /\ IsPrefix(Front(part.text), whole.text))
         [] part.kind = "number" -> IsPrefix(part.text, whole.text)
         [] part.kind = "array" ->
              /\ Len(part.items) <= Len(whole.items)
              /\ \A k \in DOMAIN part.items : Shows(part.items[k], whole.items[k])
         [] part.kind = "object" ->
              /\ DOMAIN part.map \subseteq DOMAIN whole.map
              /\ \A key \in DOMAIN part.map : Shows(part.map[key], whole.map[key])
         [] OTHER -> TRUE

\* What the arguments of a call are; no key is written twice.
Meant(members) ==
    Object([key \in {members[k].key : k \in DOMAIN members} |->
        members[CHOOSE k \in DOMAIN members : members[k].key = key].value])

\* The arguments that are shown while a call is written are never anything but a part of
\* what it says; a member that is written is shown until one comes that is not JSON as it
\* stands; and the whole call is understood, even then.
ArgumentsHold ==
    feed = "args" =>
        /\ Shows(arguments, Meant(written))
        /\ body = <<>> => arguments = Meant(written)
        /\ \A k \in DOMAIN written :
              (/\ \A j \in 1..k : ~written[j].raw
               /\ Len(came) >= Len(TextOfCall(SubSeq(written, 1, k))) - 1)
                  => /\ written[k].key \in DOMAIN arguments.map
                     /\ arguments.map[written[k].key] = written[k].value

WireExact == FramesExact /\ ArgumentsHold
=============================================================================
