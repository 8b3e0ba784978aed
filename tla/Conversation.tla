---------------------------- MODULE Conversation ----------------------------
(***************************************************************************)
(* What a provider is sent of a conversation that several models have had  *)
(* a part in: the two passes of src/ai/api/transform_messages.rs, and the  *)
(* conversion to the turns of each protocol, which merges, drops and       *)
(* renames.  The history grows as the agent's transcript does: the results *)
(* of a message's calls follow it in their order, but not all of them if   *)
(* the run is aborted.                                                     *)
(***************************************************************************)
EXTENDS Naturals, Sequences, FiniteSets
LOCAL INSTANCE SequencesExt

CONSTANTS Formats,         \* the protocols, and the variants that convert differently
          MaxSaid          \* bounds the messages, but for the results, and their parts together

ASSUME ConversationAssumption ==
    /\ Formats \subseteq {"anthropic", "kimi", "bedrock", "nova", "completions", "bridged",
                          "responses", "mistral", "gemini3", "gemini2"}
    /\ MaxSaid \in Nat

VARIABLE history

(********************************* Messages ********************************)

\* The signature of a part: none, an empty string, or one that the model can check.
\* Whether the part's author is the model that is now asked; the id of a call, which is
\* unique in the conversation until the foreign ones are rewritten for the provider.
Part(kind, blank, sig) == [kind |-> kind, blank |-> blank, sig |-> sig, own |-> FALSE, id |-> <<>>]

Parts == {Part("text", FALSE, "signed"), Part("text", TRUE, "none"),
          Part("thinking", FALSE, "signed"), Part("thinking", FALSE, "empty"),
          Part("thinking", TRUE, "signed"), Part("redacted", TRUE, "signed"),
          Part("call", FALSE, "signed")}

User(blank)       == [role |-> "user", blank |-> blank]
Result(id, image) == [role |-> "result", of |-> id, image |-> image]
Assistant(parts, error) == [role |-> "assistant", parts |-> parts, error |-> error]

CallParts(parts) == SelectSeq(parts, LAMBDA part : part.kind = "call")
Ids(parts)   == [i \in DOMAIN CallParts(parts) |-> CallParts(parts)[i].id]

(********************************* History *********************************)

ConversationInit == history = <<>>

AnswersIn(h) == {i \in DOMAIN h : h[i].role = "assistant"}
Latest(h)  == CHOOSE i \in AnswersIn(h) : \A j \in AnswersIn(h) : j <= i
Said(h) == FoldLeft(LAMBDA n, message :
                        n + (CASE message.role = "assistant" -> 1 + Len(message.parts)
                               [] message.role = "user"      -> 1
                               [] message.role = "result"    -> 0), 0, h)

UserSays(blank) ==
    /\ Said(history) < MaxSaid
    /\ history' = Append(history, User(blank))

\* The answer is the message that follows; its calls get new ids.
Saying(own, parts, error) ==
    /\ Said(history) + 1 + Len(parts) <= MaxSaid
    /\ history' = Append(history, Assistant(
           [i \in DOMAIN parts |->
               [parts[i] EXCEPT !.own = own,
                                !.id = IF parts[i].kind = "call" THEN <<Len(history), i>> ELSE <<>>]],
           error))

\* A model answers, the one that is now asked or another.
ModelAnswers(own, parts) == Saying(own, parts, FALSE)

\* It fails or is aborted, after the first part or before it.
AnswerFails(own, parts)  == Saying(own, parts, TRUE)

\* The next call of the last answer has its result.  The calls of an answer that failed
\* are not executed.
ResultArrives(image) ==
    /\ AnswersIn(history) # {}
    /\ LET last == Latest(history)
           done == Len(history) - last
           ids  == Ids(history[last].parts)
       IN /\ \A i \in DOMAIN history : i > last => history[i].role = "result"
          /\ ~history[last].error /\ done < Len(ids)
          /\ history' = Append(history, Result(ids[done + 1], image))

ConversationNext ==
    \/ \E blank \in BOOLEAN : UserSays(blank)
    \/ \E own \in BOOLEAN :
           \/ \E n \in 1..2 : \E parts \in [1..n -> Parts] : ModelAnswers(own, parts)
           \/ \E n \in 0..1 : \E parts \in [1..n -> Parts] : AnswerFails(own, parts)
    \/ \E image \in BOOLEAN : ResultArrives(image)

(************************** transform_messages, 1 **************************)

\* normalize_tool_call_id, which all protocols have but Gemini before 3; another id may
\* become longer, shorter or a hash, but stays one of its own.
Normal(format, id) == IF format = "gemini2" THEN id ELSE Append(id, "normal")

Plain(part) == [part EXCEPT !.kind = "text", !.sig = "none"]

\* What is left of a part of another model.
Foreign(format, part) ==
    CASE part.kind = "redacted" -> <<>>
      [] part.kind = "thinking" -> IF part.blank THEN <<>> ELSE <<Plain(part)>>
      [] part.kind = "text"     -> <<Plain(part)>>
      [] part.kind = "call"     -> <<[part EXCEPT !.sig = "none", !.id = Normal(format, @)]>>

\* All that a model said itself, signed thinking even where it is blank.
Own(part) == IF part.kind = "thinking" /\ part.sig = "none" /\ part.blank THEN <<>> ELSE <<part>>

Transformed(format, parts) ==
    FlattenSeq([i \in DOMAIN parts |->
                   IF parts[i].own THEN Own(parts[i]) ELSE Foreign(format, parts[i])])

\* Mutant: results keep the id under which they were asked for.
NotRenamed(format, h, i) == h[i]

\* tool_call_id_map: a result follows its call to its new id.
Renamed(format, h, i) ==
    LET foreign == \E j \in AnswersIn(h) : \E part \in ToSet(h[j].parts) :
                       j < i /\ ~part.own /\ part.id = h[i].of
    IN IF foreign THEN [h[i] EXCEPT !.of = Normal(format, @)] ELSE h[i]

FirstPass(format, h) ==
    [i \in DOMAIN h |->
        CASE h[i].role = "assistant" -> [h[i] EXCEPT !.parts = Transformed(format, @)]
          [] h[i].role = "result"    -> Renamed(format, h, i)
          [] h[i].role = "user"      -> h[i]]

(************************** transform_messages, 2 **************************)

\* insert_synthetic_tool_results
Synthesized(pass) ==
    LET left == SelectSeq(pass.pending, LAMBDA id : id \notin pass.existing) IN
    IF pass.pending = <<>> THEN pass
    ELSE [out      |-> pass.out \o [i \in DOMAIN left |-> Result(left[i], FALSE)],
          pending  |-> <<>>,
          existing |-> {}]

\* An answer that failed is not sent, though the calls before it get their results.
Replayed(pass, message) ==
    LET ids == Ids(message.parts) IN
    IF message.error THEN pass
    ELSE [out      |-> Append(pass.out, message),
          pending  |-> IF ids = <<>> THEN pass.pending ELSE ids,
          existing |-> IF ids = <<>> THEN pass.existing ELSE {}]

Sorted(pass, message) ==
    CASE message.role = "assistant" -> Replayed(Synthesized(pass), message)
      [] message.role = "user"      -> [Synthesized(pass) EXCEPT !.out = Append(@, message)]
      [] message.role = "result"    -> [pass EXCEPT !.out = Append(@, message),
                                                    !.existing = @ \cup {message.of}]

TransformMessages(format, h) ==
    Synthesized(FoldLeft(Sorted, [out |-> <<>>, pending |-> <<>>, existing |-> {}],
                         FirstPass(format, h))).out

(******************************* Conversion ********************************)

\* The turns, the role of the message that was converted last, and the images of the
\* results since.
Nothing == [turns |-> <<>>, after |-> "none", images |-> FALSE]

Turn(role, parts) == [role |-> role, parts |-> parts]
Emit(made, role, parts) ==
    IF parts = <<>> THEN made ELSE [made EXCEPT !.turns = Append(@, Turn(role, parts))]

Spoke  == [kind |-> "says"]
Image  == [kind |-> "image"]
Bridge == [kind |-> "text", blank |-> FALSE, sig |-> "none", own |-> FALSE, id |-> <<>>]
Answer(result) == [kind |-> "result", id |-> result.of]

\* openai_completions.rs, whose answers of nothing do not count as sent.
Chats(format) == format \in {"completions", "bridged"}

\* Added to the last turn, which is of results.
Joined(made, part) == [made EXCEPT !.turns[Len(made.turns)].parts = Append(@, part)]

Written(parts) == SelectSeq(parts, LAMBDA part : ~(part.kind = "text" /\ part.blank))

\* convert_messages of anthropic_messages.rs; "kimi" is marked to take empty signatures.
AnthropicPart(format, part) ==
    IF part.kind # "thinking" \/ part.sig = "signed" THEN <<part>>
    ELSE IF part.blank THEN <<>>
    ELSE IF format = "kimi" THEN <<[part EXCEPT !.sig = "empty"]>> ELSE <<Plain(part)>>

\* convert_messages of bedrock_converse_stream.rs; "nova" has no signatures.
BedrockPart(format, part) ==
    IF part.kind # "thinking" THEN <<part>>
    ELSE IF part.blank THEN <<>>
    ELSE IF format = "nova" THEN <<[part EXCEPT !.sig = "none"]>>
    ELSE IF part.sig = "signed" THEN <<part>> ELSE <<Plain(part)>>

\* convert_responses_messages: an item for each part, reasoning as it was received.
ResponsesPart(part) == IF part.kind = "thinking" /\ part.sig = "none" THEN <<>> ELSE <<part>>

\* to_chat_messages of mistral_conversations.rs, which has no signatures.
MistralPart(part) ==
    IF part.kind \in {"thinking", "redacted"} /\ part.blank THEN <<>>
    ELSE <<[part EXCEPT !.sig = "none"]>>

\* convert_messages of google_shared.rs: what is blank goes along if it is signed.
GooglePart(part) == IF part.kind # "call" /\ part.blank /\ part.sig # "signed" THEN <<>> ELSE <<part>>

\* convert_messages of openai_completions.rs: content, calls, and the thinking beside them,
\* which alone is not a message.
CompletionsParts(parts) ==
    LET said == SelectSeq(Written(parts), LAMBDA part : part.kind \in {"text", "call"})
        thought == SelectSeq(parts, LAMBDA part : part.kind = "thinking" /\ ~part.blank)
    IN IF said = <<>> THEN <<>> ELSE [i \in DOMAIN thought |-> [thought[i] EXCEPT !.sig = "none"]] \o said

\* The parts of an answer, in the format's own terms; an answer of no parts is not sent.
AnswerParts(format, parts) ==
    CASE format \in {"anthropic", "kimi"} ->
             FlattenSeq([i \in DOMAIN Written(parts) |-> AnthropicPart(format, Written(parts)[i])])
      [] format \in {"bedrock", "nova"} ->
             FlattenSeq([i \in DOMAIN Written(parts) |-> BedrockPart(format, Written(parts)[i])])
      [] Chats(format) -> CompletionsParts(parts)
      [] format = "responses" -> FlattenSeq([i \in DOMAIN parts |-> ResponsesPart(parts[i])])
      [] format = "mistral"   ->
             FlattenSeq([i \in DOMAIN Written(parts) |-> MistralPart(Written(parts)[i])])
      [] format \in {"gemini3", "gemini2"} -> FlattenSeq([i \in DOMAIN parts |-> GooglePart(parts[i])])

\* Anthropic drops a user's message that is blank, the others send it or a placeholder.
UserParts(format, message) ==
    IF format \in {"anthropic", "kimi"} /\ message.blank THEN <<>> ELSE <<Spoke>>

\* After a group of results, what Chat Completions adds before the next message: the
\* images of the results as if the user had sent them, and an answer to bridge the gap.
GroupEnds(format, made) ==
    LET bridged == IF format = "bridged" THEN Emit(made, "assistant", <<Bridge>>) ELSE made
    IN IF made.after = "result" /\ made.images /\ Chats(format)
       THEN [Emit(bridged, "user", <<Image>>) EXCEPT !.images = FALSE, !.after = "user"]
       ELSE made

\* Whether a result joins the turn of the one before it: Google looks at the last turn,
\* Anthropic and Bedrock at the message before it; the others do not merge.
Joins(format, made) ==
    CASE format \in {"anthropic", "kimi", "bedrock", "nova"} -> made.after = "result"
      [] format \in {"gemini3", "gemini2"} ->
             /\ made.turns # <<>> /\ made.turns[Len(made.turns)].role = "user"
             /\ \E part \in ToSet(made.turns[Len(made.turns)].parts) : part.kind = "result"
      [] OTHER -> FALSE

Resulted(format, made, result) ==
    LET shown == IF Joins(format, made) THEN Joined(made, Answer(result))
                 ELSE Emit(made, IF Chats(format) \/ format \in {"mistral", "responses"}
                                 THEN "tool" ELSE "user", <<Answer(result)>>)
        pictured == IF format = "gemini2" /\ result.image THEN Emit(shown, "user", <<Image>>) ELSE shown
    IN [pictured EXCEPT !.after = "result", !.images = made.images \/ result.image]

Converted(format, made, message) ==
    CASE message.role = "result" -> Resulted(format, made, message)
      [] message.role = "assistant" ->
             LET ended == GroupEnds(format, made)
                 parts == AnswerParts(format, message.parts)
             IN [Emit(ended, "assistant", parts)
                    EXCEPT !.images = FALSE,
                           !.after = IF parts = <<>> /\ Chats(format) THEN ended.after ELSE "assistant"]
      [] message.role = "user" ->
             LET ended   == GroupEnds(format, made)
                 bridged == IF format = "bridged" /\ ended.after = "result"
                            THEN Emit(ended, "assistant", <<Bridge>>) ELSE ended
             IN [Emit(bridged, "user", UserParts(format, message)) EXCEPT !.after = "user", !.images = FALSE]

ConvertMessages(format, h) ==
    GroupEnds(format, FoldLeft(LAMBDA made, message : Converted(format, made, message),
                               Nothing, TransformMessages(format, h))).turns

(******************************** Properties *******************************)

\* A model is asked once somebody has said something.
Asking == IF history = <<>> THEN {} ELSE Formats

\* All that a request says, part by part, with the turn that each part belongs to.
Spoken(turns) ==
    FlattenSeq([i \in DOMAIN turns |->
                   [j \in DOMAIN turns[i].parts |->
                       [part |-> turns[i].parts[j], role |-> turns[i].role, turn |-> i]]])

Merging == {"anthropic", "kimi", "bedrock", "nova", "gemini3"}

\* In every request each call has exactly one result and each result its call, under one
\* id; nobody speaks between a call and its result, and the protocols that ask for it get
\* the results of an answer in one turn, right after it.
CallsAnswered(format, spoken) ==
    LET calls   == {i \in DOMAIN spoken : spoken[i].part.kind = "call"}
        results == {i \in DOMAIN spoken : spoken[i].part.kind = "result"}
        Pairs(i, j) == spoken[i].part.id = spoken[j].part.id
    IN /\ \A j \in results : Cardinality({i \in calls : i < j /\ Pairs(i, j)}) = 1
       /\ \A i \in calls :
             \E j \in results :
                 /\ {k \in results : Pairs(i, k)} = {j}
                 /\ \A k \in i..j : spoken[k].part.kind # "says"
                 /\ \A k \in i..j : spoken[k].role = "assistant" => \A l \in i..k : l \notin results
                 /\ format \in Merging => spoken[j].turn = spoken[i].turn + 1

\* No request carries another model's signature, and the signed thinking of an answer
\* that calls tools goes back to the model that signed it, in its place before the call.
SignaturesStay(format, spoken) ==
    /\ \A i \in DOMAIN spoken :
           (spoken[i].role = "assistant" /\ spoken[i].part.sig = "signed") => spoken[i].part.own
    /\ format \in {"anthropic", "bedrock", "responses", "gemini3"} =>
           \A m \in AnswersIn(history) : \A i, j \in DOMAIN history[m].parts :
               LET thought == history[m].parts[i]
                   call    == history[m].parts[j]
               IN (/\ ~history[m].error /\ thought.own /\ i < j /\ call.kind = "call"
                   /\ thought.kind = "thinking" /\ thought.sig = "signed" /\ ~thought.blank)
                  => \E k, l \in DOMAIN spoken : k < l /\ spoken[k].part = thought /\ spoken[l].part = call

\* A provider takes the request that any conversation becomes (transform_messages and
\* every protocol's convert_messages).
ReplayHolds ==
    \A format \in Asking : \A spoken \in {Spoken(ConvertMessages(format, history))} :
        CallsAnswered(format, spoken) /\ SignaturesStay(format, spoken)
=============================================================================
