------------------------------ MODULE Translation ------------------------------
(* A conversation with tools over the Anthropic endpoint.  The client keeps    *)
(* the history as Anthropic messages and sends all of it each time; the        *)
(* endpoint makes OpenAI messages of it and Anthropic blocks of the backend's  *)
(* answer.  A text is a sequence of pieces, "" the empty one; a content that   *)
(* is a string is one text block.                                              *)
EXTENDS Naturals, Sequences, SequencesExt, FiniteSetsExt

CONSTANTS System,      \* the system prompt's blocks
          Openings,    \* the first messages of users: sequences of blocks
          Remarks,     \* what a user may add to tool results: text or image blocks
          Replies,     \* texts of backends' answers
          CallIds,     \* ids backends give their calls; they may come again
          NoId,        \* "" or a missing id
          Inputs, EmptyInput,
          Unparsable,  \* arguments that are missing or no JSON
          Finishes,    \* finish_reasons of answers without calls
          NoFinish,    \* none given
          MaxTurns

VARIABLES history,  \* the client's messages: [role, content]
          stop,     \* the last answer's stop_reason
          sent,     \* the messages of the last request to the backend
          said,     \* what backends answered
          made      \* tool use ids generated

vars == <<history, stop, sent, said, made>>

TextBlock(t) == [type |-> "text", text |-> t]
ToolUse(id, input) == [type |-> "tool_use", id |-> id, input |-> input]
ToolResult(id, t) == [type |-> "tool_result", id |-> id, text |-> t]

Message(role, t) == [role |-> role, text |-> t, calls |-> <<>>]
Calling(t, calls) == [role |-> "assistant", text |-> t, calls |-> calls]
Tool(id, t) == [role |-> "tool", id |-> id, text |-> t]

Of(type, blocks) == SelectSeq(blocks, LAMBDA b : b.type = type)
Has(type, blocks) == Of(type, blocks) # <<>>
Map(Op(_), seq) == [i \in DOMAIN seq |-> Op(seq[i])]

-----------------------------------------------------------------------------
(* content_to_string; of a system prompt, system_to_string. *)
Text(blocks) == FlattenSeq(Map(LAMBDA b : b.text, Of("text", blocks)))

(* translate_assistant_tool_use *)
Assistant(blocks) ==
    Calling(Text(blocks),
            Map(LAMBDA b : [id |-> b.id, arguments |-> b.input], Of("tool_use", blocks)))

(* translate_user_tool_result: the text so far goes before a result. *)
Flush(acc) == IF acc.text = <<>> THEN acc.out ELSE Append(acc.out, Message("user", acc.text))

(* A mutant: the text is held back until all results are out. *)
ResultFirst(acc, b) == [acc EXCEPT !.out = Append(@, Tool(b.id, b.text))]

Result(acc, b) == [out |-> Append(Flush(acc), Tool(b.id, b.text)), text |-> <<>>]

User(blocks) ==
    Flush(FoldLeft(LAMBDA acc, b : CASE b.type = "tool_result" -> Result(acc, b)
                                     [] b.type = "text" -> [acc EXCEPT !.text = @ \o b.text]
                                     [] OTHER -> acc,
                   [out |-> <<>>, text |-> <<>>], blocks))

(* translate_request *)
Translated(m) ==
    IF m.role = "assistant" /\ Has("tool_use", m.content) THEN <<Assistant(m.content)>>
    ELSE IF m.role = "user" /\ Has("tool_result", m.content) THEN User(m.content)
    ELSE <<Message(m.role, Text(m.content))>>

Prompt == IF Text(System) = <<>> THEN <<>> ELSE <<Message("system", Text(System))>>

Request(messages) == Prompt \o FlattenSeq(Map(Translated, messages))

(* translate_openai_response *)
StopReason(finish) == CASE finish \in {"stop", NoFinish} -> "end_turn"
                        [] finish = "length" -> "max_tokens"
                        [] finish = "tool_calls" -> "tool_use"
                        [] OTHER -> finish

Fresh(answer, i) == made + Cardinality({j \in 1..i : answer.calls[j].id = NoId})

Block(answer, i) ==
    LET c == answer.calls[i] IN
    ToolUse(IF c.id = NoId THEN Fresh(answer, i) ELSE c.id,
            IF c.arguments = Unparsable THEN EmptyInput ELSE c.arguments)

Blocks(answer) ==
    LET content == (IF answer.text = <<>> THEN <<>> ELSE <<TextBlock(answer.text)>>)
                   \o [i \in DOMAIN answer.calls |-> Block(answer, i)]
    IN IF content = <<>> THEN <<TextBlock(<<>>)>> ELSE content

-----------------------------------------------------------------------------
Spoke(role) == history # <<>> /\ history[Len(history)].role = role

(* The client asks: with an opening, with the results of the tools it was told *)
(* to call, in any order and with remarks between them, or with more text.     *)
Ask(content) ==
    LET messages == Append(history, [role |-> "user", content |-> content]) IN
    /\ history' = messages
    /\ sent' = Request(messages)
    /\ UNCHANGED <<stop, said, made>>

Open == history = <<>> /\ \E content \in Openings : Ask(content)

Goes == Of("tool_use", history[Len(history)].content)

Continue == /\ Spoke("assistant") /\ Goes = <<>>
            /\ \E content \in Openings : Ask(content)

Results ==
    /\ Spoke("assistant") /\ Goes # <<>>
    /\ \E order \in SetToSeqs(DOMAIN Goes), r \in Remarks, at \in 0..Len(Goes) :
         LET results == [i \in DOMAIN order |-> ToolResult(Goes[order[i]].id, <<"result", order[i]>>)]
         IN Ask(SubSeq(results, 1, at) \o r \o SubSeq(results, at + 1, Len(results)))

(* The backend answers, and the endpoint passes it on. *)
AnswerWith(answer, finish) ==
    /\ said' = Append(said, answer)
    /\ history' = Append(history, [role |-> "assistant", content |-> Blocks(answer)])
    /\ stop' = StopReason(finish)
    /\ made' = made + Cardinality({i \in DOMAIN answer.calls : answer.calls[i].id = NoId})
    /\ UNCHANGED sent

Calls == LET call == [id : CallIds \cup {NoId}, arguments : Inputs \cup {Unparsable}] IN
         {<<c>> : c \in call} \cup {<<c, d>> : c \in call, d \in call}

Reply == /\ Spoke("user") /\ Len(said) < MaxTurns
         /\ \E t \in Replies, f \in Finishes : AnswerWith([text |-> t, calls |-> <<>>], f)

CallTools == /\ Spoke("user") /\ Len(said) < MaxTurns
             /\ \E t \in Replies, calls \in Calls :
                  /\ Len(calls) = 2 /\ calls[1].id = calls[2].id => calls[1].id = NoId
                  /\ AnswerWith([text |-> t, calls |-> calls], "tool_calls")

Init == history = <<>> /\ stop = NoFinish /\ sent = <<>> /\ said = <<>> /\ made = 0

Next == Open \/ Continue \/ Results \/ Reply \/ CallTools

Spec == Init /\ [][Next]_vars

-----------------------------------------------------------------------------
Assistants == SelectSeq(sent, LAMBDA m : m.role = "assistant")

(* The backend reads its own answers: their text, and their calls with the ids *)
(* and arguments it gave where it gave usable ones.                            *)
SameCall(given, read) == /\ read.id = given.id \/ given.id = NoId
                         /\ read.arguments = (IF given.arguments = Unparsable THEN EmptyInput
                                              ELSE given.arguments)

AnswersReadBack ==
    \A i \in DOMAIN Assistants :
        /\ Assistants[i].text = said[i].text
        /\ Len(Assistants[i].calls) = Len(said[i].calls)
        /\ \A j \in DOMAIN said[i].calls : SameCall(said[i].calls[j], Assistants[i].calls[j])

(* Between an answer with calls and the next there is one result per call, of  *)
(* that call.                                                                  *)
CallsAnswered ==
    \A i \in DOMAIN sent :
        sent[i].role = "assistant" =>
        LET ends == {j \in (i + 1)..Len(sent) : sent[j].role = "assistant"} \cup {Len(sent) + 1}
            tools == SelectSeq(SubSeq(sent, i + 1, Min(ends) - 1), LAMBDA m : m.role = "tool")
        IN /\ Len(tools) = Len(sent[i].calls)
           /\ \A j \in DOMAIN sent[i].calls : \E k \in DOMAIN tools :
                tools[k].id = sent[i].calls[j].id /\ tools[k].text = <<"result", j>>

(* What the user wrote and what the tools gave is in the order the client put  *)
(* it in.                                                                      *)
Pieces(seq) == FlattenSeq(Map(LAMBDA x : x.text, seq))

OrderKept ==
    Pieces(SelectSeq(sent, LAMBDA m : m.role \in {"user", "tool"}))
    = Pieces(FlattenSeq(Map(LAMBDA m : SelectSeq(m.content, LAMBDA b : b.type # "image"),
                            SelectSeq(history, LAMBDA m : m.role = "user"))))

(* A conversation survives being translated both ways, turn after turn         *)
(* (translate_openai_response, then translate_request of what became of it).   *)
ConversationKept == AnswersReadBack /\ CallsAnswered /\ OrderKept
=============================================================================
