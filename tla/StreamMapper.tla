---------------------------- MODULE StreamMapper ----------------------------
(***************************************************************************)
(* The conversion of a provider's answer into OpenAI form, in the two ways  *)
(* the adapters of internal/provider do it: a stream mapper turns native    *)
(* events into chunks one at a time, a decoder turns the complete answer    *)
(* into one completion.                                                     *)
(*                                                                          *)
(* An answer is a sequence of blocks ("text", "thought", "tool" and Cohere's *)
(* "plan"), the provider's finish reason, and whether it reports token      *)
(* usage.  The content of block b is the sequence of its fragments <<b, 1>>, *)
(* <<b, 2>>; a tool is known by the number of its block.  Events and chunks *)
(* are uniform records, so that every field of either can be read.          *)
(***************************************************************************)
EXTENDS Naturals, Sequences, SequencesExt

CONSTANT Fragments  \* into how many fragments a provider cuts a block

ASSUME FragmentsAssumption == Fragments \in Nat \ {0}

NativeProtocols == {"anthropic", "bedrock", "gemini", "cohere", "ollama", "dashscope"}

Whole(b) == [k \in 1 .. Fragments |-> <<b, k>>]

Tools(answer) == SelectSeq([b \in DOMAIN answer.blocks |-> b],
                           LAMBDA b : answer.blocks[b] = "tool")

Reported(answer) == IF answer.usage THEN {"prompt", "completion"} ELSE {}

(***************************************************************************)
(* The chunks of an OpenAI stream.                                          *)
(***************************************************************************)
NoDelta == [content |-> <<>>, hasContent |-> FALSE, reasoning |-> <<>>,
            calls |-> <<>>, finish |-> "", usage |-> {}]

Role == NoDelta

Content(text) == [NoDelta EXCEPT !.content = text, !.hasContent = TRUE]

Reasoning(text) == [NoDelta EXCEPT !.reasoning = text]

ToolCall(index, name, args) == [index |-> index, name |-> name, args |-> args]

Calls(calls) == [NoDelta EXCEPT !.calls = calls]

Finish(reason, usage) == [NoDelta EXCEPT !.finish = reason, !.usage = usage]

(***************************************************************************)
(* What each provider sends for an answer.  External: the providers are not *)
(* part of the repository; the events are those the mappers read.           *)
(***************************************************************************)
Event(type) == [type |-> type, block |-> 0, kind |-> "", text |-> <<>>, name |-> 0,
                calls |-> <<>>, reason |-> "", usage |-> {}]

Deltas(b, kind, type) ==
    [k \in 1 .. Fragments |->
        [Event(type) EXCEPT !.block = b, !.kind = kind, !.text = <<<<b, k>>>>]]

PerBlock(answer, Events(_, _)) ==
    FlattenSeq([b \in DOMAIN answer.blocks |-> Events(b, answer.blocks[b])])

AnthropicEvents(answer) ==
    <<[Event("message_start") EXCEPT !.usage = Reported(answer) \ {"completion"}]>>
      \o PerBlock(answer, LAMBDA b, kind :
            <<[Event("content_block_start") EXCEPT !.block = b, !.kind = kind, !.name = b]>>
              \o Deltas(b, kind, "content_block_delta") \o <<Event("content_block_stop")>>)
      \o <<[Event("message_delta") EXCEPT !.reason = answer.reason,
                                          !.usage = Reported(answer) \ {"prompt"}],
           Event("message_stop")>>

BedrockEvents(answer) ==
    <<Event("messageStart")>>
      \o PerBlock(answer, LAMBDA b, kind :
            <<[Event("contentBlockStart") EXCEPT !.block = b, !.kind = kind, !.name = b]>>
              \o Deltas(b, kind, "contentBlockDelta") \o <<Event("contentBlockStop")>>)
      \o <<[Event("messageStop") EXCEPT !.reason = answer.reason],
           [Event("metadata") EXCEPT !.usage = Reported(answer)]>>

CohereEvents(answer) ==
    <<Event("message-start")>>
      \o PerBlock(answer, LAMBDA b, kind :
            CASE kind \in {"text", "thought"} -> <<Event("content-start")>>
                                                   \o Deltas(b, kind, "content-delta")
                                                   \o <<Event("content-end")>>
              [] kind = "plan" -> Deltas(b, kind, "tool-plan-delta")
              [] OTHER -> LET index == Len(SelectSeq(SubSeq(answer.blocks, 1, b - 1),
                                                     LAMBDA k : k = "tool")) IN
                          <<[Event("tool-call-start") EXCEPT
                                !.calls = <<ToolCall(index, b, <<>>)>>]>>
                            \o [k \in 1 .. Fragments |-> [Event("tool-call-delta") EXCEPT
                                  !.calls = <<ToolCall(index, 0, <<<<b, k>>>>)>>]]
                            \o <<Event("tool-call-end")>>)
      \o <<[Event("message-end") EXCEPT !.reason = answer.reason, !.usage = Reported(answer)]>>

(***************************************************************************)
(* Gemini sends one part per event and the finish reason with the last      *)
(* part, or alone when there is none; Ollama one line per fragment, all tool calls in one line, and a    *)
(* last line of its own; DashScope and the compatible protocols one delta   *)
(* per fragment, then the finish reason.                                    *)
(***************************************************************************)
GeminiEvents(answer) ==
    LET parts == PerBlock(answer, LAMBDA b, kind :
                    IF kind = "tool"
                    THEN <<[Event("part") EXCEPT !.kind = kind, !.name = b, !.text = Whole(b)]>>
                    ELSE Deltas(b, kind, "part"))
        events == IF parts = <<>> THEN <<Event("part")>> ELSE parts
    IN  [events EXCEPT ![Len(events)].reason = answer.reason,
                       ![Len(events)].usage = Reported(answer)]

OllamaEvents(answer) ==
    LET tools == Tools(answer) IN
    PerBlock(answer, LAMBDA b, kind :
        CASE kind # "tool" -> Deltas(b, kind, "line")
          [] kind = "tool" /\ b = tools[1] ->
                <<[Event("line") EXCEPT !.kind = kind,
                     !.calls = [i \in DOMAIN tools |->
                                  ToolCall(0, tools[i], Whole(tools[i]))]]>>
          [] OTHER -> <<>>)
      \o <<[Event("done") EXCEPT !.reason = answer.reason, !.usage = Reported(answer)]>>

DeltaEvents(answer) ==
    PerBlock(answer, LAMBDA b, kind :
        IF kind # "tool" THEN Deltas(b, kind, "delta")
        ELSE LET index == Len(SelectSeq(SubSeq(answer.blocks, 1, b - 1),
                                        LAMBDA k : k = "tool")) IN
             [k \in 1 .. Fragments |-> [Event("delta") EXCEPT !.kind = kind,
                 !.calls = <<ToolCall(index, IF k = 1 THEN b ELSE 0, <<<<b, k>>>>)>>]])

DashScopeEvents(answer) ==
    DeltaEvents(answer)
      \o <<[Event("delta") EXCEPT !.reason = answer.reason, !.usage = Reported(answer)]>>

CompatibleEvents(answer) ==
    <<Event("delta")>> \o DeltaEvents(answer)
      \o <<[Event("delta") EXCEPT !.reason = answer.reason]>>
      \o (IF answer.usage THEN <<[Event("delta") EXCEPT !.usage = Reported(answer)]>> ELSE <<>>)
      \o <<Event("[DONE]")>>

NativeEvents(p, answer) ==
    CASE p = "anthropic" -> AnthropicEvents(answer)
      [] p = "bedrock"   -> BedrockEvents(answer)
      [] p = "cohere"    -> CohereEvents(answer)
      [] p = "gemini"    -> GeminiEvents(answer)
      [] p = "ollama"    -> OllamaEvents(answer)
      [] p = "dashscope" -> DashScopeEvents(answer)
      [] OTHER -> CompatibleEvents(answer)

EOF == Event("nativeStreamEOF")

(***************************************************************************)
(* A mapper is called with its state and an event.  It returns chunks,      *)
(* whether the stream is done, whether it failed, and its next state.       *)
(* tools holds the blocks (or names) of the tools met so far: the tool at   *)
(* position i has index i - 1, and nextToolIndex is its length.             *)
(***************************************************************************)
NewMapper == [tools |-> <<>>, usage |-> {}, finish |-> ""]

Emit(chunks, s) == [chunks |-> chunks, done |-> FALSE, failed |-> FALSE, state |-> s]

Finished(chunks, s) == [chunks |-> chunks, done |-> TRUE, failed |-> FALSE, state |-> s]

ErrInvalidStream(s) == [chunks |-> <<>>, done |-> FALSE, failed |-> TRUE, state |-> s]

Known(s, block) == \E i \in DOMAIN s.tools : s.tools[i] = block

ToolIndex(s, block) == (CHOOSE i \in DOMAIN s.tools : s.tools[i] = block) - 1

StartTool(s, e) ==
    Emit(<<Calls(<<ToolCall(Len(s.tools), e.name, <<>>)>>)>>,
         [s EXCEPT !.tools = Append(@, e.block)])

ToolDelta(s, e) ==
    IF Known(s, e.block)
    THEN Emit(<<Calls(<<ToolCall(ToolIndex(s, e.block), 0, e.text)>>)>>, s)
    ELSE ErrInvalidStream(s)

If(condition, chunks) == IF condition THEN chunks ELSE <<>>

normalizeAnthropicFinishReason(reason) ==
    CASE reason = "max_tokens" -> "length"
      [] reason = "tool_use" -> "tool_calls"
      [] reason = "refusal" -> "content_filter"
      [] OTHER -> "stop"

\* Mutant: message_delta reports its own tokens only.
AnthropicMapperForgetsPrompt(s, e) ==
    CASE e.type \in {"[DONE]", "message_stop"} -> Finished(<<>>, s)
      [] e.type \in {"ping", "content_block_stop"} -> Emit(<<>>, s)
      [] e.type = "message_start" -> Emit(<<Role>>, s)
      [] e.type \in {"content_block_start", "content_block_delta"} /\ e.kind = "text" ->
            Emit(<<Content(e.text)>>, s)
      [] e.type = "content_block_start" /\ e.kind = "tool" -> StartTool(s, e)
      [] e.type = "content_block_delta" /\ e.kind = "tool" -> ToolDelta(s, e)
      [] e.type = "message_delta" ->
            Emit(<<Finish(normalizeAnthropicFinishReason(e.reason), e.usage)>>, s)
      [] OTHER -> ErrInvalidStream(s)

newAnthropicStreamMapper(s, e) ==
    CASE e.type \in {"[DONE]", "message_stop"} -> Finished(<<>>, s)
      [] e.type \in {"ping", "content_block_stop"} -> Emit(<<>>, s)
      [] e.type = "message_start" -> Emit(<<Role>>, [s EXCEPT !.usage = e.usage])
      [] e.type = "content_block_start" /\ e.kind = "text" -> Emit(<<Content(e.text)>>, s)
      [] e.type = "content_block_start" /\ e.kind = "tool" -> StartTool(s, e)
      [] e.type = "content_block_delta" /\ e.kind = "text" -> Emit(<<Content(e.text)>>, s)
      [] e.type = "content_block_delta" /\ e.kind = "tool" -> ToolDelta(s, e)
      [] e.type = "message_delta" ->
            LET usage == s.usage \cup e.usage IN
            Emit(<<Finish(normalizeAnthropicFinishReason(e.reason), usage)>>,
                 [s EXCEPT !.usage = usage])
      [] OTHER -> ErrInvalidStream(s)

\* Mutant: a filtered answer is reported as one that stopped by itself.
BedrockReasonMissesFilter(reason) ==
    CASE reason = "max_tokens" -> "length"
      [] reason = "tool_use" -> "tool_calls"
      [] OTHER -> "stop"

normalizeBedrockFinishReason(reason) ==
    CASE reason = "max_tokens" -> "length"
      [] reason = "tool_use" -> "tool_calls"
      [] reason \in {"guardrail_intervened", "content_filtered"} -> "content_filter"
      [] OTHER -> "stop"

newBedrockStreamMapper(s, e) ==
    CASE e.type = "messageStart" -> Emit(<<Role>>, s)
      [] e.type = "contentBlockStart" -> IF e.kind = "tool" THEN StartTool(s, e) ELSE Emit(<<>>, s)
      [] e.type = "contentBlockDelta" /\ e.kind = "text" -> Emit(<<Content(e.text)>>, s)
      [] e.type = "contentBlockDelta" /\ e.kind = "tool" -> ToolDelta(s, e)
      [] e.type = "contentBlockStop" -> Emit(<<>>, s)
      [] e.type = "messageStop" ->
            Emit(<<>>, [s EXCEPT !.finish = normalizeBedrockFinishReason(e.reason)])
      [] e.type \in {"metadata", "nativeStreamEOF"} /\ s.finish # "" ->
            Finished(<<Finish(s.finish, e.usage)>>, s)
      [] OTHER -> ErrInvalidStream(s)

normalizeGeminiFinishReason(reason) ==
    CASE reason = "MAX_TOKENS" -> "length"
      [] reason \in {"SAFETY", "RECITATION", "BLOCKLIST", "PROHIBITED_CONTENT", "SPII"} ->
            "content_filter"
      [] reason = "" -> ""
      [] OTHER -> "stop"

GeminiChunk(s, e) ==
    CASE e.kind = "text" -> Content(e.text)
      [] e.kind = "thought" -> Reasoning(e.text)
      [] OTHER -> Calls(<<ToolCall(Len(s.tools), e.name, e.text)>>)

\* Mutant: the part that arrives with the finish reason is dropped.
GeminiMapperDropsLastPart(s, e) ==
    LET tools  == IF e.kind = "tool" THEN Append(s.tools, e.name) ELSE s.tools
        next   == [s EXCEPT !.tools = tools]
        finish == normalizeGeminiFinishReason(e.reason)
    IN  IF e.type = "[DONE]" THEN Finished(<<>>, s)
        ELSE IF e.type # "part" THEN ErrInvalidStream(s)
        ELSE IF e.reason = "" THEN Emit(<<GeminiChunk(s, e)>>, next)
        ELSE Finished(<<Finish(IF finish = "stop" /\ tools # <<>>
                               THEN "tool_calls" ELSE finish, e.usage)>>, next)

newGeminiStreamMapper(s, e) ==
    LET tools  == IF e.kind = "tool" THEN Append(s.tools, e.name) ELSE s.tools
        next   == [s EXCEPT !.tools = tools]
        parts  == If(e.kind # "", <<GeminiChunk(s, e)>>)
        finish == normalizeGeminiFinishReason(e.reason)
    IN  IF e.type = "[DONE]" THEN Finished(<<>>, s)
        ELSE IF e.type # "part" THEN ErrInvalidStream(s)
        ELSE IF e.reason = "" THEN Emit(parts, next)
        ELSE Finished(Append(parts, Finish(IF finish = "stop" /\ tools # <<>>
                                           THEN "tool_calls" ELSE finish, e.usage)), next)

newCohereStreamMapper(s, e) ==
    CASE e.type = "message-start" -> Emit(<<Role>>, s)
      [] e.type \in {"content-start", "content-end", "tool-call-end", "debug"} -> Emit(<<>>, s)
      [] e.type = "content-delta" /\ e.kind = "thought" -> Emit(<<Reasoning(e.text)>>, s)
      [] e.type = "content-delta" /\ e.kind # "thought" -> Emit(<<Content(e.text)>>, s)
      [] e.type = "tool-plan-delta" -> Emit(<<Reasoning(e.text)>>, s)
      [] e.type \in {"tool-call-start", "tool-call-delta"} -> Emit(<<Calls(e.calls)>>, s)
      [] e.type = "message-end" ->
            Finished(<<Finish(CASE e.reason = "max_tokens" -> "length"
                                [] e.reason = "tool_call" -> "tool_calls"
                                [] OTHER -> "stop", e.usage)>>, s)
      [] OTHER -> ErrInvalidStream(s)

(***************************************************************************)
(* Ollama and DashScope write the content, the reasoning and the calls of   *)
(* one event as chunks of their own, in this order.                         *)
(***************************************************************************)
Separate(e, calls) ==
    If(e.kind = "text", <<Content(e.text)>>) \o If(e.kind = "thought", <<Reasoning(e.text)>>)
      \o If(calls # <<>>, <<Calls(calls)>>)

newOllamaStreamMapper(s, e) ==
    LET calls == [i \in DOMAIN e.calls |->
                    ToolCall(Len(s.tools) + i - 1, e.calls[i].name, e.calls[i].args)]
        next  == [s EXCEPT !.tools = @ \o [i \in DOMAIN calls |-> calls[i].name]]
        body  == Separate(e, calls)
    IN  CASE e.type = "done" ->
                Finished(Append(body, Finish(IF next.tools # <<>> THEN "tool_calls"
                                             ELSE IF e.reason = "" THEN "stop"
                                             ELSE e.reason, e.usage)), next)
          [] e.type = "line" /\ body # <<>> -> Emit(body, next)
          [] OTHER -> ErrInvalidStream(s)

newDashScopeStreamMapper(s, e) ==
    LET body == Separate(e, e.calls) IN
    IF e.type = "[DONE]" THEN Finished(<<>>, s)
    ELSE IF e.type # "delta" THEN ErrInvalidStream(s)
    ELSE IF e.reason \in {"", "null"} THEN Emit(body, s)
    ELSE Finished(Append(body,
            Finish(IF e.reason = "max_tokens" THEN "length"
                   ELSE IF e.calls # <<>> \/ e.reason = "tool_calls" THEN "tool_calls"
                   ELSE "stop", e.usage)), s)

StreamMapper(p, s, e) ==
    CASE p = "anthropic" -> newAnthropicStreamMapper(s, e)
      [] p = "bedrock"   -> newBedrockStreamMapper(s, e)
      [] p = "gemini"    -> newGeminiStreamMapper(s, e)
      [] p = "cohere"    -> newCohereStreamMapper(s, e)
      [] p = "ollama"    -> newOllamaStreamMapper(s, e)
      [] OTHER           -> newDashScopeStreamMapper(s, e)

(***************************************************************************)
(* The compatible protocols need no mapper: validateCompatibleChatChunk     *)
(* lets a chunk through when it is one.                                     *)
(***************************************************************************)
validateCompatibleChatChunk(e) == e.type = "delta"

CompatibleChunk(e) ==
    [content |-> IF e.kind = "text" THEN e.text ELSE <<>>, hasContent |-> e.kind = "text",
     reasoning |-> IF e.kind = "thought" THEN e.text ELSE <<>>,
     calls |-> e.calls, finish |-> e.reason, usage |-> e.usage]

(***************************************************************************)
(* The decoders of a complete answer.  valid is FALSE when the decoder      *)
(* returns ErrInvalidResponse: for an answer without blocks, or with a      *)
(* thinking block the adapter does not know.  The reasoning of Cohere is    *)
(* the thinking content and the tool plan, with a newline between them.     *)
(***************************************************************************)
Concat(answer, kind) ==
    FlattenSeq([b \in DOMAIN answer.blocks |->
                  IF answer.blocks[b] = kind THEN Whole(b) ELSE <<>>])

Has(answer, kind) == \E b \in DOMAIN answer.blocks : answer.blocks[b] = kind

Newline == <<0, 0>>

Joined(thinking, plan) ==
    thinking \o If(thinking # <<>> /\ plan # <<>>, <<Newline>>) \o plan

Completion(answer, valid, finish) ==
    [valid |-> valid, content |-> Concat(answer, "text"),
     reasoning |-> Joined(Concat(answer, "thought"), Concat(answer, "plan")),
     calls |-> [i \in DOMAIN Tools(answer) |->
                  [name |-> Tools(answer)[i], args |-> Whole(Tools(answer)[i])]],
     finish |-> finish, usage |-> Reported(answer)]

decodeAnthropicResponse(answer) ==
    Completion(answer, answer.blocks # <<>> /\ ~ Has(answer, "thought"),
        CASE answer.reason = "max_tokens" -> "length"
          [] answer.reason = "tool_use" -> "tool_calls"
          [] OTHER -> "stop")

decodeBedrockResponse(answer) ==
    Completion(answer, answer.blocks # <<>> /\ ~ Has(answer, "thought"),
        CASE answer.reason \in {"end_turn", "stop_sequence", ""} -> "stop"
          [] answer.reason = "max_tokens" -> "length"
          [] answer.reason \in {"guardrail_intervened", "content_filtered"} -> "content_filter"
          [] answer.reason = "tool_use" -> "tool_calls"
          [] OTHER -> answer.reason)

decodeGeminiResponse(answer) ==
    Completion(answer, answer.blocks # <<>>,
        IF Tools(answer) # <<>> THEN "tool_calls"
        ELSE IF answer.reason = "" THEN "stop"
        ELSE normalizeGeminiFinishReason(answer.reason))

decodeCohereResponse(answer) ==
    Completion(answer, answer.blocks # <<>>,
        CASE answer.reason = "max_tokens" -> "length"
          [] answer.reason \in {"complete", ""} -> "stop"
          [] answer.reason = "tool_call" -> "tool_calls"
          [] OTHER -> answer.reason)

\* decodeOllamaResponse and decodeDashScopeResponse keep the reason unless there are tools.
decodeOllamaResponse(answer) ==
    Completion(answer, TRUE, IF Tools(answer) # <<>> THEN "tool_calls"
                             ELSE IF answer.reason = "" THEN "stop" ELSE answer.reason)

decodeDashScopeResponse(answer) ==
    Completion(answer, TRUE, IF Tools(answer) # <<>> THEN "tool_calls"
                             ELSE IF answer.reason \in {"", "null"} THEN "stop"
                             ELSE answer.reason)

Decode(p, answer) ==
    CASE p = "anthropic" -> decodeAnthropicResponse(answer)
      [] p = "bedrock"   -> decodeBedrockResponse(answer)
      [] p = "gemini"    -> decodeGeminiResponse(answer)
      [] p = "cohere"    -> decodeCohereResponse(answer)
      [] p = "ollama"    -> decodeOllamaResponse(answer)
      [] p = "dashscope" -> decodeDashScopeResponse(answer)
      [] OTHER           -> Completion(answer, TRUE, answer.reason)

=============================================================================
