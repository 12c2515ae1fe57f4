--------------------------- MODULE ProtocolWriter ---------------------------
(***************************************************************************)
(* The stream writers of internal/httpapi: what a client of the chat,       *)
(* Responses or Anthropic API is sent for the chunks of an OpenAI stream.   *)
(*                                                                          *)
(* A writer is a record of what the code keeps between chunks, and out, the *)
(* events written so far.  A tool is [index, name, args, item]: item is the *)
(* output_index (Responses) or the block index (Anthropic) it was given.    *)
(***************************************************************************)
EXTENDS StreamMapper

Clients == {"chat", "responses", "anthropic"}

NewWriter == [started |-> FALSE, textOpened |-> FALSE, textItem |-> 0, text |-> <<>>,
              tools |-> <<>>, next |-> 0, usage |-> {}, finish |-> "",
              completed |-> FALSE, out |-> <<>>]

Sent(type, item, text, usage) ==
    [type |-> type, item |-> item, text |-> text, usage |-> usage, reason |-> ""]

Write(w, type, item, text) == [w EXCEPT !.out = Append(@, Sent(type, item, text, {}))]

HasTool(w, index) == \E i \in DOMAIN w.tools : w.tools[i].index = index

ToolAt(w, index) == CHOOSE i \in DOMAIN w.tools : w.tools[i].index = index

(***************************************************************************)
(* writeToolDelta (Responses) and toolDelta (Anthropic): the first delta of *)
(* an index opens an item, and only a delta with arguments is written.      *)
(***************************************************************************)
OpenTool(w, call, opened) ==
    IF HasTool(w, call.index) THEN w
    ELSE Write([w EXCEPT !.tools = Append(@, [index |-> call.index, name |-> call.name,
                                              args |-> <<>>, item |-> w.next]),
                         !.next = @ + 1],
               opened, w.next, <<>>)

\* Mutant: the delta that opens an item is not looked at for arguments.
ToolDeltaOpensOnly(w, call, opened, delta) ==
    LET i == ToolAt(w, call.index) IN
    IF ~ HasTool(w, call.index) THEN OpenTool(w, call, opened)
    ELSE IF call.args = <<>> THEN w
    ELSE Write([w EXCEPT !.tools[i].args = @ \o call.args], delta, w.tools[i].item, call.args)

ToolDeltaEvent(w, call, opened, delta) ==
    LET o == OpenTool(w, call, opened)
        i == ToolAt(o, call.index)
        n == [o EXCEPT !.tools[i].name = IF call.name # 0 THEN call.name ELSE @,
                       !.tools[i].args = @ \o call.args]
    IN  IF call.args = <<>> THEN n ELSE Write(n, delta, n.tools[i].item, call.args)

writeToolDelta(w, call) ==
    ToolDeltaEvent(w, call, "output_item.added", "function_call_arguments.delta")

toolDelta(w, call) == ToolDeltaEvent(w, call, "content_block_start", "input_json_delta")

(***************************************************************************)
(* openText (Responses): the message item is always output 0, and the next  *)
(* item is output 1.  openTextBlock (Anthropic) takes the next block.       *)
(***************************************************************************)
openText(w) ==
    IF w.textOpened THEN w
    ELSE Write([w EXCEPT !.textOpened = TRUE, !.next = 1], "output_item.added", 0, <<>>)

\* Mutant: the text block does not use up its index.
OpenTextBlockKeepsIndex(w) ==
    IF w.textOpened THEN w
    ELSE Write([w EXCEPT !.textOpened = TRUE, !.textItem = w.next],
               "content_block_start", w.next, <<>>)

openTextBlock(w) ==
    IF w.textOpened THEN w
    ELSE Write([w EXCEPT !.textOpened = TRUE, !.textItem = w.next, !.next = @ + 1],
               "content_block_start", w.next, <<>>)

(***************************************************************************)
(* complete: every open item is closed, then the last event is written.     *)
(* Responses walks the indexes 0 .. len(tools) - 1, Anthropic sorts them.   *)
(***************************************************************************)
ToolsUpTo(w) ==
    LET indexes == SelectSeq([i \in 1 .. Len(w.tools) |-> i - 1], LAMBDA i : HasTool(w, i)) IN
    [k \in DOMAIN indexes |-> w.tools[ToolAt(w, indexes[k])]]

ToolsSorted(w) == SortSeq(w.tools, LAMBDA a, b : a.index < b.index)

responsesComplete(w) ==
    IF w.completed THEN w
    ELSE [w EXCEPT !.completed = TRUE, !.out =
            @ \o If(w.textOpened, <<Sent("output_item.done", 0, w.text, {})>>)
              \o [k \in DOMAIN ToolsUpTo(w) |->
                    Sent("output_item.done", ToolsUpTo(w)[k].item, ToolsUpTo(w)[k].args, {})]
              \o <<Sent(IF w.finish = "length" THEN "response.incomplete"
                        ELSE "response.completed", 0, <<>>, w.usage)>>]

anthropicStopReason(reason) ==
    CASE reason = "length" -> "max_tokens"
      [] reason \in {"tool_calls", "function_call"} -> "tool_use"
      [] reason = "stop" -> "end_turn"
      [] reason = "content_filter" -> "refusal"
      [] OTHER -> reason

anthropicComplete(w) ==
    IF w.completed THEN w
    ELSE [w EXCEPT !.completed = TRUE, !.out =
            @ \o If(w.textOpened, <<Sent("content_block_stop", w.textItem, <<>>, {})>>)
              \o [k \in DOMAIN ToolsSorted(w) |->
                    Sent("content_block_stop", ToolsSorted(w)[k].item, <<>>, {})]
              \o <<[Sent("message_delta", 0, <<>>, w.usage \ {"prompt"})
                       EXCEPT !.reason = anthropicStopReason(w.finish)],
                   Sent("message_stop", 0, <<>>, {})>>]

(***************************************************************************)
(* write: one chunk, or the end of the stream.                              *)
(***************************************************************************)
ApplyCalls(w, calls, Delta(_, _)) == FoldLeft(Delta, w, calls)

responsesChunk(w, c) ==
    LET begun == IF w.started THEN w
                 ELSE Write([w EXCEPT !.started = TRUE], "response.created", 0, <<>>)
        used  == [begun EXCEPT !.usage = IF c.usage # {} THEN c.usage ELSE @]
        said  == IF ~ c.hasContent THEN used
                 ELSE LET o == openText(used) IN
                      Write([o EXCEPT !.text = @ \o c.content], "output_text.delta", 0, c.content)
        tools == ApplyCalls(said, c.calls, writeToolDelta)
        ended == [tools EXCEPT !.finish = IF c.finish # "" THEN c.finish ELSE @]
    IN  IF ended.finish # "" THEN responsesComplete(ended) ELSE ended

anthropicChunk(w, c) ==
    LET begun == IF w.started THEN w
                 ELSE [w EXCEPT !.started = TRUE,
                                !.out = Append(@, Sent("message_start", 0, <<>>,
                                                       c.usage \cap {"prompt"}))]
        used  == [begun EXCEPT !.usage = IF c.usage # {} THEN c.usage ELSE @]
        said  == IF ~ c.hasContent THEN used
                 ELSE LET o == openTextBlock(used) IN Write(o, "text_delta", o.textItem, c.content)
        tools == ApplyCalls(said, c.calls, toolDelta)
        ended == [tools EXCEPT !.finish = IF c.finish # "" THEN c.finish ELSE @]
    IN  IF ended.finish # "" THEN anthropicComplete(ended) ELSE ended

writeProtocolStream(client, w, c) ==
    CASE client = "responses" -> responsesChunk(w, c)
      [] client = "anthropic" -> anthropicChunk(w, c)
      [] OTHER -> [w EXCEPT !.out = Append(@, Sent("data", 0, <<>>, c.usage))]

(***************************************************************************)
(* EncodeResponse of the two protocols: the answer to a request that is not *)
(* streamed.  ending is the status (Responses) or stop_reason (Anthropic).  *)
(***************************************************************************)
encodeResponsesResponse(c) ==
    [text |-> c.content, args |-> FlattenSeq([i \in DOMAIN c.calls |-> c.calls[i].args]),
     usage |-> c.usage,
     ending |-> IF c.finish = "length" THEN "response.incomplete" ELSE "response.completed"]

encodeAnthropicResponse(c) ==
    [text |-> c.content, args |-> FlattenSeq([i \in DOMAIN c.calls |-> c.calls[i].args]),
     usage |-> c.usage, ending |-> anthropicStopReason(c.finish)]

encodeProtocolResponse(client, c) ==
    IF client = "responses" THEN encodeResponsesResponse(c) ELSE encodeAnthropicResponse(c)

writeProtocolDone(client, w) ==
    CASE client = "responses" -> responsesComplete(w)
      [] client = "anthropic" -> anthropicComplete(w)
      [] OTHER -> [Write(w, "[DONE]", 0, <<>>) EXCEPT !.completed = TRUE]

=============================================================================
