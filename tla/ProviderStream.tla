--------------------------- MODULE ProviderStream ---------------------------
(***************************************************************************)
(* A streamed chat request, from the adapter's request builder to the       *)
(* client's event stream: internal/provider/stream.go, native_stream.go,    *)
(* the OpenStream method of every adapter and the loop of                   *)
(* internal/httpapi/chat.go stream.                                         *)
(*                                                                          *)
(* Three parties run concurrently.  The provider sends events or breaks the *)
(* connection.  A goroutine (mapSSEStream, mapJSONLinesStream, mapAWSStream)*)
(* reads them, maps them and writes frames into an io.Pipe, which has no    *)
(* buffer: a Write returns when the reader took the frame or closed the     *)
(* pipe.  The handler calls Next, writes each event to the client, and      *)
(* closes the stream, at the end or at any earlier moment.  A compatible    *)
(* protocol has no goroutine: Next reads the response body itself.          *)
(***************************************************************************)
EXTENDS ChatRequest, ProtocolWriter

CONSTANTS
    Requests,       \* the requests clients send, sets of features
    Shapes,         \* the sequences of blocks answers are made of
    MaxHeartbeats   \* bound on the comments and pings of one stream

ASSUME ProviderStreamAssumption ==
    /\ \A r \in Requests : r \subseteq UNION {ClientFeatures(c) : c \in Clients}
    /\ Shapes \subseteq Seq({"text", "thought", "plan", "tool"})
    /\ MaxHeartbeats \in Nat

VARIABLES
    proto,      \* the upstream protocol of the provider
    client,     \* the API the client called
    request,    \* the features of the request, until the adapter built its body
    phase,      \* "new", "parsed", "refused" or "open"
    answer,     \* what the model answers
    read,       \* how many events were read off the response body
    body,       \* the response body: "open", "eof", "reset" or "closed"
    mapper,     \* the goroutine: [pc, state, frames, last]
    pipe,       \* the pipe: [writer |-> open/eof/error, reader |-> open/closed]
    reader,     \* ChatEventStream: "reading", "done", "failed", "closed"
    got,        \* the chunks Next returned
    writer,     \* the client's stream writer
    heartbeats

wire == <<read, body, heartbeats>>
vars == <<proto, client, request, phase, answer, wire, mapper, pipe, reader, got, writer>>

Native == proto \in NativeProtocols

(***************************************************************************)
(* The finish reasons of each provider, and the answers it may give.  Only  *)
(* Cohere sends a tool plan.  Whether a compatible provider's answer with   *)
(* nothing in it is valid depends on how it writes it ("" or null): those   *)
(* answers are left out.  External.                                         *)
(***************************************************************************)
Reasons(p) ==
    CASE p = "anthropic" -> {"end_turn", "max_tokens", "tool_use", "refusal"}
      [] p = "bedrock"   -> {"end_turn", "max_tokens", "tool_use", "guardrail_intervened",
                             "malformed_model_output"}
      [] p = "gemini"    -> {"STOP", "MAX_TOKENS", "SAFETY"}
      [] p = "cohere"    -> {"complete", "max_tokens", "tool_call", "error"}
      [] p = "ollama"    -> {"", "stop", "length"}
      [] p = "dashscope" -> {"stop", "length", "max_tokens", "tool_calls"}
      [] OTHER           -> {"stop", "length", "tool_calls", "content_filter"}

ToolReasons == {"tool_use", "tool_call", "tool_calls"}

Answers(p) ==
    {a \in [blocks : Shapes, reason : Reasons(p), usage : BOOLEAN] :
        /\ a.reason \in ToolReasons => Tools(a) # <<>>
        /\ Has(a, "plan") => p = "cohere"
        /\ a.blocks = <<>> => p \in NativeProtocols}

Idle == [pc |-> "ended", state |-> NewMapper, frames |-> <<>>, last |-> FALSE]

NoAnswer == [blocks |-> <<>>, reason |-> "", usage |-> FALSE]

Init ==
    /\ proto \in SupportedProtocols
    /\ client \in Clients
    /\ request \in {r \in Requests : IsRequest(r) /\ r \subseteq ClientFeatures(client)}
    /\ phase = "new"
    /\ answer = NoAnswer
    /\ read = 0 /\ body = "closed" /\ heartbeats = 0
    /\ mapper = Idle
    /\ pipe = [writer |-> "eof", reader |-> "closed"]
    /\ reader = "closed"
    /\ got = <<>>
    /\ writer = NewWriter

(***************************************************************************)
(* serveProtocol converts the request of a client that does not speak chat, *)
(* and the handler parses the result.  A request that fails either is       *)
(* answered 400.                                                            *)
(***************************************************************************)
serveProtocol ==
    /\ phase = "new"
    /\ LET converted == convert(client, request) IN
       IF converted.ok /\ ParseChatRequest(converted.chat)
       THEN phase' = "parsed" /\ request' = converted.chat
       ELSE phase' = "refused" /\ UNCHANGED request
    /\ UNCHANGED <<proto, client, answer, wire, mapper, pipe, reader, got, writer>>

(***************************************************************************)
(* OpenStream: the adapter builds the body or refuses the request; then the *)
(* provider answers and the reader, with its goroutine, is created.         *)
(***************************************************************************)
Refuse ==
    /\ phase = "parsed"
    /\ RequestBody(proto, request) # "accepted"
    /\ phase' = "refused"
    /\ UNCHANGED <<proto, client, request, answer, wire, mapper, pipe, reader, got, writer>>

OpenStream ==
    /\ phase = "parsed"
    /\ RequestBody(proto, request) = "accepted"
    /\ phase' = "open"
    /\ request' = {}
    /\ answer' \in Answers(proto)
    /\ body' = "open"
    /\ mapper' = IF Native THEN [Idle EXCEPT !.pc = "read"] ELSE Idle
    /\ pipe' = IF Native THEN [writer |-> "open", reader |-> "open"] ELSE pipe
    /\ reader' = "reading"
    /\ UNCHANGED <<proto, client, read, heartbeats, got, writer>>

(***************************************************************************)
(* The goroutine.  After a result it writes the chunks as frames, [DONE]    *)
(* when the result is done, and an activity comment when there is nothing   *)
(* to write; JSON lines have no comments.  An error closes the pipe with it *)
(* and the body.                                                            *)
(***************************************************************************)
Frame(kind, chunk) == [kind |-> kind, chunk |-> chunk]

FramesOf(result) ==
    LET chunks == [i \in DOMAIN result.chunks |-> Frame("chunk", result.chunks[i])] IN
    IF result.done THEN Append(chunks, Frame("done", NoDelta))
    ELSE IF chunks = <<>> /\ proto # "ollama" THEN <<Frame("activity", NoDelta)>>
    ELSE chunks

CloseWithError ==
    /\ mapper' = [mapper EXCEPT !.pc = "ended", !.frames = <<>>]
    /\ pipe' = [pipe EXCEPT !.writer = "error"]
    /\ body' = "closed"

WriteMapped(result) ==
    /\ mapper' = [pc |-> "write", state |-> result.state, frames |-> FramesOf(result),
                  last |-> result.done]
    /\ UNCHANGED <<pipe, body>>

Mapping ==
    /\ phase = "open"
    /\ mapper.pc = "read"
    /\ UNCHANGED <<proto, client, request, phase, answer, reader, got, writer>>

Events == NativeEvents(proto, answer)

MapEvent ==
    /\ Mapping
    /\ body = "open"
    /\ read < Len(Events)
    /\ read' = read + 1
    /\ LET result == StreamMapper(proto, mapper.state, Events[read + 1]) IN
       IF result.failed THEN CloseWithError ELSE WriteMapped(result)
    /\ UNCHANGED heartbeats

\* An event that is no valid event of the protocol, an error event included.
MapInvalid ==
    /\ Mapping
    /\ body = "open"
    /\ StreamMapper(proto, mapper.state, Event("error")).failed
    /\ CloseWithError
    /\ UNCHANGED <<read, heartbeats>>

\* A comment of a server-sent event stream, or a ping: an activity frame.
MapHeartbeat ==
    /\ Mapping
    /\ body = "open"
    /\ proto \notin {"bedrock", "ollama"}
    /\ heartbeats < MaxHeartbeats
    /\ heartbeats' = heartbeats + 1
    /\ mapper' = [mapper EXCEPT !.pc = "write", !.frames = <<Frame("activity", NoDelta)>>]
    /\ UNCHANGED <<read, body, pipe>>

\* finishNativeStream: the mapper may accept the end of the body as the end of the stream.
MapEOF ==
    /\ Mapping
    /\ body = "eof"
    /\ LET result == StreamMapper(proto, mapper.state, EOF) IN
       IF result.failed \/ ~ result.done THEN CloseWithError ELSE WriteMapped(result)
    /\ UNCHANGED <<read, heartbeats>>

\* A read of a body that was reset, or that Close closed, fails.
MapReset ==
    /\ Mapping
    /\ body \in {"reset", "closed"}
    /\ CloseWithError
    /\ UNCHANGED <<read, heartbeats>>

\* A Write into a pipe whose reader is closed fails.
WriteFails ==
    /\ mapper.pc = "write"
    /\ pipe.reader = "closed"
    /\ CloseWithError
    /\ UNCHANGED <<proto, client, request, phase, answer, read, heartbeats, reader, got, writer>>

(***************************************************************************)
(* The provider: it ends the body at any moment, or the connection breaks,  *)
(* or the request's context is cancelled.                                   *)
(***************************************************************************)
Break(how) ==
    /\ phase = "open"
    /\ body = "open"
    /\ body' = how
    /\ UNCHANGED <<proto, client, request, phase, answer, read, heartbeats, mapper, pipe,
                   reader, got, writer>>

UpstreamEOF == Break("eof")

UpstreamReset == Break("reset")

(***************************************************************************)
(* Next: the reader takes one frame off the pipe, or the next event off the *)
(* body, and the handler writes it to the client.                           *)
(***************************************************************************)
Deliver(chunk) ==
    /\ got' = Append(got, chunk)
    /\ writer' = writeProtocolStream(client, writer, chunk)
    /\ UNCHANGED reader

DeliverDone ==
    /\ reader' = "done"
    /\ writer' = writeProtocolDone(client, writer)
    /\ UNCHANGED got

Skip == UNCHANGED <<reader, got, writer>>

ReadFails == reader' = "failed" /\ UNCHANGED <<got, writer>>

Take(frame) ==
    CASE frame.kind = "chunk" -> Deliver(frame.chunk)
      [] frame.kind = "done" -> DeliverDone
      [] OTHER -> Skip

\* After its last frame the goroutine closes the pipe and the body, or reads on.
AfterWrite ==
    LET rest == Tail(mapper.frames) IN
    CASE rest # <<>> ->
            mapper' = [mapper EXCEPT !.frames = rest] /\ UNCHANGED <<pipe, body>>
      [] rest = <<>> /\ ~ mapper.last ->
            mapper' = [mapper EXCEPT !.pc = "read", !.frames = rest] /\ UNCHANGED <<pipe, body>>
      [] OTHER ->
            /\ mapper' = [mapper EXCEPT !.pc = "ended", !.frames = rest]
            /\ pipe' = [pipe EXCEPT !.writer = "eof"]
            /\ body' = "closed"

NextFrame ==
    /\ reader = "reading"
    /\ mapper.pc = "write"
    /\ pipe.reader = "open"
    /\ mapper.frames # <<>>
    /\ Take(Head(mapper.frames))
    /\ AfterWrite
    /\ UNCHANGED <<proto, client, request, phase, answer, read, heartbeats>>

\* The pipe was closed with an error, or with an end of file before [DONE].
NextPipeClosed ==
    /\ reader = "reading"
    /\ Native
    /\ pipe.writer # "open"
    /\ ReadFails
    /\ UNCHANGED <<proto, client, request, phase, answer, wire, mapper, pipe>>

NextCompatible ==
    /\ phase = "open" /\ ~ Native
    /\ reader = "reading"
    /\ body = "open"
    /\ read < Len(Events)
    /\ read' = read + 1
    /\ LET e == Events[read + 1] IN
       IF e.type = "[DONE]" THEN DeliverDone
       ELSE IF validateCompatibleChatChunk(e) THEN Deliver(CompatibleChunk(e))
       ELSE ReadFails
    /\ UNCHANGED <<proto, client, request, phase, answer, body, heartbeats, mapper, pipe>>

\* The body broke, or brought an event that is no chunk.
NextCompatibleFails ==
    /\ phase = "open" /\ ~ Native
    /\ reader = "reading"
    /\ ReadFails
    /\ UNCHANGED <<proto, client, request, phase, answer, wire, mapper, pipe>>

(***************************************************************************)
(* Close: the handler is done with the stream, or gives it up because the   *)
(* client went away, a write to it failed or a deadline passed.  It closes  *)
(* the body and, for a native protocol, the reading end of the pipe.        *)
(***************************************************************************)
\* Mutant of CloseStream: only the body is closed.
CloseBodyOnly ==
    /\ phase = "open"
    /\ reader # "closed"
    /\ reader' = "closed"
    /\ body' = "closed"
    /\ UNCHANGED <<proto, client, request, phase, answer, read, heartbeats, mapper, pipe, got,
                   writer>>

CloseStream ==
    /\ phase = "open"
    /\ reader # "closed"
    /\ reader' = "closed"
    /\ body' = "closed"
    /\ pipe' = [pipe EXCEPT !.reader = "closed"]
    /\ UNCHANGED <<proto, client, request, phase, answer, read, heartbeats, mapper, got, writer>>

Next ==
    \/ serveProtocol \/ Refuse \/ OpenStream
    \/ MapEvent \/ MapInvalid \/ MapHeartbeat \/ MapEOF \/ MapReset \/ WriteFails
    \/ UpstreamEOF \/ UpstreamReset
    \/ NextFrame \/ NextPipeClosed \/ NextCompatible \/ NextCompatibleFails
    \/ CloseStream

(***************************************************************************)
(* Fairness: the goroutine goes on when a read or a write of it returns     *)
(* with an error, and the handler closes a stream that ended, by a deferred *)
(* call.  Nothing is asked of the provider or of the client.                *)
(***************************************************************************)
Fairness ==
    /\ WF_vars(MapReset)
    /\ WF_vars(WriteFails)
    /\ WF_vars(reader # "reading" /\ CloseStream)

Spec == Init /\ [][Next]_vars /\ Fairness

-----------------------------------------------------------------------------

(***************************************************************************)
(* What a consumer of the chunks puts together.                             *)
(***************************************************************************)
AssembledCalls(chunks) ==
    LET deltas == FlattenSeq([i \in DOMAIN chunks |-> chunks[i].calls])
        Of(index) == SelectSeq(deltas, LAMBDA d : d.index = index)
        count == Cardinality({deltas[i].index : i \in DOMAIN deltas})
    IN  [i \in 1 .. count |->
            [name |-> FoldLeft(LAMBDA n, d : IF d.name # 0 THEN d.name ELSE n, 0, Of(i - 1)),
             args |-> FlattenSeq([k \in DOMAIN Of(i - 1) |-> Of(i - 1)[k].args])]]

Assembled(chunks) ==
    [content |-> FlattenSeq([i \in DOMAIN chunks |-> chunks[i].content]),
     reasoning |-> FlattenSeq([i \in DOMAIN chunks |-> chunks[i].reasoning]),
     calls |-> AssembledCalls(chunks),
     finish |-> FoldLeft(LAMBDA f, c : IF c.finish # "" THEN c.finish ELSE f, "", chunks),
     usage |-> UNION {chunks[i].usage : i \in DOMAIN chunks}]

(***************************************************************************)
(* The type invariant of the stream.                                        *)
(***************************************************************************)
TypeOK ==
    /\ proto \in SupportedProtocols /\ client \in Clients /\ request \subseteq ClientFeatures(client)
    /\ phase \in {"new", "parsed", "refused", "open"}
    /\ read \in Nat /\ heartbeats \in 0 .. MaxHeartbeats
    /\ body \in {"open", "eof", "reset", "closed"}
    /\ mapper.pc \in {"read", "write", "ended"}
    /\ mapper.pc = "write" <=> mapper.frames # <<>>
    /\ pipe \in [writer : {"open", "eof", "error"}, reader : {"open", "closed"}]
    /\ reader \in {"reading", "done", "failed", "closed"}

(***************************************************************************)
(* capability.go says that it describes what the adapters carry without     *)
(* loss, and the router relies on it.  A request of any of the three APIs   *)
(* whose capabilities the protocol has is refused by its adapter exactly    *)
(* when it holds one of the combinations the table cannot express.          *)
(***************************************************************************)
RoutedIsAccepted ==
    phase = "parsed" /\ RequiredCapabilities(request) \subseteq ProtocolCapabilities(proto) =>
        (RequestBody(proto, request) # "accepted"
            <=> \E c \in BeyondCapabilities(proto) : c \subseteq request)

(***************************************************************************)
(* The two ways an adapter converts an answer agree: whatever the order and *)
(* the sizes in which the pieces came, heartbeats between them, a client    *)
(* that got [DONE] got the content, the reasoning and the tool calls (name  *)
(* and arguments, by index) that the decoder of the complete answer         *)
(* returns.  They differ in two places.  An answer with nothing in it is    *)
(* ErrInvalidResponse to four decoders and a good stream to their mappers;  *)
(* and the decoder of Cohere alone puts a newline between the thinking and  *)
(* the tool plan.                                                           *)
(***************************************************************************)
Complete == Decode(proto, answer)

EmptyStreams ==
    answer.blocks = <<>> /\ proto \in {"anthropic", "bedrock", "gemini", "cohere"}

PlanAfterThinking == proto = "cohere" /\ Has(answer, "thought") /\ Has(answer, "plan")

StreamIsWhole ==
    writer.completed /\ reader \in {"done", "closed"} /\ got # <<>> =>
        LET seen == Assembled(got) IN
        /\ Complete.valid <=> ~ EmptyStreams
        /\ seen.content = Complete.content
        /\ seen.reasoning = SelectSeq(Complete.reasoning, LAMBDA f : f # Newline)
        /\ seen.reasoning = Complete.reasoning <=> ~ PlanAfterThinking
        /\ seen.calls = Complete.calls

(***************************************************************************)
(* The token usage of a stream is that of the complete answer.  Bedrock     *)
(* alone accepts a body that ends before its metadata event, and then       *)
(* reports no usage.                                                        *)
(***************************************************************************)
CutBeforeMetadata == proto = "bedrock" /\ read = Len(Events) - 1

UsageReported ==
    reader = "done" /\ Complete.valid =>
        Assembled(got).usage = IF CutBeforeMetadata THEN {} ELSE Complete.usage

(***************************************************************************)
(* The finish reason of a stream is that of the complete answer, except for *)
(* the reasons the code normalises in one of the two and not in the other.  *)
(***************************************************************************)
NormalisedApart ==
    \/ proto = "anthropic" /\ answer.reason = "refusal"
    \/ proto = "bedrock" /\ answer.reason = "malformed_model_output"
    \/ proto = "gemini" /\ answer.reason # "STOP" /\ Tools(answer) # <<>>
    \/ proto = "cohere" /\ answer.reason = "error"
    \/ proto = "dashscope" /\ answer.reason \in {"stop", "length", "max_tokens"}
         /\ (Tools(answer) # <<>> \/ answer.reason # "stop")

FinishAgrees ==
    reader = "done" /\ Complete.valid =>
        (Assembled(got).finish = Complete.finish <=> ~ NormalisedApart)

(***************************************************************************)
(* Every item a Responses or Anthropic client saw opened is closed once by  *)
(* the time the last event is written, and the items have different         *)
(* indexes.  The one exception is openText's: in a Responses stream whose   *)
(* text begins after a tool call, both are output 0.                        *)
(***************************************************************************)
Opened == SelectSeq(writer.out, LAMBDA e : e.type \in {"output_item.added", "content_block_start"})

Closed == SelectSeq(writer.out, LAMBDA e : e.type \in {"output_item.done", "content_block_stop"})

Items(events) == {events[i].item : i \in DOMAIN events}

TextAfterTool ==
    \E i, j \in DOMAIN answer.blocks : i < j /\ answer.blocks[i] = "tool" /\ answer.blocks[j] = "text"

ItemsClosed ==
    client # "chat" /\ writer.completed =>
        /\ Len(Closed) = Len(Opened)
        /\ Items(Closed) = Items(Opened)
        /\ Cardinality(Items(Opened)) < Len(Opened) <=> client = "responses" /\ TextAfterTool

(***************************************************************************)
(* A client that saw the last event of its protocol saw what it would have  *)
(* been answered without streaming: the text, the arguments of the tools    *)
(* and, unless the adapters themselves disagree on it, the status or stop   *)
(* reason; and, when the provider reported usage, the output tokens.  The   *)
(* compatible protocols report usage after the finish reason, when both     *)
(* writers have already completed: their clients see none.                  *)
(***************************************************************************)
Ending(e) == IF client = "responses" THEN e.type ELSE e.reason

EndMeansWhole ==
    client # "chat" /\ writer.completed /\ Complete.valid =>
        LET deltas(types) == FlattenSeq([i \in DOMAIN writer.out |->
                                IF writer.out[i].type \in types THEN writer.out[i].text ELSE <<>>])
            last == {writer.out[i] : i \in DOMAIN writer.out}
            whole == encodeProtocolResponse(client, Complete)
        IN  /\ deltas({"output_text.delta", "text_delta"}) = whole.text
            /\ deltas({"function_call_arguments.delta", "input_json_delta"}) = whole.args
            /\ \A e \in last : e.type \in {"response.completed", "response.incomplete",
                                           "message_delta"} =>
                 /\ ~ NormalisedApart => Ending(e) = whole.ending
                 /\ "completion" \in e.usage
                      <=> "completion" \in whole.usage /\ Native /\ ~ CutBeforeMetadata

(***************************************************************************)
(* A stream the handler is done with, however it ended, is released: the    *)
(* goroutine ends, though it may have been in the middle of a write that no *)
(* one will read, and the provider's connection is closed.                  *)
(***************************************************************************)
StreamReleased ==
    (phase = "open" /\ reader # "reading") ~> (mapper.pc = "ended" /\ body = "closed")

=============================================================================
