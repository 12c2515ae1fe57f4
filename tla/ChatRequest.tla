---------------------------- MODULE ChatRequest ----------------------------
(***************************************************************************)
(* What a provider adapter does with a chat request before it calls the     *)
(* provider: internal/provider/chat_request.go, chat_tools.go,              *)
(* chat_content.go, capability.go and the request builders of the adapters. *)
(*                                                                          *)
(* A request is the set of its features: the optional fields and content    *)
(* parts it carries, each named for what the code tells apart about it.     *)
(* Every definition is a pure operator.  A builder's verdict is "accepted", *)
(* "unsupported" (ErrUnsupportedCapability) or "invalid"                    *)
(* (ErrInvalidRequest), and the first check that fails decides it.          *)
(***************************************************************************)
EXTENDS Naturals, Sequences, FiniteSets

(***************************************************************************)
(* Features.  A field with several interesting values is several features.  *)
(***************************************************************************)
ToolChoices == {"choice_none", "choice_auto", "choice_required", "choice_function"}

ResponseFormats == {"json_object", "json_schema"}

Images == {"image", "remote_image", "image_detail", "odd_image"}

Files == {"file", "odd_file", "file_id"}

Seeds == {"seed", "negative_seed"}

Penalties == {"penalty", "negative_penalty"}

Efforts == {"effort", "odd_effort"}

Features == ToolChoices \cup ResponseFormats \cup Images \cup Files \cup Seeds
              \cup Penalties \cup Efforts
              \cup {"tools", "strict", "serial_tools", "tool_history", "tool_name",
                    "many", "logprobs", "developer", "late_instruction", "user_name",
                    "audio", "extra_field", "extra_part_field"}

Uses(r, fs) == r \cap fs # {}

AtMostOne(r, fs) == Cardinality(r \cap fs) =< 1

(***************************************************************************)
(* The sets that are requests: a field has one value, and strict and        *)
(* tool_name are fields of a tool and of a tool message.                    *)
(***************************************************************************)
IsRequest(r) ==
    /\ \A fs \in {ToolChoices, ResponseFormats, Seeds, Penalties, Efforts} : AtMostOne(r, fs)
    /\ "strict" \in r => "tools" \in r
    /\ "tool_name" \in r => "tool_history" \in r

(***************************************************************************)
(* The requests of the Responses and Anthropic APIs are converted to chat   *)
(* requests first.  What a client of each API can express beside the chat   *)
(* features: a hosted tool (executed by the provider) and the choice of one, *)
(* a stored response, a reasoning summary, items, blocks, formats, image    *)
(* sources and tool results of kinds the gateway does not know.             *)
(* extra_field stands for every top-level field that is not listed, the     *)
(* sampling fields the API does not have included.                          *)
(***************************************************************************)
ClientFeatures(client) ==
    CASE client = "responses" ->
            ToolChoices \cup ResponseFormats \cup Images \cup Files \cup Efforts
              \cup {"tools", "strict", "serial_tools", "tool_history", "developer",
                    "late_instruction", "user_name", "audio", "extra_field",
                    "extra_part_field", "hosted_tool", "hosted_choice", "store", "summary",
                    "foreign_item", "foreign_instructions", "foreign_format"}
      [] client = "anthropic" ->
            ToolChoices \cup Files
              \cup {"image", "remote_image", "odd_image", "tools", "strict", "serial_tools",
                    "tool_history", "developer", "extra_field", "extra_part_field",
                    "hosted_tool", "foreign_instructions", "image_file", "rich_result"}
      [] OTHER -> Features \cup {"hosted_tool"}

(***************************************************************************)
(* convertResponsesRequest: each helper accepts or refuses its part of the  *)
(* request.  The unknown fields of a content part are left out of the chat  *)
(* request without a word.                                                  *)
(***************************************************************************)
responsesContentPart(r) == "audio" \notin r

responsesMessage(r) == "user_name" \notin r /\ responsesContentPart(r)

responsesInputMessages(r) == "foreign_item" \notin r /\ responsesMessage(r)

responsesInstructions(r) == "foreign_instructions" \notin r

responsesTools(r) == "hosted_tool" \notin r

responsesToolChoice(r) == "hosted_choice" \notin r

responsesTextFormat(r) == "foreign_format" \notin r

responsesReasoningEffort(r) == "summary" \notin r

convertResponsesRequest(r) ==
    [ok |-> /\ ~ Uses(r, {"extra_field", "store"})
            /\ responsesInputMessages(r) /\ responsesInstructions(r)
            /\ responsesTools(r) /\ responsesToolChoice(r)
            /\ responsesTextFormat(r) /\ responsesReasoningEffort(r),
     chat |-> r \ {"extra_part_field"}]

(***************************************************************************)
(* convertAnthropicRequest: the same; the unknown fields of a tool are left *)
(* out too.  A document has its content in the request.                     *)
(***************************************************************************)
anthropicImagePart(r) == "image_file" \notin r

anthropicDocumentPart(r) == "file_id" \notin r

anthropicToolResult(r) == "rich_result" \notin r

anthropicMessage(r) == anthropicImagePart(r) /\ anthropicDocumentPart(r) /\ anthropicToolResult(r)

anthropicSystem(r) == "foreign_instructions" \notin r

anthropicTools(r) == "hosted_tool" \notin r

anthropicToolChoice(r) == "serial_tools" \notin r

convertAnthropicRequest(r) ==
    [ok |-> /\ "extra_field" \notin r
            /\ anthropicSystem(r) /\ anthropicMessage(r)
            /\ anthropicTools(r) /\ anthropicToolChoice(r),
     chat |-> r \ {"extra_part_field", "strict"}]

convert(client, r) ==
    CASE client = "responses" -> convertResponsesRequest(r)
      [] client = "anthropic" -> convertAnthropicRequest(r)
      [] OTHER -> [ok |-> TRUE, chat |-> r]

(***************************************************************************)
(* validateToolRequest: tools are functions, and a tool_choice other than   *)
(* none needs tools.  A request whose names, parameters or call ids are     *)
(* malformed is refused whatever its features, and is not enumerated.       *)
(***************************************************************************)
validateToolRequest(r) ==
    /\ "hosted_tool" \notin r
    /\ Uses(r, ToolChoices \ {"choice_none"}) => "tools" \in r

ParseChatRequest(r) == validateToolRequest(r)

(***************************************************************************)
(* RequiredCapabilities: what the router asks of a candidate.               *)
(***************************************************************************)
RequiredCapabilities(r) ==
    {"text"}
      \cup (IF Uses(r, ToolChoices \cup {"tools", "tool_history"}) THEN {"tools"} ELSE {})
      \cup (IF Uses(r, ResponseFormats) THEN {"structured"} ELSE {})
      \cup (IF Uses(r, Images) THEN {"image"} ELSE {})
      \cup (IF "audio" \in r THEN {"audio"} ELSE {})
      \cup (IF Uses(r, Files) THEN {"file"} ELSE {})

(***************************************************************************)
(* The protocols and what each can carry.                                   *)
(***************************************************************************)
SupportedProtocols ==
    {"openai-compatible", "openai", "anthropic", "gemini", "azure-openai", "dashscope",
     "cohere", "ollama", "mistral", "deepseek", "xai", "zhipu", "groq", "nvidia",
     "together", "bedrock", "cloudflare"}

\* Mutant of ProtocolCapabilities: the table promises audio for Bedrock.
ProtocolCapabilitiesBedrockAudio(p) ==
    {"text", "structured", "tools"}
      \cup (IF p \in SupportedProtocols \ {"dashscope", "deepseek"} THEN {"image"} ELSE {})
      \cup (IF p = "bedrock" THEN {"audio", "file"} ELSE {})

ProtocolCapabilities(p) ==
    {"text", "structured", "tools"}
      \cup (IF p \in SupportedProtocols \ {"dashscope", "deepseek"} THEN {"image"} ELSE {})
      \cup (IF p \in {"openai-compatible", "openai", "azure-openai", "gemini", "cloudflare"}
            THEN {"audio"} ELSE {})
      \cup (IF p \in {"openai-compatible", "openai", "azure-openai", "anthropic", "gemini",
                      "bedrock", "cloudflare"} THEN {"file"} ELSE {})
      \cup (IF p \in {"openai-compatible", "openai", "azure-openai", "mistral", "xai", "zhipu",
                      "groq", "nvidia", "together", "ollama", "gemini"}
            THEN {"embedding"} ELSE {})

(***************************************************************************)
(* The verdict of a list of checks: that of the first that fails.           *)
(***************************************************************************)
Unsupported(failed) == [failed |-> failed, verdict |-> "unsupported"]

Invalid(failed) == [failed |-> failed, verdict |-> "invalid"]

Verdict(checks) ==
    LET failing == {i \in DOMAIN checks : checks[i].failed} IN
    IF failing = {} THEN "accepted"
    ELSE checks[CHOOSE i \in failing : \A j \in failing : i =< j].verdict

(***************************************************************************)
(* nativeRequestSupport.validate and decodeNativeChatRequest: the fields an *)
(* adapter did not list are refused, and so are unknown ones, anywhere.     *)
(* All six native adapters list tools, structured, developer and toolName.  *)
(***************************************************************************)
validate(r, support) ==
    Uses(r, UNION {IF "seed" \in support THEN {} ELSE Seeds,
                   IF "penalties" \in support THEN {} ELSE Penalties,
                   IF "reasoning" \in support THEN {} ELSE Efforts,
                   {"many", "logprobs"}})

decodeNativeChatRequest(r, support) ==
    <<Unsupported("extra_field" \in r),
      Unsupported(validate(r, support)),
      Unsupported("user_name" \in r /\ "messageName" \notin support)>>

(***************************************************************************)
(* requireLeadingInstructions, and the content checks: decodeNativeContent  *)
(* refuses an unknown field of a part, base64Image a remote image,          *)
(* rejectNativeImageDetail a detail, textContent everything but text.       *)
(***************************************************************************)
requireLeadingInstructions(r) == <<Unsupported("late_instruction" \in r)>>

decodeNativeContent(r) == <<Unsupported("extra_part_field" \in r)>>

base64Image(r) == <<Unsupported(Uses(r, {"image_detail", "remote_image"}))>>

textContent(r) == <<Unsupported(Uses(r, Images \cup Files \cup {"audio"}))>>

SerialTools(r) == {"tools", "serial_tools"} \subseteq r

(***************************************************************************)
(* The request builders, one per adapter.                                   *)
(***************************************************************************)
anthropicContents(r) ==
    <<Unsupported(Uses(r, {"image_detail", "odd_image", "odd_file", "audio"}))>>

anthropicRequestBody(r) ==
    Verdict(decodeNativeChatRequest(r, {}) \o requireLeadingInstructions(r)
              \o decodeNativeContent(r) \o anthropicContents(r))

geminiParts(r) == base64Image(r) \o <<Unsupported("file_id" \in r)>>

geminiRequestBody(r) ==
    Verdict(decodeNativeChatRequest(r, {"seed"}) \o requireLeadingInstructions(r)
              \o <<Unsupported(SerialTools(r))>>
              \o decodeNativeContent(r) \o geminiParts(r))

bedrockContents(r) ==
    base64Image(r) \o <<Unsupported(Uses(r, {"odd_image", "odd_file", "file_id", "audio"}))>>

applyBedrockTools(r) ==
    <<Unsupported(SerialTools(r)), Unsupported("choice_none" \in r)>>

bedrockRequestBody(r) ==
    Verdict(decodeNativeChatRequest(r, {}) \o requireLeadingInstructions(r)
              \o applyBedrockTools(r) \o decodeNativeContent(r) \o bedrockContents(r))

applyCohereFeatures(r) ==
    <<Unsupported(SerialTools(r)),
      Unsupported("choice_function" \in r),
      Unsupported(Uses(r, ResponseFormats) /\ "tools" \in r)>>

cohereRequestBody(r) ==
    Verdict(decodeNativeChatRequest(r, {"seed", "penalties"})
              \o <<Invalid("negative_seed" \in r), Invalid("negative_penalty" \in r)>>
              \o applyCohereFeatures(r) \o decodeNativeContent(r)
              \o <<Unsupported(Uses(r, Files \cup {"audio"}))>>)

applyOllamaFeatures(r) ==
    <<Unsupported(Uses(r, ToolChoices)),
      Unsupported(SerialTools(r)),
      Unsupported("odd_effort" \in r)>>

ollamaChatMessage(r) ==
    decodeNativeContent(r) \o <<Unsupported(Uses(r, Files \cup {"audio"}))>> \o base64Image(r)

ollamaRequestBody(r) ==
    Verdict(decodeNativeChatRequest(r, {"seed", "penalties", "reasoning"})
              \o applyOllamaFeatures(r) \o ollamaChatMessage(r))

dashScopeRequestBody(r) ==
    Verdict(decodeNativeChatRequest(r, {"seed", "messageName"})
              \o <<Unsupported("json_schema" \in r),
                   Unsupported("choice_required" \in r),
                   Invalid("negative_seed" \in r)>>
              \o decodeNativeContent(r) \o textContent(r))

(***************************************************************************)
(* compatible.go validateInput: the compatible adapters forward the body    *)
(* and only check the table again.  Azure and Cloudflare check nothing.     *)
(***************************************************************************)
validateInput(p, r) ==
    Verdict(<<Unsupported(~ RequiredCapabilities(r) \subseteq ProtocolCapabilities(p))>>)

RequestBody(p, r) ==
    CASE p = "anthropic" -> anthropicRequestBody(r)
      [] p = "gemini"    -> geminiRequestBody(r)
      [] p = "bedrock"   -> bedrockRequestBody(r)
      [] p = "cohere"    -> cohereRequestBody(r)
      [] p = "ollama"    -> ollamaRequestBody(r)
      [] p = "dashscope" -> dashScopeRequestBody(r)
      [] p \in {"azure-openai", "cloudflare"} -> "accepted"
      [] OTHER -> validateInput(p, r)

(***************************************************************************)
(* What the capability table cannot say: the combinations of features for   *)
(* which an adapter refuses a request although it carries every capability  *)
(* the request needs.  They are finer than a capability (a kind of image,   *)
(* of file, of tool choice, of format) or are no capability at all.         *)
(***************************************************************************)
Each(fs) == {{f} : f \in fs}

NativeRefusals == Each({"many", "logprobs", "extra_field", "extra_part_field"})

BeyondCapabilities(p) ==
    CASE p = "anthropic" -> NativeRefusals \cup Each(Seeds \cup Penalties \cup Efforts
                              \cup {"user_name", "late_instruction", "image_detail",
                                    "odd_image", "odd_file"})
      [] p = "gemini"    -> NativeRefusals \cup Each(Penalties \cup Efforts
                              \cup {"user_name", "late_instruction", "image_detail",
                                    "remote_image", "file_id"})
                              \cup {{"tools", "serial_tools"}}
      [] p = "bedrock"   -> NativeRefusals \cup Each(Seeds \cup Penalties \cup Efforts
                              \cup {"user_name", "late_instruction", "image_detail",
                                    "remote_image", "odd_image", "odd_file", "file_id",
                                    "choice_none"})
                              \cup {{"tools", "serial_tools"}}
      [] p = "cohere"    -> NativeRefusals \cup Each(Efforts
                              \cup {"user_name", "negative_seed", "negative_penalty",
                                    "choice_function"})
                              \cup {{"tools", f} : f \in {"serial_tools"} \cup ResponseFormats}
      [] p = "ollama"    -> NativeRefusals \cup Each(ToolChoices
                              \cup {"user_name", "odd_effort", "image_detail", "remote_image"})
                              \cup {{"tools", "serial_tools"}}
      [] p = "dashscope" -> NativeRefusals \cup Each(Penalties \cup Efforts
                              \cup {"json_schema", "choice_required", "negative_seed"})
      [] OTHER -> {}

=============================================================================
