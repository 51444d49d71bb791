------------------------------ MODULE ChatTypes -----------------------------
(***************************************************************************)
(* rp_core's wire types: the requests, answers and stream chunks every     *)
(* module of the chat pipeline passes on.  A text is a sequence of lines,  *)
(* and joining texts is concatenation.  A sampling parameter has the       *)
(* abstract value it was given, and no optional field has a value that     *)
(* means the same as Unset.                                                 *)
(***************************************************************************)
EXTENDS Naturals, Sequences, SequencesExt

CONSTANTS
  Lines,      (* Lines of text.                                            *)
  Data,       (* Urls, data: URIs and audio payloads.                      *)
  InlineData, (* Those of Data that are data: URIs.                        *)
  CallIds,    (* Tool call ids.                                            *)
  Functions,  (* Names of tools, and of response schemas.                  *)
  Models,     (* "provider/model" strings and aliases.                     *)
  Presets,    (* Names of presets, configured or not.                      *)
  Values,     (* Values of sampling parameters.                            *)
  Unset       (* An unset field.                                           *)

Text == Seq(Lines)
Optional(S) == S \cup {Unset}

Role == {"system", "user", "assistant", "tool"}

ContentPart ==
  [kind : {"text"}, body : Text] \cup
  [kind : {"image_url", "file", "input_audio"}, body : Data]

(* MessageContent::Text is a single text part here.                        *)
MessageContent == Seq(ContentPart)
TextPart(text) == [kind |-> "text", body |-> text]
IsText(part) == part.kind = "text"

(* The elements of a sequence at some of its positions, and those that     *)
(* pass a test, in their order: SelectSeq, by its definition's effect.      *)
Picked(s, positions) ==
  FlattenSeq([i \in DOMAIN s |-> IF i \in positions THEN <<s[i]>> ELSE <<>>])

Selected(s, Test(_)) == Picked(s, { i \in DOMAIN s : Test(s[i]) })

(* MessageContent::as_plain_text.                                          *)
PlainText(content) ==
  LET texts == Selected(content, IsText)
  IN FlattenSeq([i \in DOMAIN texts |-> texts[i].body])

(* as_plain_text of an optional content, with the empty text as default.   *)
TextOf(content) == IF content = Unset THEN <<>> ELSE PlainText(content)

ToolCall == [id : CallIds, name : Functions, arguments : Text]

ChatMessage ==
  [role : Role, content : Optional(MessageContent), tool_calls : Seq(ToolCall),
   tool_call_id : Optional(CallIds), reasoning : Optional(Text),
   cache_control : BOOLEAN]

Message(role, text) ==
  [role |-> role, content |-> <<TextPart(text)>>, tool_calls |-> <<>>,
   tool_call_id |-> Unset, reasoning |-> Unset, cache_control |-> FALSE]

SamplingParams ==
  {"temperature", "top_p", "stop", "top_k", "min_p", "top_a",
   "frequency_penalty", "presence_penalty", "repetition_penalty",
   "logit_bias", "seed", "logprobs", "top_logprobs"}

ReasoningConfig ==
  [effort : {"low", "medium", "high", Unset}, max_tokens : Optional(Nat),
   exclude : BOOLEAN]

(* The variants of ResponseFormat, a schema being known by its name.       *)
ResponseFormat == {"text", "json_object"} \cup Functions

ToolChoice == {"auto", "none", "required"} \cup Functions

(* The preferences that only steer the candidate selection are left to     *)
(* CandidateSelection: an opaque value here.                               *)
ChatRequest ==
  [model : Models, preset : Optional(Presets), provider : Optional(Values),
   messages : Seq(ChatMessage), params : [SamplingParams -> Optional(Values)],
   max_tokens : Optional(Nat), tools : Optional(SUBSET Functions),
   tool_choice : Optional(ToolChoice),
   response_format : Optional(ResponseFormat),
   reasoning : Optional(ReasoningConfig),
   transforms : SUBSET {"middle-out", "rtk"},
   web_search : BOOLEAN, stream : BOOLEAN]

Usage ==
  [prompt_tokens : Nat, completion_tokens : Nat, total_tokens : Nat,
   cached_tokens : Optional(Nat), cache_creation_tokens : Optional(Nat)]

FinishReason == {"stop", "length", "tool_calls"}

(* A ChatResponse's only choice, flattened: Unset or empty are the same.    *)
ChatResponse ==
  [content : Text, reasoning : Text, tool_calls : Seq(ToolCall),
   finish_reason : Optional(FinishReason), usage : Optional(Usage)]

ToolCallDelta ==
  [index : Nat, id : Optional(CallIds), name : Optional(Functions),
   arguments : Text]

ChatChunk ==
  [content : Text, reasoning : Text, tool_calls : Seq(ToolCallDelta),
   finish_reason : Optional(FinishReason), usage : Optional(Usage)]

(* An unset field is told from a set one.                                  *)
ASSUME UnsetIsApart ==
  /\ Unset \notin Nat /\ Unset \notin CallIds
  /\ Unset \notin FinishReason \cup ToolChoice \cup ResponseFormat
                      \cup {"STOP", "MAX_TOKENS", "any", "ANY"}
  /\ Unset \notin Text /\ Unset \notin MessageContent /\ Unset \notin ReasoningConfig
  /\ Unset \notin Usage /\ Unset \notin ChatChunk

(* No tool or schema is named like another variant of the enumeration.     *)
ASSUME VariantsAreApart ==
  Functions \cap {"text", "json_object", "auto", "none", "required"} = {}

EmptyChunk ==
  [content |-> <<>>, reasoning |-> <<>>, tool_calls |-> <<>>,
   finish_reason |-> Unset, usage |-> Unset]
=============================================================================
