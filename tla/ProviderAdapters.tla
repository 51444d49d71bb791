--------------------------- MODULE ProviderAdapters -------------------------
(***************************************************************************)
(* The three adapters of rp_providers as functions: what each sends for a  *)
(* ChatRequest, what it makes of a whole answer (chat) and of one event of *)
(* a streamed answer (chat_stream), and how a caller puts chunks together. *)
(*                                                                         *)
(* The MIME type of an attachment is known by its family, JSON arguments   *)
(* by being JSON or not, and the separators of joined texts are left out.  *)
(***************************************************************************)
EXTENDS ChatTypes, Integers

CONSTANTS
  JsonLines,           (* Lines that are JSON.                             *)
  FreshIds,            (* The ids gen_id makes for an answer's calls.      *)
  DefaultMaxTokens,    (* DEFAULT_MAX_TOKENS.                              *)
  MinThinkingBudget,   (* MIN_THINKING_BUDGET.                             *)
  FlatBudget           (* effort_thinking_budget without max_tokens.       *)

ASSUME BudgetAssumption ==
  /\ DefaultMaxTokens \in Nat \ {0} /\ MinThinkingBudget \in Nat
  /\ FlatBudget \in [{"low", "medium", "high"} -> Nat]

ProviderKind == {"openai", "anthropic", "gemini"}

Block(type, tag, body) == [type |-> type, tag |-> tag, body |-> body]

IsSystem(m) == m.role = "system"
IsTurn(m) == m.role # "system"

(* What serde_json makes of call arguments: {} unless they are JSON.       *)
Input(arguments) == IF ToSet(arguments) \subseteq JsonLines THEN arguments ELSE <<>>

TextBlocks(text) == IF text = <<>> THEN <<>> ELSE <<Block("text", Unset, text)>>

(* A turn has at least one block.                                          *)
AtLeastOne(blocks) == IF blocks = <<>> THEN <<Block("text", Unset, <<>>)>> ELSE blocks

(* The system messages, which reach a provider apart from the turns.       *)
SystemBlocks(messages) ==
  LET present == Selected(messages, LAMBDA m : IsSystem(m) /\ m.content # Unset)
  IN [i \in DOMAIN present |->
        [body |-> PlainText(present[i].content), cached |-> present[i].cache_control]]

Uncached(blocks) == [i \in DOMAIN blocks |-> [blocks[i] EXCEPT !.cached = FALSE]]

-----------------------------------------------------------------------------
(* Anthropic's request.                                                    *)

Source(data) == IF data \in InlineData THEN "base64" ELSE "url"

AnthropicBlock(part) ==
  CASE part.kind = "text" -> Block("text", Unset, part.body)
    [] part.kind = "image_url" -> Block("image", Source(part.body), part.body)
    [] part.kind = "file" -> Block("document", Source(part.body), part.body)

AnthropicBlocks(m) ==
  CASE m.role = "tool" -> <<Block("tool_result", m.tool_call_id, TextOf(m.content))>>
    [] m.role = "user" ->
         IF m.content = Unset THEN AtLeastOne(<<>>)
         ELSE [i \in DOMAIN m.content |-> AnthropicBlock(m.content[i])]
    [] m.role = "assistant" ->
         AtLeastOne(TextBlocks(TextOf(m.content)) \o
           [i \in DOMAIN m.tool_calls |->
              Block("tool_use", <<m.tool_calls[i].id, m.tool_calls[i].name>>,
                    Input(m.tool_calls[i].arguments))])

AnthropicTurns(messages) ==
  LET turns == Selected(messages, IsTurn)
  IN [i \in DOMAIN turns |->
        [role |-> IF turns[i].role = "assistant" THEN "assistant" ELSE "user",
         blocks |-> AnthropicBlocks(turns[i]),
         cached |-> turns[i].cache_control /\ AnthropicBlocks(turns[i]) # <<>>]]

(* UnsupportedContent or UnsupportedFeature, both retryable.               *)
AnthropicRefuses(req) ==
  \/ req.response_format = "json_object"
  \/ \E i \in DOMAIN req.messages :
       /\ req.messages[i].role = "user" /\ req.messages[i].content # Unset
       /\ \E j \in DOMAIN req.messages[i].content :
            req.messages[i].content[j].kind = "input_audio"

(* The tool that stands for a response schema, by its name.                *)
ForcedTool(req) ==
  IF req.response_format \in Functions THEN req.response_format ELSE Unset

(* The tool_choice vocabulary, in which "required" is called `any`.        *)
ChoiceNamed(choice, any) == IF choice = "required" THEN any ELSE choice

effort_thinking_budget(effort, max_tokens) ==
  LET tenths == CASE effort = "high" -> 8 [] effort = "low" -> 2 [] OTHER -> 5
  IN IF max_tokens # Unset THEN (max_tokens * tenths + 5) \div 10
     ELSE FlatBudget[IF effort \in {"high", "low"} THEN effort ELSE "medium"]

ThinkingBudget(reasoning, max_tokens) ==
  IF reasoning.max_tokens # Unset THEN reasoning.max_tokens
  ELSE effort_thinking_budget(reasoning.effort, max_tokens)

AnthropicThinking(req) ==
  IF req.reasoning = Unset THEN Unset
  ELSE LET budget == ThinkingBudget(req.reasoning, req.max_tokens)
       IN IF budget < MinThinkingBudget THEN MinThinkingBudget ELSE budget

AnthropicMaxTokens(req) ==
  LET asked == IF req.max_tokens = Unset THEN DefaultMaxTokens ELSE req.max_tokens
      budget == AnthropicThinking(req)
  IN IF budget # Unset /\ asked <= budget THEN budget + DefaultMaxTokens ELSE asked

Excluded(req) == req.reasoning # Unset /\ req.reasoning.exclude

Sent(req, names) == [p \in SamplingParams |-> IF p \in names THEN req.params[p] ELSE Unset]

AnthropicRequest(req) ==
  [system |-> SystemBlocks(req.messages),
   turns |-> AnthropicTurns(req.messages),
   max_tokens |-> AnthropicMaxTokens(req),
   thinking |-> AnthropicThinking(req),
   params |-> Sent(req, {"temperature", "top_p", "top_k", "stop"}),
   tools |-> IF ForcedTool(req) # Unset THEN {ForcedTool(req)} ELSE req.tools,
   tool_choice |-> IF ForcedTool(req) # Unset THEN ForcedTool(req)
                   ELSE ChoiceNamed(req.tool_choice, "any"),
   format |-> Unset]

-----------------------------------------------------------------------------
(* Gemini's request: no call ids, so a tool result names the function.     *)

GeminiPart(part) ==
  CASE part.kind = "text" -> Block("text", Unset, part.body)
    [] part.kind = "input_audio" -> Block("inlineData", part.kind, part.body)
    [] OTHER -> Block(IF part.body \in InlineData THEN "inlineData" ELSE "fileData",
                      part.kind, part.body)

(* The name the conversation before message i gave the call `id` last.     *)
CallName(messages, i, id) ==
  LET Calls(j) == { n \in DOMAIN messages[j].tool_calls :
                      messages[j].tool_calls[n].id = id }
      makers == { j \in 1..i - 1 : messages[j].role = "assistant" /\ Calls(j) # {} }
      Latest(S) == CHOOSE x \in S : \A y \in S : y <= x
  IN IF makers = {} THEN Unset
     ELSE messages[Latest(makers)].tool_calls[Latest(Calls(Latest(makers)))].name

GeminiParts(messages, i) ==
  LET m == messages[i]
  IN CASE m.role = "tool" ->
            <<Block("functionResponse", CallName(messages, i, m.tool_call_id),
                    TextOf(m.content))>>
       [] m.role = "user" ->
            IF m.content = Unset THEN AtLeastOne(<<>>)
            ELSE [j \in DOMAIN m.content |-> GeminiPart(m.content[j])]
       [] m.role = "assistant" ->
            AtLeastOne(TextBlocks(TextOf(m.content)) \o
              [j \in DOMAIN m.tool_calls |->
                 Block("functionCall", m.tool_calls[j].name,
                       Input(m.tool_calls[j].arguments))])

GeminiContents(messages) ==
  LET turns == Selected(messages, IsTurn)
  IN [i \in DOMAIN turns |->
        [role |-> IF turns[i].role = "assistant" THEN "model" ELSE "user",
         blocks |-> GeminiParts(turns, i), cached |-> FALSE]]

GeminiRequest(req) ==
  [system |-> Uncached(SystemBlocks(req.messages)),
   turns |-> GeminiContents(req.messages),
   max_tokens |-> req.max_tokens,
   thinking |-> IF req.reasoning = Unset THEN Unset
                ELSE ThinkingBudget(req.reasoning, req.max_tokens),
   params |-> Sent(req, {"temperature", "top_p", "top_k", "stop",
                         "frequency_penalty", "presence_penalty", "seed"}),
   tools |-> req.tools,
   tool_choice |-> ChoiceNamed(req.tool_choice, "ANY"),
   format |-> IF req.response_format = "text" THEN Unset ELSE req.response_format]

-----------------------------------------------------------------------------
(* The OpenAI-compatible request: the messages themselves, without their   *)
(* cache marks and with `reasoning` under another name.                    *)
OpenAiRequest(req) ==
  [messages |-> [i \in DOMAIN req.messages |->
                   [req.messages[i] EXCEPT !.cache_control = FALSE]],
   max_tokens |-> req.max_tokens,
   thinking |-> IF req.reasoning = Unset THEN Unset ELSE req.reasoning.effort,
   params |-> req.params, tools |-> req.tools,
   tool_choice |-> req.tool_choice, format |-> req.response_format]

Refuses(kind, req) == kind = "anthropic" /\ AnthropicRefuses(req)

WireRequest(kind, req) ==
  CASE kind = "anthropic" -> AnthropicRequest(req)
    [] kind = "gemini" -> GeminiRequest(req)
    [] kind = "openai" -> OpenAiRequest(req)
=============================================================================
