--------------------------- MODULE RequestPipeline --------------------------
(***************************************************************************)
(* A chat completion from its arrival to its answer: the stages of the     *)
(* server's chat_completions_dispatch, the transforms the router makes for *)
(* each candidate, the adapter's request, and the answer, whole or as a    *)
(* stream of chunks.  A caller whose answer was tool calls runs them and   *)
(* comes back with the conversation, and the router replays the reasoning  *)
(* it cached from a whole answer.  A request of the MCP tool               *)
(* chat_completion goes to the router at once.                             *)
(*                                                                         *)
(* The candidate chain and the outcomes of providers, search and           *)
(* moderation are chosen here: CandidateSelection and ChainDispatch make   *)
(* them.  FifoCache's variables are the ReasoningReplayCache, whose ids are *)
(* call ids and whose records are traces.                                  *)
(***************************************************************************)
EXTENDS RequestStages, FifoCache

CONSTANTS
  Openings,       (* The requests a conversation starts with.              *)
  ToolCalls,      (* The arguments of calls of the tool chat_completion.   *)
  Configs,        (* Configurations: see IsConfig.                         *)
  SearchResults,  (* What format_results makes of results: texts.          *)
  ModelAnswers,   (* What providers answer.                                *)
  ToolResult,     (* ToolResult[name]: the text a tool returns.            *)
  MaxTurns        (* Bound on the turns of the conversation.               *)

Candidate == [kind : ProviderKind, context_length : Optional(Nat)]
IsConfig(c) ==
  /\ DOMAIN c.presets \subseteq Presets
  /\ \A name \in DOMAIN c.presets : c.presets[name] \in Preset
  /\ c.guardrails \in Seq(Guardrail) /\ c.chain \in Seq(Candidate)
  /\ c.moderation \in BOOLEAN /\ c.web_search \in BOOLEAN

(* The arguments of the tool chat_completion.                              *)
ToolCallArguments ==
  [model : Models, temperature : Optional(Values), max_tokens : Optional(Nat),
   messages : Seq([role : Role, content : Text])]

(* What comes in from outside is well formed.                              *)
ASSUME InputAssumption ==
  /\ Openings \subseteq ChatRequest /\ ToolCalls \subseteq ToolCallArguments
  /\ SearchResults \subseteq Text /\ ToolResult \in [Functions -> Text]
  /\ MaxTurns \in Nat
ASSUME ConfigAssumption == \A c \in Configs : IsConfig(c)
(* There is a fresh id for each call of an answer.                         *)
ASSUME AnswerAssumption ==
  /\ ModelAnswers \subseteq Answer
  /\ FreshIds \in Seq(CallIds) /\ \A a \in ModelAnswers : Len(Calls(a)) <= Len(FreshIds)
ASSUME IdsAssumption == Ids = CallIds
ASSUME RecordsAssumption == \A trace \in Records : trace # <<>>
ASSUME UnsetAssumption == NoRecord = Unset

VARIABLES
  config,       (* The router's configuration.                             *)
  phase,        (* The stage that comes next, or how the turn ended.       *)
  turn,         (* The number of this turn.                                *)
  door,         (* "http" for a chat completion, "tool" for a tool call.   *)
  given,        (* The request as the caller sent it.                      *)
  req,          (* chat_completions_dispatch's own copy of it.             *)
  found,        (* The search results prepended to it.                     *)
  judged,       (* The text moderation passed, or Unset.                   *)
  candidate,    (* The position of the current candidate in the chain.     *)
  sent,         (* The kind and the request its adapter got, or Unset.     *)
  answer,       (* The provider's answer.                                  *)
  beats_sent,   (* How many of its beats have arrived.                     *)
  counts,       (* The token counts an Anthropic stream started with.      *)
  message,      (* What the caller put together of the chunks.             *)
  told_error,   (* Did the stream end with an error event?                 *)
  reply,        (* The answer as the caller has it.                        *)
  to_remember,  (* Call ids and traces still to be cached.                 *)
  produced      (* Every call id with a trace of an answer that made it.   *)

turn_vars == <<given, req, found, judged, candidate, sent, answer, beats_sent,
               counts, message, told_error, reply, to_remember>>
pipeline_vars == <<cache_vars, config, phase, turn, door, turn_vars, produced>>

(* The stages of chat_completions_dispatch, in their order.                *)
StagesScreenedEarly ==   \* slip: search results are prepended after the screening
  <<"preset", "guardrails", "moderation", "search", "budget", "dispatch">>

Stages == <<"preset", "search", "guardrails", "moderation", "budget", "dispatch">>

After(stage) == Stages[1 + CHOOSE i \in DOMAIN Stages : Stages[i] = stage]

PipelineInit ==
  /\ CacheInit
  /\ config \in Configs
  /\ phase = "idle" /\ turn = 0 /\ door = "http"
  /\ given = Unset /\ req = Unset /\ found = <<>> /\ judged = Unset
  /\ candidate = 0 /\ sent = Unset /\ answer = Unset
  /\ beats_sent = 0 /\ counts = NoCounts /\ message = NothingYet
  /\ told_error = FALSE /\ reply = Unset
  /\ to_remember = <<>> /\ produced = {}

(* A request comes in by a door, and goes to a stage.                      *)
Receive(request, by, stage) ==
  /\ turn < MaxTurns
  /\ turn' = turn + 1 /\ door' = by
  /\ given' = request /\ req' = request
  /\ phase' = stage
  /\ found' = <<>> /\ judged' = Unset
  /\ candidate' = 1 /\ sent' = Unset /\ answer' = Unset
  /\ beats_sent' = 0 /\ counts' = NoCounts /\ message' = NothingYet
  /\ told_error' = FALSE /\ reply' = Unset /\ to_remember' = <<>>
  /\ UNCHANGED <<cache_vars, config, produced>>

(* One without messages is refused at once.                                *)
Arrival(request) ==
  Receive(request, "http", IF request.messages = <<>> THEN "refused" ELSE Stages[1])

Open == phase = "idle" /\ \E request \in Openings : Arrival(request)

(* NativeTools::chat_completion: a request of its arguments alone.         *)
ToolRequest(args) ==
  [model |-> args.model, preset |-> Unset, provider |-> Unset,
   messages |-> [i \in DOMAIN args.messages |->
                   Message(args.messages[i].role, args.messages[i].content)],
   params |-> [p \in SamplingParams |->
                 IF p = "temperature" THEN args.temperature ELSE Unset],
   max_tokens |-> args.max_tokens, tools |-> Unset, tool_choice |-> Unset,
   response_format |-> Unset, reasoning |-> Unset, transforms |-> {},
   web_search |-> FALSE, stream |-> FALSE]

OpenTool ==
  phase = "idle" /\ \E args \in ToolCalls : Receive(ToolRequest(args), "tool", "dispatch")

-----------------------------------------------------------------------------
(* The stages.                                                             *)

Unstaged == <<cache_vars, config, turn, door, given, candidate, sent, answer, beats_sent,
              counts, message, told_error, reply, to_remember, produced>>

apply_preset ==
  /\ phase = "preset"
  /\ IF req.preset = Unset
     THEN phase' = After("preset") /\ UNCHANGED req
     ELSE IF req.preset \in DOMAIN config.presets
     THEN /\ phase' = After("preset")
          /\ req' = WithPreset(config.presets[req.preset], req)
     ELSE phase' = "refused" /\ UNCHANGED req
  /\ UNCHANGED <<Unstaged, found, judged>>

(* What WebSearchClient::search comes to: results, or none, or a failure,  *)
(* which counts as none.                                                   *)
search == SearchResults \cup {<<>>}

(* Nothing found changes nothing.                                          *)
apply_web_search ==
  /\ phase = "search"
  /\ phase' = After("search")
  /\ IF req.web_search /\ config.web_search /\ Searchable(req.messages)
     THEN /\ found' \in search
          /\ req' = IF found' = <<>> THEN req
                    ELSE [req EXCEPT !.messages = Prepended(@, found')]
     ELSE UNCHANGED <<req, found>>
  /\ UNCHANGED <<Unstaged, judged>>

apply_guardrails ==
  /\ phase = "guardrails"
  /\ IF GuardrailBlocks(req.messages, config.guardrails)
     THEN phase' = "refused" /\ UNCHANGED req
     ELSE /\ phase' = After("guardrails")
          /\ req' = [req EXCEPT !.messages = Redacted(@, config.guardrails)]
  /\ UNCHANGED <<Unstaged, found, judged>>

(* What ModerationClient::check may come to; it does not call for nothing. *)
check(text) == IF text = <<>> THEN {"ok"} ELSE {"ok", "flagged", "failed"}

(* A backend that is absent or fails lets the request through.             *)
apply_moderation ==
  /\ phase = "moderation"
  /\ IF config.moderation
     THEN LET text == CollectedText(req.messages) IN
          \E verdict \in check(text) :
            /\ phase' = IF verdict = "flagged" THEN "refused" ELSE After("moderation")
            /\ judged' = IF verdict = "ok" THEN text ELSE judged
     ELSE phase' = After("moderation") /\ UNCHANGED judged
  /\ UNCHANGED <<Unstaged, req, found>>

(* The budget is ClientBudget's.                                           *)
check_client_budget ==
  /\ phase = "budget"
  /\ phase' \in {After("budget"), "refused"}
  /\ UNCHANGED <<Unstaged, req, found, judged>>

-----------------------------------------------------------------------------
(* The candidates.                                                         *)

Undispatched == <<config, turn, door, given, req, found, judged>>
Unanswered == <<answer, beats_sent, counts, message, told_error, reply,
                to_remember, produced>>

(* The request a candidate gets: every transform starts from the staged    *)
(* request, not from what an earlier candidate got.                        *)
PreparedOnLast(c) ==   \* slip: built on what the last candidate got
  LET base == IF sent = Unset THEN req ELSE sent.req
  IN Truncated(Compacted([base EXCEPT !.messages = Replayed(@, by_id)]), c.context_length)

Prepared(c) ==
  Truncated(Compacted([req EXCEPT !.messages = Replayed(@, by_id)]), c.context_length)

Chain == Filtered(config.chain, req)

Ask ==
  /\ phase = "dispatch" /\ candidate <= Len(Chain)
  /\ LET c == Chain[candidate]
     IN IF Refuses(c.kind, Prepared(c))
        THEN candidate' = candidate + 1 /\ UNCHANGED <<phase, sent>>
        ELSE /\ sent' = [kind |-> c.kind, req |-> Prepared(c),
                         context_length |-> c.context_length]
             /\ phase' = "asked" /\ UNCHANGED candidate
  /\ UNCHANGED <<cache_vars, Undispatched, Unanswered>>

(* A candidate that fails is followed by the next, or by none.             *)
CandidateFails ==
  /\ phase = "asked"
  /\ \/ phase' = "dispatch" /\ candidate' = candidate + 1
     \/ phase' = "refused" /\ UNCHANGED candidate
  /\ UNCHANGED <<cache_vars, Undispatched, sent, Unanswered>>

NoneLeft ==
  /\ phase = "dispatch" /\ candidate > Len(Chain)
  /\ phase' = "refused"
  /\ UNCHANGED <<cache_vars, Undispatched, candidate, sent, Unanswered>>

-----------------------------------------------------------------------------
(* A whole answer.                                                         *)

Wire == WireRequest(sent.kind, sent.req)

(* Providers call only the tools they were offered.                        *)
Answerable == { a \in ModelAnswers : \A i \in DOMAIN a.blocks :
                  a.blocks[i].type = "tool_use" =>
                    Wire.tools # Unset /\ a.blocks[i].name \in Wire.tools }

(* cache_reasoning_for_replay.                                             *)
Remembered(r) ==
  IF r.reasoning = <<>> THEN <<>>
  ELSE [i \in DOMAIN r.tool_calls |-> [id |-> r.tool_calls[i].id, trace |-> r.reasoning]]

AnswerWhole(a) ==
  /\ phase = "asked" /\ ~sent.req.stream
  /\ answer' = a
  /\ reply' = Chat(sent.kind, sent.req, a)
  /\ to_remember' = Remembered(reply')
  /\ produced' = produced \cup { [id |-> reply'.tool_calls[i].id, trace |-> reply'.reasoning] :
                                   i \in DOMAIN reply'.tool_calls }
  /\ phase' = "remember"
  /\ UNCHANGED <<cache_vars, Undispatched, candidate, sent, beats_sent, counts, message, told_error>>

Remember ==
  /\ phase = "remember" /\ to_remember # <<>>
  /\ LET next == Head(to_remember)
     IN Replace(next.id, next.trace) \/ Add(next.id, next.trace)
  /\ to_remember' = Tail(to_remember)
  /\ UNCHANGED <<Undispatched, phase, candidate, sent, answer, beats_sent, counts,
                 message, told_error, reply, produced>>

(* What a tool's caller gets of the answer.                                *)
ChatCompletionOutput(r) ==
  [content |-> r.content,
   prompt_tokens |-> IF r.usage = Unset THEN 0 ELSE r.usage.prompt_tokens,
   completion_tokens |-> IF r.usage = Unset THEN 0 ELSE r.usage.completion_tokens]

Reply ==
  /\ phase = "remember" /\ to_remember = <<>>
  /\ phase' = "answered"
  /\ reply' = IF door = "tool" THEN ChatCompletionOutput(reply) ELSE reply
  /\ UNCHANGED <<cache_vars, Undispatched, candidate, sent, answer, beats_sent, counts,
                 message, told_error, to_remember, produced>>

-----------------------------------------------------------------------------
(* A streamed answer.                                                      *)

OpenStream(a) ==
  /\ phase = "asked" /\ sent.req.stream
  /\ answer' = a
  /\ phase' = "streaming"
  /\ UNCHANGED <<cache_vars, Undispatched, candidate, sent, beats_sent, counts, message,
                 told_error, reply, to_remember, produced>>

NextEvent ==
  /\ phase = "streaming"
  /\ LET beats == Beats(sent.kind, answer)
     IN \E to \in beats_sent + 1..Len(beats) :
          /\ OneEvent(sent.kind, beats, beats_sent + 1, to)
          /\ LET event == SubSeq(beats, beats_sent + 1, to)
                 chunk == Chunk(sent.kind, sent.req, event, answer, counts)
             IN /\ message' = IF chunk = Unset THEN message ELSE Merged(message, chunk)
                /\ counts' = IF sent.kind = "anthropic"
                             THEN AnthropicCounts(event, answer, counts) ELSE counts
          /\ beats_sent' = to
  /\ UNCHANGED <<cache_vars, Undispatched, phase, candidate, sent, answer, told_error,
                 reply, to_remember, produced>>

(* An event that cannot be decoded is lost: the caller is told of the       *)
(* error, and the stream goes on.                                          *)
GarbledEvent ==
  /\ phase = "streaming"
  /\ LET beats == Beats(sent.kind, answer)
     IN \E to \in beats_sent + 1..Len(beats) :
          OneEvent(sent.kind, beats, beats_sent + 1, to) /\ beats_sent' = to
  /\ told_error' = TRUE
  /\ UNCHANGED <<cache_vars, Undispatched, phase, candidate, sent, answer, counts, message,
                 reply, to_remember, produced>>

(* The stream ends: complete, cut short by an error the caller is told of, *)
(* or simply closed by the provider.                                       *)
EndStream ==
  /\ phase = "streaming"
  /\ \/ UNCHANGED told_error
     \/ beats_sent < Len(Beats(sent.kind, answer)) /\ told_error' = TRUE
  /\ reply' = Assembled(message)
  /\ phase' = "answered"
  /\ UNCHANGED <<cache_vars, Undispatched, candidate, sent, answer, beats_sent, counts,
                 message, to_remember, produced>>

-----------------------------------------------------------------------------
(* The caller runs the tools it was asked for and comes back, with or      *)
(* without the reasoning it was given.                                     *)
FollowUp(keep) ==
  /\ phase = "answered" /\ door = "http" /\ ~told_error /\ reply.finish_reason = "tool_calls"
  /\ reply.tool_calls # <<>>
  /\ LET asked == [role |-> "assistant", content |-> Unset,
                   tool_calls |-> reply.tool_calls, tool_call_id |-> Unset,
                   reasoning |-> IF keep /\ reply.reasoning # <<>>
                                 THEN reply.reasoning ELSE Unset,
                   cache_control |-> FALSE]
         results == [i \in DOMAIN reply.tool_calls |->
                       [Message("tool", ToolResult[reply.tool_calls[i].name]) EXCEPT
                          !.tool_call_id = reply.tool_calls[i].id]]
     IN Arrival([given EXCEPT !.messages = @ \o <<asked>> \o results])

PipelineNext ==
  \/ Open \/ OpenTool \/ apply_preset \/ apply_web_search \/ apply_guardrails
  \/ apply_moderation \/ check_client_budget
  \/ Ask \/ CandidateFails \/ NoneLeft
  \/ phase = "asked" /\ \E a \in Answerable : AnswerWhole(a) \/ OpenStream(a)
  \/ Remember \/ Reply \/ NextEvent \/ GarbledEvent \/ EndStream
  \/ \E keep \in BOOLEAN : FollowUp(keep)

PipelineSpec == PipelineInit /\ [][PipelineNext]_pipeline_vars
-----------------------------------------------------------------------------
(* What a wire request says, read back independently of how it was made:   *)
(* atoms are lines of text, attachments and calls.                          *)

TextAtoms(lines) == [n \in DOMAIN lines |-> <<"text", lines[n]>>]

PartAtoms(part) == IF IsText(part) THEN TextAtoms(part.body)
                   ELSE <<<<part.kind, part.body>>>>

MessageAtoms(m) ==
  (IF m.content = Unset THEN <<>>
   ELSE FlattenSeq([i \in DOMAIN m.content |-> PartAtoms(m.content[i])]))
  \o [i \in DOMAIN m.tool_calls |->
        <<"call", m.tool_calls[i].name, Input(m.tool_calls[i].arguments)>>]

BlockAtoms(b) ==
  CASE b.type = "text" -> TextAtoms(b.body)
    [] b.type \in {"tool_use", "functionCall"} ->
         <<<<"call", IF b.type = "tool_use" THEN b.tag[2] ELSE b.tag, b.body>>>>
    [] b.type = "image" -> <<<<"image_url", b.body>>>>
    [] b.type = "document" -> <<<<"file", b.body>>>>
    [] OTHER -> <<<<b.tag, b.body>>>>

IsResult(b) == b.type \in {"tool_result", "functionResponse"}

Messages(role) == Selected(Wire.messages, LAMBDA m : m.role = role)
BlocksOf(roles) ==
  LET turns == Selected(Wire.turns, LAMBDA t : t.role \in roles)
  IN FlattenSeq([i \in DOMAIN turns |-> turns[i].blocks])

Heard(role) ==
  IF sent.kind = "openai"
  THEN FlattenSeq([i \in DOMAIN Messages(role) |-> MessageAtoms(Messages(role)[i])])
  ELSE IF role = "system"
  THEN FlattenSeq([i \in DOMAIN Wire.system |-> TextAtoms(Wire.system[i].body)])
  ELSE LET blocks == Selected(BlocksOf(IF role = "user" THEN {"user"} ELSE {"assistant", "model"}),
                               LAMBDA b : ~IsResult(b))
       IN FlattenSeq([i \in DOMAIN blocks |-> BlockAtoms(blocks[i])])

(* The tool results on the wire: what each says it answers, and its text.  *)
HeardResults ==
  IF sent.kind = "openai"
  THEN [i \in DOMAIN Messages("tool") |->
          [to |-> Messages("tool")[i].tool_call_id, body |-> TextOf(Messages("tool")[i].content)]]
  ELSE LET blocks == Selected(BlocksOf({"user"}), IsResult)
       IN [i \in DOMAIN blocks |-> [to |-> blocks[i].tag, body |-> blocks[i].body]]

-----------------------------------------------------------------------------
(* What the caller meant.                                                  *)

(* A line as the redactions leave it; no stage sees a tool's request.      *)
Screened(l) ==
  IF door = "tool" THEN l
  ELSE FoldLeft(LAMBDA line, g : IF g.action = "redact" /\ line \in g.pattern
                            THEN g.replacement ELSE line, l, config.guardrails)

ScreenedAtom(atom) == IF atom[1] = "text" THEN <<"text", Screened(atom[2])>> ELSE atom

(* The conversation given, with the preset's prompt when it had none.      *)
Conversation ==
  LET prompted == /\ given.preset # Unset
                  /\ config.presets[given.preset].system_prompt # Unset
                  /\ \A i \in DOMAIN given.messages : given.messages[i].role # "system"
  IN (IF prompted
      THEN <<Message("system", config.presets[given.preset].system_prompt)>> ELSE <<>>)
     \o given.messages

(* What message i says: the last user message with the results found for   *)
(* it in front of its first text.                                          *)
Said(i) ==
  LET m == Conversation[i]
      atoms == MessageAtoms(m)
      last == m.role = "user" /\ \A j \in i + 1..Len(Conversation) : Conversation[j].role # "user"
      text == { n \in DOMAIN atoms : atoms[n][1] = "text" }
      first == CHOOSE n \in text : \A k \in text : n <= k
      whole == IF last /\ found # <<>>
               THEN SubSeq(atoms, 1, first - 1) \o TextAtoms(found)
                      \o SubSeq(atoms, first, Len(atoms))
               ELSE atoms
  IN [n \in DOMAIN whole |-> ScreenedAtom(whole[n])]

(* The messages middle-out leaves when it drops k of them.                 *)
KeptOf(k) == Selected([i \in DOMAIN Conversation |-> i], LAMBDA i : i = 1 \/ i > k + 1)

Meant(role, kept) ==
  LET of_role == Selected(kept, LAMBDA i : Conversation[i].role = role)
  IN FlattenSeq([n \in DOMAIN of_role |-> Said(of_role[n])])

IsSubsequence(s, t) ==
  \/ s = <<>>
  \/ \E S \in SUBSET DOMAIN t :
       Cardinality(S) = Len(s)
       /\ LET picked == SetToSortSeq(S, <) IN \A n \in DOMAIN s : s[n] = t[picked[n]]

(* Compaction leaves a text with no more lines than it had, with nothing   *)
(* new but markers, and empties only what was escape codes.                *)
CompactionOf(short, text) ==
  /\ Len(short) <= Len(text)
  /\ IsSubsequence(Selected(short, LAMBDA l : l \notin {RepeatMarker, OmittedMarker}), text)
  /\ short = <<>> => \A n \in DOMAIN text : "ansi" \in Traits[text[n]]

ResultHeard(heard, m, kept) ==
  LET text == [n \in DOMAIN TextOf(m.content) |-> Screened(TextOf(m.content)[n])]
      called == \E n \in DOMAIN kept : \E c \in DOMAIN Conversation[kept[n]].tool_calls :
                  Conversation[kept[n]].tool_calls[c].id = m.tool_call_id
  IN /\ IF "rtk" \in given.transforms THEN CompactionOf(heard.body, text) ELSE heard.body = text
     /\ IF sent.kind # "gemini" THEN heard.to = m.tool_call_id
        ELSE IF called THEN ToolResult[heard.to] = TextOf(m.content)
        ELSE heard.to = Unset

ResultsHeard(kept) ==
  LET results == Selected(kept, LAMBDA i : Conversation[i].role = "tool")
  IN /\ Len(HeardResults) = Len(results)
     /\ \A n \in DOMAIN results :
          ResultHeard(HeardResults[n], Conversation[results[n]], kept)

(* Middle-out was asked for, and drops no message it need not.             *)
LinesHeard == Len(Selected(Heard("system") \o Heard("user") \o Heard("assistant"),
                            LAMBDA atom : atom[1] = "text"))
              + FoldLeft(LAMBDA n, r : n + Len(r.body), 0, HeardResults)

MustDrop(k) ==
  /\ "middle-out" \in given.transforms /\ sent.context_length # Unset
  /\ LinesHeard + Len(Selected(Said(k + 1), LAMBDA atom : atom[1] = "text"))
       > BudgetFor(sent.req, sent.context_length)

EverythingHeard ==
  \E k \in 0..Len(Conversation) :
    /\ k = 0 \/ (k <= Len(Conversation) - 2 /\ MustDrop(k))
    /\ \A role \in {"system", "user", "assistant"} : Heard(role) = Meant(role, KeptOf(k))
    /\ ResultsHeard(KeptOf(k))

(* Thinking leaves room for an answer, and costs none of what was asked.   *)
ThinkingFits ==
  sent.kind = "anthropic" /\ Wire.thinking # Unset =>
    /\ Wire.thinking >= MinThinkingBudget
    /\ Wire.max_tokens > Wire.thinking
    /\ sent.req.max_tokens # Unset => Wire.max_tokens >= sent.req.max_tokens

-----------------------------------------------------------------------------
(* Whichever adapter serves a request, and whichever candidates failed     *)
(* before it, the provider is sent everything the caller said and no more: *)
(* every line, attachment, call and tool result, by the right speaker and  *)
(* in order, but for what redaction, search, compaction and middle-out are *)
(* for.  An Anthropic request has room for its thinking and its answer.    *)
RequestIsComplete == phase = "asked" => EverythingHeard /\ ThinkingFits

(* A caller who put the chunks of a stream together, and was told a finish *)
(* reason and of no error, has what the adapter answers unstreamed, however *)
(* the provider cut its events; a stream that ended early, or lost an      *)
(* event, shows it by one or the other.                                    *)
StreamMatchesChat ==
  phase = "answered" /\ sent.req.stream =>
    /\ reply.finish_reason # Unset /\ ~told_error => reply = Chat(sent.kind, sent.req, answer)
    /\ reply.finish_reason = Unset => told_error \/ beats_sent < Len(Beats(sent.kind, answer))

(* No text of a chat completion on the wire, whether the caller's, a       *)
(* preset's, a search result's or a tool's, has a line that a guardrail    *)
(* matches; and every line of it was shown to the moderation backend that  *)
(* let it pass, unless there is none or it failed.                         *)
NothingUnscreenedIsSent ==
  phase = "asked" /\ door = "http" =>
    LET Texts(role) == { Heard(role)[n][2] :
                           n \in { i \in DOMAIN Heard(role) : Heard(role)[i][1] = "text" } }
        lines == UNION ({ Texts(role) : role \in {"system", "user", "assistant"} }
                          \cup { ToSet(HeardResults[n].body) : n \in DOMAIN HeardResults })
    IN /\ \A g \in DOMAIN config.guardrails : lines \cap config.guardrails[g].pattern = {}
       /\ judged # Unset =>
            lines \ {RepeatMarker, OmittedMarker} \subseteq ToSet(judged)

(* The reasoning on an assistant message that goes out is the caller's own *)
(* or, where the caller left it out, the trace of an answer that made one  *)
(* of the message's calls: never another conversation step's.              *)
ReplayIsOwn ==
  phase = "asked" /\ sent.kind = "openai" =>
    \A i \in DOMAIN Wire.messages :
      LET m == Wire.messages[i] IN
      m.reasoning # Unset =>
        \/ \E j \in DOMAIN given.messages :
             given.messages[j].reasoning = m.reasoning
             /\ given.messages[j].tool_calls = m.tool_calls
        \/ \E c \in DOMAIN m.tool_calls :
             [id |-> m.tool_calls[c].id, trace |-> m.reasoning] \in produced

(* A candidate that was kept because the request requires its parameters   *)
(* is sent every one of them.  (A response schema takes the place of the   *)
(* tools at Anthropic, an OpenAI-compatible provider is told only the      *)
(* effort, and a message without blocks, or a system message without       *)
(* content, carries no cache mark.)                                        *)
RequiredParametersAreSent ==
  phase = "asked" /\ req.provider = RequireParameters =>
    /\ \A p \in SamplingParams :
         Wire.params[p] = req.params[p]
         \/ (p = "top_logprobs" /\ req.params["logprobs"] = Unset)
    /\ req.tools # Unset =>
         Wire.tools = req.tools \/ (sent.kind = "anthropic" /\ ForcedTool(req) # Unset)
    /\ req.tool_choice # Unset => Wire.tool_choice # Unset
    /\ req.response_format \in Functions =>
         Wire.format = req.response_format \/ Wire.tools = {req.response_format}
    /\ req.reasoning # Unset /\ (sent.kind # "openai" \/ req.reasoning.effort # Unset) =>
         Wire.thinking # Unset
    /\ (\E i \in DOMAIN sent.req.messages :
          LET m == sent.req.messages[i] IN
          m.cache_control /\ m.content # <<>> /\ (IsSystem(m) => m.content # Unset)) =>
         /\ sent.kind = "anthropic"
         /\ \/ \E i \in DOMAIN Wire.system : Wire.system[i].cached
            \/ \E i \in DOMAIN Wire.turns : Wire.turns[i].cached
=============================================================================
