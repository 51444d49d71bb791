--------------------------- MODULE ProviderAnswers --------------------------
(***************************************************************************)
(* What the adapters of rp_providers make of a provider's answer: as a     *)
(* whole (chat), or event by event (chat_stream), and how a caller puts    *)
(* the chunks together again.                                              *)
(*                                                                         *)
(* A provider's answer is a sequence of blocks with a stop reason and      *)
(* token counts; streamed, it is cut into beats: a line of a block, the    *)
(* opening of a block, a whole call (Gemini), the start and the end.       *)
(***************************************************************************)
EXTENDS ProviderAdapters, FiniteSets, TLC

(* What a provider answers.                                                *)
AnswerBlock ==
  [type : {"text", "thinking"}, id : {Unset}, name : {Unset}, body : Text] \cup
  [type : {"tool_use"}, id : CallIds, name : Functions, body : Text]
Answer == [blocks : Seq(AnswerBlock), stop : {"end", "max", "tool"},
           fresh : Nat, written : Nat, cached : Nat, output : Nat]

(* The word each provider has for a stop reason.                           *)
StopWord == [anthropic |-> [end |-> "end_turn", max |-> "max_tokens", tool |-> "tool_use"],
             gemini |-> [end |-> "STOP", max |-> "MAX_TOKENS", tool |-> "STOP"],
             openai |-> [end |-> "stop", max |-> "length", tool |-> "tool_calls"]]

map_stop_reason(reason) ==
  CASE reason = "max_tokens" -> "length" [] reason = "tool_use" -> "tool_calls"
    [] OTHER -> "stop"

map_finish_reason(reason) == IF reason = "MAX_TOKENS" THEN "length" ELSE "stop"

Positive(n) == IF n > 0 THEN n ELSE Unset

(* Anthropic counts the fresh input tokens apart from both cache counters. *)
AnthropicUsage(input, output, creation, cached) ==
  [prompt_tokens |-> input + creation + cached, completion_tokens |-> output,
   total_tokens |-> input + creation + cached + output,
   cached_tokens |-> Positive(cached), cache_creation_tokens |-> Positive(creation)]

(* The others count them in, and report no cache writes.                   *)
InclusiveUsage(a) ==
  LET prompt == a.fresh + a.written + a.cached
  IN [prompt_tokens |-> prompt, completion_tokens |-> a.output,
      total_tokens |-> prompt + a.output,
      cached_tokens |-> Positive(a.cached), cache_creation_tokens |-> Unset]

Bodies(blocks) == FlattenSeq([i \in DOMAIN blocks |-> blocks[i].body])
OfType(a, type) == Selected(a.blocks, LAMBDA b : b.type = type)
Calls(a) == OfType(a, "tool_use")
AsCalls(blocks) ==
  [i \in DOMAIN blocks |-> [id |-> blocks[i].id, name |-> blocks[i].name,
                            arguments |-> blocks[i].body]]

Reasoning(req, a) ==
  IF Excluded(req) THEN <<>> ELSE Bodies(OfType(a, "thinking"))

-----------------------------------------------------------------------------
(* chat() of the three adapters.                                           *)

AnthropicChat(req, a) ==
  LET forced == ForcedTool(req)
      IsWanted(b) == b.type = "text" \/ (b.type = "tool_use" /\ b.name = forced)
  IN [content |-> Bodies(Selected(a.blocks, IsWanted)),
      reasoning |-> Reasoning(req, a),
      tool_calls |-> AsCalls(Selected(Calls(a), LAMBDA b : b.name # forced)),
      finish_reason |-> IF forced # Unset THEN "stop"
                        ELSE map_stop_reason(StopWord.anthropic[a.stop]),
      usage |-> AnthropicUsage(a.fresh, a.output, a.written, a.cached)]

(* Gemini leaves the thoughts out itself, and gives its calls no id.       *)
WithFreshIds(calls) == [i \in DOMAIN calls |-> [calls[i] EXCEPT !.id = FreshIds[i]]]

resolve_finish_reason(calls, stop) ==
  IF calls # <<>> THEN "tool_calls"
  ELSE IF stop = Unset THEN Unset ELSE map_finish_reason(stop)

GeminiChat(req, a) ==
  [content |-> Bodies(OfType(a, "text")),
   reasoning |-> Reasoning(req, a),
   tool_calls |-> WithFreshIds(AsCalls(Calls(a))),
   finish_reason |-> resolve_finish_reason(Calls(a), StopWord.gemini[a.stop]),
   usage |-> InclusiveUsage(a)]

OpenAiChat(req, a) ==
  [content |-> Bodies(OfType(a, "text")),
   reasoning |-> Reasoning(req, a),
   tool_calls |-> AsCalls(Calls(a)),
   finish_reason |-> StopWord.openai[a.stop],
   usage |-> InclusiveUsage(a)]

Chat(kind, req, a) ==
  CASE kind = "anthropic" -> AnthropicChat(req, a)
    [] kind = "gemini" -> GeminiChat(req, a)
    [] kind = "openai" -> OpenAiChat(req, a)

-----------------------------------------------------------------------------
(* The beats of a streamed answer, and the events they may be sent in.     *)

Beat(type, block, line) == [type |-> type, block |-> block, line |-> line]

BlockBeats(kind, a, i) ==
  LET b == a.blocks[i]
      pieces == [n \in DOMAIN b.body |-> Beat("piece", i, b.body[n])]
  IN IF b.type = "tool_use" /\ kind = "gemini" THEN <<Beat("call", i, Unset)>>
     ELSE IF b.type = "tool_use" \/ kind = "anthropic"
          THEN <<Beat("open", i, Unset)>> \o pieces
     ELSE pieces

Beats(kind, a) ==
  (IF kind = "anthropic" THEN <<Beat("start", 0, Unset)>> ELSE <<>>)
    \o FlattenSeq([i \in DOMAIN a.blocks |-> BlockBeats(kind, a, i)])
    \o <<Beat("end", 0, Unset)>>

(* May the beats from..to come in one event?  Of Gemini it is assumed that *)
(* an answer's calls come together, with its end.                          *)
OneEvent(kind, beats, from, to) ==
  IF kind = "gemini"
  THEN (\E n \in DOMAIN beats : n <= to /\ beats[n].type = "call")
         => /\ to = Len(beats)
            /\ \A n \in 1..from - 1 : beats[n].type # "call"
  ELSE from = to \/ \A n \in from..to : beats[n].type = "piece"
                                         /\ beats[n].block = beats[from].block

LinesOf(event, a, types) ==
  LET pieces == Selected(event, LAMBDA b : b.type = "piece"
                                            /\ a.blocks[b.block].type \in types)
  IN [n \in DOMAIN pieces |-> pieces[n].line]

Delta(index, id, name, arguments) ==
  [index |-> index, id |-> id, name |-> name, arguments |-> arguments]

-----------------------------------------------------------------------------
(* chat_stream() of the three adapters: the chunk an event becomes, or     *)
(* Unset.  `counts` is what Anthropic's message_start reported.             *)

NoCounts == [input |-> 0, creation |-> 0, cached |-> 0]

CountsForgotten(event, a, counts) ==   \* slip: message_start's cache counters are lost
  IF event[1].type = "start" THEN [NoCounts EXCEPT !.input = a.fresh] ELSE counts

AnthropicCounts(event, a, counts) ==
  IF event[1].type = "start"
  THEN [input |-> a.fresh, creation |-> a.written, cached |-> a.cached]
  ELSE counts

AnthropicToolChunk(req, event, a) ==
  LET b == a.blocks[event[1].block]
      index == event[1].block - 1
  IN IF ForcedTool(req) # Unset
     THEN IF event[1].type = "open" THEN Unset
          ELSE [EmptyChunk EXCEPT !.content = LinesOf(event, a, {"tool_use"})]
     ELSE [EmptyChunk EXCEPT !.tool_calls =
             IF event[1].type = "open" THEN <<Delta(index, b.id, b.name, <<>>)>>
             ELSE <<Delta(index, Unset, Unset, LinesOf(event, a, {"tool_use"}))>>]

AnthropicTextChunk(req, event, a) ==
  IF event[1].type = "open" \/ (Excluded(req) /\ a.blocks[event[1].block].type = "thinking")
  THEN Unset
  ELSE [EmptyChunk EXCEPT !.content = LinesOf(event, a, {"text"}),
                          !.reasoning = LinesOf(event, a, {"thinking"})]

AnthropicEndChunk(req, a, counts) ==
  [EmptyChunk EXCEPT
     !.finish_reason = IF ForcedTool(req) # Unset THEN "stop"
                       ELSE map_stop_reason(StopWord.anthropic[a.stop]),
     !.usage = AnthropicUsage(counts.input, a.output, counts.creation, counts.cached)]

AnthropicChunk(req, event, a, counts) ==
  CASE event[1].type = "start" -> EmptyChunk
    [] event[1].type = "end" -> AnthropicEndChunk(req, a, counts)
    [] OTHER -> IF a.blocks[event[1].block].type = "tool_use"
                THEN AnthropicToolChunk(req, event, a)
                ELSE AnthropicTextChunk(req, event, a)

GeminiChunk(req, event, a) ==
  LET ended == \E n \in DOMAIN event : event[n].type = "end"
      called == Selected(event, LAMBDA b : b.type = "call")
      calls == WithFreshIds(AsCalls([n \in DOMAIN called |-> a.blocks[called[n].block]]))
  IN [content |-> LinesOf(event, a, {"text"}),
      reasoning |-> IF Excluded(req) THEN <<>> ELSE LinesOf(event, a, {"thinking"}),
      tool_calls |-> [n \in DOMAIN calls |->
                        Delta(n - 1, calls[n].id, calls[n].name, calls[n].arguments)],
      finish_reason |-> resolve_finish_reason(calls,
                          IF ended THEN StopWord.gemini[a.stop] ELSE Unset),
      usage |-> IF ended THEN InclusiveUsage(a) ELSE Unset]

OpenAiChunk(req, event, a) ==
  LET b == a.blocks[event[1].block]
      index == Cardinality({ i \in 1..event[1].block - 1 : a.blocks[i].type = "tool_use" })
  IN CASE event[1].type = "end" ->
            [EmptyChunk EXCEPT !.finish_reason = StopWord.openai[a.stop],
                               !.usage = InclusiveUsage(a)]
       [] event[1].type = "open" ->
            [EmptyChunk EXCEPT !.tool_calls = <<Delta(index, b.id, b.name, <<>>)>>]
       [] OTHER ->
            IF b.type = "tool_use"
            THEN [EmptyChunk EXCEPT !.tool_calls =
                    <<Delta(index, Unset, Unset, LinesOf(event, a, {"tool_use"}))>>]
            ELSE [EmptyChunk EXCEPT
                    !.content = LinesOf(event, a, {"text"}),
                    !.reasoning = IF Excluded(req) THEN <<>>
                                  ELSE LinesOf(event, a, {"thinking"})]

Chunk(kind, req, event, a, counts) ==
  CASE kind = "anthropic" -> AnthropicChunk(req, event, a, counts)
    [] kind = "gemini" -> GeminiChunk(req, event, a)
    [] kind = "openai" -> OpenAiChunk(req, event, a)

-----------------------------------------------------------------------------
(* A caller's message as chunks arrive: texts are appended, and the deltas *)
(* of a call, of which a chunk has one, are put together under its index.  *)
NothingYet == [content |-> <<>>, reasoning |-> <<>>, calls |-> << >>,
               finish_reason |-> Unset, usage |-> Unset]

NoCallYet == [id |-> Unset, name |-> Unset, arguments |-> <<>>]

Latest(old, new) == IF new = Unset THEN old ELSE new

Merged(message, chunk) ==
  LET deltas == chunk.tool_calls
      touched == { deltas[n].index : n \in DOMAIN deltas }
      DeltaOf(i) == deltas[CHOOSE n \in DOMAIN deltas : deltas[n].index = i]
      Put(old, d) == [id |-> Latest(old.id, d.id), name |-> Latest(old.name, d.name),
                      arguments |-> old.arguments \o d.arguments]
  IN [content |-> message.content \o chunk.content,
      reasoning |-> message.reasoning \o chunk.reasoning,
      calls |-> [i \in DOMAIN message.calls \cup touched |->
                   IF i \notin touched THEN message.calls[i]
                   ELSE Put(IF i \in DOMAIN message.calls THEN message.calls[i] ELSE NoCallYet,
                            DeltaOf(i))],
      finish_reason |-> Latest(message.finish_reason, chunk.finish_reason),
      usage |-> Latest(message.usage, chunk.usage)]

(* The calls with an index below `slots`, in the order of their indices.   *)
InSlots(calls, slots) ==
  FlattenSeq([n \in 1..slots |-> IF n - 1 \in DOMAIN calls THEN <<calls[n - 1]>> ELSE <<>>])

Assembled(message) ==
  LET slots == IF DOMAIN message.calls = {} THEN 0 ELSE 1 + Max(DOMAIN message.calls)
  IN [content |-> message.content, reasoning |-> message.reasoning,
      tool_calls |-> InSlots(message.calls, slots),
      finish_reason |-> message.finish_reason, usage |-> message.usage]
=============================================================================
