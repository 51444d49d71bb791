---------------------------- MODULE RequestStages ---------------------------
(***************************************************************************)
(* What the stages before a dispatch make of a ChatRequest, as functions:  *)
(* presets, web search, guardrails and moderation once per request, and    *)
(* reasoning replay, tool-output compaction and middle-out per candidate.  *)
(*                                                                         *)
(* A guardrail's pattern matches whole lines.  The token estimate of a     *)
(* message is its number of lines.                                         *)
(*                                                                         *)
(* The compaction (rtk) knows a line by its traits, those its patterns     *)
(* look for; the counts that the omission markers mention are left out.    *)
(***************************************************************************)
EXTENDS ProviderAnswers

CONSTANTS
  DefaultReserve,     (* The completion reserved without max_tokens.       *)
  RequireParameters,  (* Preferences with require_parameters.              *)
  Traits,             (* Traits[line]: the patterns a line matches.        *)
  RepeatMarker,       (* "... line repeated N more times ...".             *)
  OmittedMarker,      (* "... N lines omitted ...", and the like.          *)
  KeepEnds            (* KeepEnds[category]: the head and tail lines kept. *)

ASSUME StageAssumption ==
  /\ {RepeatMarker, OmittedMarker} \subseteq Lines /\ DefaultReserve \in Nat
  /\ \A category \in {"git", "package", "generic"} :
       KeepEnds[category] \in [head : Nat, tail : Nat]

-----------------------------------------------------------------------------
(* The `rtk` transform: the compaction of one tool message's text.          *)

Category == {"git", "test", "build", "package", "generic"}

(* A line of nothing but escape codes is gone.                             *)
strip_ansi(text) == Selected(text, LAMBDA l : "ansi" \notin Traits[l])

classify(text) ==
  LET Seen(traits) == \E i \in DOMAIN text : Traits[text[i]] \cap traits # {}
  IN CASE Seen({"git"}) -> "git"
       [] ~Seen({"git"}) /\ Seen({"test_summary", "passing"}) -> "test"
       [] ~Seen({"git", "test_summary", "passing"})
            /\ Seen({"compiling", "diagnostic"}) -> "build"
       [] ~Seen({"git", "test_summary", "passing", "compiling", "diagnostic"})
            /\ Seen({"package"}) -> "package"
       [] OTHER -> "generic"

(* The run of equal lines around position i.                               *)
Run(lines, i) ==
  { j \in DOMAIN lines : \A k \in DOMAIN lines :
      (i <= k /\ k <= j) \/ (j <= k /\ k <= i) => lines[k] = lines[i] }

dedupe_repeated_lines(lines, threshold) ==
  FlattenSeq([i \in DOMAIN lines |->
    LET run == Run(lines, i)
        first == i - 1 \notin run
        long == \E j \in run : j + threshold - 1 \in run
    IN IF ~long THEN <<lines[i]>>
       ELSE IF first THEN <<lines[i], RepeatMarker>> ELSE <<>>])

head_tail(lines, ends) ==
  IF Len(lines) <= ends.head + ends.tail THEN lines
  ELSE SubSeq(lines, 1, ends.head) \o <<OmittedMarker>>
         \o SubSeq(lines, Len(lines) - ends.tail + 1, Len(lines))

(* Every run of lines with the trait becomes one marker.                   *)
Collapsed(lines, trait) ==
  FlattenSeq([i \in DOMAIN lines |->
    IF trait \notin Traits[lines[i]] THEN <<lines[i]>>
    ELSE IF i > 1 /\ trait \in Traits[lines[i - 1]] THEN <<>>
    ELSE <<OmittedMarker>>])

compress_package(lines) ==
  LET summary == Selected(lines, LAMBDA l : "summary" \in Traits[l])
  IN IF Len(lines) <= 4 THEN lines
     ELSE IF summary # <<>> THEN summary
     ELSE head_tail(lines, KeepEnds["package"])

compress(text) ==
  LET stripped == strip_ansi(text)
      category == classify(stripped)
  IN CASE category = "test" -> Collapsed(stripped, "passing")
       [] category = "build" -> Collapsed(stripped, "compiling")
       [] category = "package" -> compress_package(stripped)
       [] OTHER -> head_tail(dedupe_repeated_lines(stripped, 3), KeepEnds[category])

-----------------------------------------------------------------------------
Preset ==
  [model : Optional(Models), system_prompt : Optional(Text),
   provider : Optional(Values), max_tokens : Optional(Nat),
   params : [SamplingParams -> Optional(Values)]]
Guardrail ==
  [action : {"block", "redact"}, pattern : SUBSET Lines, replacement : Lines]

Default(value, otherwise) == IF value = Unset THEN otherwise ELSE value

(* A preset's own defaults never include logprobs.                         *)
Presettable == SamplingParams \ {"logprobs", "top_logprobs"}

(* presets::apply.                                                         *)
WithPreset(preset, req) ==
  LET prompted == preset.system_prompt # Unset
                  /\ ~\E i \in DOMAIN req.messages : IsSystem(req.messages[i])
  IN [req EXCEPT
        !.model = Default(preset.model, @),
        !.messages = IF prompted THEN <<Message("system", preset.system_prompt)>> \o @
                     ELSE @,
        !.provider = Default(@, preset.provider),
        !.max_tokens = Default(@, preset.max_tokens),
        !.params = [p \in SamplingParams |->
                      IF p \in Presettable THEN Default(@[p], preset.params[p]) ELSE @[p]]]

-----------------------------------------------------------------------------
(* The text parts of a message, each changed by a function on its lines.   *)
MapText(content, change) ==
  [i \in DOMAIN content |->
     IF IsText(content[i])
     THEN [content[i] EXCEPT !.body = [n \in DOMAIN @ |-> change[@[n]]]]
     ELSE content[i]]

LastUser(messages) ==
  LET users == { i \in DOMAIN messages : messages[i].role = "user" }
  IN IF users = {} THEN 0 ELSE CHOOSE i \in users : \A j \in users : j <= i

(* last_user_query finds text to search for.                               *)
Searchable(messages) ==
  /\ LastUser(messages) > 0
  /\ TextOf(messages[LastUser(messages)].content) # <<>>

(* prepend_to_last_user_message: onto its first text part.                 *)
Prepended(messages, prefix) ==
  LET content == messages[LastUser(messages)].content
      first == CHOOSE i \in DOMAIN content :
                 IsText(content[i]) /\ \A j \in 1..i - 1 : ~IsText(content[j])
  IN [messages EXCEPT ![LastUser(messages)].content[first].body = prefix \o @]

-----------------------------------------------------------------------------
(* guardrails::apply: every redaction, and whether a block comes first.    *)
Matches(guardrail, m) ==
  /\ m.content # Unset
  /\ \E i \in DOMAIN m.content :
       IsText(m.content[i]) /\ ToSet(m.content[i].body) \cap guardrail.pattern # {}

Redact(messages, guardrail) ==
  LET change == [l \in Lines |->
                   IF l \in guardrail.pattern THEN guardrail.replacement ELSE l]
  IN IF guardrail.action = "block" THEN messages
     ELSE [i \in DOMAIN messages |->
             IF messages[i].content = Unset THEN messages[i]
             ELSE [messages[i] EXCEPT !.content = MapText(@, change)]]

Redacted(messages, guardrails) ==
  LET after[n \in 0..Len(guardrails)] ==
        IF n = 0 THEN messages ELSE Redact(after[n - 1], guardrails[n])
  IN after[Len(guardrails)]

GuardrailBlocks(messages, guardrails) ==
  \E g \in DOMAIN guardrails :
    /\ guardrails[g].action = "block"
    /\ LET sofar == Redacted(messages, SubSeq(guardrails, 1, g - 1))
       IN \E i \in DOMAIN sofar : Matches(guardrails[g], sofar[i])

(* collect_text: what the moderation backend is shown.                     *)
CollectedText(messages) ==
  FlattenSeq([i \in DOMAIN messages |-> TextOf(messages[i].content)])

-----------------------------------------------------------------------------
(* Which of a request's fields an adapter gives an effect to, and which a   *)
(* request sets of those that not every adapter does.                       *)
SupportedAlike(kind) ==   \* slip: what one adapter passes on is expected of all
  {"temperature", "top_p", "max_tokens", "stop", "tools", "tool_choice",
   "response_format", "reasoning", "top_k", "frequency_penalty",
   "presence_penalty", "seed", "logprobs", "cache_control"}

supported_params(kind) ==
  {"temperature", "top_p", "max_tokens", "stop", "tools", "tool_choice",
   "response_format", "reasoning", "top_k"} \cup
  CASE kind = "openai" ->
         {"min_p", "top_a", "frequency_penalty", "presence_penalty",
          "repetition_penalty", "logit_bias", "seed", "logprobs"}
    [] kind = "anthropic" -> {"cache_control"}
    [] kind = "gemini" -> {"frequency_penalty", "presence_penalty", "seed"}

active_params(req) ==
  { f \in {"tools", "tool_choice", "response_format", "reasoning"} : req[f] # Unset }
  \cup { p \in SamplingParams \ {"temperature", "top_p", "stop", "top_logprobs"} :
          req.params[p] # Unset }
  \cup (IF \E i \in DOMAIN req.messages : req.messages[i].cache_control
        THEN {"cache_control"} ELSE {})

(* filter_by_required_parameters.                                          *)
Filtered(chain, req) ==
  IF req.provider # RequireParameters THEN chain
  ELSE Selected(chain, LAMBDA c : active_params(req) \subseteq supported_params(c.kind))

-----------------------------------------------------------------------------
(* maybe_apply_reasoning_replay: of the first call's trace, or nothing.    *)
ReplayedNewest(messages, traces) ==   \* slip: the newest trace goes to every message
  LET calling == { i \in DOMAIN messages : messages[i].tool_calls # <<>> }
      newest == CHOOSE i \in calling : \A j \in calling : j <= i
  IN [i \in DOMAIN messages |->
        IF messages[i].reasoning = Unset /\ messages[i].tool_calls # <<>>
        THEN [messages[i] EXCEPT !.reasoning = traces[messages[newest].tool_calls[1].id]]
        ELSE messages[i]]

Replayed(messages, traces) ==
  [i \in DOMAIN messages |->
     IF messages[i].reasoning = Unset /\ messages[i].tool_calls # <<>>
     THEN [messages[i] EXCEPT !.reasoning = traces[messages[i].tool_calls[1].id]]
     ELSE messages[i]]

(* maybe_apply_rtk.                                                        *)
Shortened(content) ==
  [j \in DOMAIN content |->
     IF IsText(content[j]) THEN TextPart(compress(content[j].body)) ELSE content[j]]

Compacted(req) ==
  IF "rtk" \notin req.transforms THEN req
  ELSE [req EXCEPT !.messages = [i \in DOMAIN req.messages |->
          LET m == req.messages[i]
          IN IF m.role # "tool" \/ m.content = Unset THEN m
             ELSE [m EXCEPT !.content = Shortened(m.content)]]]

EstimatedTokens(m) == Len(TextOf(m.content))

Total(messages) == FoldLeft(LAMBDA n, m : n + EstimatedTokens(m), 0, messages)

(* apply_middle_out: the fewest messages dropped from the second on.       *)
MiddleOut(messages, budget) ==
  LET Without(k) == <<messages[1]>> \o SubSeq(messages, k + 2, Len(messages))
      most == Len(messages) - 2
      enough == { k \in 0..most : Total(Without(k)) <= budget \/ k = most }
  IN IF Len(messages) <= 2 THEN messages
     ELSE Without(CHOOSE k \in enough : \A j \in enough : k <= j)

BudgetFor(req, context_length) ==
  LET reserved == IF req.max_tokens = Unset THEN DefaultReserve ELSE req.max_tokens
  IN IF context_length > reserved THEN context_length - reserved ELSE 0

(* maybe_apply_middle_out, for a candidate with or without a context       *)
(* length on record.                                                       *)
Truncated(req, context_length) ==
  IF "middle-out" \notin req.transforms \/ context_length = Unset THEN req
  ELSE [req EXCEPT !.messages = MiddleOut(@, BudgetFor(req, context_length))]
=============================================================================
