--------------------------- MODULE EmbeddingCalls ---------------------------
(***************************************************************************)
(* RequestPipeline with the router's other kind of request beside it: an   *)
(* embeddings call, from POST /v1/embeddings, from the MCP tool, or from   *)
(* the semantic cache.  It falls back over the chain like a chat request,  *)
(* but no stage screens it and no transform is made.                       *)
(*                                                                         *)
(* First embeddings() of the three adapters of rp_providers: what each     *)
(* sends, and what it makes of the answer.  A vector is known by the text  *)
(* it is the embedding of; its numbers, `dimensions` and `encoding_format` *)
(* are left out.                                                           *)
(***************************************************************************)
EXTENDS RequestPipeline, ProviderErrors

CONSTANTS
  Inputs,     (* The texts of the calls.                                   *)
  Statuses,   (* Statuses of provider answers that are no success.         *)
  Waits       (* Their Retry-After values; 0 is none.                      *)

ASSUME EmbeddingAssumption ==
  Inputs \subseteq Seq(Text) /\ Statuses \subseteq Nat /\ Waits \subseteq Nat

-----------------------------------------------------------------------------
(* A single text, or a batch of them.                                      *)
EmbeddingsInput == [single : BOOLEAN, texts : Seq(Text)]
EmbeddingsRequest == [model : Models, input : EmbeddingsInput]

(* EmbeddingsInput::as_slice                                               *)
AsSlice(input) == IF input.single THEN <<input.texts[1]>> ELSE input.texts

EmbeddingData == [embedding : Text, index : Nat]
EmbeddingsUsage == [prompt_tokens : Nat, total_tokens : Nat]
EmbeddingsResponse == [data : Seq(EmbeddingData), usage : Optional(EmbeddingsUsage)]

(* Anthropic has no embeddings: UnsupportedFeature, a retryable error.     *)
EmbedsNothing(kind) == kind = "anthropic"

(* The input an OpenAI-compatible provider gets is the request's own; a    *)
(* Gemini batch has an item for each of its texts.                         *)
WireInput(kind, request) ==
  IF kind = "gemini" THEN [single |-> FALSE, texts |-> AsSlice(request.input)]
  ELSE request.input

(* A provider answers with a vector for each text: Gemini in their order,  *)
(* the others in any order and with their positions, counting tokens.      *)
ProviderVectors(kind, input) ==
  LET texts == AsSlice(input)
      orders == IF kind = "gemini" THEN {[i \in DOMAIN texts |-> i]}
                ELSE {o \in [DOMAIN texts -> DOMAIN texts] :
                        \A i, j \in DOMAIN texts : o[i] = o[j] => i = j}
  IN {[i \in DOMAIN texts |-> [values |-> texts[o[i]], index |-> o[i] - 1]] : o \in orders}

GeminiEmbeddings(vectors) ==
  [data |-> [i \in DOMAIN vectors |-> [embedding |-> vectors[i].values, index |-> i - 1]],
   usage |-> Unset]

OpenAiEmbeddingsInOrder(vectors) ==   \* slip: positions counted, not read
  [data |-> [i \in DOMAIN vectors |-> [embedding |-> vectors[i].values, index |-> i - 1]],
   usage |-> [prompt_tokens |-> Len(vectors), total_tokens |-> Len(vectors)]]

(* Every text is one token.                                                *)
OpenAiEmbeddings(vectors) ==
  [data |-> [i \in DOMAIN vectors |->
               [embedding |-> vectors[i].values, index |-> vectors[i].index]],
   usage |-> [prompt_tokens |-> Len(vectors), total_tokens |-> Len(vectors)]]

Embeddings_(kind, vectors) ==
  IF kind = "gemini" THEN GeminiEmbeddings(vectors) ELSE OpenAiEmbeddings(vectors)

-----------------------------------------------------------------------------
VARIABLE call   (* The embeddings call, if there is one. *)

all_vars == <<pipeline_vars, call>>

NoFailure == [error |-> "none", upstream |-> 0, wait |-> 0]

NoCall == [at |-> "none", by |-> "http", input |-> [single |-> FALSE, texts |-> <<>>],
           pos |-> 1, attempts |-> <<>>, failure |-> NoFailure, response |-> Unset,
           told |-> Unset]

(* What each caller makes of its texts: any input, one that is a single    *)
(* text if there is only one, or the conversation as one text.             *)
InputsBy(by) ==
  LET Single(texts) == [single |-> TRUE, texts |-> <<texts[1]>>]
      Batch(texts) == [single |-> FALSE, texts |-> texts]
      Alone == {texts \in Inputs : Len(texts) = 1}
  IN CASE by = "http" -> {Batch(texts) : texts \in Inputs} \cup {Single(texts) : texts \in Alone}
       [] by = "tool" -> {IF Len(texts) = 1 THEN Single(texts) ELSE Batch(texts) : texts \in Inputs}
       [] by = "cache" -> {Single(texts) : texts \in Alone}

(* The call has the run to itself: it shares only the configuration.       *)
Begin(by) ==
  /\ phase = "idle" /\ call.at = "none"
  /\ \E input \in InputsBy(by) :
       call' = [NoCall EXCEPT !.at = "loop", !.by = by, !.input = input]
  /\ UNCHANGED pipeline_vars

Kind == config.chain[call.pos].kind
Attempted(outcome) == [call EXCEPT !.attempts = Append(@, outcome)]
Missed(failure, outcome) ==
  [Attempted(outcome) EXCEPT !.at = "loop", !.pos = @ + 1, !.failure = failure]

(* The candidate's provider is not configured, or it is throttled here.    *)
SkipCandidate ==
  /\ call.at = "loop" /\ call.pos <= Len(config.chain)
  /\ \/ call' = Missed([NoFailure EXCEPT !.error = "not_configured"], "not_configured")
     \/ \E wait \in Waits \ {0} :
          call' = Missed([NoFailure EXCEPT !.error = "rate_limited", !.wait = wait], "rate_limited")
  /\ UNCHANGED pipeline_vars

AskEmbeddings ==
  /\ call.at = "loop" /\ call.pos <= Len(config.chain)
  /\ call' = IF EmbedsNothing(Kind)
             THEN Missed([NoFailure EXCEPT !.error = "unsupported_feature"], "retryable_error")
             ELSE [call EXCEPT !.at = "asked"]
  /\ UNCHANGED pipeline_vars

(* The tool's caller gets the data alone, the cache the first vector.      *)
AnswerEmbeddings ==
  /\ call.at = "asked"
  /\ \E vectors \in ProviderVectors(Kind, WireInput(Kind, call)) :
       call' = [Attempted("success") EXCEPT !.at = "answered",
                                            !.response = Embeddings_(Kind, vectors)]
  /\ UNCHANGED pipeline_vars

Failures ==
  {[error |-> map_error_response(status), upstream |-> status,
    wait |-> IF status = 429 THEN wait ELSE 0] : status \in Statuses, wait \in Waits}
  \cup {[NoFailure EXCEPT !.error = e] : e \in {"timeout", "network", "decode"}}

(* The call, and its retry if the failure is a transient one, failed.      *)
FailEmbeddings ==
  /\ call.at = "asked"
  /\ \E failure \in Failures :
       call' = IF IsRetryable(failure.error) THEN Missed(failure, "retryable_error")
               ELSE [Attempted("error") EXCEPT !.at = "failed", !.failure = failure]
  /\ UNCHANGED pipeline_vars

ExhaustEmbeddings ==
  /\ call.at = "loop" /\ call.pos > Len(config.chain)
  /\ call' = [call EXCEPT !.at = "failed",
                          !.failure = IF @ = NoFailure THEN [@ EXCEPT !.error = "invalid_model"]
                                      ELSE @]
  /\ UNCHANGED pipeline_vars

(* router_error_response: a status, and the wait if one is known.  The     *)
(* tool's caller is told an error, and the cache does without.             *)
TellFailure ==
  /\ call.at = "failed" /\ call.told = Unset /\ call.by = "http"
  /\ call' = [call EXCEPT !.told =
       [status |-> status_code(call.failure.error, call.failure.upstream),
        retry_after |-> IF call.failure.wait > 0 THEN call.failure.wait ELSE Unset]]
  /\ UNCHANGED pipeline_vars

CallsInit == PipelineInit /\ call = NoCall

CallsNext ==
  \/ call.at = "none" /\ PipelineNext /\ UNCHANGED call
  \/ \E by \in {"http", "tool", "cache"} : Begin(by)
  \/ SkipCandidate \/ AskEmbeddings \/ AnswerEmbeddings \/ FailEmbeddings
  \/ ExhaustEmbeddings \/ TellFailure

CallsSpec == CallsInit /\ [][CallsNext]_all_vars

-----------------------------------------------------------------------------
(* Every text of a call has one vector, at the text's position, whatever   *)
(* adapter answered and in whatever order its provider listed them.        *)
EmbeddingsFollowInputs ==
  call.at = "answered" =>
    LET data == call.response.data
    IN /\ Len(data) = Len(call.input.texts)
       /\ \A i \in DOMAIN call.input.texts :
            \E d \in ToSet(data) : /\ d.index = i - 1
                                   /\ d.embedding = call.input.texts[i]
       /\ call.by = "cache" => data[1].embedding = call.input.texts[1]

(* A call fails only when no candidate is left, or one refused it for      *)
(* good; its caller is told of the last candidate's failure, of a wait     *)
(* only if that candidate was throttled, and of the provider's own fault   *)
(* as such.  Every candidate that was come to was counted, once.           *)
FailuresAreTold ==
  call.told # Unset =>
    /\ \/ call.pos > Len(config.chain) /\ Len(call.attempts) = Len(config.chain)
       \/ call.failure.error \in Fatal /\ Len(call.attempts) = call.pos
    /\ call.told.retry_after # Unset => call.told.status = 429
    /\ call.told.status >= 500 <=>
         call.failure.error \in {"timeout", "network", "decode", "upstream_5xx"}

(* A tool's caller has the text and the counts of the answer.              *)
ToolAnswersMatch ==
  phase = "answered" /\ door = "tool" =>
    LET whole == Chat(sent.kind, sent.req, answer)
    IN /\ reply.content = whole.content
       /\ reply.prompt_tokens = whole.usage.prompt_tokens
       /\ reply.completion_tokens = whole.usage.completion_tokens

(* Property: whoever asked, and in whatever form, has the provider's       *)
(* answer whole: a stream put together is the unstreamed answer, a tool's  *)
(* output has its text and counts, every embedding stands for its text,    *)
(* and a call that failed says why.                                        *)
AnswersAreWhole ==
  StreamMatchesChat /\ ToolAnswersMatch /\ EmbeddingsFollowInputs /\ FailuresAreTold
=============================================================================
