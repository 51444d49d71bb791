-------------------------- MODULE DispatchMetrics ---------------------------
(***************************************************************************)
(* ChainDispatch with the metric registry beside it: what each step of a   *)
(* dispatch records in the Prometheus families, next to the uptime         *)
(* average, the usage statistics and the free tiers it updates.            *)
(*                                                                         *)
(* The registry is as GET /metrics shows it.  A family is a function from  *)
(* the labels of its series to their values; a series exists once          *)
(* something was recorded under its labels.  Of a histogram the model      *)
(* keeps the number of its observations.                                   *)
(***************************************************************************)
EXTENDS ChainDispatch

CONSTANTS
  Priced,         (* Candidates with a [[pricing]] entry.                  *)
  Listed,         (* Providers in the configuration, with a key or without. *)
  PromptTokens    (* The prompt tokens of every reported usage.            *)

ASSUME MetricsAssumption ==
  /\ Priced \subseteq Candidates
  /\ Configured \subseteq Listed /\ Listed \subseteq Providers
  /\ PromptTokens \in Nat

-----------------------------------------------------------------------------
Registered == {"dispatch_attempts", "prompt_tokens", "completion_tokens", "cost_usd",
               "response_latency", "throughput", "provider_configured"}

NoSeries == [labels \in {} |-> 0]

NewMetrics == [family \in Registered |-> NoSeries]

At(series, labels) == IF labels \in DOMAIN series THEN series[labels] ELSE 0

SetTo(series, labels, n) ==
  [l \in DOMAIN series \cup {labels} |-> IF l = labels THEN n ELSE series[l]]

IncBy(series, labels, n) == SetTo(series, labels, At(series, labels) + n)

-----------------------------------------------------------------------------
(* The methods of Metrics; m is the registry, c a "provider/model".        *)

(* Called for each provider listed.                                        *)
set_provider_configured(m) ==
  [m EXCEPT !["provider_configured"] =
     [p \in Listed |-> IF p \in Configured THEN 1 ELSE 0]]

record_attempt(m, c, outcome) ==
  [m EXCEPT !["dispatch_attempts"] = IncBy(@, <<c, outcome>>, 1)]

observe_latency(m, c) == [m EXCEPT !["response_latency"] = IncBy(@, c, 1)]

observe_throughput(m, c) == [m EXCEPT !["throughput"] = IncBy(@, c, 1)]

TokensOfPricedOnly(m, c, prompt, completion, priced) ==   \* slip: no price, no tokens
  IF ~priced THEN m
  ELSE [m EXCEPT !["prompt_tokens"] = IncBy(@, c, prompt),
                 !["completion_tokens"] = IncBy(@, c, completion),
                 !["cost_usd"] = IncBy(@, c, prompt + completion)]

(* A token of a priced candidate costs one unit.                           *)
record_tokens_and_cost(m, c, prompt, completion, priced) ==
  [m EXCEPT !["prompt_tokens"] = IncBy(@, c, prompt),
            !["completion_tokens"] = IncBy(@, c, completion),
            !["cost_usd"] = IF priced THEN IncBy(@, c, prompt + completion) ELSE @]

(* render: the families with a sample line.                                *)
Rendered(m) == {family \in Registered : DOMAIN m[family] # {}}

-----------------------------------------------------------------------------
VARIABLE metrics

metered_vars == <<vars, metrics>>

(* from_config: a provider whose key is missing is listed as such.         *)
MetricsInit ==
  /\ Init
  /\ metrics = set_provider_configured(NewMetrics)

-----------------------------------------------------------------------------
Counts(r, outcome) == metrics' = record_attempt(metrics, Candidate(r), outcome)

WithUsage(m, c, n) == record_tokens_and_cost(m, c, PromptTokens, n, c \in Priced)

(* A throughput needs tokens to have come (in some time).                  *)
WithThroughput(m, c, n) == IF n > 0 THEN observe_throughput(m, c) ELSE m

Skips(r) ==
  \/ SkipUnconfigured(r) /\ Counts(r, "not_configured")
  \/ /\ AtCandidate(r)
     /\ \E wait \in 1..LongestWait(Provider(r)) : SkipThrottled(r, wait)
     /\ Counts(r, "rate_limited")

Fails(r) ==
  \E e \in Outcomes : \/ FallBack(r, e) /\ Counts(r, "retryable_error")
                      \/ FailFatally(r, e) /\ Counts(r, "error")

(* A retry of the same candidate, and an abandoned call, are not counted.  *)
Uncounted(r) ==
  /\ \/ Start(r) \/ Call(r) \/ Retry(r) \/ Exhaust(r) \/ CloseStream(r) \/ Abandon(r)
     \/ \E e \in Outcomes : PauseBeforeRetry(r, e)
  /\ UNCHANGED metrics

Succeeded(r) == record_attempt(observe_latency(metrics, Candidate(r)), Candidate(r), "success")

(* The usage of a chat answer is recorded if it reports one.               *)
CountAnswer(r, n) ==
  /\ AnswerChat(r, n)
  /\ metrics' = IF usage' = usage THEN Succeeded(r)
                ELSE WithUsage(WithThroughput(Succeeded(r), Candidate(r), n), Candidate(r), n)

CountStream(r) == OpenStream(r) /\ metrics' = Succeeded(r)

CountEmbeddings(r) == AnswerEmbeddings(r) /\ Counts(r, "success")

CountChunk(r, n) ==
  /\ UsageChunk(r, n)
  /\ metrics' = WithUsage(WithThroughput(metrics, Candidate(r), n), Candidate(r), n)

RouterStepM(r) == RouterStep(r) /\ (Skips(r) \/ Uncounted(r))

ProviderStepM(r) ==
  /\ ProviderStep(r)
  /\ \/ Fails(r) \/ Uncounted(r) \/ CountStream(r) \/ CountEmbeddings(r)
     \/ \E n \in 0..MaxTokens : CountAnswer(r, n)

MetricsNext ==
  \/ \E r \in Requests :
       \/ Skips(r) \/ Fails(r) \/ Uncounted(r) \/ CountStream(r) \/ CountEmbeddings(r)
       \/ \E n \in 0..MaxTokens : CountAnswer(r, n)
       \/ \E n \in 1..MaxTokens : CountChunk(r, n)
  \/ (\E p \in Limited : Refill(p)) /\ UNCHANGED metrics

MetricsSpec ==
  /\ MetricsInit /\ [][MetricsNext]_metered_vars
  /\ \A r \in Requests : WF_metered_vars(RouterStepM(r)) /\ WF_metered_vars(ProviderStepM(r))

-----------------------------------------------------------------------------
Visits == UNION {{r} \X DOMAIN req[r].trail : r \in Requests}

VisitsCounted(c, outcome) == {v \in Visits : /\ req[v[1]].chain[v[2]] = c
                                             /\ req[v[1]].trail[v[2]] = outcome}

Timed(c) == {r \in Served(c) : req[r].kind # "embeddings"}

(* Property: the accounts of the router agree, whatever the order in which *)
(* concurrent requests, chunks and failures reach them: the usage          *)
(* statistics cover every answer, the attempts counted for a candidate are *)
(* what the requests found there, the token and cost families say what the *)
(* statistics say, every answer but an embedding has a latency, and a      *)
(* request that found no adapter was at a provider not shown as configured. *)
AccountsAgree ==
  /\ UsageCoversAnswers
  /\ \A c \in Candidates :
       /\ \A outcome \in Counted :
            At(metrics["dispatch_attempts"], <<c, outcome>>) =
              Cardinality(VisitsCounted(c, outcome))
       /\ At(metrics["completion_tokens"], c) = usage[c].tokens
       /\ At(metrics["prompt_tokens"], c) = PromptTokens * usage[c].requests
       /\ At(metrics["cost_usd"], c) =
            IF c \in Priced THEN usage[c].tokens + PromptTokens * usage[c].requests ELSE 0
       /\ At(metrics["response_latency"], c) = Cardinality(Timed(c))
       /\ <<c, "not_configured">> \in DOMAIN metrics["dispatch_attempts"] =>
            At(metrics["provider_configured"], ProviderOf[c]) = 0
  /\ "cost_usd" \in Rendered(metrics) => \E c \in Priced : usage[c].requests > 0
=============================================================================
