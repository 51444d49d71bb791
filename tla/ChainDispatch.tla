--------------------------- MODULE ChainDispatch ----------------------------
(***************************************************************************)
(* The sequential fallback loop of the router: dispatch_uncached,          *)
(* dispatch_stream_uncached and embeddings, for requests in flight at the  *)
(* same time over shared outbound buckets, health averages and usage.      *)
(*                                                                         *)
(* A candidate is a "provider/model".  One iteration of the loop that      *)
(* skips a candidate, or starts a call, runs without awaiting and is one   *)
(* step; a call, the pause before the retry of a transient error, and the  *)
(* chunks of a stream are separate steps, between which other requests     *)
(* run.  The chain is what candidate selection returned.                   *)
(***************************************************************************)
EXTENDS ProviderErrors, Sequences, SequencesExt

CONSTANTS
  Requests,      (* Requests that are dispatched.                          *)
  Candidates,    (* The "provider/model"s the chains name.                 *)
  Providers,
  ProviderOf,    (* Candidate -> its provider half.                        *)
  Configured,    (* Providers this router has an adapter for.              *)
  Capacity,      (* provider_rpm: limited provider -> whole tokens.        *)
  TokenWait,     (* Limited provider -> longest wait for its next token.   *)
  Chains,        (* Resolved chains.                                       *)
  Kinds,         (* Some of "chat", "stream", "embeddings".                *)
  Outcomes,      (* ProviderErrors the providers answer with.              *)
  MaxTokens,     (* Largest completion reported in a usage.                *)
  MaxRefills,    (* Bound on the tokens that flow back into a bucket.      *)
  None

Limited == DOMAIN Capacity
SAME_PROVIDER_RETRIES == 1

ASSUME DispatchAssumption ==
  /\ IsFiniteSet(Requests)
  /\ ProviderOf \in [Candidates -> Providers]
  /\ Configured \subseteq Providers
  /\ Limited \subseteq Providers
  /\ Capacity \in [Limited -> Nat] /\ TokenWait \in [Limited -> Nat \ {0}]
  /\ Chains \subseteq Seq(Candidates)
  /\ Kinds \subseteq {"chat", "stream", "embeddings"}
  /\ Outcomes \subseteq ProviderError
  /\ MaxTokens \in Nat /\ MaxRefills \in Nat
  /\ None \notin [error : RouterError, retry_after : Nat]

Failure == [error : RouterError, retry_after : Nat]   (* 0: no Retry-After *)

(* The outcomes of a candidate in dispatch_attempts_total.                 *)
Counted == {"not_configured", "rate_limited", "success", "retryable_error", "error"}

VARIABLES
  req,        (* The dispatch of each request.                             *)
  tokens,     (* Limited provider -> tokens in its outbound bucket.        *)
  health,     (* Candidate -> its newest uptime sample, or None.           *)
  usage,      (* Candidate -> its cumulative UsageStats.                   *)
  free_used,  (* Candidate -> tokens counted against its free tier.        *)
  calls,      (* History: provider -> HTTP calls made to it.               *)
  refills     (* History: limited provider -> tokens refilled.             *)

vars == <<req, tokens, health, usage, free_used, calls, refills>>

(* phase: "new", "loop" (about to look at chain[pos]), "flight" (a call is *)
(* out), "backoff" (pausing before the retry), "streaming", "served",      *)
(* "failed" or "abandoned" (the client went away).  `trail` is what each    *)
(* candidate was counted as, and `seen` (history) the completion tokens    *)
(* the client was told about.                                              *)
Dispatch == [phase : {"new", "loop", "flight", "backoff", "streaming",
                      "served", "failed", "abandoned"},
             kind : Kinds \cup {None},
             chain : Seq(Candidates),
             pos : Nat \ {0}, retries : 0..SAME_PROVIDER_RETRIES,
             last_err : Failure \cup {None},
             trail : Seq(Counted), seen : Nat]

Ended == {"served", "failed", "abandoned"}

TypeOK ==
  /\ req \in [Requests -> Dispatch]
  /\ tokens \in [Limited -> Nat] /\ \A p \in Limited : tokens[p] <= Capacity[p]
  /\ health \in [Candidates -> {"up", "down", None}]
  /\ usage \in [Candidates -> [requests : Nat, tokens : Nat]]
  /\ free_used \in [Candidates -> Nat]
  /\ calls \in [Providers -> Nat]
  /\ refills \in [Limited -> Nat]

NewDispatch == [phase |-> "new", kind |-> None, chain |-> <<>>, pos |-> 1, retries |-> 0,
                last_err |-> None, trail |-> <<>>, seen |-> 0]

Init ==
  /\ req = [r \in Requests |-> NewDispatch]
  /\ tokens = Capacity
  /\ health = [c \in Candidates |-> None]
  /\ usage = [c \in Candidates |-> [requests |-> 0, tokens |-> 0]]
  /\ free_used = [c \in Candidates |-> 0]
  /\ calls = [p \in Providers |-> 0]
  /\ refills = [p \in Limited |-> 0]

-----------------------------------------------------------------------------
Candidate(r) == req[r].chain[req[r].pos]
Provider(r) == ProviderOf[Candidate(r)]

(* A request whose chain is resolved.  (A chat request for a fusion route   *)
(* goes to dispatch_fusion instead, unless it brings tools.)               *)
Start(r) ==
  /\ req[r].phase = "new"
  /\ \E kind \in Kinds, chain \in Chains :
       req' = [req EXCEPT ![r] = [NewDispatch EXCEPT !.phase = "loop", !.kind = kind,
                                                     !.chain = chain]]
  /\ UNCHANGED <<tokens, health, usage, free_used, calls, refills>>

AtCandidate(r) == req[r].phase = "loop" /\ req[r].pos <= Len(req[r].chain)

(* Counts the candidate's outcome and moves on to the next one.            *)
MoveOn(r, outcome, failure) ==
  [req[r] EXCEPT !.phase = "loop", !.pos = @ + 1, !.retries = 0,
                 !.last_err = failure, !.trail = Append(@, outcome)]

Failed(e) == [error |-> e, retry_after |-> 0]

(* Embeddings keep no uptime average.                                      *)
HealthSample(r, sample) ==
  IF req[r].kind = "embeddings" THEN health
  ELSE [health EXCEPT ![Candidate(r)] = sample]

(* get_provider() knows no adapter for the candidate's provider.           *)
SkipUnconfigured(r) ==
  /\ AtCandidate(r) /\ Provider(r) \notin Configured
  /\ req' = [req EXCEPT ![r] = MoveOn(r, "not_configured", Failed("not_configured"))]
  /\ UNCHANGED <<tokens, health, usage, free_used, calls, refills>>

HasToken(p) == p \in Limited => tokens[p] > 0

(* check_outbound_rate_limit() refuses: fall back, never queue.            *)
SkipThrottledQueues(r, wait) ==   \* slip: waits for a token instead of moving on
  FALSE

SkipThrottledAsFailure(r, wait) ==   \* slip: counts against the provider's uptime
  /\ AtCandidate(r) /\ Provider(r) \in Configured /\ ~HasToken(Provider(r))
  /\ wait \in 1..TokenWait[Provider(r)]
  /\ req' = [req EXCEPT ![r] = MoveOn(r, "rate_limited", Failed("rate_limited"))]
  /\ health' = [health EXCEPT ![Candidate(r)] = "down"]
  /\ UNCHANGED <<tokens, usage, free_used, calls, refills>>

SkipThrottled(r, wait) ==
  /\ AtCandidate(r) /\ Provider(r) \in Configured /\ ~HasToken(Provider(r))
  /\ wait \in 1..TokenWait[Provider(r)]
  /\ req' = [req EXCEPT ![r] =
       MoveOn(r, "rate_limited", [error |-> "rate_limited", retry_after |-> wait])]
  /\ UNCHANGED <<tokens, health, usage, free_used, calls, refills>>

(* The bucket grants a token and the first call goes out.                  *)
CallUnmetered(r) ==   \* slip: the token is not taken
  /\ AtCandidate(r) /\ Provider(r) \in Configured /\ HasToken(Provider(r))
  /\ calls' = [calls EXCEPT ![Provider(r)] = @ + 1]
  /\ req' = [req EXCEPT ![r].phase = "flight"]
  /\ UNCHANGED <<tokens, health, usage, free_used, refills>>

Call(r) ==
  /\ AtCandidate(r) /\ Provider(r) \in Configured /\ HasToken(Provider(r))
  /\ tokens' = [p \in Limited |-> tokens[p] - IF p = Provider(r) THEN 1 ELSE 0]
  /\ calls' = [calls EXCEPT ![Provider(r)] = @ + 1]
  /\ req' = [req EXCEPT ![r].phase = "flight"]
  /\ UNCHANGED <<health, usage, free_used, refills>>

(* retry_same_provider: a transient error is tried once more, after a      *)
(* pause, without asking the outbound bucket again.                        *)
PauseBeforeRetry(r, e) ==
  /\ req[r].phase = "flight" /\ IsTransient(e)
  /\ req[r].retries < SAME_PROVIDER_RETRIES
  /\ req' = [req EXCEPT ![r].phase = "backoff"]
  /\ UNCHANGED <<tokens, health, usage, free_used, calls, refills>>

Retry(r) ==
  /\ req[r].phase = "backoff"
  /\ req' = [req EXCEPT ![r].phase = "flight", ![r].retries = @ + 1]
  /\ calls' = [calls EXCEPT ![Provider(r)] = @ + 1]
  /\ UNCHANGED <<tokens, health, usage, free_used, refills>>

GivenUp(r, e) == ~IsTransient(e) \/ req[r].retries = SAME_PROVIDER_RETRIES

FallBack(r, e) ==
  /\ req[r].phase = "flight" /\ GivenUp(r, e) /\ IsRetryable(e)
  /\ req' = [req EXCEPT ![r] = MoveOn(r, "retryable_error", Failed(e))]
  /\ health' = HealthSample(r, "down")
  /\ UNCHANGED <<tokens, usage, free_used, calls, refills>>

FailFatally(r, e) ==
  /\ req[r].phase = "flight" /\ GivenUp(r, e) /\ ~IsRetryable(e)
  /\ req' = [req EXCEPT ![r].phase = "failed", ![r].last_err = Failed(e),
                        ![r].trail = Append(@, "error")]
  /\ health' = HealthSample(r, "down")
  /\ UNCHANGED <<tokens, usage, free_used, calls, refills>>

(* record_usage() and free_tiers::record_usage() for n completion tokens.  *)
Account(c, n) ==
  /\ usage' = [usage EXCEPT ![c].requests = @ + 1, ![c].tokens = @ + n]
  /\ free_used' = [free_used EXCEPT ![c] = @ + n]

Answered(r, phase) == [req[r] EXCEPT !.phase = phase, !.trail = Append(@, "success")]

(* A chat answer with the usage it reports, if any.                        *)
AnswerChat(r, n) ==
  /\ req[r].phase = "flight" /\ req[r].kind = "chat"
  /\ health' = HealthSample(r, "up")
  /\ req' = [req EXCEPT ![r] = [Answered(r, "served") EXCEPT !.seen = n]]
  /\ \/ Account(Candidate(r), n)
     \/ n = 0 /\ UNCHANGED <<usage, free_used>>   (* no usage reported *)
  /\ UNCHANGED <<tokens, calls, refills>>

(* The stream is established; its usage comes with its chunks.             *)
OpenStream(r) ==
  /\ req[r].phase = "flight" /\ req[r].kind = "stream"
  /\ health' = HealthSample(r, "up")
  /\ req' = [req EXCEPT ![r] = Answered(r, "streaming")]
  /\ UNCHANGED <<tokens, usage, free_used, calls, refills>>

(* Embeddings run the same loop and account for nothing.                   *)
AnswerEmbeddings(r) ==
  /\ req[r].phase = "flight" /\ req[r].kind = "embeddings"
  /\ req' = [req EXCEPT ![r] = Answered(r, "served")]
  /\ UNCHANGED <<tokens, health, usage, free_used, calls, refills>>

(* instrument_stream: a chunk carries a usage of n > 0 completion tokens,  *)
(* the total of the stream so far (Gemini sends one with every event).     *)
ChunkFirstOnly(r, n) ==   \* slip: only the first usage of a stream counts
  /\ req[r].phase = "streaming" /\ n > req[r].seen
  /\ IF req[r].seen = 0 THEN Account(Candidate(r), n) ELSE UNCHANGED <<usage, free_used>>
  /\ req' = [req EXCEPT ![r].seen = n]
  /\ UNCHANGED <<tokens, health, calls, refills>>

UsageChunk(r, n) ==
  /\ req[r].phase = "streaming" /\ n > req[r].seen
  /\ Account(Candidate(r), n)
  /\ req' = [req EXCEPT ![r].seen = n]
  /\ UNCHANGED <<tokens, health, calls, refills>>

(* The stream ends, breaks, or reaches the client's request timeout: the   *)
(* chain is not resumed and the uptime average is left as it is.           *)
CloseStream(r) ==
  /\ req[r].phase = "streaming"
  /\ req' = [req EXCEPT ![r].phase = "served"]
  /\ UNCHANGED <<tokens, health, usage, free_used, calls, refills>>

(* Every candidate was skipped or failed: the newest error is the answer.  *)
Exhaust(r) ==
  /\ req[r].phase = "loop" /\ req[r].pos > Len(req[r].chain)
  /\ req' = [req EXCEPT ![r].phase = "failed",
                ![r].last_err = IF @ = None THEN Failed("invalid_model") ELSE @]
  /\ UNCHANGED <<tokens, health, usage, free_used, calls, refills>>

(* The client disconnects and the server drops the dispatch where it waits. *)
Abandon(r) ==
  /\ req[r].phase \in {"flight", "backoff", "streaming"}
  /\ req' = [req EXCEPT ![r].phase = "abandoned"]
  /\ UNCHANGED <<tokens, health, usage, free_used, calls, refills>>

(* Time passes and a whole token flows back into p's bucket.               *)
Refill(p) ==
  /\ refills[p] < MaxRefills /\ tokens[p] < Capacity[p]
  /\ tokens' = [tokens EXCEPT ![p] = @ + 1]
  /\ refills' = [refills EXCEPT ![p] = @ + 1]
  /\ UNCHANGED <<req, health, usage, free_used, calls>>

LongestWait(p) == IF p \in Limited THEN TokenWait[p] ELSE 0

(* The router's own steps for r.                                           *)
RouterStep(r) ==
  \/ SkipUnconfigured(r)
  \/ AtCandidate(r) /\ \E wait \in 1..LongestWait(Provider(r)) : SkipThrottled(r, wait)
  \/ Call(r)
  \/ Retry(r)
  \/ Exhaust(r)

(* The provider's answer to the call r has out, or its request timeout.    *)
ProviderStep(r) ==
  \/ \E e \in Outcomes : PauseBeforeRetry(r, e) \/ FallBack(r, e) \/ FailFatally(r, e)
  \/ \E n \in 0..MaxTokens : AnswerChat(r, n)
  \/ OpenStream(r)
  \/ AnswerEmbeddings(r)
  \/ CloseStream(r)

Next ==
  \/ \E r \in Requests : \/ Start(r)
                         \/ RouterStep(r)
                         \/ ProviderStep(r)
                         \/ \E n \in 1..MaxTokens : UsageChunk(r, n)
                         \/ Abandon(r)
  \/ \E p \in Limited : Refill(p)

(* The executor runs a ready dispatch, and every call is bounded by the     *)
(* HTTP client's total timeout (providers/http.rs build_client), the body   *)
(* of a stream included.                                                   *)
Fairness == \A r \in Requests : WF_vars(RouterStep(r)) /\ WF_vars(ProviderStep(r))

Spec == Init /\ [][Next]_vars /\ Fairness

-----------------------------------------------------------------------------
(* Property: the calls made to a limited provider never exceed what its    *)
(* outbound bucket granted by more than the same-provider retries, however *)
(* many requests share the bucket.                                         *)
CallsMetered ==
  \A p \in Limited :
    calls[p] + (1 + SAME_PROVIDER_RETRIES) * tokens[p]
      <= (1 + SAME_PROVIDER_RETRIES) * (Capacity[p] + refills[p])

(* Property: a request only fails when every candidate of its chain was    *)
(* skipped or failed with an error worth falling back from, or when a      *)
(* candidate refused it for good; the error it is answered with is the one *)
(* of the last candidate, and names a wait if its bucket was empty.        *)
NoNeedlessFailure ==
  \A r \in Requests :
    LET d == req[r] IN
    d.phase = "failed" =>
      \/ d.last_err.error \in Fatal /\ Last(d.trail) = "error"
      \/ /\ Len(d.trail) = Len(d.chain)
         /\ \A i \in DOMAIN d.trail :
              d.trail[i] \in {"not_configured", "rate_limited", "retryable_error"}
         /\ d.chain # <<>> =>
              \/ Last(d.trail) = "retryable_error" /\ d.last_err.error \in Retryable
              \/ Last(d.trail) = "not_configured" /\ d.last_err.error = "not_configured"
              \/ Last(d.trail) = "rate_limited" /\ d.last_err.error = "rate_limited"
                                                /\ d.last_err.retry_after > 0

(* Property: only the outcome of a call moves a candidate's uptime average: *)
(* being throttled by this router, left unconfigured, or saved by the      *)
(* retry of a passing blip never makes a candidate look unhealthy.         *)
HealthFollowsCalls ==
  [][\A c \in Candidates : health'[c] # health[c] =>
       \E r \in Requests :
         /\ req[r].phase = "flight" /\ req'[r].phase # "flight" /\ Candidate(r) = c
         /\ health'[c] = IF Last(req'[r].trail) = "success" THEN "up" ELSE "down"]_vars

Served(c) == {r \in Requests :
  /\ req[r].trail # <<>> /\ Last(req[r].trail) = "success" /\ Candidate(r) = c}

(* The completion tokens the clients were told candidate c produced.       *)
ToldBy(c) == UNION {{r} \X (1..req[r].seen) : r \in Served(c)}
Told(c) == Cardinality(ToldBy(c))

(* Property: every completion token the clients were told about is in the  *)
(* usage statistics of the candidate that answered, exactly once when it   *)
(* streamed to none of them, and the free tier counts what they count.     *)
UsageCoversAnswers ==
  \A c \in Candidates :
    /\ usage[c].tokens >= Told(c)
    /\ (\A r \in Served(c) : req[r].kind # "stream") => usage[c].tokens = Told(c)
    /\ free_used[c] = usage[c].tokens

(* Property: every request is answered: an outbound limit never makes one  *)
(* wait for its bucket.                                                    *)
AlwaysAnswered ==
  \A r \in Requests : req[r].phase = "loop" ~> req[r].phase \in Ended
=============================================================================
