------------------------ MODULE ChainDispatchProofs -------------------------
(***************************************************************************)
(* What ChainDispatch and DispatchMetrics guarantee for any number of      *)
(* requests, any chains, buckets and candidates: types, the metering of    *)
(* the outbound calls, that no dispatch fails needlessly, that the uptime  *)
(* averages follow the calls, and that all the accounts agree.             *)
(*                                                                         *)
(* CallsMetered is not inductive: a request whose first call took the      *)
(* token may still retry without one.  The invariant counts those.  The    *)
(* accounts are compared as sets: of the visits to a candidate, and of the *)
(* tokens clients saw of its answers.                                      *)
(***************************************************************************)
EXTENDS DispatchMetrics, FiniteSetTheorems, TLAPS

Flying(r) == req[r].phase \in {"flight", "backoff"}

(* The requests at provider p that have not used their retry.              *)
Owing(p) == {r \in Requests : Flying(r) /\ req[r].retries = 0 /\ Provider(r) = p}

(* A request with a call or a stream open is at one of its candidates, and *)
(* one that pauses has its retry left.                                     *)
CallsPlaced ==
  \A r \in Requests :
    /\ Flying(r) \/ req[r].phase = "streaming" => req[r].pos \in DOMAIN req[r].chain
    /\ req[r].phase = "backoff" => req[r].retries = 0

RetriesCounted ==
  \A p \in Limited :
    calls[p] + 2 * tokens[p] + Cardinality(Owing(p)) <= 2 * (Capacity[p] + refills[p])

IInv == TypeOK /\ CallsPlaced /\ RetriesCounted

(* Every way to leave a candidate is a well-typed dispatch.                *)
LEMMA FailedType ==
  ASSUME NEW e \in RouterError PROVE Failed(e) \in Failure
BY DEF Failed, Failure

LEMMA NewDispatchType == NewDispatch \in Dispatch
<1>1. 1 \in Nat \ {0} /\ 0 \in Nat /\ 0 \in 0..SAME_PROVIDER_RETRIES
  BY DEF SAME_PROVIDER_RETRIES
<1>2. <<>> \in Seq(Counted) /\ <<>> \in Seq(Candidates)
  OBVIOUS
<1>. QED
  BY <1>1, <1>2, Zenon DEF NewDispatch, Dispatch

LEMMA StartedType ==
  ASSUME NEW kind \in Kinds, NEW chain \in Chains
  PROVE  [NewDispatch EXCEPT !.phase = "loop", !.kind = kind, !.chain = chain] \in Dispatch
<1>1. chain \in Seq(Candidates)
  BY DispatchAssumption
<1>. QED
  BY <1>1, NewDispatchType DEF Dispatch

LEMMA MoveOnType ==
  ASSUME TypeOK, NEW r \in Requests, NEW f \in Failure,
         NEW outcome \in {"not_configured", "rate_limited", "retryable_error"}
  PROVE  MoveOn(r, outcome, f) \in Dispatch
<1>1. req[r] \in Dispatch
  BY DEF TypeOK
<1>2. Append(req[r].trail, outcome) \in Seq(Counted)
  BY <1>1 DEF Dispatch, Counted
<1>3. req[r].pos + 1 \in Nat \ {0} /\ 0 \in 0..SAME_PROVIDER_RETRIES
  BY <1>1 DEF Dispatch, SAME_PROVIDER_RETRIES
<1>. QED
  BY <1>1, <1>2, <1>3 DEF MoveOn, Dispatch

LEMMA AnsweredType ==
  ASSUME TypeOK, NEW r \in Requests, NEW phase \in {"streaming", "served"}
  PROVE  Answered(r, phase) \in Dispatch
<1>1. req[r] \in Dispatch
  BY DEF TypeOK
<1>2. Append(req[r].trail, "success") \in Seq(Counted)
  BY <1>1 DEF Dispatch, Counted
<1>. QED
  BY <1>1, <1>2 DEF Answered, Dispatch

(* A request with a candidate before it names a provider.                  *)
LEMMA ProviderType ==
  ASSUME TypeOK, NEW r \in Requests, req[r].pos \in DOMAIN req[r].chain
  PROVE  Candidate(r) \in Candidates /\ Provider(r) \in Providers
<1>1. req[r].chain \in Seq(Candidates)
  BY DEF TypeOK, Dispatch
<1>2. Candidate(r) \in Candidates
  BY <1>1 DEF Candidate
<1>. QED
  BY <1>2, DispatchAssumption DEF Provider

LEMMA AtCandidatePlaced ==
  ASSUME TypeOK, NEW r \in Requests, AtCandidate(r)
  PROVE  req[r].pos \in DOMAIN req[r].chain
<1>1. req[r].chain \in Seq(Candidates) /\ req[r].pos \in Nat \ {0}
  BY DEF TypeOK, Dispatch
<1>. QED
  BY <1>1 DEF AtCandidate

(* A step that only replaces a request's dispatch keeps the types.         *)
LEMMA DispatchReplaced ==
  ASSUME TypeOK, NEW r \in Requests, NEW d \in Dispatch, req' = [req EXCEPT ![r] = d]
  PROVE  req' \in [Requests -> Dispatch]
BY DEF TypeOK

LEMMA PhaseReplaced ==
  ASSUME TypeOK, NEW r \in Requests,
         NEW phase \in {"flight", "backoff", "served", "failed", "abandoned"},
         req' = [req EXCEPT ![r].phase = phase]
  PROVE  req' \in [Requests -> Dispatch]
<1>. req[r] \in Dispatch
  BY DEF TypeOK
<1>1. [req[r] EXCEPT !.phase = phase] \in Dispatch
  BY DEF Dispatch
<1>2. req' = [req EXCEPT ![r] = [req[r] EXCEPT !.phase = phase]]
  OBVIOUS
<1>. QED
  BY <1>1, <1>2, DispatchReplaced

LEMMA SampleType ==
  ASSUME TypeOK, NEW r \in Requests, NEW sample \in {"up", "down"},
         req[r].pos \in DOMAIN req[r].chain
  PROVE  HealthSample(r, sample) \in [Candidates -> {"up", "down", None}]
BY ProviderType DEF TypeOK, HealthSample

LEMMA AccountType ==
  ASSUME TypeOK, NEW c \in Candidates, NEW n \in Nat, Account(c, n)
  PROVE  /\ usage' \in [Candidates -> [requests : Nat, tokens : Nat]]
         /\ free_used' \in [Candidates -> Nat]
<1>1. usage[c] \in [requests : Nat, tokens : Nat]
  BY DEF TypeOK
<1>2. [usage[c] EXCEPT !.requests = @ + 1, !.tokens = @ + n] \in [requests : Nat, tokens : Nat]
  <2>1. usage[c].requests + 1 \in Nat /\ usage[c].tokens + n \in Nat
    BY <1>1
  <2>. QED
    BY <1>1, <2>1
<1>3. usage' = [usage EXCEPT ![c] = [usage[c] EXCEPT !.requests = @ + 1, !.tokens = @ + n]]
  BY <1>1 DEF Account, TypeOK
<1>. QED
  BY <1>2, <1>3 DEF TypeOK, Account

(* The types are preserved by every step.                                  *)
LEMMA TypeStep == TypeOK /\ CallsPlaced /\ [Next]_vars => TypeOK'
<1>. SUFFICES ASSUME TypeOK, CallsPlaced, [Next]_vars PROVE TypeOK'
  OBVIOUS
<1>. USE DEF CallsPlaced, Flying
<1>1. ASSUME NEW r \in Requests, Start(r) PROVE TypeOK'
  <2>1. PICK kind \in Kinds, chain \in Chains :
          req' = [req EXCEPT ![r] = [NewDispatch EXCEPT !.phase = "loop", !.kind = kind,
                                                        !.chain = chain]]
    BY <1>1 DEF Start
  <2>. QED
    BY <1>1, <2>1, StartedType, DispatchReplaced DEF Start, TypeOK
<1>2. ASSUME NEW r \in Requests, SkipUnconfigured(r) PROVE TypeOK'
  <2>1. MoveOn(r, "not_configured", Failed("not_configured")) \in Dispatch
    BY FailedType, MoveOnType DEF RouterError, RouterOnlyError
  <2>. QED
    BY <1>2, <2>1, DispatchReplaced DEF SkipUnconfigured, TypeOK
<1>3. ASSUME NEW r \in Requests, NEW wait \in 1..LongestWait(Provider(r)), SkipThrottled(r, wait)
      PROVE  TypeOK'
  <2>1. wait \in Nat
    BY <1>3
  <2>2. [error |-> "rate_limited", retry_after |-> wait] \in Failure
    BY <2>1 DEF Failure, RouterError, ProviderError, Retryable
  <2>3. MoveOn(r, "rate_limited", [error |-> "rate_limited", retry_after |-> wait]) \in Dispatch
    BY <2>2, MoveOnType
  <2>. QED
    BY <1>3, <2>3, DispatchReplaced DEF SkipThrottled, TypeOK
<1>4. ASSUME NEW r \in Requests, Call(r) PROVE TypeOK'
  <2>1. Provider(r) \in Providers
    BY <1>4, AtCandidatePlaced, ProviderType DEF Call
  <2>2. tokens' \in [Limited -> Nat] /\ \A p \in Limited : tokens'[p] <= Capacity[p]
    BY <1>4, DispatchAssumption DEF Call, HasToken, TypeOK
  <2>3. req' \in [Requests -> Dispatch]
    BY <1>4, PhaseReplaced DEF Call
  <2>4. calls' \in [Providers -> Nat]
    BY <1>4, <2>1 DEF Call, TypeOK
  <2>. QED
    BY <1>4, <2>2, <2>3, <2>4 DEF Call, TypeOK
<1>5. ASSUME NEW r \in Requests, NEW e, PauseBeforeRetry(r, e) PROVE TypeOK'
  BY <1>5, PhaseReplaced DEF PauseBeforeRetry, TypeOK
<1>6. ASSUME NEW r \in Requests, Retry(r) PROVE TypeOK'
  <2>1. Provider(r) \in Providers
    BY <1>6, ProviderType DEF Retry
  <2>2. req' \in [Requests -> Dispatch]
    <3>1. req[r] \in Dispatch /\ req[r].retries = 0
      BY <1>6 DEF Retry, TypeOK
    <3>2. 0 + 1 \in 0..SAME_PROVIDER_RETRIES
      BY DEF SAME_PROVIDER_RETRIES
    <3>3. [req[r] EXCEPT !.phase = "flight", !.retries = @ + 1] \in Dispatch
      BY <3>1, <3>2 DEF Dispatch
    <3>4. req' = [req EXCEPT ![r] = [req[r] EXCEPT !.phase = "flight", !.retries = @ + 1]]
      BY <1>6 DEF Retry
    <3>. QED
      BY <3>3, <3>4, DispatchReplaced
  <2>. QED
    BY <1>6, <2>1, <2>2 DEF Retry, TypeOK
<1>7. ASSUME NEW r \in Requests, NEW e \in Outcomes, FallBack(r, e) PROVE TypeOK'
  <2>1. MoveOn(r, "retryable_error", Failed(e)) \in Dispatch
    BY FailedType, MoveOnType, DispatchAssumption DEF RouterError
  <2>. QED
    BY <1>7, <2>1, DispatchReplaced, SampleType DEF FallBack, TypeOK
<1>8. ASSUME NEW r \in Requests, NEW e \in Outcomes, FailFatally(r, e) PROVE TypeOK'
  <2>1. Failed(e) \in Failure
    BY FailedType, DispatchAssumption DEF RouterError
  <2>2. req' \in [Requests -> Dispatch]
    <3>1. req[r] \in Dispatch
      BY DEF TypeOK
    <3>2. Append(req[r].trail, "error") \in Seq(Counted)
      BY <3>1 DEF Dispatch, Counted
    <3>3. [req[r] EXCEPT !.phase = "failed", !.last_err = Failed(e),
                         !.trail = Append(@, "error")] \in Dispatch
      BY <2>1, <3>1, <3>2 DEF Dispatch
    <3>4. req' = [req EXCEPT ![r] = [req[r] EXCEPT !.phase = "failed", !.last_err = Failed(e),
                                                   !.trail = Append(@, "error")]]
      BY <1>8 DEF FailFatally
    <3>. QED
      BY <3>3, <3>4, DispatchReplaced
  <2>. QED
    BY <1>8, <2>2, SampleType DEF FailFatally, TypeOK
<1>9. ASSUME NEW r \in Requests, NEW n \in 0..MaxTokens, AnswerChat(r, n) PROVE TypeOK'
  <2>1. n \in Nat
    BY <1>9, DispatchAssumption
  <2>2. [Answered(r, "served") EXCEPT !.seen = n] \in Dispatch
    BY <2>1, AnsweredType DEF Dispatch
  <2>3. /\ usage' \in [Candidates -> [requests : Nat, tokens : Nat]]
        /\ free_used' \in [Candidates -> Nat]
    BY <1>9, <2>1, AccountType, ProviderType DEF AnswerChat, TypeOK
  <2>. QED
    BY <1>9, <2>2, <2>3, DispatchReplaced, SampleType DEF AnswerChat, TypeOK
<1>10. ASSUME NEW r \in Requests, OpenStream(r) PROVE TypeOK'
  BY <1>10, AnsweredType, DispatchReplaced, SampleType DEF OpenStream, TypeOK
<1>11. ASSUME NEW r \in Requests, AnswerEmbeddings(r) PROVE TypeOK'
  BY <1>11, AnsweredType, DispatchReplaced DEF AnswerEmbeddings, TypeOK
<1>12. ASSUME NEW r \in Requests, NEW n \in 1..MaxTokens, UsageChunk(r, n) PROVE TypeOK'
  <2>1. n \in Nat
    BY <1>12, DispatchAssumption
  <2>2. req[r] \in Dispatch
    BY DEF TypeOK
  <2>3. [req[r] EXCEPT !.seen = n] \in Dispatch
    BY <2>1, <2>2 DEF Dispatch
  <2>4. req' \in [Requests -> Dispatch]
    BY <1>12, <2>3, DispatchReplaced DEF UsageChunk
  <2>5. PICK c \in Candidates : Account(c, n)
    BY <1>12, ProviderType DEF UsageChunk
  <2>. QED
    BY <1>12, <2>1, <2>4, <2>5, AccountType DEF UsageChunk, TypeOK
<1>13. ASSUME NEW r \in Requests, CloseStream(r) PROVE TypeOK'
  BY <1>13, PhaseReplaced DEF CloseStream, TypeOK
<1>14. ASSUME NEW r \in Requests, Exhaust(r) PROVE TypeOK'
  <2>1. Failed("invalid_model") \in Failure
    BY FailedType DEF RouterError, RouterOnlyError
  <2>2. req' \in [Requests -> Dispatch]
    <3>. DEFINE e == IF req[r].last_err = None THEN Failed("invalid_model") ELSE req[r].last_err
    <3>1. req[r] \in Dispatch
      BY DEF TypeOK
    <3>2. e \in Failure \cup {None}
      BY <2>1, <3>1 DEF Dispatch
    <3>3. req' = [req EXCEPT ![r] = [req[r] EXCEPT !.phase = "failed", !.last_err = e]]
      BY <1>14 DEF Exhaust
    <3>. HIDE DEF e
    <3>4. [req[r] EXCEPT !.phase = "failed", !.last_err = e] \in Dispatch
      BY <3>1, <3>2 DEF Dispatch
    <3>. QED
      BY <3>3, <3>4, DispatchReplaced
  <2>. QED
    BY <1>14, <2>2 DEF Exhaust, TypeOK
<1>15. ASSUME NEW r \in Requests, Abandon(r) PROVE TypeOK'
  BY <1>15, PhaseReplaced DEF Abandon, TypeOK
<1>16. ASSUME NEW p \in Limited, Refill(p) PROVE TypeOK'
  <2>1. tokens[p] \in Nat /\ tokens[p] + 1 \in Nat /\ refills[p] + 1 \in Nat
    BY DEF TypeOK
  <2>2. Capacity[p] \in Nat /\ tokens[p] + 1 <= Capacity[p]
    BY <1>16, <2>1, DispatchAssumption DEF Refill
  <2>3. tokens' \in [Limited -> Nat] /\ refills' \in [Limited -> Nat]
    BY <1>16, <2>1 DEF Refill, TypeOK
  <2>4. \A q \in Limited : tokens'[q] <= Capacity[q]
    BY <1>16, <2>1, <2>2 DEF Refill, TypeOK
  <2>. QED
    BY <1>16, <2>3, <2>4 DEF Refill, TypeOK
<1>17. CASE UNCHANGED vars
  BY <1>17 DEF TypeOK, vars, Candidate
<1>. QED
  BY <1>1, <1>2, <1>3, <1>4, <1>5, <1>6, <1>7, <1>8, <1>9, <1>10, <1>11, <1>12,
     <1>13, <1>14, <1>15, <1>16, <1>17 DEF Next, RouterStep, ProviderStep

-----------------------------------------------------------------------------
(* A step that gives r the dispatch d owes no call it did not owe before,  *)
(* and leaves every request at one of its candidates, when d has no call   *)
(* out, or the same candidate and retries as before.                       *)
LEMMA NothingOwed ==
  ASSUME TypeOK, CallsPlaced, NEW r \in Requests, NEW d,
         req' = [req EXCEPT ![r] = d],
         \/ d.phase \notin {"flight", "backoff", "streaming"}
         \/ /\ Flying(r) \/ req[r].phase = "streaming"
            /\ d.phase \in {"flight", "backoff"} => Flying(r)
            /\ d.phase = "backoff" => d.retries = 0
            /\ d.chain = req[r].chain /\ d.pos = req[r].pos /\ d.retries = req[r].retries
  PROVE  CallsPlaced' /\ \A p \in Providers : Owing(p)' \subseteq Owing(p)
<1>1. req'[r] = d /\ \A q \in Requests \ {r} : req'[q] = req[q]
  BY DEF TypeOK
<1>2. CallsPlaced'
  BY <1>1 DEF CallsPlaced, Flying
<1>3. \A p \in Providers : Owing(p)' \subseteq Owing(p)
  BY <1>1 DEF Owing, Flying, Provider, Candidate
<1>. QED
  BY <1>2, <1>3

(* What a step does to the calls, the tokens and the calls still owed.     *)
MeterUntouched ==
  /\ UNCHANGED <<calls, tokens, refills>>
  /\ \A p \in Providers : Owing(p)' \subseteq Owing(p)

LEMMA UncountedSteps ==
  ASSUME TypeOK, CallsPlaced, [Next]_vars,
         \A r \in Requests : ~Call(r) /\ ~Retry(r),
         \A p \in Limited : ~Refill(p)
  PROVE  CallsPlaced' /\ MeterUntouched
<1>1. ASSUME NEW r \in Requests, Start(r) PROVE CallsPlaced' /\ MeterUntouched
  <2>1. PICK kind \in Kinds, chain \in Chains :
          req' = [req EXCEPT ![r] = [NewDispatch EXCEPT !.phase = "loop", !.kind = kind,
                                                        !.chain = chain]]
    BY <1>1 DEF Start
  <2>. DEFINE d == [NewDispatch EXCEPT !.phase = "loop", !.kind = kind, !.chain = chain]
  <2>2. d.phase = "loop"
    BY DEF NewDispatch
  <2>3. req' = [req EXCEPT ![r] = d]
    BY <2>1, Zenon
  <2>. HIDE DEF d
  <2>. QED
    BY <1>1, <2>2, <2>3, NothingOwed DEF Start, MeterUntouched
<1>2. ASSUME NEW r \in Requests, SkipUnconfigured(r) PROVE CallsPlaced' /\ MeterUntouched
  <2>1. MoveOn(r, "not_configured", Failed("not_configured")).phase = "loop"
    BY DEF MoveOn, TypeOK, Dispatch
  <2>. QED
    BY <1>2, <2>1, NothingOwed DEF SkipUnconfigured, MeterUntouched
<1>3. ASSUME NEW r \in Requests, NEW wait, SkipThrottled(r, wait) PROVE CallsPlaced' /\ MeterUntouched
  <2>. DEFINE d == MoveOn(r, "rate_limited", [error |-> "rate_limited", retry_after |-> wait])
  <2>1. d.phase = "loop"
    BY DEF MoveOn, TypeOK, Dispatch
  <2>. QED
    BY <1>3, <2>1, NothingOwed DEF SkipThrottled, MeterUntouched
<1>4. ASSUME NEW r \in Requests, NEW e, PauseBeforeRetry(r, e) PROVE CallsPlaced' /\ MeterUntouched
  <2>. DEFINE d == [req[r] EXCEPT !.phase = "backoff"]
  <2>1. req[r] \in Dispatch /\ req[r].phase = "flight" /\ req' = [req EXCEPT ![r] = d]
    BY <1>4 DEF PauseBeforeRetry, TypeOK
  <2>2. /\ d.phase = "backoff" /\ d.chain = req[r].chain
        /\ d.pos = req[r].pos /\ d.retries = req[r].retries
    BY <2>1 DEF Dispatch
  <2>3. req[r].retries = 0
    BY <1>4, <2>1 DEF PauseBeforeRetry, SAME_PROVIDER_RETRIES, Dispatch
  <2>. HIDE DEF d
  <2>. QED
    BY <1>4, <2>1, <2>2, <2>3, NothingOwed DEF PauseBeforeRetry, MeterUntouched, Flying
<1>5. ASSUME NEW r \in Requests, NEW e, FallBack(r, e) PROVE CallsPlaced' /\ MeterUntouched
  <2>1. MoveOn(r, "retryable_error", Failed(e)).phase = "loop"
    BY DEF MoveOn, TypeOK, Dispatch
  <2>. QED
    BY <1>5, <2>1, NothingOwed DEF FallBack, MeterUntouched
<1>6. ASSUME NEW r \in Requests, NEW e, FailFatally(r, e) PROVE CallsPlaced' /\ MeterUntouched
  <2>. DEFINE d == [req[r] EXCEPT !.phase = "failed", !.last_err = Failed(e),
                                  !.trail = Append(@, "error")]
  <2>1. d.phase = "failed" /\ req' = [req EXCEPT ![r] = d]
    BY <1>6 DEF FailFatally, TypeOK, Dispatch
  <2>. QED
    BY <1>6, <2>1, NothingOwed DEF FailFatally, MeterUntouched
<1>7. ASSUME NEW r \in Requests, NEW n, AnswerChat(r, n) PROVE CallsPlaced' /\ MeterUntouched
  <2>. DEFINE d == [Answered(r, "served") EXCEPT !.seen = n]
  <2>1. d.phase = "served"
    BY DEF Answered, TypeOK, Dispatch
  <2>. QED
    BY <1>7, <2>1, NothingOwed DEF AnswerChat, MeterUntouched
<1>8. ASSUME NEW r \in Requests, OpenStream(r) PROVE CallsPlaced' /\ MeterUntouched
  <2>. DEFINE d == Answered(r, "streaming")
  <2>1. /\ d.phase = "streaming" /\ d.chain = req[r].chain
        /\ d.pos = req[r].pos /\ d.retries = req[r].retries
    BY DEF Answered, TypeOK, Dispatch
  <2>2. req[r].phase = "flight" /\ req' = [req EXCEPT ![r] = d]
    BY <1>8 DEF OpenStream
  <2>. HIDE DEF d
  <2>. QED
    BY <1>8, <2>1, <2>2, NothingOwed DEF OpenStream, MeterUntouched, Flying
<1>9. ASSUME NEW r \in Requests, AnswerEmbeddings(r) PROVE CallsPlaced' /\ MeterUntouched
  <2>1. Answered(r, "served").phase = "served"
    BY DEF Answered, TypeOK, Dispatch
  <2>. QED
    BY <1>9, <2>1, NothingOwed DEF AnswerEmbeddings, MeterUntouched
<1>10. ASSUME NEW r \in Requests, NEW n, UsageChunk(r, n) PROVE CallsPlaced' /\ MeterUntouched
  <2>. DEFINE d == [req[r] EXCEPT !.seen = n]
  <2>1. /\ req[r].phase = "streaming" /\ d.phase = "streaming" /\ d.chain = req[r].chain
        /\ d.pos = req[r].pos /\ d.retries = req[r].retries /\ req' = [req EXCEPT ![r] = d]
    BY <1>10 DEF UsageChunk, TypeOK, Dispatch
  <2>. HIDE DEF d
  <2>. QED
    BY <1>10, <2>1, NothingOwed DEF UsageChunk, MeterUntouched, Flying
<1>11. ASSUME NEW r \in Requests, CloseStream(r) \/ Abandon(r) PROVE CallsPlaced' /\ MeterUntouched
  <2>1. PICK phase \in {"served", "abandoned"} : req' = [req EXCEPT ![r].phase = phase]
    BY <1>11 DEF CloseStream, Abandon
  <2>. DEFINE d == [req[r] EXCEPT !.phase = phase]
  <2>2. d.phase \in {"served", "abandoned"} /\ req' = [req EXCEPT ![r] = d]
    BY <2>1 DEF TypeOK, Dispatch
  <2>. HIDE DEF d
  <2>. QED
    BY <1>11, <2>2, NothingOwed DEF CloseStream, Abandon, MeterUntouched
<1>12. ASSUME NEW r \in Requests, Exhaust(r) PROVE CallsPlaced' /\ MeterUntouched
  <2>. DEFINE e == IF req[r].last_err = None THEN Failed("invalid_model") ELSE req[r].last_err
              d == [req[r] EXCEPT !.phase = "failed", !.last_err = e]
  <2>1. d.phase = "failed" /\ req' = [req EXCEPT ![r] = d]
    BY <1>12 DEF Exhaust, TypeOK, Dispatch
  <2>. HIDE DEF d
  <2>. QED
    BY <1>12, <2>1, NothingOwed DEF Exhaust, MeterUntouched
<1>13. CASE UNCHANGED vars
  BY <1>13 DEF vars, CallsPlaced, MeterUntouched, Owing, Flying, Provider, Candidate
<1>. QED
  BY <1>1, <1>2, <1>3, <1>4, <1>5, <1>6, <1>7, <1>8, <1>9, <1>10, <1>11, <1>12, <1>13
  DEF Next, RouterStep, ProviderStep

(* Only the first call of a candidate and its retry move the count.        *)
LEMMA CallOwesOne ==
  ASSUME TypeOK, NEW r \in Requests, Call(r)
  PROVE  /\ Provider(r) \in Providers
         /\ \A p \in Providers :
              Owing(p)' \subseteq IF p = Provider(r) THEN Owing(p) \cup {r} ELSE Owing(p)
<1>1. req'[r] = [req[r] EXCEPT !.phase = "flight"] /\ \A q \in Requests \ {r} : req'[q] = req[q]
  BY DEF Call, TypeOK
<1>2. req'[r].chain = req[r].chain /\ req'[r].pos = req[r].pos
  BY <1>1 DEF TypeOK, Dispatch
<1>3. Provider(r) \in Providers
  BY AtCandidatePlaced, ProviderType DEF Call
<1>. QED
  BY <1>1, <1>2, <1>3 DEF Owing, Flying, Provider, Candidate

LEMMA RetryOwesOneLess ==
  ASSUME TypeOK, CallsPlaced, NEW r \in Requests, Retry(r)
  PROVE  /\ Provider(r) \in Providers
         /\ r \in Owing(Provider(r))
         /\ \A p \in Providers : Owing(p)' \subseteq Owing(p) \ {r}
<1>1. req[r] \in Dispatch /\ req[r].phase = "backoff" /\ req[r].retries = 0
  BY DEF Retry, TypeOK, CallsPlaced
<1>2. req'[r].retries = 1 /\ \A q \in Requests \ {r} : req'[q] = req[q]
  BY <1>1 DEF Retry, TypeOK, Dispatch
<1>3. Provider(r) \in Providers
  BY <1>1, ProviderType DEF CallsPlaced, Flying
<1>. QED
  BY <1>1, <1>2, <1>3 DEF Owing, Flying, Provider, Candidate

LEMMA OwingFinite ==
  ASSUME NEW p PROVE IsFiniteSet(Owing(p)) /\ Cardinality(Owing(p)) \in Nat
<1>1. Owing(p) \in SUBSET Requests
  BY DEF Owing
<1>2. IsFiniteSet(Owing(p))
  BY <1>1, FS_Subset, DispatchAssumption
<1>. QED
  BY <1>2, FS_CardinalityType

LEMMA CountTypes ==
  ASSUME TypeOK, NEW p \in Limited
  PROVE  calls[p] \in Nat /\ tokens[p] \in Nat /\ refills[p] \in Nat /\ Capacity[p] \in Nat
BY DispatchAssumption DEF TypeOK

LEMMA RetriesStep ==
  ASSUME IInv, TypeOK', [Next]_vars PROVE CallsPlaced' /\ RetriesCounted'
<1>. USE DEF IInv
<1>1. ASSUME NEW r \in Requests, Call(r) PROVE CallsPlaced' /\ RetriesCounted'
  <2>1. CallsPlaced'
    <3>1. req[r].pos \in DOMAIN req[r].chain
      BY <1>1, AtCandidatePlaced DEF Call
    <3>2. /\ req'[r].pos = req[r].pos /\ req'[r].chain = req[r].chain /\ req'[r].phase = "flight"
          /\ \A q \in Requests \ {r} : req'[q] = req[q]
      BY <1>1 DEF Call, TypeOK, Dispatch
    <3> QED  BY <3>1, <3>2 DEF CallsPlaced, Flying
  <2>2. ASSUME NEW p \in Limited
        PROVE calls'[p] + 2 * tokens'[p] + Cardinality(Owing(p)')
                <= 2 * (Capacity[p] + refills'[p])
    <3>1. p \in Providers
      BY DispatchAssumption
    <3>2. CASE p = Provider(r)
      <4>1. Owing(p)' \in SUBSET (Owing(p) \cup {r})
        BY <1>1, <3>1, <3>2, CallOwesOne
      <4>2. Cardinality(Owing(p)') <= Cardinality(Owing(p)) + 1 /\ Cardinality(Owing(p)') \in Nat
        <5>1. /\ IsFiniteSet(Owing(p) \cup {r})
              /\ Cardinality(Owing(p) \cup {r}) <= Cardinality(Owing(p)) + 1
              /\ Cardinality(Owing(p) \cup {r}) \in Nat
          <6>1. /\ IsFiniteSet(Owing(p) \cup {r})
                /\ Cardinality(Owing(p) \cup {r})
                     = IF r \in Owing(p) THEN Cardinality(Owing(p)) ELSE Cardinality(Owing(p)) + 1
            BY OwingFinite, FS_AddElement
          <6>2. Cardinality(Owing(p)) \in Nat
            BY OwingFinite
          <6>. QED
            BY <6>1, <6>2
        <5>. QED
          BY <4>1, <5>1, OwingFinite, FS_Subset, FS_CardinalityType
      <4>3. calls'[p] = calls[p] + 1 /\ tokens'[p] = tokens[p] - 1 /\ refills'[p] = refills[p]
        BY <1>1, <3>1, <3>2 DEF Call, TypeOK
      <4>. QED
        BY <4>2, <4>3, OwingFinite, CountTypes DEF RetriesCounted
    <3>3. CASE p # Provider(r)
      <4>1. Owing(p)' \in SUBSET Owing(p)
        BY <1>1, <3>1, <3>3, CallOwesOne
      <4>2. Cardinality(Owing(p)') <= Cardinality(Owing(p)) /\ Cardinality(Owing(p)') \in Nat
        BY <4>1, OwingFinite, FS_Subset, FS_CardinalityType
      <4>3. calls'[p] = calls[p] /\ tokens'[p] = tokens[p] /\ refills'[p] = refills[p]
        BY <1>1, <3>1, <3>3, CountTypes DEF Call, TypeOK
      <4>. QED
        BY <4>2, <4>3, OwingFinite, CountTypes DEF RetriesCounted
    <3>. QED
      BY <3>2, <3>3
  <2>. QED
    BY <2>1, <2>2 DEF RetriesCounted
<1>2. ASSUME NEW r \in Requests, Retry(r) PROVE CallsPlaced' /\ RetriesCounted'
  <2>1. CallsPlaced'
    <3>1. req[r] \in Dispatch /\ req[r].pos \in DOMAIN req[r].chain
      BY <1>2 DEF Retry, CallsPlaced, Flying, TypeOK
    <3>2. /\ req'[r].phase = "flight" /\ req'[r].pos = req[r].pos /\ req'[r].chain = req[r].chain
          /\ \A q \in Requests \ {r} : req'[q] = req[q]
      BY <1>2, <3>1 DEF Retry, TypeOK, Dispatch
    <3>. QED
      BY <3>1, <3>2 DEF CallsPlaced, Flying
  <2>2. ASSUME NEW p \in Limited
        PROVE calls'[p] + 2 * tokens'[p] + Cardinality(Owing(p)')
                <= 2 * (Capacity[p] + refills'[p])
    <3>1. p \in Providers /\ Owing(p)' \in SUBSET (Owing(p) \ {r})
      BY <1>2, DispatchAssumption, RetryOwesOneLess
    <3>2. /\ IsFiniteSet(Owing(p) \ {r}) /\ Cardinality(Owing(p) \ {r}) \in Nat
          /\ Cardinality(Owing(p) \ {r})
                = IF r \in Owing(p) THEN Cardinality(Owing(p)) - 1 ELSE Cardinality(Owing(p))
      BY OwingFinite, FS_RemoveElement, FS_CardinalityType
    <3>3. /\ Cardinality(Owing(p)') <= Cardinality(Owing(p) \ {r})
          /\ Cardinality(Owing(p)') \in Nat
      BY <3>1, <3>2, FS_Subset, FS_CardinalityType
    <3>4. tokens'[p] = tokens[p] /\ refills'[p] = refills[p]
      BY <1>2 DEF Retry
    <3>5. CASE p = Provider(r)
      <4>1. calls'[p] = calls[p] + 1
        BY <1>2, <3>1, <3>5 DEF Retry, TypeOK
      <4>2. r \in Owing(p)
        BY <1>2, <3>5, RetryOwesOneLess
      <4>. QED
        BY <3>2, <3>3, <3>4, <4>1, <4>2, OwingFinite, CountTypes DEF RetriesCounted
    <3>6. CASE p # Provider(r)
      <4>1. calls'[p] = calls[p]
        BY <1>2, <3>1, <3>6 DEF Retry, TypeOK
      <4>. QED
        BY <3>2, <3>3, <3>4, <4>1, OwingFinite, CountTypes DEF RetriesCounted
    <3>. QED
      BY <3>5, <3>6
  <2>. QED
    BY <2>1, <2>2 DEF RetriesCounted
<1>3. ASSUME NEW q \in Limited, Refill(q) PROVE CallsPlaced' /\ RetriesCounted'
  <2>1. CallsPlaced' /\ \A p \in Limited : Owing(p)' = Owing(p)
    BY <1>3 DEF Refill, CallsPlaced, Owing, Flying, Provider, Candidate
  <2>2. ASSUME NEW p \in Limited
        PROVE calls'[p] + 2 * tokens'[p] + Cardinality(Owing(p)')
                <= 2 * (Capacity[p] + refills'[p])
    <3>1. /\ calls'[p] = calls[p]
          /\ \/ p = q /\ tokens'[p] = tokens[p] + 1 /\ refills'[p] = refills[p] + 1
             \/ tokens'[p] = tokens[p] /\ refills'[p] = refills[p]
      BY <1>3 DEF Refill, TypeOK
    <3>. QED
      BY <2>1, <3>1, OwingFinite, CountTypes DEF RetriesCounted
  <2>. QED
    BY <2>1, <2>2 DEF RetriesCounted
<1>4. CASE /\ \A r \in Requests : ~Call(r) /\ ~Retry(r)
           /\ \A p \in Limited : ~Refill(p)
  <2>1. CallsPlaced' /\ MeterUntouched
    BY <1>4, UncountedSteps
  <2>2. ASSUME NEW p \in Limited
        PROVE calls'[p] + 2 * tokens'[p] + Cardinality(Owing(p)')
                <= 2 * (Capacity[p] + refills'[p])
    <3>1. Owing(p)' \in SUBSET Owing(p)
      BY <2>1, DispatchAssumption DEF MeterUntouched
    <3>2. Cardinality(Owing(p)') <= Cardinality(Owing(p)) /\ Cardinality(Owing(p)') \in Nat
      BY <3>1, OwingFinite, FS_Subset, FS_CardinalityType
    <3>. QED
      BY <2>1, <3>2, OwingFinite, CountTypes DEF RetriesCounted, MeterUntouched
  <2>. QED
    BY <2>1, <2>2 DEF RetriesCounted
<1>. QED
  BY <1>1, <1>2, <1>3, <1>4

LEMMA InitEstablishes == Init => IInv
<1>. SUFFICES ASSUME Init PROVE IInv
  OBVIOUS
<1>1. TypeOK
  <2>1. None \in {"up", "down", None} /\ 0 \in Nat
    OBVIOUS
  <2>2. \A p \in Limited : Capacity[p] \in Nat /\ Capacity[p] <= Capacity[p]
    BY DispatchAssumption
  <2>. QED
    BY <2>1, <2>2, NewDispatchType, DispatchAssumption DEF Init, TypeOK
<1>2. \A r \in Requests : req[r].phase = "new"
  BY DEF Init, NewDispatch
<1>3. CallsPlaced
  BY <1>2 DEF CallsPlaced, Flying
<1>4. \A p \in Limited : Owing(p) = {}
  BY <1>2 DEF Owing, Flying
<1>5. RetriesCounted
  <2>1. ASSUME NEW p \in Limited
        PROVE calls[p] + 2 * tokens[p] + Cardinality(Owing(p)) <= 2 * (Capacity[p] + refills[p])
    <3>1. calls[p] = 0 /\ tokens[p] = Capacity[p] /\ refills[p] = 0 /\ Capacity[p] \in Nat
      BY DispatchAssumption DEF Init
    <3>2. Cardinality(Owing(p)) = 0
      BY <1>4, FS_EmptySet
    <3>. QED
      BY <3>1, <3>2
  <2>. QED
    BY <2>1 DEF RetriesCounted
<1>. QED
  BY <1>1, <1>3, <1>5 DEF IInv

LEMMA IInvInductive == Init /\ [][Next]_vars => []IInv
<1>1. IInv /\ [Next]_vars => IInv'
  BY TypeStep, RetriesStep DEF IInv
<1>. QED
  BY <1>1, InitEstablishes, PTL

(* The dispatch keeps its types, for any requests, chains and buckets.     *)
THEOREM TypeInvariant == Spec => []TypeOK
<1>1. IInv => TypeOK
  BY DEF IInv
<1>. QED
  BY <1>1, IInvInductive, PTL DEF Spec

LEMMA IInvMeters == IInv => CallsMetered
<1>. SUFFICES ASSUME IInv, NEW p \in Limited
              PROVE  calls[p] + 2 * tokens[p] <= 2 * (Capacity[p] + refills[p])
  BY DEF CallsMetered, SAME_PROVIDER_RETRIES
<1>. QED
  BY OwingFinite, CountTypes DEF IInv, RetriesCounted

(* However many requests share a bucket and however their retries          *)
(* interleave, a provider gets no more calls than its tokens and one retry *)
(* for each.                                                               *)
THEOREM CallsAreMetered == Spec => []CallsMetered
BY IInvMeters, IInvInductive, PTL DEF Spec

-----------------------------------------------------------------------------
(* Why a request fails.  NoNeedlessFailure speaks of failed requests only; *)
(* the invariant follows the others along their chain: what each candidate *)
(* passed so far was counted as, and that the error kept is the last one's. *)
Passed == {"not_configured", "rate_limited", "retryable_error"}

LastErrorKept(d) ==
  /\ d.last_err \in Failure
  /\ \/ Last(d.trail) = "retryable_error" /\ d.last_err.error \in Retryable
     \/ Last(d.trail) = "not_configured" /\ d.last_err.error = "not_configured"
     \/ Last(d.trail) = "rate_limited" /\ d.last_err.error = "rate_limited"
                                       /\ d.last_err.retry_after > 0

OnItsWay(d) ==
  /\ Len(d.trail) = d.pos - 1 /\ d.pos <= Len(d.chain) + 1
  /\ \A i \in DOMAIN d.trail : d.trail[i] \in Passed
  /\ d.trail # <<>> => LastErrorKept(d)

FailedRightly(d) ==
  \/ d.last_err.error \in Fatal /\ Last(d.trail) = "error"
  \/ /\ Len(d.trail) = Len(d.chain)
     /\ \A i \in DOMAIN d.trail : d.trail[i] \in Passed
     /\ d.chain # <<>> => LastErrorKept(d)

RightSoFar(d) ==
  /\ d.phase \in {"loop", "flight", "backoff"} => OnItsWay(d)
  /\ d.phase = "failed" => FailedRightly(d)

TrailsInv == \A r \in Requests : RightSoFar(req[r])

(* A step that replaces one dispatch by a right one leaves all right.      *)
LEMMA TrailReplaced ==
  ASSUME TypeOK, TrailsInv, NEW r \in Requests, NEW d, RightSoFar(d),
         req' = [req EXCEPT ![r] = d]
  PROVE  TrailsInv'
<1>1. ASSUME NEW q \in Requests PROVE RightSoFar(req'[q])
  BY <1>1 DEF TypeOK, TrailsInv
<1>2. ASSUME NEW q \in Requests PROVE RightSoFar(req[q])' <=> RightSoFar(req'[q])
  BY DEF RightSoFar, OnItsWay, FailedRightly, LastErrorKept
<1>. QED
  BY <1>1, <1>2 DEF TrailsInv

(* Moving on counts the candidate and keeps its error.                     *)
LEMMA MoveOnRight ==
  ASSUME TypeOK, TrailsInv, NEW r \in Requests, NEW outcome \in Passed, NEW f \in Failure,
         req[r].phase \in {"loop", "flight"}, req[r].pos \in DOMAIN req[r].chain,
         \/ outcome = "retryable_error" /\ f.error \in Retryable
         \/ outcome = "not_configured" /\ f.error = "not_configured"
         \/ outcome = "rate_limited" /\ f.error = "rate_limited" /\ f.retry_after > 0
  PROVE  RightSoFar(MoveOn(r, outcome, f))
<1>. DEFINE q == req[r]
            d == MoveOn(r, outcome, f)
<1>1. /\ q \in Dispatch /\ OnItsWay(q) /\ q.trail \in Seq(Counted) /\ q.pos \in Nat \ {0}
      /\ q.chain \in Seq(Candidates)
  BY DEF TypeOK, TrailsInv, RightSoFar, Dispatch
<1>2. /\ d.phase = "loop" /\ d.pos = q.pos + 1 /\ d.last_err = f /\ d.chain = q.chain
      /\ d.trail = Append(q.trail, outcome)
  BY <1>1 DEF MoveOn, Dispatch
<1>. HIDE DEF q, d
<1>3. /\ Len(d.trail) = Len(q.trail) + 1 /\ Last(d.trail) = outcome
      /\ \A i \in DOMAIN d.trail : d.trail[i] = outcome \/
                                   (i \in DOMAIN q.trail /\ d.trail[i] = q.trail[i])
  BY <1>1, <1>2 DEF Last
<1>4. LastErrorKept(d)
  BY <1>2, <1>3 DEF LastErrorKept
<1>5. q.pos <= Len(q.chain)
  BY <1>1 DEF q
<1>6. OnItsWay(d)
  BY <1>1, <1>2, <1>3, <1>4, <1>5 DEF OnItsWay
<1>. QED
  BY <1>2, <1>6 DEF RightSoFar, d

(* A call, its pause and its retry stay at the candidate.                  *)
LEMMA SamePlaceRight ==
  ASSUME TypeOK, TrailsInv, NEW r \in Requests,
         req[r].phase \in {"loop", "flight", "backoff"},
         NEW d, d.phase \in {"loop", "flight", "backoff"},
         d.trail = req[r].trail, d.pos = req[r].pos, d.chain = req[r].chain,
         d.last_err = req[r].last_err
  PROVE  RightSoFar(d)
BY DEF TrailsInv, RightSoFar, OnItsWay, LastErrorKept

LEMMA TrailsStep == IInv /\ TrailsInv /\ [Next]_vars => TrailsInv'
<1>. SUFFICES ASSUME IInv, TrailsInv, [Next]_vars PROVE TrailsInv'
  OBVIOUS
<1>. USE DEF IInv
<1>1. ASSUME NEW r \in Requests, Start(r) PROVE TrailsInv'
  <2>1. PICK kind \in Kinds, chain \in Chains :
          req' = [req EXCEPT ![r] = [NewDispatch EXCEPT !.phase = "loop", !.kind = kind,
                                                        !.chain = chain]]
    BY <1>1 DEF Start
  <2>. DEFINE d == [NewDispatch EXCEPT !.phase = "loop", !.kind = kind, !.chain = chain]
  <2>2. d.phase = "loop" /\ d.pos = 1 /\ d.trail = <<>> /\ d.chain \in Seq(Candidates)
    BY DispatchAssumption DEF NewDispatch
  <2>3. RightSoFar(d)
    BY <2>2 DEF RightSoFar, OnItsWay
  <2>. QED
    BY <2>1, <2>3, TrailReplaced
<1>2. ASSUME NEW r \in Requests, NEW outcome \in Passed, NEW f \in Failure,
             req[r].phase \in {"loop", "flight"}, req[r].pos \in DOMAIN req[r].chain,
             \/ outcome = "retryable_error" /\ f.error \in Retryable
             \/ outcome = "not_configured" /\ f.error = "not_configured"
             \/ outcome = "rate_limited" /\ f.error = "rate_limited" /\ f.retry_after > 0,
             req' = [req EXCEPT ![r] = MoveOn(r, outcome, f)]
      PROVE  TrailsInv'
  BY <1>2, MoveOnRight, TrailReplaced
<1>3. ASSUME NEW r \in Requests, SkipUnconfigured(r) PROVE TrailsInv'
  <2>1. Failed("not_configured") \in Failure
    BY FailedType DEF RouterError, RouterOnlyError
  <2>. QED
    BY <1>2, <1>3, <2>1, AtCandidatePlaced DEF SkipUnconfigured, AtCandidate, Failed, Passed
<1>4. ASSUME NEW r \in Requests, NEW wait, SkipThrottled(r, wait) PROVE TrailsInv'
  <2>1. wait \in Nat /\ wait > 0
    BY <1>4 DEF SkipThrottled
  <2>2. [error |-> "rate_limited", retry_after |-> wait] \in Failure
    BY <2>1 DEF Failure, RouterError, ProviderError, Retryable
  <2>. QED
    BY <1>2, <1>4, <2>1, <2>2, AtCandidatePlaced DEF SkipThrottled, AtCandidate, Passed
<1>5. ASSUME NEW r \in Requests, NEW e \in Outcomes, FallBack(r, e) PROVE TrailsInv'
  <2>1. Failed(e) \in Failure
    BY FailedType, DispatchAssumption DEF RouterError
  <2>2. req[r].pos \in DOMAIN req[r].chain
    BY <1>5 DEF FallBack, CallsPlaced, Flying
  <2>. QED
    BY <1>2, <1>5, <2>1, <2>2 DEF FallBack, Failed, IsRetryable, Passed
<1>6. ASSUME NEW r \in Requests, Call(r) PROVE TrailsInv'
  <2>. DEFINE d == [req[r] EXCEPT !.phase = "flight"]
  <2>1. /\ d.phase = "flight" /\ d.trail = req[r].trail /\ d.pos = req[r].pos
        /\ d.chain = req[r].chain /\ d.last_err = req[r].last_err
    BY DEF TypeOK, Dispatch
  <2>2. req[r].phase = "loop" /\ req' = [req EXCEPT ![r] = d]
    BY <1>6 DEF Call, AtCandidate
  <2>. HIDE DEF d
  <2>3. RightSoFar(d)
    BY <2>1, <2>2, SamePlaceRight
  <2>. QED
    BY <2>2, <2>3, TrailReplaced
<1>7. ASSUME NEW r \in Requests, NEW e \in Outcomes, PauseBeforeRetry(r, e)
      PROVE  TrailsInv'
  <2>. DEFINE d == [req[r] EXCEPT !.phase = "backoff"]
  <2>1. /\ d.phase = "backoff" /\ d.trail = req[r].trail /\ d.pos = req[r].pos
        /\ d.chain = req[r].chain /\ d.last_err = req[r].last_err
    BY DEF TypeOK, Dispatch
  <2>2. req[r].phase = "flight" /\ req' = [req EXCEPT ![r] = d]
    BY <1>7 DEF PauseBeforeRetry
  <2>. HIDE DEF d
  <2>3. RightSoFar(d)
    BY <2>1, <2>2, SamePlaceRight
  <2>. QED
    BY <2>2, <2>3, TrailReplaced
<1>8. ASSUME NEW r \in Requests, Retry(r) PROVE TrailsInv'
  <2>. DEFINE d == [req[r] EXCEPT !.phase = "flight", !.retries = @ + 1]
  <2>1. /\ d.phase = "flight" /\ d.trail = req[r].trail /\ d.pos = req[r].pos
        /\ d.chain = req[r].chain /\ d.last_err = req[r].last_err
    BY DEF TypeOK, Dispatch
  <2>2. req[r].phase = "backoff" /\ req' = [req EXCEPT ![r] = d]
    BY <1>8 DEF Retry
  <2>. HIDE DEF d
  <2>3. RightSoFar(d)
    BY <2>1, <2>2, SamePlaceRight
  <2>. QED
    BY <2>2, <2>3, TrailReplaced
(* A refusal for good is the answer.                                       *)
<1>9. ASSUME NEW r \in Requests, NEW e \in Outcomes, FailFatally(r, e) PROVE TrailsInv'
  <2>. DEFINE d == [req[r] EXCEPT !.phase = "failed", !.last_err = Failed(e),
                                  !.trail = Append(@, "error")]
  <2>1. req[r].trail \in Seq(Counted) /\ e \in Fatal
    BY <1>9, DispatchAssumption DEF TypeOK, Dispatch, FailFatally, IsRetryable, ProviderError
  <2>2. d.phase = "failed" /\ d.last_err = Failed(e) /\ d.trail = Append(req[r].trail, "error")
    BY DEF TypeOK, Dispatch
  <2>3. Last(d.trail) = "error" /\ d.last_err.error = e
    BY <2>1, <2>2 DEF Last, Failed
  <2>4. RightSoFar(d)
    BY <2>1, <2>2, <2>3 DEF RightSoFar, FailedRightly
  <2>. QED
    BY <1>9, <2>4, TrailReplaced DEF FailFatally
(* The chain is exhausted when every candidate was passed.                 *)
<1>10. ASSUME NEW r \in Requests, Exhaust(r) PROVE TrailsInv'
  <2>. DEFINE q == req[r]
              d == [req[r] EXCEPT !.phase = "failed",
                         !.last_err = IF @ = None THEN Failed("invalid_model") ELSE @]
  <2>1. /\ q \in Dispatch /\ OnItsWay(q) /\ q.trail \in Seq(Counted) /\ q.pos \in Nat
        /\ q.chain \in Seq(Candidates) /\ q.pos > Len(q.chain)
    BY <1>10 DEF TypeOK, Dispatch, Exhaust, TrailsInv, RightSoFar
  <2>2. /\ d.phase = "failed" /\ d.trail = q.trail /\ d.chain = q.chain
        /\ q.last_err \in Failure => d.last_err = q.last_err
    BY <2>1, DispatchAssumption DEF Dispatch, Failure
  <2>. HIDE DEF q, d
  <2>3. Len(q.trail) = Len(q.chain) /\ (q.chain # <<>> => LastErrorKept(q))
    BY <2>1 DEF OnItsWay
  <2>4. FailedRightly(d)
    BY <2>1, <2>2, <2>3 DEF FailedRightly, OnItsWay, LastErrorKept
  <2>5. RightSoFar(d)
    BY <2>2, <2>4 DEF RightSoFar
  <2>. QED
    BY <1>10, <2>5, TrailReplaced DEF Exhaust, d
(* What is answered, streamed or abandoned is past its chain.              *)
<1>11. ASSUME NEW r \in Requests,
              \/ \E n \in 0..MaxTokens : AnswerChat(r, n)
              \/ \E n \in 1..MaxTokens : UsageChunk(r, n)
              \/ OpenStream(r) \/ AnswerEmbeddings(r) \/ CloseStream(r) \/ Abandon(r)
       PROVE  TrailsInv'
  <2>1. req[r] \in Dispatch
    BY DEF TypeOK
  <2>2. ASSUME NEW n, AnswerChat(r, n) PROVE TrailsInv'
    <3>. DEFINE d == [Answered(r, "served") EXCEPT !.seen = n]
    <3>1. d.phase = "served"
      BY <2>1 DEF Answered, Dispatch
    <3>2. req' = [req EXCEPT ![r] = d]
      BY <2>2 DEF AnswerChat
    <3>. HIDE DEF d
    <3>3. RightSoFar(d)
      BY <3>1, <3>2 DEF RightSoFar
    <3>. QED
      BY <3>2, <3>3, TrailReplaced
  <2>3. ASSUME NEW n, UsageChunk(r, n) PROVE TrailsInv'
    <3>. DEFINE d == [req[r] EXCEPT !.seen = n]
    <3>1. d.phase = "streaming" /\ req' = [req EXCEPT ![r] = d]
      BY <2>1, <2>3 DEF UsageChunk, Dispatch
    <3>. HIDE DEF d
    <3>2. RightSoFar(d)
      BY <3>1 DEF RightSoFar
    <3>. QED
      BY <3>1, <3>2, TrailReplaced
  <2>4. ASSUME NEW phase \in {"streaming", "served"},
               req' = [req EXCEPT ![r] = Answered(r, phase)]
        PROVE  TrailsInv'
    <3>1. Answered(r, phase).phase = phase
      BY <2>1 DEF Answered, Dispatch
    <3>2. RightSoFar(Answered(r, phase))
      BY <3>1 DEF RightSoFar
    <3>. QED
      BY <2>4, <3>2, TrailReplaced
  <2>5. CASE OpenStream(r) \/ AnswerEmbeddings(r)
    BY <2>4, <2>5 DEF OpenStream, AnswerEmbeddings
  <2>6. CASE CloseStream(r) \/ Abandon(r)
    <3>1. PICK phase \in {"served", "abandoned"} : req' = [req EXCEPT ![r].phase = phase]
      BY <2>6 DEF CloseStream, Abandon
    <3>. DEFINE d == [req[r] EXCEPT !.phase = phase]
    <3>2. d.phase = phase /\ req' = [req EXCEPT ![r] = d]
      BY <2>1, <3>1 DEF Dispatch
    <3>. HIDE DEF d
    <3>3. RightSoFar(d)
      BY <3>1, <3>2 DEF RightSoFar
    <3>. QED
      BY <3>2, <3>3, TrailReplaced
  <2>. QED
    BY <1>11, <2>2, <2>3, <2>5, <2>6
<1>12. ASSUME UNCHANGED req PROVE TrailsInv'
  BY <1>12 DEF TrailsInv, RightSoFar, OnItsWay, FailedRightly, LastErrorKept
<1>13. (\E p \in Limited : Refill(p)) \/ UNCHANGED vars => UNCHANGED req
  BY DEF Refill, vars
<1>. QED
  BY <1>1, <1>3, <1>4, <1>5, <1>6, <1>7, <1>8, <1>9, <1>10, <1>11, <1>12, <1>13
  DEF Next, RouterStep, ProviderStep

LEMMA TrailsInit == Init => TrailsInv
<1>. SUFFICES ASSUME Init PROVE TrailsInv
  OBVIOUS
<1>1. \A r \in Requests : req[r].phase = "new"
  BY DEF Init, NewDispatch
<1>. QED
  BY <1>1 DEF TrailsInv, RightSoFar

LEMMA TrailsInductive == Init /\ [][Next]_vars => [](IInv /\ TrailsInv)
BY TrailsInit, TrailsStep, IInvInductive, PTL

LEMMA TrailsSuffice == TrailsInv => NoNeedlessFailure
BY DEF TrailsInv, RightSoFar, FailedRightly, LastErrorKept, Passed, NoNeedlessFailure

(* No request fails while a candidate of its chain is untried, unless one  *)
(* refused it for good, and its answer is the last candidate's error.      *)
THEOREM FailuresAreNeeded == Spec => []NoNeedlessFailure
BY TrailsInductive, TrailsSuffice, PTL DEF Spec

-----------------------------------------------------------------------------
(* The outcome a step counts last decides the uptime sample it leaves.     *)
SampledByCall(c) ==
  \E r \in Requests :
    /\ req[r].phase = "flight" /\ req'[r].phase # "flight" /\ Candidate(r) = c
    /\ health'[c] = IF Last(req'[r].trail) = "success" THEN "up" ELSE "down"

LEMMA LastAppended ==
  ASSUME NEW S, NEW s \in Seq(S), NEW x \in S
  PROVE  Last(Append(s, x)) = x
BY DEF Last

(* A call of r ends with an outcome and leaves that sample or none.        *)
LEMMA OutcomeSampled ==
  ASSUME IInv, NEW r \in Requests, req[r].phase = "flight",
         NEW outcome \in Counted, NEW d, req' = [req EXCEPT ![r] = d],
         d.phase # "flight", d.trail = Append(req[r].trail, outcome),
         health' = HealthSample(r, IF outcome = "success" THEN "up" ELSE "down")
  PROVE  \A c \in Candidates : health'[c] # health[c] => SampledByCall(c)
<1>. SUFFICES ASSUME NEW c \in Candidates, health'[c] # health[c] PROVE SampledByCall(c)
  OBVIOUS
<1>1. req[r] \in Dispatch /\ req[r].trail \in Seq(Counted)
  BY DEF IInv, TypeOK, Dispatch
<1>2. Last(d.trail) = outcome
  BY <1>1, LastAppended
<1>3. req'[r] = d
  BY DEF IInv, TypeOK
<1>4. req[r].pos \in DOMAIN req[r].chain
  BY DEF IInv, CallsPlaced, Flying
<1>5. Candidate(r) \in Candidates
  BY <1>4, ProviderType DEF IInv
<1>6. /\ Candidate(r) = c
      /\ health'[c] = IF outcome = "success" THEN "up" ELSE "down"
  BY <1>5 DEF HealthSample, IInv, TypeOK
<1>. QED
  BY <1>2, <1>3, <1>6 DEF SampledByCall

LEMMA SamplesStep ==
  IInv /\ [Next]_vars => \A c \in Candidates : health'[c] # health[c] => SampledByCall(c)
<1>. SUFFICES ASSUME IInv, [Next]_vars
              PROVE  \A c \in Candidates : health'[c] # health[c] => SampledByCall(c)
  OBVIOUS
<1>. DEFINE Sampled == \A c \in Candidates : health'[c] # health[c] => SampledByCall(c)
<1>1. ASSUME NEW r \in Requests PROVE req[r] \in Dispatch
  BY DEF IInv, TypeOK
<1>2. ASSUME NEW r \in Requests, NEW e \in Outcomes, FallBack(r, e) PROVE Sampled
  <2>. DEFINE d == MoveOn(r, "retryable_error", Failed(e))
  <2>1. d.phase = "loop" /\ d.trail = Append(req[r].trail, "retryable_error")
    BY <1>1 DEF MoveOn, Dispatch
  <2>2. req' = [req EXCEPT ![r] = d] /\ req[r].phase = "flight"
        /\ health' = HealthSample(r, "down")
    BY <1>2 DEF FallBack
  <2>. HIDE DEF d
  <2>. QED
    BY <2>1, <2>2, OutcomeSampled DEF Counted
<1>3. ASSUME NEW r \in Requests, NEW e \in Outcomes, FailFatally(r, e) PROVE Sampled
  <2>. DEFINE d == [req[r] EXCEPT !.phase = "failed", !.last_err = Failed(e),
                                  !.trail = Append(@, "error")]
  <2>1. d.phase = "failed" /\ d.trail = Append(req[r].trail, "error")
    BY <1>1 DEF Dispatch
  <2>2. req' = [req EXCEPT ![r] = d] /\ req[r].phase = "flight"
        /\ health' = HealthSample(r, "down")
    BY <1>3 DEF FailFatally
  <2>. HIDE DEF d
  <2>. QED
    BY <2>1, <2>2, OutcomeSampled DEF Counted
<1>4. ASSUME NEW r \in Requests, NEW n, AnswerChat(r, n) PROVE Sampled
  <2>. DEFINE d == [Answered(r, "served") EXCEPT !.seen = n]
  <2>1. d.phase = "served" /\ d.trail = Append(req[r].trail, "success")
    BY <1>1 DEF Answered, Dispatch
  <2>2. req' = [req EXCEPT ![r] = d] /\ req[r].phase = "flight"
        /\ health' = HealthSample(r, "up")
    BY <1>4 DEF AnswerChat
  <2>. HIDE DEF d
  <2>. QED
    BY <2>1, <2>2, OutcomeSampled DEF Counted
<1>5. ASSUME NEW r \in Requests, OpenStream(r) PROVE Sampled
  <2>1. Answered(r, "streaming").phase = "streaming"
        /\ Answered(r, "streaming").trail = Append(req[r].trail, "success")
    BY <1>1 DEF Answered, Dispatch
  <2>. QED
    BY <1>5, <2>1, OutcomeSampled DEF Counted, OpenStream
<1>6. ASSUME UNCHANGED health PROVE Sampled
  BY <1>6
<1>. QED
  BY <1>2, <1>3, <1>4, <1>5, <1>6
  DEF Next, RouterStep, ProviderStep, vars, Start, SkipUnconfigured, SkipThrottled, Call,
      PauseBeforeRetry, Retry, AnswerEmbeddings, UsageChunk, CloseStream, Exhaust, Abandon,
      Refill

(* Nothing but the outcome of a call moves an uptime average, and it moves *)
(* that of its own candidate, however many requests are in flight.         *)
THEOREM HealthIsEarned == Spec => HealthFollowsCalls
<1>1. IInv /\ [Next]_vars => [\A c \in Candidates : health'[c] # health[c] => SampledByCall(c)]_vars
  BY SamplesStep
<1>. QED
  BY <1>1, IInvInductive, PTL DEF Spec, HealthFollowsCalls, SampledByCall

-----------------------------------------------------------------------------
(* The metric registry only watches: with it beside the dispatch, every    *)
(* step is still a step of the dispatch, whose promises therefore hold.    *)
LEMMA MeteredStep == [MetricsNext]_metered_vars => [Next]_vars
<1>. SUFFICES ASSUME [MetricsNext]_metered_vars PROVE [Next]_vars
  OBVIOUS
<1>1. ASSUME NEW r \in Requests, Skips(r) PROVE Next
  BY <1>1 DEF Skips, Next, RouterStep
<1>2. ASSUME NEW r \in Requests, Fails(r) PROVE Next
  BY <1>2 DEF Fails, Next, ProviderStep
<1>3. ASSUME NEW r \in Requests, Uncounted(r) PROVE Next
  BY <1>3 DEF Uncounted, Next, RouterStep, ProviderStep
<1>4. ASSUME NEW r \in Requests, CountStream(r) \/ CountEmbeddings(r) PROVE Next
  BY <1>4 DEF CountStream, CountEmbeddings, Next, ProviderStep
<1>5. ASSUME NEW r \in Requests, NEW n \in 0..MaxTokens, CountAnswer(r, n) PROVE Next
  BY <1>5 DEF CountAnswer, Next, ProviderStep
<1>6. ASSUME NEW r \in Requests, NEW n \in 1..MaxTokens, CountChunk(r, n) PROVE Next
  BY <1>6 DEF CountChunk, Next
<1>7. UNCHANGED metered_vars => UNCHANGED vars
  BY DEF metered_vars
<1>. QED
  BY <1>1, <1>2, <1>3, <1>4, <1>5, <1>6, <1>7 DEF MetricsNext, Next

(* A dispatch that is measured is a dispatch: the provider gets no more    *)
(* calls than its bucket granted, and no request fails needlessly.         *)
THEOREM MeteredDispatchImplements ==
  MetricsSpec => Init /\ [][Next]_vars /\ [](CallsMetered /\ NoNeedlessFailure)
<1>1. MetricsInit => Init
  BY DEF MetricsInit
<1>. QED
  BY <1>1, MeteredStep, IInvMeters, TrailsInductive, TrailsSuffice, PTL DEF MetricsSpec

-----------------------------------------------------------------------------
(* The accounts.  What a request contributes to them is its trail, with    *)
(* the candidates it stands for, and the tokens its client saw; both       *)
(* change in few ways, and each way is one lemma.                          *)
Settled(d) ==
  /\ d.phase = "new" => d.trail = <<>>
  /\ d.phase \in {"new", "loop", "flight", "backoff"} => d.seen = 0
  /\ d.phase = "streaming" => d.kind = "stream" /\ d.trail # <<>> /\ Last(d.trail) = "success"

SettledInv == \A r \in Requests : Settled(req[r])

(* The registry's series for candidate c.                                  *)
AttemptsShown(c) ==
  /\ \A outcome \in Counted :
       /\ IsFiniteSet(VisitsCounted(c, outcome))
       /\ At(metrics["dispatch_attempts"], <<c, outcome>>) = Cardinality(VisitsCounted(c, outcome))
  /\ <<c, "not_configured">> \in DOMAIN metrics["dispatch_attempts"] =>
       ProviderOf[c] \notin Configured

LatencyShown(c) ==
  /\ IsFiniteSet(Timed(c))
  /\ At(metrics["response_latency"], c) = Cardinality(Timed(c))

StatisticsShown(c) ==
  /\ At(metrics["completion_tokens"], c) = usage[c].tokens
  /\ At(metrics["prompt_tokens"], c) = PromptTokens * usage[c].requests
  /\ At(metrics["cost_usd"], c) =
       IF c \in Priced THEN usage[c].tokens + PromptTokens * usage[c].requests ELSE 0
  /\ c \in DOMAIN metrics["cost_usd"] => c \in Priced /\ usage[c].requests > 0

AnswersCovered(c) ==
  /\ IsFiniteSet(ToldBy(c))
  /\ usage[c].tokens >= Told(c)
  /\ (\A r \in Served(c) : req[r].kind # "stream") => usage[c].tokens = Told(c)
  /\ free_used[c] = usage[c].tokens

RegistryShape ==
  /\ metrics = [family \in Registered |-> metrics[family]]
  /\ metrics["provider_configured"] = [p \in Listed |-> IF p \in Configured THEN 1 ELSE 0]
  /\ DOMAIN metrics["cost_usd"] \subseteq Candidates

AccountsOf(c) == AttemptsShown(c) /\ LatencyShown(c) /\ StatisticsShown(c) /\ AnswersCovered(c)

AccountsInv ==
  /\ RegistryShape
  /\ \A c \in Candidates : AccountsOf(c)

LEMMA AccountsSuffice == TypeOK /\ AccountsInv => AccountsAgree
<1>. SUFFICES ASSUME TypeOK, AccountsInv PROVE AccountsAgree
  OBVIOUS
<1>1. UsageCoversAnswers
  BY DEF UsageCoversAnswers, AccountsInv, AccountsOf, AnswersCovered
<1>2. ASSUME NEW c \in Candidates
      PROVE  /\ \A outcome \in Counted :
                  At(metrics["dispatch_attempts"], <<c, outcome>>) =
                    Cardinality(VisitsCounted(c, outcome))
             /\ At(metrics["completion_tokens"], c) = usage[c].tokens
             /\ At(metrics["prompt_tokens"], c) = PromptTokens * usage[c].requests
             /\ At(metrics["cost_usd"], c) =
                  IF c \in Priced THEN usage[c].tokens + PromptTokens * usage[c].requests ELSE 0
             /\ At(metrics["response_latency"], c) = Cardinality(Timed(c))
             /\ <<c, "not_configured">> \in DOMAIN metrics["dispatch_attempts"] =>
                  At(metrics["provider_configured"], ProviderOf[c]) = 0
  <2>1. <<c, "not_configured">> \in DOMAIN metrics["dispatch_attempts"] =>
          At(metrics["provider_configured"], ProviderOf[c]) = 0
    <3>1. SUFFICES ASSUME ProviderOf[c] \notin Configured
                   PROVE  At(metrics["provider_configured"], ProviderOf[c]) = 0
      BY DEF AccountsInv, AccountsOf, AttemptsShown, LatencyShown
    <3>. QED
      BY <3>1 DEF AccountsInv, RegistryShape, At
  <2>. QED
    BY <2>1 DEF AccountsInv, AccountsOf, AttemptsShown, LatencyShown, StatisticsShown
<1>3. "cost_usd" \in Rendered(metrics) => \E c \in Priced : usage[c].requests > 0
  BY DEF Rendered, AccountsInv, AccountsOf, RegistryShape, StatisticsShown
<1>. QED
  BY <1>1, <1>2, <1>3 DEF AccountsAgree

-----------------------------------------------------------------------------
(* What a family shows under a label after another was set.                *)
LEMMA AtSet ==
  ASSUME NEW series, NEW l, NEW n, NEW k
  PROVE  At(SetTo(series, l, n), k) = IF k = l THEN n ELSE At(series, k)
BY DEF SetTo, At

LEMMA IncDomain ==
  ASSUME NEW series, NEW l, NEW n
  PROVE  DOMAIN IncBy(series, l, n) = DOMAIN series \cup {l}
BY DEF IncBy, SetTo

LEMMA AtInc ==
  ASSUME NEW series, NEW l, NEW n, NEW k
  PROVE  /\ k = l => At(IncBy(series, l, n), k) = At(series, l) + n
         /\ k # l => At(IncBy(series, l, n), k) = At(series, k)
<1>1. At(IncBy(series, l, n), k) = IF k = l THEN At(series, l) + n ELSE At(series, k)
  BY AtSet DEF IncBy
<1>. QED
  BY <1>1

(* A registry is a function of its families; a method replaces some.       *)
IsRegistry(m) == m = [family \in Registered |-> m[family]]

LEMMA FamilyReplaced ==
  ASSUME NEW m, IsRegistry(m), NEW f \in Registered, NEW series
  PROVE  /\ IsRegistry([m EXCEPT ![f] = series])
         /\ \A g \in Registered : [m EXCEPT ![f] = series][g] = IF g = f THEN series ELSE m[g]
<1>1. DOMAIN m = Registered
  BY DEF IsRegistry
<1>2. [m EXCEPT ![f] = series] = [g \in Registered |-> IF g = f THEN series ELSE m[g]]
  BY <1>1
<1>. QED
  BY <1>2 DEF IsRegistry

LEMMA AttemptRecorded ==
  ASSUME NEW m, IsRegistry(m), NEW c, NEW o
  PROVE  /\ IsRegistry(record_attempt(m, c, o))
         /\ \A g \in Registered : record_attempt(m, c, o)[g] =
              IF g = "dispatch_attempts" THEN IncBy(m[g], <<c, o>>, 1) ELSE m[g]
BY FamilyReplaced DEF record_attempt, Registered

LEMMA LatencyObserved ==
  ASSUME NEW m, IsRegistry(m), NEW c
  PROVE  /\ IsRegistry(observe_latency(m, c))
         /\ \A g \in Registered : observe_latency(m, c)[g] =
              IF g = "response_latency" THEN IncBy(m[g], c, 1) ELSE m[g]
BY FamilyReplaced DEF observe_latency, Registered

LEMMA ThroughputObserved ==
  ASSUME NEW m, IsRegistry(m), NEW c, NEW n
  PROVE  /\ IsRegistry(WithThroughput(m, c, n))
         /\ \A g \in Registered \ {"throughput"} : WithThroughput(m, c, n)[g] = m[g]
BY FamilyReplaced DEF observe_throughput, WithThroughput, Registered

LEMMA UsageRecorded ==
  ASSUME NEW m, IsRegistry(m), NEW c, NEW n
  PROVE  /\ IsRegistry(WithUsage(m, c, n))
         /\ \A g \in Registered : WithUsage(m, c, n)[g] =
              IF g = "prompt_tokens" THEN IncBy(m[g], c, PromptTokens)
              ELSE IF g = "completion_tokens" THEN IncBy(m[g], c, n)
              ELSE IF g = "cost_usd" /\ c \in Priced THEN IncBy(m[g], c, PromptTokens + n)
              ELSE m[g]
<1>. DEFINE prompt == IncBy(m["prompt_tokens"], c, PromptTokens)
            completion == IncBy(m["completion_tokens"], c, n)
            cost == IF c \in Priced THEN IncBy(m["cost_usd"], c, PromptTokens + n) ELSE m["cost_usd"]
            m1 == [m EXCEPT !["prompt_tokens"] = prompt]
            m2 == [m1 EXCEPT !["completion_tokens"] = completion]
            m3 == [m2 EXCEPT !["cost_usd"] = cost]
<1>1. WithUsage(m, c, n) = [g \in Registered |->
         IF g = "prompt_tokens" THEN prompt ELSE IF g = "completion_tokens" THEN completion
         ELSE IF g = "cost_usd" THEN cost ELSE m[g]]
  BY DEF WithUsage, record_tokens_and_cost, IsRegistry, Registered
<1>. QED
  BY <1>1 DEF IsRegistry, Registered

-----------------------------------------------------------------------------
(* What a step does to the contributions of a request.                     *)
SameContribution(d, e) ==
  \/ d.trail = <<>> /\ e.trail = <<>>
  \/ /\ d.trail = e.trail /\ d.chain = e.chain /\ d.pos = e.pos
     /\ d.kind = e.kind /\ d.seen = e.seen

ContributionsKept(c) ==
  /\ Served(c)' = Served(c) /\ Timed(c)' = Timed(c) /\ ToldBy(c)' = ToldBy(c)
  /\ \A q \in Served(c) : req'[q].kind = req[q].kind

UsageSeriesStay ==
  /\ metrics'["prompt_tokens"] = metrics["prompt_tokens"]
  /\ metrics'["completion_tokens"] = metrics["completion_tokens"]
  /\ metrics'["cost_usd"] = metrics["cost_usd"]

NothingAccounted == usage' = usage /\ free_used' = free_used /\ UsageSeriesStay

VisitsKept(c) == \A outcome \in Counted : VisitsCounted(c, outcome)' = VisitsCounted(c, outcome)

LEMMA Quiet ==
  ASSUME TypeOK, NEW r \in Requests, NEW d, req' = [req EXCEPT ![r] = d],
         SameContribution(req[r], d), NEW c
  PROVE  VisitsKept(c) /\ ContributionsKept(c)
<1>1. req'[r] = d /\ \A q \in Requests : q # r => req'[q] = req[q]
  BY DEF TypeOK
<1>2. \A q \in Requests : SameContribution(req[q], req'[q])
  BY <1>1 DEF SameContribution
<1>3. ASSUME NEW q \in Requests, NEW i
      PROVE  /\ i \in DOMAIN req'[q].trail <=> i \in DOMAIN req[q].trail
             /\ i \in DOMAIN req[q].trail =>
                  req'[q].trail[i] = req[q].trail[i] /\ req'[q].chain[i] = req[q].chain[i]
  BY <1>2 DEF SameContribution
<1>4. VisitsKept(c)
  BY <1>3 DEF VisitsKept, VisitsCounted, Visits
<1>5. ASSUME NEW q \in Requests
      PROVE  /\ q \in Served(c)' <=> q \in Served(c)
             /\ q \in Served(c) => req'[q].kind = req[q].kind /\ req'[q].seen = req[q].seen
  BY <1>2 DEF SameContribution, Served, Candidate
<1>6. Served(c)' = Served(c)
  BY <1>5 DEF Served
<1>7. Timed(c)' = Timed(c)
  BY <1>5, <1>6 DEF Timed
<1>8. ToldBy(c)' = ToldBy(c)
  BY <1>5, <1>6 DEF ToldBy, Served
<1>. QED
  BY <1>4, <1>5, <1>6, <1>7, <1>8 DEF ContributionsKept

(* r's candidate is counted: one visit more, of that outcome.              *)
VisitAdded(c, r, outcome) ==
  \A o \in Counted :
    VisitsCounted(c, o)' = IF c = Candidate(r) /\ o = outcome
                           THEN VisitsCounted(c, o) \cup {<<r, req[r].pos>>}
                           ELSE VisitsCounted(c, o)

LEMMA Visiting ==
  ASSUME TypeOK, NEW r \in Requests, OnItsWay(req[r]), NEW outcome \in Counted,
         NEW d, req' = [req EXCEPT ![r] = d],
         d.trail = Append(req[r].trail, outcome), d.chain = req[r].chain, NEW c
  PROVE  /\ VisitAdded(c, r, outcome)
         /\ \A o \in Counted : <<r, req[r].pos>> \notin VisitsCounted(c, o)
<1>. DEFINE p == req[r].pos
            t == req[r].trail
<1>1. req'[r] = d /\ \A q \in Requests : q # r => req'[q] = req[q]
  BY DEF TypeOK
<1>2. t \in Seq(Counted) /\ p \in Nat \ {0} /\ Len(t) = p - 1
  BY DEF TypeOK, Dispatch, OnItsWay
<1>3. /\ DOMAIN d.trail = DOMAIN t \cup {p} /\ p \notin DOMAIN t
      /\ d.trail[p] = outcome /\ \A i \in DOMAIN t : d.trail[i] = t[i]
  <2>1. d.trail = Append(t, outcome)
    OBVIOUS
  <2>. HIDE DEF t, p
  <2>2. Len(t) \in Nat /\ p = Len(t) + 1 /\ DOMAIN t = 1..Len(t)
    BY <1>2
  <2>3. Len(d.trail) = Len(t) + 1 /\ d.trail \in Seq(Counted)
    BY <1>2, <2>1
  <2>4. DOMAIN d.trail = 1..Len(t) + 1
    BY <2>3
  <2>5. d.trail[Len(t) + 1] = outcome /\ \A i \in 1..Len(t) : d.trail[i] = t[i]
    BY <1>2, <2>1
  <2>. QED
    BY <2>2, <2>4, <2>5
<1>4. ASSUME NEW o \in Counted, NEW q \in Requests, NEW i
      PROVE  <<q, i>> \in VisitsCounted(c, o)' <=>
               \/ <<q, i>> \in VisitsCounted(c, o)
               \/ q = r /\ i = p /\ c = Candidate(r) /\ o = outcome
  <2>1. <<q, i>> \in VisitsCounted(c, o) <=>
          i \in DOMAIN req[q].trail /\ req[q].chain[i] = c /\ req[q].trail[i] = o
    BY DEF VisitsCounted, Visits
  <2>2. <<q, i>> \in VisitsCounted(c, o)' <=>
          i \in DOMAIN req'[q].trail /\ req'[q].chain[i] = c /\ req'[q].trail[i] = o
    BY DEF VisitsCounted, Visits
  <2>. QED
    BY <1>1, <1>3, <2>1, <2>2 DEF Candidate
<1>5. \A o \in Counted : <<r, p>> \notin VisitsCounted(c, o)
  BY <1>3 DEF VisitsCounted, Visits
<1>6. ASSUME NEW o \in Counted
      PROVE  VisitsCounted(c, o)' = IF c = Candidate(r) /\ o = outcome
                                    THEN VisitsCounted(c, o) \cup {<<r, p>>}
                                    ELSE VisitsCounted(c, o)
  <2>1. \A v \in VisitsCounted(c, o)' : \E q \in Requests : \E i : v = <<q, i>>
    BY DEF VisitsCounted, Visits
  <2>2. \A v \in VisitsCounted(c, o) : \E q \in Requests : \E i : v = <<q, i>>
    BY DEF VisitsCounted, Visits
  <2>. HIDE DEF p
  <2>3. ASSUME NEW v
        PROVE  v \in VisitsCounted(c, o)' <=>
                 v \in VisitsCounted(c, o) \/ (v = <<r, p>> /\ c = Candidate(r) /\ o = outcome)
    BY <1>4, <2>1, <2>2
  <2>4. CASE c = Candidate(r) /\ o = outcome
    BY <2>3, <2>4
  <2>5. CASE ~(c = Candidate(r) /\ o = outcome)
    <3>1. \A v : v \in VisitsCounted(c, o)' <=> v \in VisitsCounted(c, o)
      BY <2>3, <2>5
    <3>2. VisitsCounted(c, o)' = VisitsCounted(c, o)
      BY <3>1 DEF VisitsCounted
    <3>. QED
      BY <2>5, <3>2
  <2>. QED
    BY <2>4, <2>5
<1>. QED
  BY <1>5, <1>6 DEF VisitAdded

(* A request that is still on its way has served nobody.                   *)
LEMMA NotServedYet ==
  ASSUME TypeOK, NEW r \in Requests, OnItsWay(req[r]), NEW c
  PROVE  r \notin Served(c)
<1>1. req[r].trail \in Seq(Counted)
  BY DEF TypeOK, Dispatch
<1>2. req[r].trail # <<>> => Last(req[r].trail) \in Passed
  BY <1>1 DEF Last, OnItsWay
<1>. QED
  BY <1>2 DEF Served, Passed

LEMMA PassedOver ==
  ASSUME TypeOK, NEW r \in Requests, OnItsWay(req[r]), NEW outcome \in Counted \ {"success"},
         NEW d, req' = [req EXCEPT ![r] = d],
         d.trail = Append(req[r].trail, outcome), NEW c
  PROVE  ContributionsKept(c)
<1>1. req'[r] = d /\ \A q \in Requests : q # r => req'[q] = req[q]
  BY DEF TypeOK
<1>2. req[r].trail \in Seq(Counted)
  BY DEF TypeOK, Dispatch
<1>3. Last(d.trail) = outcome
  BY <1>2, LastAppended
<1>4. r \notin Served(c) /\ r \notin Served(c)'
  BY <1>1, <1>3, NotServedYet DEF Served
<1>5. ASSUME NEW q \in Requests
      PROVE  /\ q \in Served(c)' <=> q \in Served(c)
             /\ q \in Served(c) => req'[q] = req[q]
  BY <1>1, <1>4 DEF Served, Candidate
<1>6. Served(c)' = Served(c)
  BY <1>5 DEF Served
<1>7. Timed(c)' = Timed(c)
  BY <1>5, <1>6 DEF Timed
<1>8. ToldBy(c)' = ToldBy(c)
  BY <1>5, <1>6 DEF ToldBy, Served
<1>. QED
  BY <1>5, <1>6, <1>7, <1>8 DEF ContributionsKept

(* r's candidate answers.                                                  *)
AnswerAdded(c, r, d) ==
  /\ Served(c)' = IF c = Candidate(r) THEN Served(c) \cup {r} ELSE Served(c)
  /\ Timed(c)' = IF c = Candidate(r) /\ d.kind # "embeddings" THEN Timed(c) \cup {r} ELSE Timed(c)
  /\ ToldBy(c)' = IF c = Candidate(r) THEN ToldBy(c) \cup ({r} \X (1..d.seen)) ELSE ToldBy(c)
  /\ \A q \in Served(c) : req'[q].kind = req[q].kind
  /\ c = Candidate(r) => req'[r].kind = d.kind
  /\ r \notin Timed(c) /\ \A k : <<r, k>> \notin ToldBy(c)

LEMMA Answering ==
  ASSUME TypeOK, NEW r \in Requests, OnItsWay(req[r]),
         NEW d, req' = [req EXCEPT ![r] = d],
         d.trail = Append(req[r].trail, "success"), d.chain = req[r].chain, d.pos = req[r].pos,
         NEW c
  PROVE  AnswerAdded(c, r, d)
<1>1. req'[r] = d /\ \A q \in Requests : q # r => req'[q] = req[q]
  BY DEF TypeOK
<1>2. req[r].trail \in Seq(Counted)
  BY DEF TypeOK, Dispatch
<1>3. Last(d.trail) = "success" /\ d.trail # <<>>
  BY <1>2, LastAppended DEF Counted
<1>4. r \notin Served(c) /\ (r \in Served(c)' <=> c = Candidate(r))
  BY <1>1, <1>3, NotServedYet DEF Served, Candidate
<1>5. ASSUME NEW q \in Requests, q # r
      PROVE  q \in Served(c)' <=> q \in Served(c)
  BY <1>1, <1>5 DEF Served, Candidate
<1>6. Served(c)' = IF c = Candidate(r) THEN Served(c) \cup {r} ELSE Served(c)
  BY <1>4, <1>5 DEF Served
<1>7. Served(c) \subseteq Requests
  BY DEF Served
<1>8. Timed(c)' = IF c = Candidate(r) /\ d.kind # "embeddings" THEN Timed(c) \cup {r} ELSE Timed(c)
  BY <1>1, <1>4, <1>6, <1>7 DEF Timed
<1>9. ToldBy(c)' = IF c = Candidate(r) THEN ToldBy(c) \cup ({r} \X (1..d.seen)) ELSE ToldBy(c)
  BY <1>1, <1>4, <1>6, <1>7 DEF ToldBy
<1>10. r \notin Timed(c) /\ \A k : <<r, k>> \notin ToldBy(c)
  BY <1>4 DEF Timed, ToldBy
<1>. QED
  BY <1>1, <1>4, <1>6, <1>7, <1>8, <1>9, <1>10 DEF AnswerAdded

-----------------------------------------------------------------------------
(* The accounts of a candidate, one by one, when its contributions stay or *)
(* grow.                                                                   *)
LEMMA AttemptsStay ==
  ASSUME NEW c, AttemptsShown(c), VisitsKept(c),
         metrics'["dispatch_attempts"] = metrics["dispatch_attempts"]
  PROVE  AttemptsShown(c)'
BY DEF AttemptsShown, VisitsKept

LEMMA AttemptCounted ==
  ASSUME NEW c, AttemptsShown(c), NEW r \in Requests, NEW outcome \in Counted,
         VisitAdded(c, r, outcome),
         \A o \in Counted : <<r, req[r].pos>> \notin VisitsCounted(c, o),
         metrics'["dispatch_attempts"] =
           IncBy(metrics["dispatch_attempts"], <<Candidate(r), outcome>>, 1),
         outcome = "not_configured" => Provider(r) \notin Configured
  PROVE  AttemptsShown(c)'
<1>. DEFINE series == metrics["dispatch_attempts"]
<1>1. ASSUME NEW o \in Counted
      PROVE  /\ IsFiniteSet(VisitsCounted(c, o)')
             /\ At(metrics'["dispatch_attempts"], <<c, o>>) = Cardinality(VisitsCounted(c, o)')
  <2>1. /\ IsFiniteSet(VisitsCounted(c, o))
        /\ At(series, <<c, o>>) = Cardinality(VisitsCounted(c, o))
    BY DEF AttemptsShown
  <2>2. At(metrics'["dispatch_attempts"], <<c, o>>) =
          IF <<c, o>> = <<Candidate(r), outcome>> THEN At(series, <<Candidate(r), outcome>>) + 1
          ELSE At(series, <<c, o>>)
    BY AtInc
  <2>3. CASE c = Candidate(r) /\ o = outcome
    <3>1. VisitsCounted(c, o)' = VisitsCounted(c, o) \cup {<<r, req[r].pos>>}
      BY <2>3 DEF VisitAdded
    <3>2. /\ IsFiniteSet(VisitsCounted(c, o)')
          /\ Cardinality(VisitsCounted(c, o)') = Cardinality(VisitsCounted(c, o)) + 1
      BY <2>1, <3>1, FS_AddElement
    <3>. QED
      BY <2>1, <2>2, <2>3, <3>2
  <2>4. CASE ~(c = Candidate(r) /\ o = outcome)
    <3>1. VisitsCounted(c, o)' = VisitsCounted(c, o)
      BY <2>4 DEF VisitAdded
    <3>. QED
      BY <2>1, <2>2, <2>4, <3>1
  <2>. QED
    BY <2>3, <2>4
<1>2. ASSUME <<c, "not_configured">> \in DOMAIN metrics'["dispatch_attempts"]
      PROVE  ProviderOf[c] \notin Configured
  <2>1. DOMAIN metrics'["dispatch_attempts"] = DOMAIN series \cup {<<Candidate(r), outcome>>}
    BY IncDomain
  <2>2. CASE <<c, "not_configured">> \in DOMAIN series
    BY <2>2 DEF AttemptsShown
  <2>3. CASE <<c, "not_configured">> = <<Candidate(r), outcome>>
    BY <2>3 DEF Provider
  <2>. QED
    BY <1>2, <2>1, <2>2, <2>3
<1>. QED
  BY <1>1, <1>2 DEF AttemptsShown

LEMMA LatencyStays ==
  ASSUME NEW c, LatencyShown(c), Timed(c)' = Timed(c),
         metrics'["response_latency"] = metrics["response_latency"]
  PROVE  LatencyShown(c)'
BY DEF LatencyShown

LEMMA LatencyCounted ==
  ASSUME NEW c, LatencyShown(c), NEW r \in Requests, NEW d, AnswerAdded(c, r, d),
         d.kind # "embeddings",
         metrics'["response_latency"] = IncBy(metrics["response_latency"], Candidate(r), 1)
  PROVE  LatencyShown(c)'
<1>. DEFINE series == metrics["response_latency"]
<1>1. IsFiniteSet(Timed(c)) /\ At(series, c) = Cardinality(Timed(c))
  BY DEF LatencyShown
<1>2. At(metrics'["response_latency"], c) =
        IF c = Candidate(r) THEN At(series, Candidate(r)) + 1 ELSE At(series, c)
  BY AtInc
<1>3. CASE c = Candidate(r)
  <2>1. Timed(c)' = Timed(c) \cup {r} /\ r \notin Timed(c)
    BY <1>3 DEF AnswerAdded
  <2>2. /\ IsFiniteSet(Timed(c)')
        /\ Cardinality(Timed(c)') = Cardinality(Timed(c)) + 1
    BY <1>1, <2>1, FS_AddElement
  <2>. QED
    BY <1>1, <1>2, <1>3, <2>2 DEF LatencyShown
<1>4. CASE c # Candidate(r)
  <2>1. Timed(c)' = Timed(c)
    BY <1>4 DEF AnswerAdded
  <2>. QED
    BY <1>1, <1>2, <1>4, <2>1 DEF LatencyShown
<1>. QED
  BY <1>3, <1>4

LEMMA StatisticsStay ==
  ASSUME NEW c, StatisticsShown(c), UNCHANGED usage,
         UsageSeriesStay
  PROVE  StatisticsShown(c)'
BY DEF StatisticsShown, UsageSeriesStay

LEMMA AccountValues ==
  ASSUME TypeOK, NEW d \in Candidates, NEW n \in Nat, Account(d, n), NEW c \in Candidates
  PROVE  /\ usage[c].tokens \in Nat /\ usage[c].requests \in Nat /\ free_used[c] \in Nat
         /\ usage'[c].tokens = IF c = d THEN usage[c].tokens + n ELSE usage[c].tokens
         /\ usage'[c].requests = IF c = d THEN usage[c].requests + 1 ELSE usage[c].requests
         /\ free_used'[c] = IF c = d THEN free_used[c] + n ELSE free_used[c]
<1>1. /\ usage[c] \in [requests : Nat, tokens : Nat] /\ usage[d] \in [requests : Nat, tokens : Nat]
      /\ free_used[c] \in Nat
  BY DEF TypeOK
<1>2. usage' = [usage EXCEPT ![d] = [usage[d] EXCEPT !.requests = @ + 1, !.tokens = @ + n]]
  BY <1>1 DEF Account, TypeOK
<1>3. usage'[c] = IF c = d THEN [usage[d] EXCEPT !.requests = @ + 1, !.tokens = @ + n] ELSE usage[c]
  BY <1>2 DEF TypeOK
<1>4. free_used'[c] = IF c = d THEN free_used[c] + n ELSE free_used[c]
  BY DEF Account, TypeOK
<1>. QED
  BY <1>1, <1>3, <1>4

LEMMA OneMoreTime ==
  ASSUME NEW a \in Nat, NEW n \in Nat PROVE a * (n + 1) = a * n + a /\ a * n \in Nat
OBVIOUS

LEMMA StatisticsCounted ==
  ASSUME TypeOK, NEW c \in Candidates, NEW d \in Candidates, NEW n \in Nat,
         StatisticsShown(c), Account(d, n),
         metrics'["prompt_tokens"] = IncBy(metrics["prompt_tokens"], d, PromptTokens),
         metrics'["completion_tokens"] = IncBy(metrics["completion_tokens"], d, n),
         metrics'["cost_usd"] = IF d \in Priced THEN IncBy(metrics["cost_usd"], d, PromptTokens + n)
                                ELSE metrics["cost_usd"]
  PROVE  StatisticsShown(c)'
<1>. DEFINE prompt == PromptTokens * usage[c].requests
<1>1. /\ usage[c].tokens \in Nat /\ usage[c].requests \in Nat
      /\ usage'[c].tokens = IF c = d THEN usage[c].tokens + n ELSE usage[c].tokens
      /\ usage'[c].requests = IF c = d THEN usage[c].requests + 1 ELSE usage[c].requests
  BY AccountValues
<1>2. /\ prompt \in Nat /\ PromptTokens \in Nat
      /\ PromptTokens * usage'[c].requests = IF c = d THEN prompt + PromptTokens ELSE prompt
  BY <1>1, OneMoreTime, MetricsAssumption
<1>3. At(metrics'["completion_tokens"], c) = usage'[c].tokens
  <2>1. At(metrics'["completion_tokens"], c) =
          IF c = d THEN At(metrics["completion_tokens"], d) + n
          ELSE At(metrics["completion_tokens"], c)
    BY AtInc
  <2>. QED
    BY <1>1, <2>1 DEF StatisticsShown
<1>4. At(metrics'["prompt_tokens"], c) = PromptTokens * usage'[c].requests
  <2>1. At(metrics'["prompt_tokens"], c) =
          IF c = d THEN At(metrics["prompt_tokens"], d) + PromptTokens
          ELSE At(metrics["prompt_tokens"], c)
    BY AtInc
  <2>. QED
    BY <1>2, <2>1 DEF StatisticsShown
<1>5. At(metrics["cost_usd"], c) = IF c \in Priced THEN usage[c].tokens + prompt ELSE 0
  BY DEF StatisticsShown
<1>6. d \in Priced =>
        At(metrics'["cost_usd"], c) = IF c = d THEN At(metrics["cost_usd"], d) + (PromptTokens + n)
                                      ELSE At(metrics["cost_usd"], c)
  BY AtInc
<1>7. d \in Priced => DOMAIN metrics'["cost_usd"] = DOMAIN metrics["cost_usd"] \cup {d}
  <2>1. SUFFICES ASSUME d \in Priced
                 PROVE  DOMAIN metrics'["cost_usd"] = DOMAIN metrics["cost_usd"] \cup {d}
    OBVIOUS
  <2>2. metrics'["cost_usd"] = IncBy(metrics["cost_usd"], d, PromptTokens + n)
    BY <2>1
  <2>. QED
    BY <2>2 DEF IncBy, SetTo
<1>. HIDE DEF prompt
<1>8. At(metrics'["cost_usd"], c) =
        IF c \in Priced THEN usage'[c].tokens + PromptTokens * usage'[c].requests ELSE 0
  <2>1. CASE c = d /\ d \in Priced
    <3>1. At(metrics'["cost_usd"], c) = (usage[c].tokens + prompt) + (PromptTokens + n)
      BY <1>5, <1>6, <2>1
    <3>2. usage'[c].tokens + PromptTokens * usage'[c].requests
            = (usage[c].tokens + n) + (prompt + PromptTokens)
      BY <1>1, <1>2, <2>1
    <3>. QED
      BY <1>1, <1>2, <2>1, <3>1, <3>2
  <2>2. CASE ~(c = d /\ d \in Priced)
    BY <1>1, <1>2, <1>5, <1>6, <2>2
  <2>. QED
    BY <2>1, <2>2
<1>9. c \in DOMAIN metrics'["cost_usd"] => c \in Priced /\ usage'[c].requests > 0
  BY <1>1, <1>7 DEF StatisticsShown
<1>. QED
  BY <1>3, <1>4, <1>8, <1>9 DEF StatisticsShown

LEMMA CoverStays ==
  ASSUME NEW c, AnswersCovered(c), ContributionsKept(c), UNCHANGED <<usage, free_used>>
  PROVE  AnswersCovered(c)'
BY DEF AnswersCovered, ContributionsKept, Told

(* The tokens a client saw of one answer.                                  *)
LEMMA Shown ==
  ASSUME NEW r, NEW n \in Nat
  PROVE  IsFiniteSet({r} \X (1..n)) /\ Cardinality({r} \X (1..n)) = n
<1>1. IsFiniteSet({r}) /\ Cardinality({r}) = 1
  BY FS_Singleton
<1>2. IsFiniteSet(1..n) /\ Cardinality(1..n) = n
  BY FS_Interval
<1>. QED
  <2>1. Cardinality({r} \X (1..n)) = Cardinality({r}) * Cardinality(1..n)
    BY <1>1, <1>2, FS_Product
  <2>2. IsFiniteSet({r} \X (1..n))
    BY <1>1, <1>2, FS_Product
  <2>. QED
    BY <1>1, <1>2, <2>1, <2>2

(* An answer that is accounted for, or that says nothing.                  *)
LEMMA CoverGrows ==
  ASSUME TypeOK, NEW c \in Candidates, AnswersCovered(c), NEW r \in Requests,
         Candidate(r) \in Candidates,
         NEW d, d.seen \in Nat, AnswerAdded(c, r, d),
         \/ Account(Candidate(r), d.seen)
         \/ d.seen = 0 /\ usage' = usage /\ free_used' = free_used
  PROVE  AnswersCovered(c)'
<1>1. /\ usage[c].tokens \in Nat /\ free_used[c] \in Nat
      /\ usage'[c].tokens = IF c = Candidate(r) THEN usage[c].tokens + d.seen ELSE usage[c].tokens
      /\ free_used'[c] = IF c = Candidate(r) THEN free_used[c] + d.seen ELSE free_used[c]
  BY AccountValues DEF TypeOK
<1>2. CASE c = Candidate(r)
  <2>. DEFINE T == {r} \X (1..d.seen)
  <2>1. IsFiniteSet(T) /\ Cardinality(T) = d.seen
    BY Shown
  <2>2. ToldBy(c)' = ToldBy(c) \cup T /\ ToldBy(c) \cap T = {}
    BY <1>2 DEF AnswerAdded
  <2>3. IsFiniteSet(ToldBy(c)) /\ Cardinality(ToldBy(c)) \in Nat
    BY FS_CardinalityType DEF AnswersCovered
  <2>. HIDE DEF T
  <2>4. /\ IsFiniteSet(ToldBy(c)')
        /\ Cardinality(ToldBy(c)') = Cardinality(ToldBy(c)) + d.seen
    <3>1. /\ IsFiniteSet(ToldBy(c) \cup T)
          /\ Cardinality(ToldBy(c) \cup T) =
               Cardinality(ToldBy(c)) + Cardinality(T) - Cardinality(ToldBy(c) \cap T)
      BY <2>1, <2>3, FS_Union
    <3>2. Cardinality(ToldBy(c) \cap T) = 0
      BY <2>2, FS_EmptySet
    <3>. QED
      BY <2>1, <2>2, <2>3, <3>1, <3>2
  <2>5. ASSUME \A q \in Served(c)' : req'[q].kind # "stream"
        PROVE  \A q \in Served(c) : req[q].kind # "stream"
    BY <1>2, <2>5 DEF AnswerAdded
  <2>. QED
    BY <1>1, <1>2, <2>3, <2>4, <2>5 DEF AnswersCovered, Told
<1>3. CASE c # Candidate(r)
  <2>1. ToldBy(c)' = ToldBy(c) /\ Served(c)' = Served(c)
        /\ \A q \in Served(c) : req'[q].kind = req[q].kind
    BY <1>3 DEF AnswerAdded
  <2>. QED
    BY <1>1, <1>3, <2>1 DEF AnswersCovered, Told
<1>. QED
  BY <1>2, <1>3

(* A chunk of r's stream raises what its client saw to n.                  *)
LEMMA Chunk ==
  ASSUME TypeOK, NEW r \in Requests, Settled(req[r]), NEW n \in Nat, UsageChunk(r, n), NEW c
  PROVE  /\ VisitsKept(c) /\ Served(c)' = Served(c) /\ Timed(c)' = Timed(c)
         /\ \A q \in Served(c) : req'[q].kind = req[q].kind
         /\ c = Candidate(r) => /\ r \in Served(c) /\ req[r].kind = "stream"
                                /\ ToldBy(c)' \subseteq ToldBy(c) \cup ({r} \X (1..n))
         /\ c # Candidate(r) => ToldBy(c)' = ToldBy(c)
<1>. DEFINE d == [req[r] EXCEPT !.seen = n]
<1>1. req[r] \in Dispatch /\ req' = [req EXCEPT ![r] = d]
  BY DEF TypeOK, UsageChunk
<1>2. /\ d.trail = req[r].trail /\ d.chain = req[r].chain /\ d.pos = req[r].pos
      /\ d.kind = req[r].kind /\ d.seen = n
  BY <1>1 DEF Dispatch
<1>. HIDE DEF d
<1>3. req'[r] = d /\ \A q \in Requests : q # r => req'[q] = req[q]
  BY <1>1 DEF TypeOK
<1>4. \A q \in Requests : /\ req'[q].trail = req[q].trail /\ req'[q].chain = req[q].chain
                         /\ req'[q].pos = req[q].pos /\ req'[q].kind = req[q].kind
  BY <1>2, <1>3
<1>5. ASSUME NEW o \in Counted PROVE VisitsCounted(c, o)' = VisitsCounted(c, o)
  <2>1. ASSUME NEW v PROVE v \in VisitsCounted(c, o)' <=> v \in VisitsCounted(c, o)
    BY <1>4 DEF VisitsCounted, Visits
  <2>. QED
    BY <2>1 DEF VisitsCounted
<1>6. \A q \in Requests : q \in Served(c)' <=> q \in Served(c)
  BY <1>4 DEF Served, Candidate
<1>7. Served(c)' = Served(c)
  BY <1>6 DEF Served
<1>8. Timed(c)' = Timed(c)
  BY <1>4, <1>7 DEF Timed, Served
<1>9. /\ r \in Served(Candidate(r)) /\ req[r].kind = "stream"
  BY DEF UsageChunk, Settled, Served
<1>10. ASSUME c # Candidate(r) PROVE ToldBy(c)' = ToldBy(c)
  <2>1. r \notin Served(c)
    BY <1>10 DEF Served
  <2>2. \A q \in Served(c) : req'[q].seen = req[q].seen
    BY <1>3, <2>1 DEF Served
  <2>. QED
    BY <1>7, <2>2 DEF ToldBy
<1>11. ASSUME NEW t \in ToldBy(c)' PROVE t \in ToldBy(c) \cup ({r} \X (1..n))
  <2>1. PICK q \in Served(c) : t \in {q} \X (1..req'[q].seen)
    BY <1>7, <1>11 DEF ToldBy
  <2>2. CASE q = r
    BY <1>2, <1>3, <2>1, <2>2
  <2>3. CASE q # r
    <3>1. req'[q].seen = req[q].seen
      BY <1>3, <2>3 DEF Served
    <3>. QED
      BY <2>1, <3>1 DEF ToldBy
  <2>. QED
    BY <2>2, <2>3
<1>. QED
  BY <1>4, <1>5, <1>7, <1>8, <1>9, <1>10, <1>11 DEF VisitsKept, Served

LEMMA CoverStreams ==
  ASSUME TypeOK, NEW c \in Candidates, AnswersCovered(c), NEW r \in Requests,
         Candidate(r) \in Candidates, Settled(req[r]), NEW n \in Nat, UsageChunk(r, n)
  PROVE  AnswersCovered(c)'
<1>1. /\ VisitsKept(c) /\ Served(c)' = Served(c) /\ Timed(c)' = Timed(c)
      /\ \A q \in Served(c) : req'[q].kind = req[q].kind
      /\ c = Candidate(r) => /\ r \in Served(c) /\ req[r].kind = "stream"
                             /\ ToldBy(c)' \subseteq ToldBy(c) \cup ({r} \X (1..n))
      /\ c # Candidate(r) => ToldBy(c)' = ToldBy(c)
  BY Chunk
<1>2. /\ usage[c].tokens \in Nat /\ free_used[c] \in Nat
      /\ usage'[c].tokens = IF c = Candidate(r) THEN usage[c].tokens + n ELSE usage[c].tokens
      /\ free_used'[c] = IF c = Candidate(r) THEN free_used[c] + n ELSE free_used[c]
  BY AccountValues DEF UsageChunk
<1>3. CASE c = Candidate(r)
  <2>. DEFINE T == {r} \X (1..n)
  <2>1. IsFiniteSet(T) /\ Cardinality(T) = n
    BY Shown
  <2>2. IsFiniteSet(ToldBy(c)) /\ Cardinality(ToldBy(c)) \in Nat
    BY FS_CardinalityType DEF AnswersCovered
  <2>. HIDE DEF T
  <2>3. IsFiniteSet(ToldBy(c) \cap T) /\ Cardinality(ToldBy(c) \cap T) \in Nat
    BY <2>1, FS_Subset, FS_CardinalityType
  <2>4. /\ IsFiniteSet(ToldBy(c) \cup T)
        /\ Cardinality(ToldBy(c) \cup T) =
             Cardinality(ToldBy(c)) + Cardinality(T) - Cardinality(ToldBy(c) \cap T)
    BY <2>1, <2>2, FS_Union
  <2>5. ToldBy(c)' \in SUBSET (ToldBy(c) \cup T)
    BY <1>1, <1>3 DEF T
  <2>6. /\ IsFiniteSet(ToldBy(c)')
        /\ Cardinality(ToldBy(c)') <= Cardinality(ToldBy(c) \cup T)
    BY <2>4, <2>5, FS_Subset
  <2>7. Cardinality(ToldBy(c)') \in Nat
    BY <2>6, FS_CardinalityType
  <2>8. usage[c].tokens >= Cardinality(ToldBy(c)) /\ free_used[c] = usage[c].tokens
    BY DEF AnswersCovered, Told
  <2>9. usage'[c].tokens >= Cardinality(ToldBy(c)') /\ free_used'[c] = usage'[c].tokens
    BY <1>2, <1>3, <2>1, <2>2, <2>3, <2>4, <2>6, <2>7, <2>8
  <2>10. r \in Served(c)' /\ req'[r].kind = "stream"
    BY <1>1, <1>3
  <2>. QED
    BY <2>6, <2>9, <2>10 DEF AnswersCovered, Told
<1>4. CASE c # Candidate(r)
  BY <1>1, <1>2, <1>4 DEF AnswersCovered, Told
<1>. QED
  BY <1>3, <1>4

-----------------------------------------------------------------------------
(* Nothing is seen of a request before it is answered, and a stream is one. *)
LEMMA SettledReplaced ==
  ASSUME TypeOK, SettledInv, NEW r \in Requests, NEW d, Settled(d), req' = [req EXCEPT ![r] = d]
  PROVE  SettledInv'
<1>1. ASSUME NEW q \in Requests PROVE Settled(req'[q])
  BY <1>1 DEF TypeOK, SettledInv
<1>2. ASSUME NEW q \in Requests PROVE Settled(req[q])' <=> Settled(req'[q])
  BY DEF Settled
<1>. QED
  BY <1>1, <1>2 DEF SettledInv

LEMMA SettledStep == TypeOK /\ SettledInv /\ [Next]_vars => SettledInv'
<1>. SUFFICES ASSUME TypeOK, SettledInv, [Next]_vars PROVE SettledInv'
  OBVIOUS
<1>1. ASSUME NEW r \in Requests PROVE req[r] \in Dispatch /\ Settled(req[r])
  BY DEF TypeOK, SettledInv
<1>2. ASSUME NEW r \in Requests, Start(r) PROVE SettledInv'
  <2>1. PICK kind \in Kinds, chain \in Chains :
          req' = [req EXCEPT ![r] = [NewDispatch EXCEPT !.phase = "loop", !.kind = kind,
                                                        !.chain = chain]]
    BY <1>2 DEF Start
  <2>2. Settled([NewDispatch EXCEPT !.phase = "loop", !.kind = kind, !.chain = chain])
    BY DEF Settled, NewDispatch
  <2>. QED
    BY <2>1, <2>2, SettledReplaced
<1>3. ASSUME NEW r \in Requests, NEW o, NEW f, req[r].phase \in {"loop", "flight"}
      PROVE  Settled(MoveOn(r, o, f))
  BY <1>1, <1>3 DEF Settled, MoveOn, Dispatch
<1>4. ASSUME NEW r \in Requests, NEW phase \in {"flight", "backoff", "served", "failed", "abandoned"},
             req[r].phase \in {"loop", "flight", "backoff"} \/ phase \in Ended,
             req' = [req EXCEPT ![r].phase = phase]
      PROVE  SettledInv'
  <2>. DEFINE d == [req[r] EXCEPT !.phase = phase]
  <2>1. /\ d.phase = phase /\ d.trail = req[r].trail /\ d.seen = req[r].seen
        /\ req' = [req EXCEPT ![r] = d]
    BY <1>1, <1>4 DEF Dispatch
  <2>. HIDE DEF d
  <2>2. Settled(d)
    BY <1>1, <1>4, <2>1 DEF Settled, Ended
  <2>. QED
    BY <2>1, <2>2, SettledReplaced
<1>5. ASSUME NEW r \in Requests, Retry(r) PROVE SettledInv'
  <2>. DEFINE d == [req[r] EXCEPT !.phase = "flight", !.retries = @ + 1]
  <2>1. d.phase = "flight" /\ d.seen = req[r].seen /\ req' = [req EXCEPT ![r] = d]
    BY <1>1, <1>5 DEF Dispatch, Retry
  <2>. HIDE DEF d
  <2>2. Settled(d)
    BY <1>1, <1>5, <2>1 DEF Settled, Retry
  <2>. QED
    BY <2>1, <2>2, SettledReplaced
<1>6. ASSUME NEW r \in Requests, NEW d, d.phase \in Ended, req' = [req EXCEPT ![r] = d]
      PROVE  SettledInv'
  <2>1. Settled(d)
    BY <1>6 DEF Settled, Ended
  <2>. QED
    BY <1>6, <2>1, SettledReplaced
<1>7. ASSUME NEW r \in Requests, NEW e, FailFatally(r, e) PROVE SettledInv'
  <2>. DEFINE d == [req[r] EXCEPT !.phase = "failed", !.last_err = Failed(e),
                                  !.trail = Append(@, "error")]
  <2>1. d.phase \in Ended /\ req' = [req EXCEPT ![r] = d]
    BY <1>1, <1>7 DEF FailFatally, Dispatch, Ended
  <2>. HIDE DEF d
  <2>. QED
    BY <2>1, <1>6
<1>8. ASSUME NEW r \in Requests, NEW n, AnswerChat(r, n) PROVE SettledInv'
  <2>. DEFINE d == [Answered(r, "served") EXCEPT !.seen = n]
  <2>1. d.phase \in Ended /\ req' = [req EXCEPT ![r] = d]
    BY <1>1, <1>8 DEF AnswerChat, Answered, Dispatch, Ended
  <2>. HIDE DEF d
  <2>. QED
    BY <2>1, <1>6
<1>9. ASSUME NEW r \in Requests, AnswerEmbeddings(r) PROVE SettledInv'
  <2>1. Answered(r, "served").phase \in Ended
    BY <1>1 DEF Answered, Dispatch, Ended
  <2>. QED
    BY <1>6, <1>9, <2>1 DEF AnswerEmbeddings
<1>10. ASSUME NEW r \in Requests, OpenStream(r) PROVE SettledInv'
  <2>. DEFINE d == Answered(r, "streaming")
  <2>1. /\ d.phase = "streaming" /\ d.kind = "stream" /\ d.trail = Append(req[r].trail, "success")
    BY <1>1, <1>10 DEF Answered, Dispatch, OpenStream
  <2>. HIDE DEF d
  <2>2. d.trail # <<>> /\ Last(d.trail) = "success"
    BY <1>1, <2>1, LastAppended DEF Dispatch, Counted
  <2>3. Settled(d)
    BY <2>1, <2>2 DEF Settled
  <2>. QED
    BY <1>10, <2>3, SettledReplaced DEF OpenStream, d
<1>11. ASSUME NEW r \in Requests, NEW n, UsageChunk(r, n) PROVE SettledInv'
  <2>. DEFINE d == [req[r] EXCEPT !.seen = n]
  <2>1. /\ d.phase = req[r].phase /\ d.kind = req[r].kind /\ d.trail = req[r].trail
        /\ req' = [req EXCEPT ![r] = d]
    BY <1>1, <1>11 DEF UsageChunk, Dispatch
  <2>. HIDE DEF d
  <2>2. Settled(d)
    BY <1>1, <1>11, <2>1 DEF Settled, UsageChunk
  <2>. QED
    BY <2>1, <2>2, SettledReplaced
<1>12. ASSUME NEW r \in Requests, Exhaust(r) PROVE SettledInv'
  <2>. DEFINE d == [req[r] EXCEPT !.phase = "failed",
                         !.last_err = IF @ = None THEN Failed("invalid_model") ELSE @]
  <2>1. d.phase \in Ended /\ req' = [req EXCEPT ![r] = d]
    BY <1>1, <1>12 DEF Exhaust, Dispatch, Ended
  <2>. HIDE DEF d
  <2>. QED
    BY <2>1, <1>6
<1>13. ASSUME UNCHANGED req PROVE SettledInv'
  BY <1>13 DEF SettledInv, Settled
<1>14. ASSUME NEW r \in Requests, SkipUnconfigured(r) PROVE SettledInv'
  <2>. DEFINE f == Failed("not_configured")
              d == MoveOn(r, "not_configured", f)
  <2>1. req[r].phase = "loop" /\ req' = [req EXCEPT ![r] = d] /\ d = MoveOn(r, "not_configured", f)
    BY <1>14 DEF SkipUnconfigured, AtCandidate
  <2>. HIDE DEF f, d
  <2>2. Settled(d)
    BY <1>3, <2>1
  <2>. QED
    BY <2>1, <2>2, SettledReplaced
<1>15. ASSUME NEW r \in Requests, NEW wait, SkipThrottled(r, wait) PROVE SettledInv'
  <2>. DEFINE f == [error |-> "rate_limited", retry_after |-> wait]
              d == MoveOn(r, "rate_limited", f)
  <2>1. req[r].phase = "loop" /\ req' = [req EXCEPT ![r] = d] /\ d = MoveOn(r, "rate_limited", f)
    BY <1>15 DEF SkipThrottled, AtCandidate
  <2>. HIDE DEF f, d
  <2>2. Settled(d)
    BY <1>3, <2>1
  <2>. QED
    BY <2>1, <2>2, SettledReplaced
<1>19. ASSUME NEW r \in Requests, NEW e, FallBack(r, e) PROVE SettledInv'
  <2>. DEFINE f == Failed(e)
              d == MoveOn(r, "retryable_error", f)
  <2>1. req[r].phase = "flight" /\ req' = [req EXCEPT ![r] = d] /\ d = MoveOn(r, "retryable_error", f)
    BY <1>19 DEF FallBack
  <2>. HIDE DEF f, d
  <2>2. Settled(d)
    BY <1>3, <2>1
  <2>. QED
    BY <2>1, <2>2, SettledReplaced
<1>16. ASSUME NEW r \in Requests, Call(r) \/ (\E e : PauseBeforeRetry(r, e))
       PROVE  SettledInv'
  <2>1. PICK phase \in {"flight", "backoff"} :
          /\ req[r].phase \in {"loop", "flight", "backoff"}
          /\ req' = [req EXCEPT ![r].phase = phase]
    BY <1>16 DEF Call, AtCandidate, PauseBeforeRetry
  <2>. QED
    BY <1>4, <2>1
<1>17. ASSUME NEW r \in Requests, CloseStream(r) \/ Abandon(r)
       PROVE  SettledInv'
  <2>1. PICK phase \in {"served", "abandoned"} : req' = [req EXCEPT ![r].phase = phase]
    BY <1>17 DEF CloseStream, Abandon
  <2>. QED
    BY <1>4, <2>1 DEF Ended
<1>18. (\E p \in Limited : Refill(p)) \/ UNCHANGED vars => UNCHANGED req
  BY DEF Refill, vars
<1>. QED
  BY <1>2, <1>5, <1>7, <1>8, <1>9, <1>10, <1>11, <1>12, <1>13, <1>14, <1>15, <1>16, <1>17, <1>18, <1>19
  DEF Next, RouterStep, ProviderStep

-----------------------------------------------------------------------------
(* The registry keeps its shape in whatever a step records.                *)
LEMMA ShapeKept ==
  ASSUME RegistryShape, metrics' = [family \in Registered |-> metrics'[family]],
         metrics'["provider_configured"] = metrics["provider_configured"],
         DOMAIN metrics'["cost_usd"] \subseteq Candidates
  PROVE  RegistryShape'
BY DEF RegistryShape

(* A step that counts nothing and changes no contribution.                 *)
LEMMA UncountedStep ==
  ASSUME TypeOK, AccountsInv, NEW r \in Requests, NEW d, req' = [req EXCEPT ![r] = d],
         SameContribution(req[r], d), UNCHANGED <<usage, free_used, metrics>>
  PROVE  AccountsInv'
<1>1. RegistryShape'
  BY DEF AccountsInv, RegistryShape
<1>2. ASSUME NEW c \in Candidates PROVE AccountsOf(c)'
  <2>1. VisitsKept(c) /\ ContributionsKept(c)
    BY Quiet
  <2>2. AttemptsShown(c) /\ LatencyShown(c) /\ StatisticsShown(c) /\ AnswersCovered(c)
    BY DEF AccountsInv, AccountsOf
  <2>3. AttemptsShown(c)'
    BY <2>1, <2>2, AttemptsStay
  <2>4. LatencyShown(c)'
    BY <2>1, <2>2, LatencyStays DEF ContributionsKept
  <2>5. StatisticsShown(c)'
    BY <2>2, StatisticsStay DEF UsageSeriesStay
  <2>6. AnswersCovered(c)'
    BY <2>1, <2>2, CoverStays
  <2>. QED
    BY <2>3, <2>4, <2>5, <2>6 DEF AccountsOf
<1>. QED
  BY <1>1, <1>2 DEF AccountsInv

(* A candidate is passed over or fails, and is counted as that.            *)
LEMMA PassedOverStep ==
  ASSUME TypeOK, AccountsInv, NEW r \in Requests, OnItsWay(req[r]),
         NEW outcome \in Counted \ {"success"},
         NEW d, req' = [req EXCEPT ![r] = d],
         d.trail = Append(req[r].trail, outcome), d.chain = req[r].chain,
         outcome = "not_configured" => Provider(r) \notin Configured,
         Counts(r, outcome), UNCHANGED <<usage, free_used>>
  PROVE  AccountsInv'
<1>1. IsRegistry(metrics)
  BY DEF AccountsInv, RegistryShape, IsRegistry
<1>2. /\ IsRegistry(metrics')
      /\ \A g \in Registered : metrics'[g] =
           IF g = "dispatch_attempts" THEN IncBy(metrics[g], <<Candidate(r), outcome>>, 1)
           ELSE metrics[g]
  BY <1>1, AttemptRecorded DEF Counts
<1>3. /\ metrics'["dispatch_attempts"] =
           IncBy(metrics["dispatch_attempts"], <<Candidate(r), outcome>>, 1)
      /\ \A g \in Registered \ {"dispatch_attempts"} : metrics'[g] = metrics[g]
  BY <1>2 DEF Registered
<1>4. RegistryShape'
  BY <1>2, <1>3 DEF AccountsInv, RegistryShape, IsRegistry, Registered
<1>5. ASSUME NEW c \in Candidates PROVE AccountsOf(c)'
  <2>1. VisitAdded(c, r, outcome) /\ \A o \in Counted : <<r, req[r].pos>> \notin VisitsCounted(c, o)
    BY Visiting
  <2>2. ContributionsKept(c)
    BY PassedOver
  <2>3. AttemptsShown(c) /\ LatencyShown(c) /\ StatisticsShown(c) /\ AnswersCovered(c)
    BY DEF AccountsInv, AccountsOf
  <2>4. AttemptsShown(c)'
    BY <1>3, <2>1, <2>3, AttemptCounted
  <2>5. LatencyShown(c)'
    BY <1>3, <2>2, <2>3, LatencyStays DEF ContributionsKept, Registered
  <2>6. StatisticsShown(c)'
    BY <1>3, <2>3, StatisticsStay DEF Registered, UsageSeriesStay
  <2>7. AnswersCovered(c)'
    BY <2>2, <2>3, CoverStays
  <2>. QED
    BY <2>4, <2>5, <2>6, <2>7 DEF AccountsOf
<1>. QED
  BY <1>4, <1>5 DEF AccountsInv

LatencyRecorded(r, d) ==
  metrics'["response_latency"] = IF d.kind = "embeddings" THEN metrics["response_latency"]
                                 ELSE IncBy(metrics["response_latency"], Candidate(r), 1)

UsageRecordedFor(r, d) ==
  \/ /\ Account(Candidate(r), d.seen)
     /\ metrics'["prompt_tokens"] = IncBy(metrics["prompt_tokens"], Candidate(r), PromptTokens)
     /\ metrics'["completion_tokens"] = IncBy(metrics["completion_tokens"], Candidate(r), d.seen)
     /\ metrics'["cost_usd"] =
          IF Candidate(r) \in Priced
          THEN IncBy(metrics["cost_usd"], Candidate(r), PromptTokens + d.seen)
          ELSE metrics["cost_usd"]
  \/ d.seen = 0 /\ NothingAccounted

(* A candidate answers: with a latency unless it embeds, and with the      *)
(* statistics of its usage if it reports one.                              *)
LEMMA AnsweredStep ==
  ASSUME TypeOK, AccountsInv, NEW r \in Requests, OnItsWay(req[r]), Candidate(r) \in Candidates,
         NEW d, req' = [req EXCEPT ![r] = d],
         d.trail = Append(req[r].trail, "success"), d.chain = req[r].chain, d.pos = req[r].pos,
         d.seen \in Nat, IsRegistry(metrics'),
         metrics'["dispatch_attempts"] =
           IncBy(metrics["dispatch_attempts"], <<Candidate(r), "success">>, 1),
         metrics'["provider_configured"] = metrics["provider_configured"],
         LatencyRecorded(r, d), UsageRecordedFor(r, d)
  PROVE  AccountsInv'
<1>1. RegistryShape'
  <2>1. DOMAIN metrics["cost_usd"] \subseteq Candidates
    BY DEF AccountsInv, RegistryShape
  <2>2. DOMAIN metrics'["cost_usd"] \subseteq Candidates
    BY <2>1 DEF UsageRecordedFor, IncBy, SetTo, NothingAccounted, UsageSeriesStay
  <2>. QED
    BY <2>2 DEF AccountsInv, RegistryShape, IsRegistry
<1>2. ASSUME NEW c \in Candidates PROVE AccountsOf(c)'
  <2>1. VisitAdded(c, r, "success") /\ \A o \in Counted : <<r, req[r].pos>> \notin VisitsCounted(c, o)
    BY Visiting DEF Counted
  <2>2. AnswerAdded(c, r, d)
    BY Answering
  <2>3. AttemptsShown(c) /\ LatencyShown(c) /\ StatisticsShown(c) /\ AnswersCovered(c)
    BY DEF AccountsInv, AccountsOf
  <2>4. AttemptsShown(c)'
    BY <2>1, <2>3, AttemptCounted DEF Counted
  <2>5. LatencyShown(c)'
    <3>1. CASE d.kind = "embeddings"
      <4>1. Timed(c)' = Timed(c)
        BY <2>2, <3>1 DEF AnswerAdded
      <4>. QED
        BY <2>3, <3>1, <4>1, LatencyStays DEF LatencyRecorded
    <3>2. CASE d.kind # "embeddings"
      BY <2>2, <2>3, <3>2, LatencyCounted DEF LatencyRecorded
    <3>. QED
      BY <3>1, <3>2
  <2>6. StatisticsShown(c)'
    BY <2>3, StatisticsStay, StatisticsCounted DEF UsageRecordedFor, NothingAccounted
  <2>7. AnswersCovered(c)'
    BY <2>2, <2>3, CoverGrows DEF UsageRecordedFor, NothingAccounted
  <2>. QED
    BY <2>4, <2>5, <2>6, <2>7 DEF AccountsOf
<1>. QED
  BY <1>1, <1>2 DEF AccountsInv

(* A chunk of a stream carries a usage.                                    *)
LEMMA ChunkStep ==
  ASSUME TypeOK, AccountsInv, NEW r \in Requests, Settled(req[r]), Candidate(r) \in Candidates,
         NEW n \in Nat, CountChunk(r, n)
  PROVE  AccountsInv'
<1>. DEFINE m == WithThroughput(metrics, Candidate(r), n)
<1>1. IsRegistry(metrics)
  BY DEF AccountsInv, RegistryShape, IsRegistry
<1>2. IsRegistry(m) /\ \A g \in Registered \ {"throughput"} : m[g] = metrics[g]
  BY <1>1, ThroughputObserved
<1>3. UsageChunk(r, n) /\ metrics' = WithUsage(m, Candidate(r), n)
  BY DEF CountChunk
<1>. HIDE DEF m
<1>4. /\ IsRegistry(metrics')
      /\ \A g \in Registered : metrics'[g] =
           IF g = "prompt_tokens" THEN IncBy(m[g], Candidate(r), PromptTokens)
           ELSE IF g = "completion_tokens" THEN IncBy(m[g], Candidate(r), n)
           ELSE IF g = "cost_usd" /\ Candidate(r) \in Priced
                THEN IncBy(m[g], Candidate(r), PromptTokens + n)
           ELSE m[g]
  BY <1>2, <1>3, UsageRecorded
<1>5. /\ metrics'["dispatch_attempts"] = metrics["dispatch_attempts"]
      /\ metrics'["response_latency"] = metrics["response_latency"]
      /\ metrics'["provider_configured"] = metrics["provider_configured"]
      /\ metrics'["prompt_tokens"] = IncBy(metrics["prompt_tokens"], Candidate(r), PromptTokens)
      /\ metrics'["completion_tokens"] = IncBy(metrics["completion_tokens"], Candidate(r), n)
      /\ metrics'["cost_usd"] = IF Candidate(r) \in Priced
                                THEN IncBy(metrics["cost_usd"], Candidate(r), PromptTokens + n)
                                ELSE metrics["cost_usd"]
  BY <1>2, <1>4 DEF Registered
<1>6. RegistryShape'
  <2>1. DOMAIN metrics["cost_usd"] \subseteq Candidates
    BY DEF AccountsInv, RegistryShape
  <2>2. DOMAIN metrics'["cost_usd"] \subseteq Candidates
    BY <1>5, <2>1 DEF IncBy, SetTo
  <2>. QED
    BY <1>4, <1>5, <2>2 DEF AccountsInv, RegistryShape, IsRegistry
<1>7. ASSUME NEW c \in Candidates PROVE AccountsOf(c)'
  <2>1. VisitsKept(c) /\ Timed(c)' = Timed(c)
    BY <1>3, Chunk
  <2>2. AttemptsShown(c) /\ LatencyShown(c) /\ StatisticsShown(c) /\ AnswersCovered(c)
    BY DEF AccountsInv, AccountsOf
  <2>3. AttemptsShown(c)'
    BY <1>5, <2>1, <2>2, AttemptsStay
  <2>4. LatencyShown(c)'
    BY <1>5, <2>1, <2>2, LatencyStays
  <2>5. StatisticsShown(c)'
    BY <1>3, <1>5, <2>2, StatisticsCounted DEF UsageChunk
  <2>6. AnswersCovered(c)'
    BY <1>3, <2>2, CoverStreams
  <2>. QED
    BY <2>3, <2>4, <2>5, <2>6 DEF AccountsOf
<1>. QED
  BY <1>6, <1>7 DEF AccountsInv

MeteredInv == IInv /\ TrailsInv /\ SettledInv /\ AccountsInv

LEMMA AccountsStep == MeteredInv /\ [MetricsNext]_metered_vars => AccountsInv'
<1>. SUFFICES ASSUME MeteredInv, [MetricsNext]_metered_vars PROVE AccountsInv'
  OBVIOUS
<1>. USE DEF MeteredInv, IInv
<1>1. ASSUME NEW r \in Requests
      PROVE  /\ req[r] \in Dispatch /\ Settled(req[r])
             /\ req[r].phase \in {"loop", "flight", "backoff"} => OnItsWay(req[r])
  BY DEF TypeOK, SettledInv, TrailsInv, RightSoFar
<1>2. ASSUME NEW r \in Requests, Flying(r) \/ req[r].phase = "streaming"
      PROVE  Candidate(r) \in Candidates
  BY <1>2, ProviderType DEF CallsPlaced
<1>3. IsRegistry(metrics)
  BY DEF AccountsInv, RegistryShape, IsRegistry
(* A candidate that is skipped.                                            *)
<1>4. ASSUME NEW r \in Requests, SkipUnconfigured(r), Counts(r, "not_configured")
      PROVE  AccountsInv'
  <2>. DEFINE d == MoveOn(r, "not_configured", Failed("not_configured"))
  <2>1. d.trail = Append(req[r].trail, "not_configured") /\ d.chain = req[r].chain
    BY <1>1 DEF MoveOn, Dispatch
  <2>2. /\ req' = [req EXCEPT ![r] = d] /\ OnItsWay(req[r]) /\ Provider(r) \notin Configured
        /\ UNCHANGED <<usage, free_used>>
    BY <1>1, <1>4 DEF SkipUnconfigured, AtCandidate
  <2>. HIDE DEF d
  <2>. QED
    BY <1>4, <2>1, <2>2, PassedOverStep DEF Counted
<1>5. ASSUME NEW r \in Requests, NEW wait, SkipThrottled(r, wait), Counts(r, "rate_limited")
      PROVE  AccountsInv'
  <2>. DEFINE d == MoveOn(r, "rate_limited", [error |-> "rate_limited", retry_after |-> wait])
  <2>1. d.trail = Append(req[r].trail, "rate_limited") /\ d.chain = req[r].chain
    BY <1>1 DEF MoveOn, Dispatch
  <2>2. /\ req' = [req EXCEPT ![r] = d] /\ OnItsWay(req[r])
        /\ UNCHANGED <<usage, free_used>>
    BY <1>1, <1>5 DEF SkipThrottled, AtCandidate
  <2>. HIDE DEF d
  <2>. QED
    BY <1>5, <2>1, <2>2, PassedOverStep DEF Counted
(* One that fails.                                                         *)
<1>6. ASSUME NEW r \in Requests, NEW e, FallBack(r, e), Counts(r, "retryable_error")
      PROVE  AccountsInv'
  <2>. DEFINE d == MoveOn(r, "retryable_error", Failed(e))
  <2>1. d.trail = Append(req[r].trail, "retryable_error") /\ d.chain = req[r].chain
    BY <1>1 DEF MoveOn, Dispatch
  <2>2. /\ req' = [req EXCEPT ![r] = d] /\ OnItsWay(req[r])
        /\ UNCHANGED <<usage, free_used>>
    BY <1>1, <1>6 DEF FallBack
  <2>. HIDE DEF d
  <2>. QED
    BY <1>6, <2>1, <2>2, PassedOverStep DEF Counted
<1>7. ASSUME NEW r \in Requests, NEW e, FailFatally(r, e), Counts(r, "error")
      PROVE  AccountsInv'
  <2>. DEFINE d == [req[r] EXCEPT !.phase = "failed", !.last_err = Failed(e),
                                  !.trail = Append(@, "error")]
  <2>1. d.trail = Append(req[r].trail, "error") /\ d.chain = req[r].chain
    BY <1>1 DEF Dispatch
  <2>2. /\ req' = [req EXCEPT ![r] = d] /\ OnItsWay(req[r])
        /\ UNCHANGED <<usage, free_used>>
    BY <1>1, <1>7 DEF FailFatally
  <2>. HIDE DEF d
  <2>. QED
    BY <1>7, <2>1, <2>2, PassedOverStep DEF Counted
(* One that answers.                                                       *)
<1>8. ASSUME NEW r \in Requests PROVE
        /\ IsRegistry(Succeeded(r))
        /\ \A g \in Registered : Succeeded(r)[g] =
             IF g = "dispatch_attempts" THEN IncBy(metrics[g], <<Candidate(r), "success">>, 1)
             ELSE IF g = "response_latency" THEN IncBy(metrics[g], Candidate(r), 1)
             ELSE metrics[g]
  <2>. DEFINE m == observe_latency(metrics, Candidate(r))
  <2>1. IsRegistry(m) /\ \A g \in Registered :
          m[g] = IF g = "response_latency" THEN IncBy(metrics[g], Candidate(r), 1) ELSE metrics[g]
    BY <1>3, LatencyObserved
  <2>2. Succeeded(r) = record_attempt(m, Candidate(r), "success")
    BY DEF Succeeded
  <2>. HIDE DEF m
  <2>3. IsRegistry(Succeeded(r)) /\ \A g \in Registered :
          Succeeded(r)[g] =
            IF g = "dispatch_attempts" THEN IncBy(m[g], <<Candidate(r), "success">>, 1) ELSE m[g]
    BY <2>1, <2>2, AttemptRecorded
  <2>. QED
    BY <2>1, <2>3
<1>9. ASSUME NEW r \in Requests, NEW n \in 0..MaxTokens, CountAnswer(r, n) PROVE AccountsInv'
  <2>. DEFINE d == [Answered(r, "served") EXCEPT !.seen = n]
              m == Succeeded(r)
              t == WithThroughput(m, Candidate(r), n)
              u == WithUsage(t, Candidate(r), n)
  <2>1. /\ d.trail = Append(req[r].trail, "success") /\ d.chain = req[r].chain
        /\ d.pos = req[r].pos /\ d.kind = req[r].kind /\ d.seen = n
    BY <1>1 DEF Answered, Dispatch
  <2>2. /\ req[r].phase = "flight" /\ req[r].kind = "chat"
        /\ req' = [req EXCEPT ![r] = d]
        /\ Account(Candidate(r), n) \/ (n = 0 /\ UNCHANGED <<usage, free_used>>)
        /\ metrics' = IF usage' = usage THEN m ELSE u
    BY <1>9 DEF CountAnswer, AnswerChat
  <2>3. OnItsWay(req[r]) /\ Candidate(r) \in Candidates
    BY <1>1, <1>2, <2>2 DEF Flying
  <2>4. /\ IsRegistry(m)
        /\ \A g \in Registered : m[g] =
             IF g = "dispatch_attempts" THEN IncBy(metrics[g], <<Candidate(r), "success">>, 1)
             ELSE IF g = "response_latency" THEN IncBy(metrics[g], Candidate(r), 1)
             ELSE metrics[g]
    BY <1>8
  <2>5. n \in Nat
    BY DispatchAssumption
  <2>. HIDE DEF m
  <2>6. IsRegistry(t) /\ \A g \in Registered \ {"throughput"} : t[g] = m[g]
    BY <2>4, ThroughputObserved
  <2>. HIDE DEF t
  <2>7. /\ IsRegistry(u)
        /\ \A g \in Registered : u[g] =
             IF g = "prompt_tokens" THEN IncBy(t[g], Candidate(r), PromptTokens)
             ELSE IF g = "completion_tokens" THEN IncBy(t[g], Candidate(r), n)
             ELSE IF g = "cost_usd" /\ Candidate(r) \in Priced
                  THEN IncBy(t[g], Candidate(r), PromptTokens + n)
             ELSE t[g]
    BY <2>6, UsageRecorded
  <2>. HIDE DEF u, d
  <2>8. CASE Account(Candidate(r), n)
    <3>1. usage' # usage
      BY <2>3, <2>5, <2>8, AccountValues
    <3>2. metrics' = u
      BY <2>2, <3>1
    <3>3. /\ metrics'["dispatch_attempts"] =
               IncBy(metrics["dispatch_attempts"], <<Candidate(r), "success">>, 1)
          /\ metrics'["response_latency"] = IncBy(metrics["response_latency"], Candidate(r), 1)
          /\ metrics'["provider_configured"] = metrics["provider_configured"]
          /\ metrics'["prompt_tokens"] = IncBy(metrics["prompt_tokens"], Candidate(r), PromptTokens)
          /\ metrics'["completion_tokens"] = IncBy(metrics["completion_tokens"], Candidate(r), n)
          /\ metrics'["cost_usd"] = IF Candidate(r) \in Priced
                                    THEN IncBy(metrics["cost_usd"], Candidate(r), PromptTokens + n)
                                    ELSE metrics["cost_usd"]
      BY <2>4, <2>6, <2>7, <3>2 DEF Registered
    <3>4. IsRegistry(metrics')
      BY <2>7, <3>2
    <3>5. LatencyRecorded(r, d) /\ UsageRecordedFor(r, d)
      BY <2>1, <2>2, <2>8, <3>3 DEF LatencyRecorded, UsageRecordedFor
    <3>. QED
      BY <2>1, <2>2, <2>3, <2>5, <3>3, <3>4, <3>5, AnsweredStep
  <2>9. CASE n = 0 /\ UNCHANGED <<usage, free_used>>
    <3>1. metrics' = m
      BY <2>2, <2>9
    <3>2. /\ metrics'["dispatch_attempts"] =
               IncBy(metrics["dispatch_attempts"], <<Candidate(r), "success">>, 1)
          /\ metrics'["response_latency"] = IncBy(metrics["response_latency"], Candidate(r), 1)
          /\ metrics'["provider_configured"] = metrics["provider_configured"]
          /\ NothingAccounted
      BY <2>4, <2>9, <3>1 DEF Registered, NothingAccounted, UsageSeriesStay
    <3>3. IsRegistry(metrics')
      BY <2>4, <3>1
    <3>4. LatencyRecorded(r, d) /\ UsageRecordedFor(r, d)
      BY <2>1, <2>2, <2>9, <3>2 DEF LatencyRecorded, UsageRecordedFor
    <3>. QED
      BY <2>1, <2>2, <2>3, <2>5, <3>2, <3>3, <3>4, AnsweredStep
  <2>. QED
    BY <2>2, <2>8, <2>9
<1>10. ASSUME NEW r \in Requests, CountStream(r) PROVE AccountsInv'
  <2>. DEFINE d == Answered(r, "streaming")
  <2>1. /\ req[r].phase = "flight" /\ req[r].kind = "stream" /\ req' = [req EXCEPT ![r] = d]
        /\ UNCHANGED <<usage, free_used>> /\ metrics' = Succeeded(r)
    BY <1>10 DEF CountStream, OpenStream
  <2>2. /\ d.trail = Append(req[r].trail, "success") /\ d.chain = req[r].chain
        /\ d.pos = req[r].pos /\ d.kind = req[r].kind /\ d.seen = req[r].seen
    BY <1>1 DEF Answered, Dispatch
  <2>3. OnItsWay(req[r]) /\ Candidate(r) \in Candidates /\ req[r].seen = 0
    BY <1>1, <1>2, <2>1 DEF Flying, Settled
  <2>4. /\ metrics'["dispatch_attempts"] =
             IncBy(metrics["dispatch_attempts"], <<Candidate(r), "success">>, 1)
        /\ metrics'["response_latency"] = IncBy(metrics["response_latency"], Candidate(r), 1)
        /\ metrics'["provider_configured"] = metrics["provider_configured"]
        /\ NothingAccounted
        /\ IsRegistry(metrics')
    BY <1>8, <2>1 DEF Registered, NothingAccounted, UsageSeriesStay
  <2>. HIDE DEF d
  <2>5. LatencyRecorded(r, d) /\ UsageRecordedFor(r, d) /\ d.seen \in Nat
    BY <2>1, <2>2, <2>3, <2>4 DEF LatencyRecorded, UsageRecordedFor
  <2>. QED
    BY <2>1, <2>2, <2>3, <2>4, <2>5, AnsweredStep
<1>11. ASSUME NEW r \in Requests, CountEmbeddings(r) PROVE AccountsInv'
  <2>. DEFINE d == Answered(r, "served")
  <2>1. /\ req[r].phase = "flight" /\ req[r].kind = "embeddings" /\ req' = [req EXCEPT ![r] = d]
        /\ UNCHANGED <<usage, free_used>>
        /\ metrics' = record_attempt(metrics, Candidate(r), "success")
    BY <1>11 DEF CountEmbeddings, AnswerEmbeddings, Counts
  <2>2. /\ d.trail = Append(req[r].trail, "success") /\ d.chain = req[r].chain
        /\ d.pos = req[r].pos /\ d.kind = req[r].kind /\ d.seen = req[r].seen
    BY <1>1 DEF Answered, Dispatch
  <2>3. OnItsWay(req[r]) /\ Candidate(r) \in Candidates /\ req[r].seen = 0
    BY <1>1, <1>2, <2>1 DEF Flying, Settled
  <2>4. /\ IsRegistry(metrics')
        /\ \A g \in Registered : metrics'[g] =
             IF g = "dispatch_attempts" THEN IncBy(metrics[g], <<Candidate(r), "success">>, 1)
             ELSE metrics[g]
    BY <1>3, <2>1, AttemptRecorded
  <2>5. /\ metrics'["dispatch_attempts"] =
             IncBy(metrics["dispatch_attempts"], <<Candidate(r), "success">>, 1)
        /\ metrics'["response_latency"] = metrics["response_latency"]
        /\ metrics'["provider_configured"] = metrics["provider_configured"]
        /\ NothingAccounted
    BY <2>1, <2>4 DEF Registered, NothingAccounted, UsageSeriesStay
  <2>. HIDE DEF d
  <2>6. LatencyRecorded(r, d) /\ UsageRecordedFor(r, d) /\ d.seen \in Nat
    BY <2>1, <2>2, <2>3, <2>5 DEF LatencyRecorded, UsageRecordedFor
  <2>. QED
    BY <2>1, <2>2, <2>3, <2>4, <2>5, <2>6, AnsweredStep
<1>12. ASSUME NEW r \in Requests, NEW n \in 1..MaxTokens, CountChunk(r, n) PROVE AccountsInv'
  <2>1. req[r].phase = "streaming" /\ n \in Nat
    BY <1>12, DispatchAssumption DEF CountChunk, UsageChunk
  <2>. QED
    BY <1>1, <1>2, <1>12, <2>1, ChunkStep
(* What is not counted changes no contribution.                            *)
<1>13. ASSUME NEW r \in Requests, Uncounted(r) PROVE AccountsInv'
  <2>1. UNCHANGED <<usage, free_used, metrics>>
    BY <1>13 DEF Uncounted, Start, Call, Retry, Exhaust, CloseStream, Abandon, PauseBeforeRetry
  <2>2. CASE Start(r)
    <3>1. PICK kind \in Kinds, chain \in Chains :
            req' = [req EXCEPT ![r] = [NewDispatch EXCEPT !.phase = "loop", !.kind = kind,
                                                          !.chain = chain]]
      BY <2>2 DEF Start
    <3>. DEFINE d == [NewDispatch EXCEPT !.phase = "loop", !.kind = kind, !.chain = chain]
    <3>2. d.trail = <<>> /\ req' = [req EXCEPT ![r] = d]
      BY <3>1 DEF NewDispatch
    <3>. HIDE DEF d
    <3>3. SameContribution(req[r], d)
      BY <1>1, <2>2, <3>2 DEF Start, Settled, SameContribution
    <3>. QED
      BY <2>1, <3>2, <3>3, UncountedStep
  <2>3. ASSUME NEW phase, req' = [req EXCEPT ![r].phase = phase] PROVE AccountsInv'
    <3>. DEFINE d == [req[r] EXCEPT !.phase = phase]
    <3>1. SameContribution(req[r], d) /\ req' = [req EXCEPT ![r] = d]
      BY <1>1, <2>3 DEF SameContribution, Dispatch
    <3>. HIDE DEF d
    <3>. QED
      BY <2>1, <3>1, UncountedStep
  <2>4. CASE Retry(r)
    <3>. DEFINE d == [req[r] EXCEPT !.phase = "flight", !.retries = @ + 1]
    <3>1. SameContribution(req[r], d) /\ req' = [req EXCEPT ![r] = d]
      BY <1>1, <2>4 DEF SameContribution, Dispatch, Retry
    <3>. HIDE DEF d
    <3>. QED
      BY <2>1, <3>1, UncountedStep
  <2>5. CASE Exhaust(r)
    <3>. DEFINE d == [req[r] EXCEPT !.phase = "failed",
                           !.last_err = IF @ = None THEN Failed("invalid_model") ELSE @]
    <3>1. SameContribution(req[r], d) /\ req' = [req EXCEPT ![r] = d]
      BY <1>1, <2>5 DEF SameContribution, Dispatch, Exhaust
    <3>. HIDE DEF d
    <3>. QED
      BY <2>1, <3>1, UncountedStep
  <2>6. CASE Call(r)
    BY <2>3, <2>6 DEF Call
  <2>7. CASE CloseStream(r)
    BY <2>3, <2>7 DEF CloseStream
  <2>8. CASE Abandon(r)
    BY <2>3, <2>8 DEF Abandon
  <2>9. CASE \E e \in Outcomes : PauseBeforeRetry(r, e)
    BY <2>3, <2>9 DEF PauseBeforeRetry
  <2>. QED
    BY <1>13, <2>2, <2>4, <2>5, <2>6, <2>7, <2>8, <2>9 DEF Uncounted
<1>14. ASSUME UNCHANGED <<req, usage, free_used, metrics>> PROVE AccountsInv'
  <2>1. RegistryShape'
    BY <1>14 DEF AccountsInv, RegistryShape
  <2>2. ASSUME NEW c \in Candidates PROVE AccountsOf(c)'
    <3>1. /\ VisitsKept(c)
          /\ Served(c)' = Served(c) /\ \A q \in Served(c) : req'[q].kind = req[q].kind
      BY <1>14 DEF VisitsKept, VisitsCounted, Visits, Served, Candidate
    <3>2. Timed(c)' = Timed(c) /\ ToldBy(c)' = ToldBy(c)
      BY <1>14, <3>1 DEF Timed, ToldBy
    <3>3. AttemptsShown(c) /\ LatencyShown(c) /\ StatisticsShown(c) /\ AnswersCovered(c)
      BY DEF AccountsInv, AccountsOf
    <3>4. AttemptsShown(c)' /\ LatencyShown(c)'
      BY <1>14, <3>1, <3>2, <3>3, AttemptsStay, LatencyStays
    <3>5. StatisticsShown(c)'
      BY <1>14, <3>3 DEF StatisticsShown
    <3>6. AnswersCovered(c)'
      BY <1>14, <3>1, <3>2, <3>3, CoverStays DEF ContributionsKept
    <3>. QED
      BY <3>4, <3>5, <3>6 DEF AccountsOf
  <2>. QED
    BY <2>1, <2>2 DEF AccountsInv
<1>15. ((\E p \in Limited : Refill(p)) /\ UNCHANGED metrics) \/ UNCHANGED metered_vars
         => UNCHANGED <<req, usage, free_used, metrics>>
  BY DEF Refill, metered_vars, vars
<1>16. ASSUME NEW r \in Requests, Skips(r) \/ Fails(r) PROVE AccountsInv'
  BY <1>4, <1>5, <1>6, <1>7, <1>16 DEF Skips, Fails
<1>. QED
  BY <1>9, <1>10, <1>11, <1>12, <1>13, <1>14, <1>15, <1>16 DEF MetricsNext

LEMMA AccountsInit == MetricsInit => SettledInv /\ AccountsInv
<1>. SUFFICES ASSUME MetricsInit PROVE SettledInv /\ AccountsInv
  OBVIOUS
<1>1. /\ \A r \in Requests : req[r] = NewDispatch
      /\ usage = [c \in Candidates |-> [requests |-> 0, tokens |-> 0]]
      /\ free_used = [c \in Candidates |-> 0]
  BY DEF MetricsInit, Init
<1>2. /\ metrics = [family \in Registered |-> metrics[family]]
      /\ metrics["provider_configured"] = [p \in Listed |-> IF p \in Configured THEN 1 ELSE 0]
      /\ \A f \in Registered \ {"provider_configured"} : DOMAIN metrics[f] = {}
  BY DEF MetricsInit, set_provider_configured, NewMetrics, NoSeries, Registered
<1>3. SettledInv
  BY <1>1 DEF SettledInv, Settled, NewDispatch
<1>4. RegistryShape
  BY <1>2 DEF RegistryShape, Registered
<1>5. ASSUME NEW c \in Candidates PROVE AccountsOf(c)
  <2>1. Served(c) = {}
    BY <1>1 DEF Served, NewDispatch
  <2>2. Timed(c) = {} /\ ToldBy(c) = {}
    BY <2>1 DEF Timed, ToldBy
  <2>3. \A o \in Counted : VisitsCounted(c, o) = {}
    BY <1>1 DEF VisitsCounted, Visits, NewDispatch
  <2>4. \A f \in Registered \ {"provider_configured"} : \A l : At(metrics[f], l) = 0
    BY <1>2 DEF At
  <2>5. PromptTokens * 0 = 0 /\ 0 + 0 = 0
    BY MetricsAssumption
  <2>6. AttemptsShown(c)
    <3>1. "dispatch_attempts" \in Registered \ {"provider_configured"}
      BY DEF Registered
    <3>2. /\ DOMAIN metrics["dispatch_attempts"] = {}
          /\ \A l : At(metrics["dispatch_attempts"], l) = 0
      BY <1>2, <2>4, <3>1, Zenon
    <3>3. IsFiniteSet({}) /\ Cardinality({}) = 0
      BY FS_EmptySet
    <3> QED  BY <2>3, <3>2, <3>3, Zenon DEF AttemptsShown
  <2>7. LatencyShown(c)
    BY <2>2, <2>4, FS_EmptySet DEF LatencyShown, Registered
  <2>8. StatisticsShown(c)
    BY <1>1, <1>2, <2>4, <2>5 DEF StatisticsShown, Registered
  <2>9. AnswersCovered(c)
    BY <1>1, <2>1, <2>2, FS_EmptySet DEF AnswersCovered, Told
  <2>. QED
    BY <2>6, <2>7, <2>8, <2>9 DEF AccountsOf
<1>. QED
  BY <1>3, <1>4, <1>5 DEF AccountsInv

(* Statistics, free tiers, metrics and what clients were told agree in     *)
(* every reachable state, for any number of requests, chains and           *)
(* candidates, whatever the order of answers, chunks and failures.         *)
THEOREM AccountsAlwaysAgree == MetricsSpec => []AccountsAgree
<1>1. MetricsInit => MeteredInv
  <2>1. MetricsInit => IInv
    BY InitEstablishes DEF MetricsInit
  <2>. QED
    BY <2>1, AccountsInit, TrailsInit DEF MeteredInv, MetricsInit
<1>2. MeteredInv /\ [MetricsNext]_metered_vars => MeteredInv'
  BY MeteredStep, TypeStep, RetriesStep, TrailsStep, SettledStep, AccountsStep
  DEF MeteredInv, IInv
<1>3. MeteredInv => AccountsAgree
  BY AccountsSuffice DEF MeteredInv, IInv
<1>. QED
  BY <1>1, <1>2, <1>3, PTL DEF MetricsSpec
=============================================================================
