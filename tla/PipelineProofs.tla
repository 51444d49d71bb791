--------------------------- MODULE PipelineProofs ----------------------------
(***************************************************************************)
(* Theorems about the path of a request through the router: CachedDispatch, *)
(* the response caches in front of it, for any number of requests, any      *)
(* sizes and any TTL; FifoCache, the caches of records, one of them the     *)
(* reasoning replay cache; and EmbeddingCalls, the request pipeline with    *)
(* the embeddings calls beside it, for every answer a provider may give,    *)
(* every way it may cut a stream into events, and every chain.             *)
(*                                                                         *)
(* That hits are own is not inductive: a hit is what an entry holds, and   *)
(* an entry what a request brought.  The invariant follows every answer    *)
(* from the provider to the request that got it and to the entry it        *)
(* became, in the semantic mode with the vector of the text it was for.    *)
(*                                                                         *)
(* That a stream put together is the unstreamed answer is a fact about     *)
(* sequences: what the caller has after n beats is a function of the first *)
(* n beats, the same for every adapter (PutTogether), the beats together   *)
(* say the answer's blocks, and so does the unstreamed answer.             *)
(*                                                                         *)
(* Of what is sent, the theorems say that replayed reasoning is that of    *)
(* the message's own calls, that a parameter required is there, and that   *)
(* every line was screened: each stage, transform and adapter is followed  *)
(* by what it keeps of a message and by the lines it makes texts of.       *)
(***************************************************************************)
EXTENDS CachedDispatch, EmbeddingCalls, FiniteSetTheorems, SequenceTheorems,
        WellFoundedInduction, TLAPS

Types ==
  /\ mode \in CacheMode
  /\ now \in 0..MaxTime
  /\ order \in Seq(Keys) /\ Len(order) <= MaxEntries
  /\ entries \in [Keys -> Entry \cup {None}]
  /\ pc \in [Requests -> Phases]
  /\ ask \in [Requests -> Asks \cup {None}]
  /\ resp \in [Requests -> Answers \cup {None}]
  /\ answers \in 0..MaxAnswers
  /\ asked \in [Answers -> Asks \cup {None}]
  /\ stored_at \in [Answers -> 0..MaxTime]
  /\ \A r \in Requests : /\ pc[r] # "idle" => ask[r] \in Asks
                         /\ pc[r] = "embedding" => mode = "semantic"

(* The answer a request is about to store is its own, and nobody else's.   *)
Brought ==
  \A r \in Requests : pc[r] = "storing" =>
    /\ resp[r] \in Answers /\ resp[r] <= answers /\ asked[resp[r]] = ask[r]
    /\ \A q \in Requests : q # r /\ pc[q] = "storing" => resp[q] # resp[r]

(* An entry holds an answer given for its key, stored when it says, which  *)
(* no request still carries.                                               *)
Kept ==
  \A k \in Cached :
    LET e == entries[k]
    IN /\ e \in Entry /\ e.answer <= answers
       /\ asked[e.answer] \in Asks /\ key_for(asked[e.answer]) = k
       /\ stored_at[e.answer] = e.inserted_at
       /\ \A r \in Requests : pc[r] = "storing" => resp[r] # e.answer

ExactHitsOwn == mode = "exact" => HitsAreBestMatches

CacheInv == Types /\ MapWithinQueue /\ Brought /\ Kept /\ ExactHitsOwn

-----------------------------------------------------------------------------
(* Two requests with one key are the same request.                         *)
LEMMA KeysAreExact ==
  ASSUME NEW j \in Asks, NEW k \in Asks, key_for(j) = key_for(k)
  PROVE  j = k
BY CacheAssumption DEF key_for

LEMMA KeyTypes == \A k \in Asks : key_for(k) \in Keys
BY DEF Keys

(* A pop that makes room drops the oldest key and no other.                *)
LEMMA TrimmedFacts ==
  ASSUME NEW q \in Seq(Keys), Len(q) <= MaxEntries + 1
  PROVE  /\ Trimmed(q) \in Seq(Keys) /\ Len(Trimmed(q)) <= MaxEntries
         /\ ToSet(q) \subseteq ToSet(Trimmed(q)) \cup Forgotten(q)
<1>1. MaxEntries \in Nat \ {0}
  BY CacheAssumption
<1>2. CASE Len(q) > MaxEntries
  <2>1. q # <<>> /\ Trimmed(q) = Tail(q) /\ Forgotten(q) = {Head(q)}
    BY <1>1, <1>2 DEF Trimmed, Forgotten
  <2>2. Tail(q) \in Seq(Keys) /\ Len(Tail(q)) = Len(q) - 1
        /\ \A i \in 1..Len(q) : i = 1 \/ q[i] = Tail(q)[i - 1]
    BY <2>1
  <2>3. ASSUME NEW i \in 1..Len(q) PROVE q[i] = Head(q) \/ q[i] \in ToSet(Tail(q))
    <3>1. CASE i = 1
      BY <2>1, <3>1
    <3>2. CASE i # 1
      <4>1. i - 1 \in DOMAIN Tail(q) /\ q[i] = Tail(q)[i - 1]
        BY <2>2, <2>3, <3>2
      <4> QED  BY <4>1 DEF ToSet
    <3> QED  BY <3>1, <3>2
  <2> QED  BY <1>1, <2>1, <2>2, <2>3 DEF ToSet
<1>3. CASE ~(Len(q) > MaxEntries)
  BY <1>1, <1>3 DEF Trimmed
<1> QED  BY <1>2, <1>3

(* A pushed key is in the queue, with every key that was.                  *)
LEMMA PushedFacts ==
  ASSUME NEW q \in Seq(Keys), NEW k \in Keys
  PROVE  /\ Append(q, k) \in Seq(Keys) /\ Len(Append(q, k)) = Len(q) + 1
         /\ ToSet(q) \subseteq ToSet(Append(q, k)) /\ k \in ToSet(Append(q, k))
         /\ q # <<>> => k \in ToSet(Tail(Append(q, k)))
<1>1. /\ Append(q, k) \in Seq(Keys) /\ Len(Append(q, k)) = Len(q) + 1
      /\ Append(q, k)[Len(q) + 1] = k
      /\ \A i \in 1..Len(q) : Append(q, k)[i] = q[i]
  OBVIOUS
<1>2. q # <<>> => Tail(Append(q, k)) = Append(Tail(q), k)
  OBVIOUS
<1>3. ASSUME NEW s \in Seq(Keys) PROVE k \in ToSet(Append(s, k))
  <2>1. Len(s) + 1 \in DOMAIN Append(s, k) /\ Append(s, k)[Len(s) + 1] = k
    OBVIOUS
  <2> QED  BY <2>1 DEF ToSet
<1>4. ASSUME q # <<>> PROVE k \in ToSet(Tail(Append(q, k)))
  <2>1. Tail(q) \in Seq(Keys)
    BY <1>4
  <2> QED  BY <1>2, <1>3, <1>4, <2>1
<1>5. ToSet(q) \subseteq ToSet(Append(q, k))
  BY <1>1 DEF ToSet
<1> QED  BY <1>1, <1>3, <1>4, <1>5

-----------------------------------------------------------------------------
(* The fields of a request that ends.                                      *)
LEMMA EndsFacts ==
  ASSUME Types, NEW r \in Requests, Ends(r)
  PROVE  /\ pc' \in [Requests -> Phases] /\ ask' \in [Requests -> Asks \cup {None}]
         /\ resp' \in [Requests -> Answers \cup {None}]
         /\ pc'[r] = "idle"
         /\ \A q \in Requests \ {r} : pc'[q] = pc[q] /\ ask'[q] = ask[q] /\ resp'[q] = resp[q]
BY DEF Types, Ends, Phases

(* Steps that touch neither the answers nor the exact cache, and that      *)
(* start no request on its way to store one.                               *)
LEMMA ElsewhereStep ==
  ASSUME CacheInv, Types', hit' = None,
         UNCHANGED <<mode, order, answers, asked, stored_at>>,
         \A k \in Keys : entries'[k] \in {entries[k], None},
         \A r \in Requests : pc'[r] = "storing" =>
           pc[r] = "storing" /\ resp'[r] = resp[r] /\ ask'[r] = ask[r]
  PROVE  CacheInv'
BY DEF Cached, CacheInv, MapWithinQueue, Brought, Kept, Entry, key_for, ExactHitsOwn,
   HitsAreBestMatches

(* A hit of the exact cache.                                               *)
LEMMA HitStep ==
  ASSUME CacheInv, NEW r \in Requests, NEW k \in Asks, ExactHit(r, k)
  PROVE  CacheInv'
<1>1. UNCHANGED <<mode, now, order, entries, pc, ask, resp, answers, asked, stored_at>>
  BY DEF ExactHit, exact
<1>2. Types' /\ MapWithinQueue' /\ Brought' /\ Kept'
  BY <1>1 DEF CacheInv, Types, MapWithinQueue, Cached, Brought, Kept
<1>3. /\ hit' = [answer |-> entries[key_for(k)].answer, ask |-> k, live |-> {}, at |-> now]
      /\ key_for(k) \in Cached /\ now - entries[key_for(k)].inserted_at <= TTL
  BY CacheAssumption DEF ExactHit, Expired, CacheInv, Kept, Types, Entry
<1>4. asked[entries[key_for(k)].answer] = k
  BY <1>3, KeysAreExact DEF CacheInv, Kept
<1>5. ExactHitsOwn'
  BY <1>1, <1>3, <1>4 DEF ExactHitsOwn, HitsAreBestMatches, CacheInv, Kept, ExactHit
<1> QED  BY <1>2, <1>5 DEF CacheInv

(* A provider's answer is new: nothing in the cache is it.                 *)
LEMMA AnswerStep ==
  ASSUME CacheInv, NEW r \in Requests, ProviderAnswers(r)
  PROVE  CacheInv'
<1> DEFINE a == answers + 1
<1>1. /\ answers \in Nat /\ answers < MaxAnswers /\ MaxAnswers \in Nat /\ a \in Answers
      /\ ask[r] \in Asks /\ pc[r] = "dispatching"
  BY BoundAssumption DEF CacheInv, Types, ProviderAnswers, Answers
<1>2. /\ answers' = a /\ asked' = [asked EXCEPT ![a] = ask[r]]
      /\ resp' = [resp EXCEPT ![r] = a] /\ pc' = [pc EXCEPT ![r] = "storing"] /\ hit' = None
      /\ UNCHANGED <<mode, now, order, entries, ask, stored_at>>
  BY DEF ProviderAnswers, exact
<1>3. Types'
  BY <1>1, <1>2 DEF CacheInv, Types, Phases
<1>4. MapWithinQueue'
  BY <1>2 DEF CacheInv, MapWithinQueue, Cached
<1>5. ASSUME NEW q \in Requests, q # r
      PROVE  pc'[q] = pc[q] /\ resp'[q] = resp[q]
  BY <1>2, <1>5 DEF CacheInv, Types
<1>6. /\ pc'[r] = "storing" /\ resp'[r] = a /\ asked'[a] = ask[r]
      /\ \A b \in Answers : b <= answers => asked'[b] = asked[b] /\ b # a
  BY <1>1, <1>2 DEF CacheInv, Types, Answers
<1>7. Brought'
  BY <1>1, <1>2, <1>5, <1>6 DEF CacheInv, Brought, Answers
<1>8. Kept'
  <2>1. Cached' = Cached /\ \A k \in Cached : entries[k].answer \in Answers
    BY <1>2 DEF Cached, CacheInv, Kept, Entry
  <2>2. ASSUME NEW k \in Cached
        PROVE  /\ entries'[k] \in Entry /\ entries'[k].answer <= answers'
               /\ asked'[entries'[k].answer] = asked[entries[k].answer]
               /\ stored_at'[entries'[k].answer] = entries'[k].inserted_at
               /\ entries'[k].answer # a
    BY <1>1, <1>2, <1>6, <2>1 DEF CacheInv, Kept, Answers
  <2>3. ASSUME NEW k \in Cached, NEW q \in Requests, pc'[q] = "storing"
        PROVE  resp'[q] # entries'[k].answer
    BY <1>2, <1>5, <1>6, <2>2, <2>3 DEF CacheInv, Kept
  <2> QED  BY <1>2, <2>1, <2>2, <2>3 DEF CacheInv, Kept, key_for
<1>9. ExactHitsOwn'
  BY <1>2 DEF ExactHitsOwn, HitsAreBestMatches
<1> QED  BY <1>3, <1>4, <1>7, <1>8, <1>9 DEF CacheInv

(* The insert: what the request brought becomes its key's entry, and the   *)
(* key is in the queue when the oldest has left.                           *)
LEMMA ExactStoreStep ==
  ASSUME CacheInv, NEW r \in Requests, ExactStore(r)
  PROVE  CacheInv'
<1> DEFINE k == key_for(ask[r])
           entry == [inserted_at |-> now, answer |-> resp[r]]
           pushed == IF k \in Cached THEN order ELSE Append(order, k)
<1>1. /\ pc[r] = "storing" /\ ask[r] \in Asks /\ k \in Keys /\ resp[r] \in Answers
      /\ resp[r] <= answers /\ asked[resp[r]] = ask[r] /\ now \in 0..MaxTime
  BY KeyTypes DEF ExactStore, CacheInv, Types, Brought
<1>2. entry \in Entry
  BY <1>1 DEF Entry
<1>3. /\ order' = Trimmed(pushed)
      /\ entries' = [j \in Keys |-> IF j = k THEN entry
                                    ELSE IF j \in Forgotten(pushed) THEN None
                                    ELSE entries[j]]
      /\ stored_at' = [stored_at EXCEPT ![resp[r]] = now]
      /\ Ends(r) /\ hit' = None /\ UNCHANGED <<mode, now, answers, asked>>
  BY DEF ExactStore
<1> HIDE DEF k, entry
<1>4. /\ pushed \in Seq(Keys) /\ Len(pushed) <= MaxEntries + 1
      /\ ToSet(order) \subseteq ToSet(pushed) /\ k \in ToSet(pushed)
      /\ k \in Cached => Len(pushed) <= MaxEntries
  BY <1>1, PushedFacts, CacheAssumption DEF CacheInv, Types, MapWithinQueue
<1>5. /\ Trimmed(pushed) \in Seq(Keys) /\ Len(Trimmed(pushed)) <= MaxEntries
      /\ ToSet(pushed) \subseteq ToSet(Trimmed(pushed)) \cup Forgotten(pushed)
  BY <1>4, TrimmedFacts
(* The pushed key itself is not the one that leaves, or is queued twice.   *)
<1>6. k \in ToSet(Trimmed(pushed))
  BY <1>4, <1>5, CacheAssumption, <1>1, PushedFacts DEF Forgotten, CacheInv, Types, Trimmed
<1> HIDE DEF pushed
<1>7. ASSUME NEW j \in Cached' PROVE j \in Keys /\ (j = k \/ (j \in Cached /\ j \notin Forgotten(pushed)))
  BY <1>3, <1>7 DEF Cached
<1>8. MapWithinQueue'
  BY <1>3, <1>4, <1>5, <1>6, <1>7 DEF CacheInv, MapWithinQueue
<1>9. /\ \A q \in Requests \ {r} : pc'[q] = pc[q] /\ ask'[q] = ask[q] /\ resp'[q] = resp[q]
      /\ pc'[r] = "idle" /\ pc' \in [Requests -> Phases]
      /\ ask' \in [Requests -> Asks \cup {None}] /\ resp' \in [Requests -> Answers \cup {None}]
  BY <1>3, EndsFacts DEF CacheInv
<1>10. Types'
  BY <1>1, <1>2, <1>3, <1>5, <1>9 DEF CacheInv, Types
<1>11. Brought'
  BY <1>3, <1>9 DEF CacheInv, Brought
<1>12. Kept'
  <2>1. ASSUME NEW j \in Cached', NEW q \in Requests, pc'[q] = "storing"
        PROVE  q # r /\ pc[q] = "storing" /\ resp'[q] = resp[q] /\ resp[q] # resp[r]
    BY <1>1, <1>9, <2>1 DEF CacheInv, Brought
  <2>2. ASSUME NEW j \in Cached', j = k
        PROVE  /\ entries'[j] \in Entry /\ entries'[j].answer = resp[r]
               /\ stored_at'[resp[r]] = entries'[j].inserted_at
    BY <1>1, <1>2, <1>3, <2>2 DEF CacheInv, Types, entry
  <2>3. ASSUME NEW j \in Cached', j # k
        PROVE  /\ j \in Cached /\ entries'[j] = entries[j] /\ entries[j].answer # resp[r]
               /\ entries[j] \in Entry
    BY <1>1, <1>3, <1>7, <2>3 DEF CacheInv, Kept
  <2>4. ASSUME NEW j \in Cached', j # k
        PROVE  stored_at'[entries'[j].answer] = entries'[j].inserted_at
    BY <1>3, <2>3, <2>4 DEF CacheInv, Kept, Types, Entry
  <2>5. ASSUME NEW j \in Cached', j = k
        PROVE  asked[entries'[j].answer] \in Asks /\ key_for(asked[entries'[j].answer]) = j
    BY <1>1, <2>2, <2>5 DEF k
  <2>6. ASSUME NEW j \in Cached'
        PROVE  LET e == entries'[j]
               IN /\ e \in Entry /\ e.answer <= answers'
                  /\ asked'[e.answer] \in Asks /\ key_for(asked'[e.answer]) = j
                  /\ stored_at'[e.answer] = e.inserted_at
                  /\ \A q \in Requests : pc'[q] = "storing" => resp'[q] # e.answer
    BY <1>1, <1>3, <2>1, <2>2, <2>5, <2>3, <2>4 DEF CacheInv, Kept
  <2> QED  BY <2>6 DEF Kept, key_for
<1>13. ExactHitsOwn'
  BY <1>3 DEF ExactHitsOwn, HitsAreBestMatches
<1> QED  BY <1>8, <1>10, <1>11, <1>12, <1>13 DEF CacheInv

(* The semantic cache's insert dates an answer no exact entry holds.       *)
LEMMA SemanticStoreStep ==
  ASSUME CacheInv, NEW r \in Requests, SemanticStore(r)
  PROVE  CacheInv'
<1>1. /\ stored_at' = [stored_at EXCEPT ![resp[r]] = now] /\ Ends(r) /\ hit' = None
      /\ UNCHANGED <<mode, now, order, entries, answers, asked>>
      /\ pc[r] = "storing" /\ resp[r] \in Answers /\ now \in 0..MaxTime
  BY DEF SemanticStore, exact, CacheInv, Brought, Types
<1>2. /\ \A q \in Requests \ {r} : pc'[q] = pc[q] /\ ask'[q] = ask[q] /\ resp'[q] = resp[q]
      /\ pc'[r] = "idle" /\ pc' \in [Requests -> Phases]
      /\ ask' \in [Requests -> Asks \cup {None}] /\ resp' \in [Requests -> Answers \cup {None}]
  BY <1>1, EndsFacts DEF CacheInv
<1>3. Types' /\ MapWithinQueue'
  BY <1>1, <1>2 DEF CacheInv, Types, MapWithinQueue, Cached
<1>4. Brought'
  BY <1>1, <1>2 DEF CacheInv, Brought
<1>5. Kept'
  <2>1. /\ entries' = entries /\ asked' = asked /\ answers' = answers /\ Cached' = Cached
        /\ \A a \in Answers \ {resp[r]} : stored_at'[a] = stored_at[a]
    BY <1>1 DEF CacheInv, Types, Cached
  <2>2. ASSUME NEW k \in Cached PROVE entries[k].answer \in Answers \ {resp[r]}
    BY <1>1 DEF CacheInv, Kept, Entry
  <2> QED  BY <1>1, <1>2, <2>1, <2>2 DEF CacheInv, Kept, key_for
<1>6. ExactHitsOwn'
  BY <1>1 DEF ExactHitsOwn, HitsAreBestMatches
<1> QED  BY <1>3, <1>4, <1>5, <1>6 DEF CacheInv

(* A hit of the semantic cache is none of the exact one's.                 *)
LEMMA SemanticHitStep ==
  ASSUME CacheInv, NEW r \in Requests, SemanticHit(r)
  PROVE  CacheInv'
<1>1. Ends(r) /\ UNCHANGED <<mode, now, order, entries, answers, asked, stored_at>>
  BY DEF SemanticHit, exact
<1>2. /\ \A q \in Requests \ {r} : pc'[q] = pc[q] /\ ask'[q] = ask[q] /\ resp'[q] = resp[q]
      /\ pc'[r] = "idle" /\ pc' \in [Requests -> Phases]
      /\ ask' \in [Requests -> Asks \cup {None}] /\ resp' \in [Requests -> Answers \cup {None}]
  BY <1>1, EndsFacts DEF CacheInv
<1>3. Types' /\ MapWithinQueue'
  BY <1>1, <1>2 DEF CacheInv, Types, MapWithinQueue, Cached
<1>4. Brought' /\ Kept'
  BY <1>1, <1>2 DEF CacheInv, Brought, Kept, Cached, key_for
<1>5. mode = "semantic"
  BY DEF SemanticHit, CacheInv, Types
<1>6. ExactHitsOwn'
  BY <1>1, <1>5 DEF ExactHitsOwn
<1> QED  BY <1>3, <1>4, <1>6 DEF CacheInv

(* The other steps bring nothing and store nothing.                        *)
LEMMA OtherSteps ==
  ASSUME CacheInv, NEW r \in Requests,
         \/ \E k \in Asks : ExactMiss(r, k) \/ Embed(r, k)
         \/ SemanticMiss(r) \/ SkipLookup(r) \/ ProviderFails(r) \/ SkipStore(r)
  PROVE  CacheInv'
<1>1. ASSUME NEW k \in Asks, ExactMiss(r, k) PROVE CacheInv'
  BY <1>1, ElsewhereStep DEF ExactMiss, CacheInv, Types, Phases
<1>2. ASSUME NEW k \in Asks, Embed(r, k) PROVE CacheInv'
  BY <1>2, ElsewhereStep DEF Embed, exact, CacheInv, Types, Phases
<1>3. CASE SemanticMiss(r) \/ SkipLookup(r)
  BY <1>3, ElsewhereStep DEF SemanticMiss, SkipLookup, exact, CacheInv, Types, Phases
<1>4. CASE ProviderFails(r) \/ SkipStore(r)
  BY <1>4, EndsFacts, ElsewhereStep DEF ProviderFails, SkipStore, exact, CacheInv, Types
<1> QED  BY <1>1, <1>2, <1>3, <1>4

LEMMA TickStep ==
  ASSUME CacheInv, Tick \/ UNCHANGED vars
  PROVE  CacheInv'
<1>1. CASE Tick
  BY <1>1, BoundAssumption, ElsewhereStep DEF Tick, exact, CacheInv, Types
<1>2. CASE UNCHANGED vars
  <2>1. UNCHANGED <<mode, now, order, entries, pc, ask, resp, answers, asked, stored_at, hit>>
    BY <1>2 DEF vars
  <2>2. Types' /\ MapWithinQueue'
    BY <2>1 DEF CacheInv, Types, MapWithinQueue, Cached
  <2>3. Brought' /\ Kept'
    BY <2>1 DEF CacheInv, Brought, Kept, Cached, key_for
  <2>4. ExactHitsOwn'
    BY <2>1 DEF CacheInv, ExactHitsOwn, HitsAreBestMatches
  <2> QED  BY <2>2, <2>3, <2>4 DEF CacheInv
<1> QED  BY <1>1, <1>2

LEMMA CacheStarts == Init => CacheInv
<1> SUFFICES ASSUME Init PROVE CacheInv
  OBVIOUS
<1>1. Types
  BY CacheAssumption, BoundAssumption DEF Init, Types, CacheMode, Phases
<1>2. Cached = {}
  BY DEF Init, Cached
<1>3. MapWithinQueue /\ Brought /\ Kept /\ ExactHitsOwn
  BY <1>2 DEF Init, MapWithinQueue, Brought, Kept, ExactHitsOwn, HitsAreBestMatches
<1> QED  BY <1>1, <1>3 DEF CacheInv

LEMMA CacheKept == CacheInv /\ [Next]_vars => CacheInv'
BY HitStep, OtherSteps, SemanticHitStep, AnswerStep, ExactStoreStep, SemanticStoreStep, TickStep DEF
   Next

LEMMA CacheInvInductive == Spec => []CacheInv
BY CacheStarts, CacheKept, PTL DEF Spec

(* ResponseCache's map never holds a key its queue has lost, so the queue's *)
(* bound is the map's, whatever concurrent requests look up and store.     *)
THEOREM MapStaysWithinQueue == Spec => []MapWithinQueue
<1>1. CacheInv => MapWithinQueue
  BY DEF CacheInv
<1> QED  BY <1>1, CacheInvInductive, PTL

-----------------------------------------------------------------------------
(* The caches of records, for every set of ids and every capacity: their   *)
(* queue and their map agree, and they implement RecentRecords.            *)
LEMMA FunctionIsSequence ==
  ASSUME NEW S, NEW n \in Nat, NEW f \in [1..n -> S]
  PROVE  f \in Seq(S) /\ Len(f) = n
OBVIOUS

(* What a push of a new id leaves, by positions.                           *)
LEMMA PushFacts ==
  ASSUME NEW q \in Seq(Ids), NEW id \in Ids, Len(q) <= Capacity
  PROVE  LET p == Append(q, id) IN
         /\ p \in Seq(Ids) /\ Len(p) = Len(q) + 1
         /\ \A i \in 1..Len(q) : p[i] = q[i]
         /\ p[Len(q) + 1] = id
         /\ Len(q) < Capacity => QueueTrimmed(p) = p /\ Dropped(p) = {}
         /\ Len(q) = Capacity =>
              /\ QueueTrimmed(p) \in Seq(Ids) /\ Len(QueueTrimmed(p)) = Capacity
              /\ \A i \in 1..Capacity : QueueTrimmed(p)[i] = p[i + 1]
              /\ Dropped(p) = {q[1]}
BY CapacityAssumption DEF QueueTrimmed, Dropped

-----------------------------------------------------------------------------
(* The queue and the map keep their types.                                 *)
LEMMA FifoInit == CacheInit => CacheTypeOK /\ OrderMatchesMap
BY CapacityAssumption DEF CacheInit, CacheTypeOK, OrderMatchesMap, Held

LEMMA FifoAdds ==
  ASSUME CacheTypeOK, OrderMatchesMap,
         NEW id \in Ids, NEW record \in Records,
         Add(id, record)
  PROVE  CacheTypeOK' /\ OrderMatchesMap'
<1> DEFINE p == Append(queue, id)
<1>1. queue \in Seq(Ids) /\ Len(queue) \in Nat /\ Len(queue) <= Capacity
      /\ Capacity \in Nat \ {0} /\ by_id[id] = NoRecord
      /\ by_id \in [Ids -> Records \cup {NoRecord}] /\ record # NoRecord
  BY CapacityAssumption, NoRecordAssumption DEF CacheTypeOK, OrderMatchesMap, Add, Held
<1>2. /\ queue' = QueueTrimmed(p)
      /\ by_id' = [k \in Ids |-> IF k = id THEN record
                                 ELSE IF k \in Dropped(p) THEN NoRecord ELSE by_id[k]]
  BY DEF Add
<1>3. \A i \in 1..Len(queue) : queue[i] # id
  BY <1>1 DEF OrderMatchesMap, Held
<1>4. /\ \A i, j \in 1..Len(queue) : queue[i] = queue[j] => i = j
      /\ \A k \in Ids : by_id[k] # NoRecord <=> \E i \in 1..Len(queue) : queue[i] = k
  BY DEF OrderMatchesMap, Held
<1>5. /\ p \in Seq(Ids) /\ Len(p) = Len(queue) + 1
      /\ \A i \in 1..Len(queue) : p[i] = queue[i]
      /\ p[Len(queue) + 1] = id
      /\ Len(queue) < Capacity => QueueTrimmed(p) = p /\ Dropped(p) = {}
      /\ Len(queue) = Capacity =>
           /\ QueueTrimmed(p) \in Seq(Ids) /\ Len(QueueTrimmed(p)) = Capacity
           /\ \A i \in 1..Capacity : QueueTrimmed(p)[i] = p[i + 1]
           /\ Dropped(p) = {queue[1]}
  BY <1>1, PushFacts
<1> HIDE DEF p
<1>6. by_id' \in [Ids -> Records \cup {NoRecord}]
  BY <1>1, <1>2
<1>7. CASE Len(queue) < Capacity
  <2>1. queue' = p /\ \A k \in Ids : by_id'[k] = IF k = id THEN record ELSE by_id[k]
    BY <1>2, <1>5, <1>7
  <2>2. \A i, j \in 1..Len(p) : p[i] = p[j] => i = j
    <3>1. \A i \in 1..Len(p) : i \in 1..Len(queue) \/ i = Len(queue) + 1
      BY <1>1, <1>5
    <3> QED  BY <1>3, <1>4, <1>5, <3>1
  <2>3. ASSUME NEW k \in Ids
        PROVE  by_id'[k] # NoRecord <=> \E i \in 1..Len(p) : p[i] = k
    <3>1. CASE k = id
      BY <1>1, <1>5, <2>1, <3>1
    <3>2. CASE k # id
      <4>1. by_id'[k] # NoRecord <=> \E i \in 1..Len(queue) : queue[i] = k
        BY <1>4, <2>1, <3>2
      <4>2. ASSUME NEW i \in 1..Len(p), p[i] = k PROVE i \in 1..Len(queue)
        BY <1>1, <1>5, <3>2, <4>2
      <4> QED  BY <1>1, <1>5, <4>1, <4>2
    <3> QED  BY <3>1, <3>2
  <2> QED  BY <1>1, <1>5, <1>6, <1>7, <2>1, <2>2, <2>3 DEF CacheTypeOK, OrderMatchesMap, Held
<1>8. CASE Len(queue) = Capacity
  <2> DEFINE t == QueueTrimmed(p)
  <2>1. /\ t \in Seq(Ids) /\ Len(t) = Capacity
        /\ \A i \in 1..Capacity - 1 : t[i] = queue[i + 1]
        /\ t[Capacity] = id
    BY <1>1, <1>5, <1>8
  <2>2. /\ queue' = t
        /\ \A k \in Ids : by_id'[k] = IF k = id THEN record
                                      ELSE IF k = queue[1] THEN NoRecord ELSE by_id[k]
    BY <1>2, <1>5, <1>8
  <2> HIDE DEF t
  <2>3. \A i, j \in 1..Len(t) : t[i] = t[j] => i = j
    BY <1>1, <1>3, <1>4, <1>8, <2>1
  <2>4. ASSUME NEW k \in Ids
        PROVE  by_id'[k] # NoRecord <=> \E i \in 1..Len(t) : t[i] = k
    <3>1. CASE k = id
      BY <1>1, <2>1, <2>2, <3>1
    <3>2. CASE k # id /\ k = queue[1]
      BY <1>1, <1>4, <1>8, <2>1, <2>2, <3>2
    <3>3. CASE k # id /\ k # queue[1]
      <4>1. by_id'[k] # NoRecord <=> \E i \in 1..Len(queue) : queue[i] = k
        BY <1>4, <2>2, <3>3
      <4>2. ASSUME NEW i \in 1..Len(queue), queue[i] = k
            PROVE  \E j \in 1..Len(t) : t[j] = k
        <5>1. i - 1 \in 1..Capacity - 1 /\ t[i - 1] = queue[i]
          BY <1>1, <1>8, <2>1, <3>3, <4>2
        <5> QED  BY <1>1, <2>1, <4>2, <5>1
      <4>3. ASSUME NEW j \in 1..Len(t), t[j] = k
            PROVE  \E i \in 1..Len(queue) : queue[i] = k
        BY <1>1, <1>8, <2>1, <3>3, <4>3
      <4> QED  BY <4>1, <4>2, <4>3
    <3> QED  BY <3>1, <3>2, <3>3
  <2> QED  BY <1>1, <1>6, <2>1, <2>2, <2>3, <2>4 DEF CacheTypeOK, OrderMatchesMap, Held
<1> QED  BY <1>1, <1>7, <1>8

LEMMA FifoReplaces ==
  ASSUME CacheTypeOK, OrderMatchesMap,
         NEW id \in Ids, NEW record \in Records,
         Replace(id, record)
  PROVE  CacheTypeOK' /\ OrderMatchesMap'
BY CapacityAssumption, NoRecordAssumption DEF CacheTypeOK, OrderMatchesMap, Replace, Held

LEMMA FifoStep ==
  ASSUME CacheTypeOK, OrderMatchesMap, [CacheNext]_cache_vars
  PROVE  CacheTypeOK' /\ OrderMatchesMap'
BY FifoAdds, FifoReplaces DEF cache_vars, CacheTypeOK, OrderMatchesMap, Held, CacheNext

LEMMA FifoInvariant ==
  CacheSpec => [](CacheTypeOK /\ OrderMatchesMap)
<1>1. CacheInit => CacheTypeOK /\ OrderMatchesMap
  BY FifoInit
<1>2. CacheTypeOK /\ OrderMatchesMap /\ [CacheNext]_cache_vars
        => CacheTypeOK' /\ OrderMatchesMap'
  BY FifoStep
<1> QED  BY <1>1, <1>2, PTL DEF CacheSpec

(* Queue and map keep their types.                                         *)
THEOREM FifoTypeInvariant ==
  CacheSpec => []CacheTypeOK
BY FifoInvariant, PTL

(* The queue and the map never drift apart.                                *)
THEOREM QueueMatchesMap ==
  CacheSpec => []OrderMatchesMap
BY FifoInvariant, PTL

-----------------------------------------------------------------------------
(* The mapped state: the records held, oldest first.                       *)
Mapped == [i \in 1..Len(queue) |-> [id |-> queue[i], record |-> by_id[queue[i]]]]

Listed == [id : Ids, record : Records \cup {NoRecord}]

LEMMA MappedIsSequence ==
  ASSUME CacheTypeOK
  PROVE  /\ Mapped \in Seq(Listed) /\ Len(Mapped) = Len(queue)
         /\ \A i \in 1..Len(queue) :
              /\ Mapped[i] = [id |-> queue[i], record |-> by_id[queue[i]]]
              /\ Mapped[i].id = queue[i]
BY FunctionIsSequence DEF CacheTypeOK, Mapped, Listed

(* Replacing a held record is Store of a held id.                          *)
LEMMA ReplaceRefines ==
  ASSUME CacheTypeOK, OrderMatchesMap,
         NEW id \in Ids, NEW record \in Records,
         Replace(id, record)
  PROVE  Recent!Store(id, record)
<1>1. /\ queue' = queue /\ by_id' = [by_id EXCEPT ![id] = record] /\ by_id[id] # NoRecord
      /\ Len(queue) \in Nat /\ by_id \in [Ids -> Records \cup {NoRecord}]
      /\ \A i \in 1..Len(queue) : queue[i] \in Ids
  BY DEF Replace, Held, CacheTypeOK
<1>2. PICK at \in 1..Len(queue) : queue[at] = id
  BY <1>1 DEF OrderMatchesMap, Held
<1>3. /\ Len(Mapped) = Len(queue)
      /\ \A i \in 1..Len(queue) :
           /\ Mapped[i] = [id |-> queue[i], record |-> by_id[queue[i]]]
           /\ Mapped[i].id = queue[i]
  BY MappedIsSequence
<1> DEFINE held == {i \in 1..Len(Mapped) : Mapped[i].id = id}
<1>4. held # {} /\ \A i \in 1..Len(queue) : i \in held <=> queue[i] = id
  BY <1>3, <1>2
<1>5. Mapped' = [i \in 1..Len(Mapped) |->
                   IF i \in held THEN [id |-> id, record |-> record] ELSE Mapped[i]]
  BY <1>1, <1>3, <1>4 DEF Mapped
<1> QED
  BY <1>4, <1>5 DEF Recent!Store, Recent!HeldAt, Mapped

(* Adding a new id is Store of an id that is not held.                     *)
LEMMA AddRefines ==
  ASSUME CacheTypeOK, OrderMatchesMap,
         NEW id \in Ids, NEW record \in Records,
         Add(id, record)
  PROVE  Recent!Store(id, record)
<1> DEFINE p == Append(queue, id)
           entry == [id |-> id, record |-> record]
<1>1. queue \in Seq(Ids) /\ Len(queue) \in Nat /\ Len(queue) <= Capacity
      /\ Capacity \in Nat \ {0} /\ by_id[id] = NoRecord
      /\ by_id \in [Ids -> Records \cup {NoRecord}]
      /\ \A i \in 1..Len(queue) : queue[i] \in Ids /\ queue[i] # id
  BY CapacityAssumption, NoRecordAssumption DEF CacheTypeOK, OrderMatchesMap, Add, Held
<1>2. /\ queue' = QueueTrimmed(p)
      /\ \A k \in Ids : by_id'[k] = IF k = id THEN record
                                    ELSE IF k \in Dropped(p) THEN NoRecord ELSE by_id[k]
  BY DEF Add
<1>3. /\ p \in Seq(Ids) /\ Len(p) = Len(queue) + 1
      /\ \A i \in 1..Len(queue) : p[i] = queue[i]
      /\ p[Len(queue) + 1] = id
      /\ Len(queue) < Capacity => QueueTrimmed(p) = p /\ Dropped(p) = {}
      /\ Len(queue) = Capacity =>
           /\ QueueTrimmed(p) \in Seq(Ids) /\ Len(QueueTrimmed(p)) = Capacity
           /\ \A i \in 1..Capacity : QueueTrimmed(p)[i] = p[i + 1]
           /\ Dropped(p) = {queue[1]}
  BY <1>1, PushFacts
<1>4. /\ Mapped \in Seq(Listed) /\ Len(Mapped) = Len(queue)
      /\ \A i \in 1..Len(queue) :
           /\ Mapped[i] = [id |-> queue[i], record |-> by_id[queue[i]]]
           /\ Mapped[i].id = queue[i]
  BY MappedIsSequence
<1>5. CacheTypeOK'
  BY FifoAdds
<1>6. /\ Mapped' \in Seq(Listed) /\ Len(Mapped') = Len(queue')
      /\ \A i \in 1..Len(queue') :
           Mapped'[i] = [id |-> queue'[i], record |-> by_id'[queue'[i]]]
  BY <1>5, FunctionIsSequence DEF CacheTypeOK, Mapped, Listed
<1>7. entry \in Listed
  BY DEF Listed
<1>8. {i \in 1..Len(Mapped) : Mapped[i].id = id} = {}
  <2>1. \A i \in 1..Len(Mapped) : Mapped[i].id # id
    BY <1>1, <1>4
  <2> QED  BY <2>1
<1>9. Mapped' = Append(IF Len(Mapped) = Capacity THEN Tail(Mapped) ELSE Mapped, entry)
  <2> HIDE DEF p, entry
  <2>1. CASE Len(queue) < Capacity
    <3> DEFINE a == Append(Mapped, entry)
    <3>1. /\ a \in Seq(Listed) /\ Len(a) = Len(queue) + 1
          /\ \A i \in 1..Len(queue) : a[i] = Mapped[i]
          /\ a[Len(queue) + 1] = entry
      BY <1>4, <1>7
    <3>2. queue' = p /\ \A k \in Ids : by_id'[k] = IF k = id THEN record ELSE by_id[k]
      BY <1>2, <1>3, <2>1
    <3> HIDE DEF a
    <3>3. ASSUME NEW i \in 1..Len(a) PROVE Mapped'[i] = a[i]
      <4>1. Mapped'[i] = [id |-> p[i], record |-> by_id'[p[i]]]
        BY <1>3, <1>6, <3>1, <3>2
      <4>2. CASE i \in 1..Len(queue)
        BY <1>1, <1>3, <3>2, <4>2, <1>4, <3>1, <4>1
      <4>3. CASE i = Len(queue) + 1
        BY <1>3, <3>2, <4>3, <3>1, <4>1 DEF entry
      <4> QED  BY <1>1, <3>1, <4>2, <4>3
    <3>4. Len(Mapped') = Len(a)
      BY <1>3, <1>6, <3>1, <3>2
    <3>5. Mapped' = a
      BY <1>6, <3>1, <3>3, <3>4
    <3> QED  BY <1>1, <1>4, <2>1, <3>5 DEF a
  <2>2. CASE Len(queue) = Capacity
    <3> DEFINE t == Tail(Mapped)
               a == Append(t, entry)
    <3>1. /\ t \in Seq(Listed) /\ Len(t) = Capacity - 1
          /\ \A i \in 1..Capacity - 1 : t[i] = Mapped[i + 1]
      BY <1>1, <1>4, <2>2
    <3> HIDE DEF t
    <3>2. /\ a \in Seq(Listed) /\ Len(a) = Capacity
          /\ \A i \in 1..Capacity - 1 : a[i] = Mapped[i + 1]
          /\ a[Capacity] = entry
      BY <1>1, <1>7, <3>1
    <3>3. /\ Len(queue') = Capacity
          /\ \A i \in 1..Capacity - 1 : queue'[i] = queue[i + 1]
          /\ queue'[Capacity] = id
      BY <1>3, <2>2, <1>2, <1>1
    <3>4. \A k \in Ids : by_id'[k] = IF k = id THEN record
                                     ELSE IF k = queue[1] THEN NoRecord ELSE by_id[k]
      BY <1>2, <1>3, <2>2
    <3> HIDE DEF a
    <3>5. ASSUME NEW i \in 1..Capacity - 1 PROVE Mapped'[i] = a[i]
      <4>1. i + 1 \in 1..Len(queue) /\ queue[i + 1] # queue[1] /\ queue[i + 1] # id
        BY <1>1, <2>2 DEF OrderMatchesMap
      <4>2. by_id'[queue[i + 1]] = by_id[queue[i + 1]]
        BY <1>1, <3>4, <4>1
      <4>3. Mapped'[i] = [id |-> queue[i + 1], record |-> by_id[queue[i + 1]]]
        BY <1>1, <1>6, <3>3, <4>2
      <4> QED  BY <1>4, <3>2, <4>1, <4>3
    <3>6. Mapped'[Capacity] = a[Capacity]
      BY <1>1, <1>6, <3>2, <3>3, <3>4 DEF entry
    <3>7. \A i \in 1..Capacity : Mapped'[i] = a[i]
      BY <1>1, <3>5, <3>6
    <3>8. Mapped' = a
      BY <1>1, <1>6, <3>2, <3>3, <3>7
    <3> QED  BY <1>4, <2>2, <3>8 DEF a, t
  <2> QED  BY <1>1, <2>1, <2>2
<1> QED
  BY <1>8, <1>9 DEF Recent!Store, Recent!HeldAt, Mapped

(* GenerationCache and ReasoningReplayCache implement RecentRecords.       *)
THEOREM ImplementsRecentRecords ==
  CacheSpec => HoldsRecentRecords
<1>1. CacheInit => Recent!Init
  BY DEF CacheInit, Recent!Init
<1>2. CacheTypeOK /\ OrderMatchesMap /\ [CacheNext]_cache_vars => [Recent!Next]_Mapped
  BY ReplaceRefines, AddRefines DEF cache_vars, Mapped, CacheNext, Recent!Next
<1>3. CacheSpec => [](CacheTypeOK /\ OrderMatchesMap)
  BY FifoInvariant
<1> QED
  BY <1>1, <1>2, <1>3, PTL DEF CacheSpec, HoldsRecentRecords, Recent!Spec, Mapped

-----------------------------------------------------------------------------
(* Sequences.  The library's induction theorems cannot be used here, so a  *)
(* fact about sequences of any length is one about a set of numbers that   *)
(* has 0 and the successors of its members (Inductive), or about a set of  *)
(* sequences that has the empty one and is closed under Append.            *)

(* A set of numbers with 0 and the successors of its members.              *)
LEMMA Inductive ==
  ASSUME NEW T, 0 \in T, \A n \in Nat : n \in T => n + 1 \in T
  PROVE  Nat \subseteq T
<1> DEFINE U == Nat \ T
<1> SUFFICES ASSUME U # {} PROVE FALSE
  OBVIOUS
<1>1. PICK x \in U : \A y \in U : ~ (<<y, x>> \in OpToRel(<, Nat))
  <2>1. U \subseteq Nat
    OBVIOUS
  <2> HIDE DEF U
  <2> QED  BY <2>1, NatLessThanWellFounded, WFMin
<1>2. x # 0 /\ x - 1 \in Nat
  OBVIOUS
<1>3. x - 1 \in U
  BY <1>2
<1>4. <<x - 1, x>> \in OpToRel(<, Nat)
  BY <1>2 DEF OpToRel
<1> QED  BY <1>1, <1>3, <1>4

(* What FlattenSeq's recursion computes.                                   *)
Flattens(f, s, n) == f = [i \in 1..n |-> IF i = 1 THEN s[i] ELSE f[i - 1] \o s[i]]

LEMMA FlattensAt ==
  ASSUME NEW s, NEW n \in Nat, NEW f, Flattens(f, s, n), NEW i \in 1..n
  PROVE  f[i] = IF i = 1 THEN s[i] ELSE f[i - 1] \o s[i]
BY DEF Flattens

LEMMA FlatteningExists ==
  ASSUME NEW s, NEW n \in Nat
  PROVE  \E f : Flattens(f, s, n)
<1> DEFINE T == { k \in Nat : \E f : Flattens(f, s, k) }
<1>1. 0 \in T
  <2>1. Flattens([i \in 1..0 |-> 0], s, 0)
    BY DEF Flattens
  <2> QED  BY <2>1
<1>2. ASSUME NEW k \in Nat, k \in T PROVE k + 1 \in T
  <2>1. PICK f : Flattens(f, s, k)
    BY <1>2
  <2> DEFINE g == [i \in 1..k + 1 |-> IF i <= k THEN f[i]
                                      ELSE IF i = 1 THEN s[i] ELSE f[i - 1] \o s[i]]
  <2>2. ASSUME NEW i \in 1..k + 1 PROVE g[i] = IF i = 1 THEN s[i] ELSE g[i - 1] \o s[i]
    BY <2>1, i \in 1..k + 1, i <= k => i \in 1..k, FlattensAt
  <2>3. Flattens(g, s, k + 1)
    BY <2>2 DEF Flattens
  <2> QED  BY <2>3
<1> HIDE DEF T
<1>3. Nat \subseteq T
  BY <1>1, <1>2, Inductive
<1> QED  BY <1>3 DEF T

LEMMA FlattensOf ==
  ASSUME NEW s, NEW n \in Nat \ {0}, Len(s) = n
  PROVE  \E f : Flattens(f, s, n) /\ FlattenSeq(s) = f[n]
BY FlatteningExists DEF Flattens, FlattenSeq

LEMMA FlattensAlike ==
  ASSUME NEW s, NEW t, NEW f, NEW g, NEW m \in Nat, NEW n \in Nat, m <= n,
         Flattens(f, s, m), Flattens(g, t, n), \A i \in 1..m : s[i] = t[i]
  PROVE  \A i \in 1..m : f[i] = g[i]
<1> DEFINE T == { k \in Nat : \A i \in 1..m : i <= k => f[i] = g[i] }
<1>1. 0 \in T
  OBVIOUS
<1>2. ASSUME NEW k \in Nat, k \in T PROVE k + 1 \in T
  BY <1>2, FlattensAt, k + 1 - 1 = k
<1> HIDE DEF T
<1>3. Nat \subseteq T
  BY <1>1, <1>2, Inductive
<1> QED  BY <1>3 DEF T

LEMMA FlattenEmpty == FlattenSeq(<<>>) = <<>>
BY DEF FlattenSeq

LEMMA FlattenAppend ==
  ASSUME NEW S, NEW s \in Seq(Seq(S)), NEW x \in Seq(S)
  PROVE  FlattenSeq(Append(s, x)) = FlattenSeq(s) \o x
<1> DEFINE t == Append(s, x)
           n == Len(s)
<1>1. n \in Nat /\ t \in Seq(Seq(S)) /\ Len(t) = n + 1 /\ t[n + 1] = x /\ \A i \in 1..n : t[i] = s[i]
  OBVIOUS
<1> HIDE DEF t, n
<1>2. PICK g : Flattens(g, t, n + 1) /\ FlattenSeq(t) = g[n + 1]
  BY <1>1, FlattensOf
<1>a. /\ n + 1 \in Nat /\ n + 1 \in 1..n + 1 /\ (n + 1) - 1 = n
  BY <1>1
<1>b. g[n + 1] = IF n + 1 = 1 THEN t[n + 1] ELSE g[(n + 1) - 1] \o t[n + 1]
  BY <1>2, <1>a, FlattensAt
<1>3. CASE n = 0
  BY <1>3, <1>b, <1>1, <1>2, FlattenEmpty DEF n, t
<1>4. CASE n # 0
  <2>1. PICK f : Flattens(f, s, n) /\ FlattenSeq(s) = f[n]
    BY <1>1, <1>4, FlattensOf DEF n
  <2>2. f[n] = g[n]
    <3>1. n \in 1..n /\ n <= n + 1
      BY <1>1, <1>4
    <3>2. Flattens(f, s, n) /\ Flattens(g, t, n + 1) /\ \A i \in 1..n : s[i] = t[i]
      BY <1>1, <1>2, <2>1
    <3>3. \A i \in 1..n : f[i] = g[i]
      BY <1>1, <1>a, <3>1, <3>2, FlattensAlike
    <3> QED  BY <3>1, <3>3
  <2>3. g[n + 1] = g[n] \o t[n + 1]
    <3>1. n + 1 # 1
      BY <1>1, <1>4
    <3> QED  BY <1>a, <1>b, <3>1
  <2> QED  BY <1>1, <1>2, <2>1, <2>2, <2>3 DEF t
<1> QED  BY <1>3, <1>4

LEMMA FlattenType ==
  ASSUME NEW S, NEW s \in Seq(Seq(S))
  PROVE  FlattenSeq(s) \in Seq(S)
<1> DEFINE T == { k \in Nat : \A t \in Seq(Seq(S)) : Len(t) = k => FlattenSeq(t) \in Seq(S) }
<1>1. 0 \in T
  <2>1. ASSUME NEW t \in Seq(Seq(S)), Len(t) = 0 PROVE FlattenSeq(t) \in Seq(S)
    <3>1. t = <<>>
      BY <2>1
    <3>2. FlattenSeq(t) = <<>>
      BY <3>1, FlattenEmpty
    <3> QED  BY <3>2
  <2> QED  BY <2>1
<1>2. ASSUME NEW k \in Nat, k \in T PROVE k + 1 \in T
  <2>1. ASSUME NEW t \in Seq(Seq(S)), Len(t) = k + 1 PROVE FlattenSeq(t) \in Seq(S)
    <3> DEFINE h == SubSeq(t, 1, k)
    <3>1. h \in Seq(Seq(S)) /\ Len(h) = k /\ t[k + 1] \in Seq(S) /\ t = Append(h, t[k + 1])
      BY <2>1
    <3> HIDE DEF h
    <3>2. FlattenSeq(t) = FlattenSeq(h) \o t[k + 1]
      BY <3>1, FlattenAppend
    <3>3. FlattenSeq(h) \in Seq(S)
      BY <1>2, <3>1
    <3> QED  BY <3>1, <3>2, <3>3
  <2> QED  BY <2>1
<1> HIDE DEF T
<1>3. Nat \subseteq T
  BY <1>1, <1>2, Inductive
<1>4. Len(s) \in T
  BY <1>3
<1> QED  BY <1>4 DEF T

LEMMA FlattenConcat ==
  ASSUME NEW S, NEW s \in Seq(Seq(S)), NEW t \in Seq(Seq(S))
  PROVE  FlattenSeq(s \o t) = FlattenSeq(s) \o FlattenSeq(t)
<1> DEFINE T == { k \in Nat : \A u \in Seq(Seq(S)) :
                    Len(u) = k => FlattenSeq(s \o u) = FlattenSeq(s) \o FlattenSeq(u) }
<1>1. 0 \in T
  <2>1. ASSUME NEW u \in Seq(Seq(S)), Len(u) = 0
        PROVE  FlattenSeq(s \o u) = FlattenSeq(s) \o FlattenSeq(u)
    BY <2>1, FlattenEmpty, FlattenType
  <2> QED  BY <2>1
<1>2. ASSUME NEW k \in Nat, k \in T PROVE k + 1 \in T
  <2>1. ASSUME NEW u \in Seq(Seq(S)), Len(u) = k + 1
        PROVE  FlattenSeq(s \o u) = FlattenSeq(s) \o FlattenSeq(u)
    <3> DEFINE h == SubSeq(u, 1, k)
               x == u[k + 1]
    <3>1. h \in Seq(Seq(S)) /\ Len(h) = k /\ x \in Seq(S) /\ u = Append(h, x)
      BY <2>1
    <3> HIDE DEF h, x
    <3>2. s \o u = Append(s \o h, x) /\ s \o h \in Seq(Seq(S))
      BY <3>1
    <3>3. FlattenSeq(s \o u) = FlattenSeq(s \o h) \o x /\ FlattenSeq(u) = FlattenSeq(h) \o x
      BY <3>1, <3>2, FlattenAppend
    <3>4. FlattenSeq(s \o h) = FlattenSeq(s) \o FlattenSeq(h)
      BY <1>2, <3>1
    <3>5. FlattenSeq(s) \in Seq(S) /\ FlattenSeq(h) \in Seq(S)
      BY <3>1, FlattenType
    <3>6. (FlattenSeq(s) \o FlattenSeq(h)) \o x = FlattenSeq(s) \o (FlattenSeq(h) \o x)
      BY <3>1, <3>5
    <3> QED  BY <3>3, <3>4, <3>6
  <2> QED  BY <2>1
<1> HIDE DEF T
<1>3. Nat \subseteq T
  BY <1>1, <1>2, Inductive
<1>4. Len(t) \in T
  BY <1>3
<1> QED  BY <1>4 DEF T

LEMMA ElementsOfConcat ==
  ASSUME NEW S, NEW s \in Seq(S), NEW t \in Seq(S), NEW x
  PROVE  x \in ToSet(s \o t) <=> x \in ToSet(s) \/ x \in ToSet(t)
<1>1. /\ DOMAIN (s \o t) = 1..Len(s) + Len(t) /\ DOMAIN s = 1..Len(s) /\ DOMAIN t = 1..Len(t)
      /\ Len(s) \in Nat /\ Len(t) \in Nat
      /\ \A i \in 1..Len(s) : (s \o t)[i] = s[i]
      /\ \A i \in 1..Len(t) : (s \o t)[Len(s) + i] = t[i]
  OBVIOUS
<1>2. ASSUME x \in ToSet(s \o t) PROVE x \in ToSet(s) \/ x \in ToSet(t)
  BY <1>2, <1>1 DEF ToSet
<1>3. ASSUME x \in ToSet(s) PROVE x \in ToSet(s \o t)
  BY <1>3, <1>1 DEF ToSet
<1>4. ASSUME x \in ToSet(t) PROVE x \in ToSet(s \o t)
  BY <1>4, <1>1 DEF ToSet
<1> QED  BY <1>2, <1>3, <1>4

(* A function on 1..n is a sequence.                                       *)
LEMMA FunctionIsASequence ==
  ASSUME NEW S, NEW n \in Nat, NEW f, f = [i \in 1..n |-> f[i]], \A i \in 1..n : f[i] \in S
  PROVE  f \in Seq(S) /\ Len(f) = n /\ DOMAIN f = 1..n
BY IsASeq

LEMMA FlattenElements ==
  ASSUME NEW S, NEW s \in Seq(Seq(S)), NEW x
  PROVE  x \in ToSet(FlattenSeq(s)) <=> \E i \in DOMAIN s : x \in ToSet(s[i])
<1> DEFINE Holds(u) == x \in ToSet(FlattenSeq(u)) <=> \E i \in DOMAIN u : x \in ToSet(u[i])
           T == { k \in Nat : \A u \in Seq(Seq(S)) : Len(u) = k => Holds(u) }
<1>1. 0 \in T
  BY FlattenEmpty DEF ToSet
<1>2. ASSUME NEW k \in Nat, k \in T PROVE k + 1 \in T
  <2>1. ASSUME NEW u \in Seq(Seq(S)), Len(u) = k + 1 PROVE Holds(u)
    <3> DEFINE h == SubSeq(u, 1, k)
               y == u[k + 1]
    <3>1. h \in Seq(Seq(S)) /\ Len(h) = k /\ y \in Seq(S) /\ u = Append(h, y)
      BY <2>1
    <3>2. \A i \in 1..k : u[i] = h[i]
      BY <2>1
    <3> HIDE DEF h
    <3>3. FlattenSeq(u) = FlattenSeq(h) \o y /\ FlattenSeq(h) \in Seq(S)
      BY <3>1, FlattenAppend, FlattenType
    <3>5. Holds(h)
      BY <1>2, <3>1
    <3>6. x \in ToSet(FlattenSeq(u)) <=> x \in ToSet(FlattenSeq(h)) \/ x \in ToSet(y)
      BY <3>1, <3>3, ElementsOfConcat
    <3>7. DOMAIN u = 1..k + 1 /\ DOMAIN h = 1..k
      BY <2>1, <3>1
    <3>8. (\E i \in DOMAIN u : x \in ToSet(u[i])) <=> (\E i \in DOMAIN h : x \in ToSet(h[i])) \/ x \in ToSet(y)
      <4>1. \A i \in DOMAIN u : i \in DOMAIN h \/ i = k + 1
        BY <3>7
      <4>2. DOMAIN h \subseteq DOMAIN u /\ k + 1 \in DOMAIN u
        BY <3>7
      <4>3. \A i \in DOMAIN h : u[i] = h[i]
        BY <3>2, <3>7
      <4> QED  BY <4>1, <4>2, <4>3
    <3> QED  BY <3>5, <3>6, <3>8
  <2> QED  BY <2>1
<1> HIDE DEF T
<1>3. Nat \subseteq T
  BY <1>1, <1>2, Inductive
<1>4. Len(s) \in T
  BY <1>3
<1> QED  BY <1>4 DEF T

(* The elements of a sequence, each changed by a function.                 *)
Through(s, f) == [n \in DOMAIN s |-> f[s[n]]]

(* The pieces g makes of the elements of a sequence, put together.         *)
Gathered(s, g) == FlattenSeq([i \in DOMAIN s |-> g[s[i]]])

LEMMA ThroughType ==
  ASSUME NEW S, NEW R, NEW g \in [S -> R], NEW s \in Seq(S)
  PROVE  Through(s, g) \in Seq(R)
BY FunctionIsASequence DEF Through

LEMMA ThroughLength ==
  ASSUME NEW S, NEW s \in Seq(S), NEW g
  PROVE  Len(Through(s, g)) = Len(s)
BY FunctionIsASequence DEF Through

LEMMA GatheredFacts ==
  ASSUME NEW S, NEW R, NEW g \in [S -> Seq(R)], NEW s \in Seq(S)
  PROVE  /\ Gathered(s, g) \in Seq(R)
         /\ [i \in DOMAIN s |-> g[s[i]]] \in Seq(Seq(R))
         /\ \A x : x \in ToSet(Gathered(s, g)) <=> \E i \in DOMAIN s : x \in ToSet(g[s[i]])
<1> DEFINE u == [i \in DOMAIN s |-> g[s[i]]]
<1>1. u \in Seq(Seq(R)) /\ DOMAIN u = DOMAIN s /\ \A i \in DOMAIN s : u[i] = g[s[i]]
  <2>1. u = Through(s, g)
    BY DEF Through
  <2>2. Through(s, g) \in Seq(Seq(R))
    BY ThroughType, Zenon
  <2> QED  BY <2>1, <2>2
<1>2. Gathered(s, g) = FlattenSeq(u)
  BY DEF Gathered
<1> HIDE DEF u
<1>3. FlattenSeq(u) \in Seq(R)
  BY <1>1, FlattenType
<1>4. \A x : x \in ToSet(FlattenSeq(u)) <=> \E i \in DOMAIN u : x \in ToSet(u[i])
  BY <1>1, FlattenElements
<1> QED  BY <1>1, <1>2, <1>3, <1>4 DEF u

LEMMA GatheredEmpty == ASSUME NEW g PROVE Gathered(<<>>, g) = <<>>
BY FlattenEmpty DEF Gathered

LEMMA GatheredConcat ==
  ASSUME NEW S, NEW R, NEW g \in [S -> Seq(R)], NEW s \in Seq(S), NEW t \in Seq(S)
  PROVE  Gathered(s \o t, g) = Gathered(s, g) \o Gathered(t, g)
<1> DEFINE u == [i \in DOMAIN s |-> g[s[i]]]
           v == [i \in DOMAIN t |-> g[t[i]]]
           w == [i \in DOMAIN (s \o t) |-> g[(s \o t)[i]]]
<1>1. /\ u \in Seq(Seq(R)) /\ v \in Seq(Seq(R)) /\ w \in Seq(Seq(R))
      /\ Len(u) = Len(s) /\ Len(v) = Len(t) /\ Len(w) = Len(s) + Len(t)
  <2>0. u = Through(s, g) /\ v = Through(t, g) /\ w = Through(s \o t, g)
    BY DEF Through
  <2>1. Through(s, g) \in Seq(Seq(R)) /\ Len(Through(s, g)) = Len(s)
    BY ThroughType, ThroughLength
  <2>2. Through(t, g) \in Seq(Seq(R)) /\ Len(Through(t, g)) = Len(t)
    BY ThroughType, ThroughLength
  <2>3. s \o t \in Seq(S) /\ Len(s \o t) = Len(s) + Len(t)
    OBVIOUS
  <2>4. Through(s \o t, g) \in Seq(Seq(R)) /\ Len(Through(s \o t, g)) = Len(s \o t)
    BY <2>3, ThroughType, ThroughLength
  <2> HIDE DEF u, v, w
  <2> QED  BY <2>0, <2>1, <2>2, <2>3, <2>4
<1>3. /\ \A i \in 1..Len(s) : u[i] = g[s[i]]
      /\ \A i \in 1..Len(t) : v[i] = g[t[i]]
      /\ \A i \in 1..Len(s) + Len(t) : w[i] = g[(s \o t)[i]]
  <2>1. DOMAIN (s \o t) = 1..Len(s) + Len(t) /\ DOMAIN s = 1..Len(s) /\ DOMAIN t = 1..Len(t)
    OBVIOUS
  <2> QED  BY <2>1
<1>4. Len(s) \in Nat /\ Len(t) \in Nat
  OBVIOUS
<1>5. /\ \A i \in 1..Len(s) : (s \o t)[i] = s[i]
      /\ \A i \in 1..Len(s) + Len(t) : i > Len(s) => (s \o t)[i] = t[i - Len(s)]
  BY <1>4
<1>2. Gathered(s, g) = FlattenSeq(u) /\ Gathered(t, g) = FlattenSeq(v)
      /\ Gathered(s \o t, g) = FlattenSeq(w)
  BY DEF Gathered
<1> HIDE DEF u, v, w
<1>0. w = u \o v
  <2>1. ASSUME NEW i \in 1..Len(s) + Len(t) PROVE w[i] = (u \o v)[i]
    <3>1. CASE i <= Len(s)
      BY <1>1, <1>4, <3>1, <1>3, <1>5
    <3>2. CASE i > Len(s)
      <4>0. i - Len(s) \in 1..Len(t) /\ i \in Int
        BY <1>4, <3>2
      <4>2. Len(u) = Len(s) /\ Len(v) = Len(t) /\ u \in Seq(Seq(R)) /\ v \in Seq(Seq(R))
        BY <1>1
      <4>1. (u \o v)[i] = v[i - Len(s)] /\ i - Len(s) \in 1..Len(t)
        BY <4>0, <4>2, <1>4, <3>2, SMTT(40)
      <4> QED  BY <4>1, <3>2, <1>3, <1>5
    <3>3. i <= Len(s) \/ i > Len(s)
      BY <1>4
    <3> QED  BY <3>1, <3>2, <3>3, Zenon
  <2>2. u \o v \in Seq(Seq(R)) /\ Len(u \o v) = Len(s) + Len(t)
    BY <1>1
  <2> QED  BY <1>1, <2>1, <2>2, SeqEqual
<1> QED  BY <1>0, <1>1, <1>2, FlattenConcat

LEMMA GatheredOne ==
  ASSUME NEW S, NEW R, NEW g \in [S -> Seq(R)], NEW x \in S
  PROVE  Gathered(<<x>>, g) = g[x]
<1> DEFINE u == [i \in DOMAIN <<x>> |-> g[<<x>>[i]]]
<1>1. <<>> \in Seq(Seq(R)) /\ g[x] \in Seq(R) /\ u = Append(<<>>, g[x])
  OBVIOUS
<1>2. Gathered(<<x>>, g) = FlattenSeq(u)
  BY DEF Gathered
<1> HIDE DEF u
<1>3. FlattenSeq(u) = FlattenSeq(<<>>) \o g[x]
  BY <1>1, FlattenAppend
<1> QED  BY <1>1, <1>2, <1>3, FlattenEmpty

LEMMA GatheredAppend ==
  ASSUME NEW S, NEW R, NEW g \in [S -> Seq(R)], NEW s \in Seq(S), NEW x \in S
  PROVE  Gathered(Append(s, x), g) = Gathered(s, g) \o g[x]
<1>1. Append(s, x) = s \o <<x>> /\ <<x>> \in Seq(S)
  OBVIOUS
<1>2. Gathered(s \o <<x>>, g) = Gathered(s, g) \o Gathered(<<x>>, g)
  BY <1>1, GatheredConcat
<1>3. Gathered(<<x>>, g) = g[x]
  BY GatheredOne
<1> QED  BY <1>1, <1>2, <1>3

LEMMA SequenceInduction ==
  ASSUME NEW S, NEW P, <<>> \in P, \A s \in Seq(S), x \in S : s \in P => Append(s, x) \in P
  PROVE  Seq(S) \subseteq P
<1> DEFINE T == { k \in Nat : \A s \in Seq(S) : Len(s) = k => s \in P }
<1>1. 0 \in T
  OBVIOUS
<1>2. ASSUME NEW k \in Nat, k \in T PROVE k + 1 \in T
  <2>1. ASSUME NEW s \in Seq(S), Len(s) = k + 1 PROVE s \in P
    <3> DEFINE h == SubSeq(s, 1, k)
    <3>1. h \in Seq(S) /\ Len(h) = k /\ s[k + 1] \in S /\ s = Append(h, s[k + 1])
      BY <2>1
    <3>2. h \in P
      BY <1>2, <3>1
    <3> QED  BY <3>1, <3>2
  <2> QED  BY <2>1
<1> HIDE DEF T
<1>3. Nat \subseteq T
  BY <1>1, <1>2, Inductive
<1> QED  BY <1>3 DEF T

LEMMA ThroughFacts ==
  ASSUME NEW S, NEW R, NEW f \in [S -> R], NEW s \in Seq(S)
  PROVE  /\ Through(s, f) \in Seq(R) /\ Len(Through(s, f)) = Len(s)
         /\ DOMAIN Through(s, f) = 1..Len(s)
         /\ \A i \in 1..Len(s) : Through(s, f)[i] = f[s[i]]
BY ThroughType, ThroughLength DEF Through

LEMMA ThroughLen ==
  ASSUME NEW S, NEW s \in Seq(S), NEW f
  PROVE  /\ Through(s, f) \in Seq({ f[x] : x \in S }) /\ Len(Through(s, f)) = Len(s)
         /\ DOMAIN Through(s, f) = 1..Len(s)
         /\ \A i \in 1..Len(s) : Through(s, f)[i] = f[s[i]]
BY FunctionIsASequence DEF Through

LEMMA ThroughEmpty == ASSUME NEW f PROVE Through(<<>>, f) = <<>>
BY DEF Through

LEMMA ThroughAppend ==
  ASSUME NEW S, NEW R, NEW f \in [S -> R], NEW s \in Seq(S), NEW x \in S
  PROVE  Through(Append(s, x), f) = Append(Through(s, f), f[x])
<1>0. ASSUME NEW y \in Seq(S)
      PROVE  /\ Through(y, f) \in Seq(R) /\ Len(Through(y, f)) = Len(y)
             /\ \A i \in 1..Len(y) : Through(y, f)[i] = f[y[i]]
  <2>1. /\ Through(y, f) \in Seq(R) /\ Len(Through(y, f)) = Len(y)
    BY ThroughType, ThroughLength
  <2>2. \A i \in 1..Len(y) : Through(y, f)[i] = f[y[i]]
    BY DEF Through
  <2> QED  BY <2>1, <2>2
<1> DEFINE t == Append(s, x)
           u == Through(t, f)
           v == Through(s, f)
<1>1. t \in Seq(S) /\ Len(t) = Len(s) + 1 /\ t[Len(s) + 1] = x /\ \A i \in 1..Len(s) : t[i] = s[i]
  OBVIOUS
<1>2. u \in Seq(R) /\ Len(u) = Len(t) /\ \A i \in 1..Len(t) : u[i] = f[t[i]]
  <2> HIDE DEF t
  <2> QED  BY <1>1, <1>0
<1>3. v \in Seq(R) /\ Len(v) = Len(s) /\ \A i \in 1..Len(s) : v[i] = f[s[i]]
  BY <1>0
<1>4. f[x] \in R /\ Len(s) \in Nat
  OBVIOUS
<1> HIDE DEF t, u, v
<1>5. Append(v, f[x]) \in Seq(R) /\ Len(Append(v, f[x])) = Len(s) + 1
      /\ Append(v, f[x])[Len(s) + 1] = f[x] /\ \A i \in 1..Len(s) : Append(v, f[x])[i] = v[i]
  BY <1>3, <1>4
<1>6. ASSUME NEW i \in 1..Len(u) PROVE u[i] = Append(v, f[x])[i]
  BY <1>1, <1>2, <1>4, <1>5, <1>3
<1>7. u = Append(v, f[x])
  BY <1>1, <1>2, <1>5, <1>6, SeqEqual
<1> QED  BY <1>7 DEF u, v, t

LEMMA PickedEmpty == ASSUME NEW I PROVE Picked(<<>>, I) = <<>>
BY FlattenEmpty DEF Picked

(* Each element picked, or nothing in its place.                           *)
Chosen(s, I) == [i \in DOMAIN s |-> IF i \in I THEN <<s[i]>> ELSE <<>>]

LEMMA PickedIsFlattened ==
  ASSUME NEW s, NEW I
  PROVE  Picked(s, I) = FlattenSeq(Chosen(s, I))
BY DEF Picked, Chosen

LEMMA ChosenFacts ==
  ASSUME NEW S, NEW s \in Seq(S), NEW I
  PROVE  /\ Chosen(s, I) \in Seq(Seq(S)) /\ Len(Chosen(s, I)) = Len(s)
         /\ \A i \in 1..Len(s) : Chosen(s, I)[i] = IF i \in I THEN <<s[i]>> ELSE <<>>
<1> DEFINE u == Chosen(s, I)
<1>1. Len(s) \in Nat /\ DOMAIN s = 1..Len(s) /\ \A i \in 1..Len(s) : s[i] \in S
  OBVIOUS
<1>2. u = [i \in 1..Len(s) |-> u[i]] /\ \A i \in 1..Len(s) : u[i] = IF i \in I THEN <<s[i]>> ELSE <<>>
  BY <1>1 DEF Chosen
<1> HIDE DEF u
<1>3. ASSUME NEW i \in 1..Len(s) PROVE u[i] \in Seq(S)
  <2>1. s[i] \in S
    BY <1>1
  <2>2. <<s[i]>> \in Seq(S) /\ <<>> \in Seq(S)
    BY <2>1
  <2> QED  BY <2>2, <1>2
<1>4. u \in Seq(Seq(S)) /\ Len(u) = Len(s)
  BY <1>1, <1>2, <1>3, FunctionIsASequence
<1> QED  BY <1>2, <1>4 DEF u

LEMMA PickedFacts ==
  ASSUME NEW S, NEW s \in Seq(S), NEW I
  PROVE  /\ Picked(s, I) \in Seq(S)
         /\ \A x : x \in ToSet(Picked(s, I)) <=> \E i \in DOMAIN s : i \in I /\ x = s[i]
<1> DEFINE u == Chosen(s, I)
<1>1. u \in Seq(Seq(S)) /\ Len(u) = Len(s)
      /\ \A i \in 1..Len(s) : u[i] = IF i \in I THEN <<s[i]>> ELSE <<>>
  BY ChosenFacts
<1>2. Picked(s, I) = FlattenSeq(u)
  BY PickedIsFlattened
<1> HIDE DEF u
<1>3. FlattenSeq(u) \in Seq(S) /\ \A x : x \in ToSet(FlattenSeq(u)) <=> \E i \in DOMAIN u : x \in ToSet(u[i])
  BY <1>1, FlattenType, FlattenElements
<1>4. DOMAIN u = 1..Len(s) /\ DOMAIN s = 1..Len(s)
  BY <1>1
<1>5. ASSUME NEW i \in 1..Len(s), NEW x PROVE x \in ToSet(u[i]) <=> i \in I /\ x = s[i]
  <2>1. CASE i \in I
    <3>1. u[i] = <<s[i]>>
      BY <2>1, <1>1
    <3>2. ToSet(<<s[i]>>) = {s[i]}
      BY DEF ToSet
    <3> QED  BY <3>1, <3>2, <2>1
  <2>2. CASE i \notin I
    <3>1. u[i] = <<>>
      BY <2>2, <1>1
    <3>2. ToSet(<<>>) = {}
      BY DEF ToSet
    <3> QED  BY <3>1, <3>2, <2>2
  <2> QED  BY <2>1, <2>2
<1> QED  BY <1>2, <1>3, <1>4, <1>5

LEMMA PickedAppend ==
  ASSUME NEW S, NEW s \in Seq(S), NEW x \in S, NEW I
  PROVE  Picked(Append(s, x), I) = IF Len(s) + 1 \in I THEN Append(Picked(s, I), x) ELSE Picked(s, I)
<1> DEFINE t == Append(s, x)
           u == Chosen(s, I)
           w == Chosen(t, I)
           y == IF Len(s) + 1 \in I THEN <<x>> ELSE <<>>
<1>1. t \in Seq(S) /\ Len(t) = Len(s) + 1 /\ t[Len(s) + 1] = x /\ Len(s) \in Nat
      /\ \A i \in 1..Len(s) : t[i] = s[i]
  OBVIOUS
<1>2. u \in Seq(Seq(S)) /\ Len(u) = Len(s)
      /\ \A i \in 1..Len(s) : u[i] = IF i \in I THEN <<s[i]>> ELSE <<>>
  BY ChosenFacts
<1>3. w \in Seq(Seq(S)) /\ Len(w) = Len(t)
      /\ \A i \in 1..Len(t) : w[i] = IF i \in I THEN <<t[i]>> ELSE <<>>
  <2>1. t \in Seq(S)
    BY <1>1
  <2> HIDE DEF t
  <2> QED  BY <2>1, ChosenFacts
<1>4. y \in Seq(S)
  OBVIOUS
<1>5. Picked(s, I) = FlattenSeq(u) /\ Picked(t, I) = FlattenSeq(w)
  BY PickedIsFlattened
<1> HIDE DEF t, u, w
<1>6. w = Append(u, y)
  <2> DEFINE z == Append(u, y)
  <2>1. z \in Seq(Seq(S)) /\ Len(z) = Len(s) + 1 /\ z[Len(s) + 1] = y /\ \A i \in 1..Len(s) : z[i] = u[i]
    BY <1>2, <1>4
  <2> HIDE DEF z
  <2>2. ASSUME NEW i \in 1..Len(w) PROVE w[i] = z[i]
    <3>1. CASE i = Len(s) + 1
      BY <3>1, <1>1, <1>3, <2>1
    <3>2. CASE i \in 1..Len(s)
      BY <3>2, <1>1, <1>2, <1>3, <2>1
    <3>3. i = Len(s) + 1 \/ i \in 1..Len(s)
      BY <1>1, <1>3
    <3> QED  BY <3>1, <3>2, <3>3
  <2>3. w = z
    BY <1>1, <1>3, <2>1, <2>2, SeqEqual
  <2> QED  BY <2>3 DEF z
<1>7. Picked(t, I) = Picked(s, I) \o y
  BY <1>2, <1>4, <1>5, <1>6, FlattenAppend
<1>8. Picked(s, I) \in Seq(S)
  BY PickedFacts
<1>9. CASE Len(s) + 1 \in I
  BY <1>8, <1>7, <1>9 DEF t
<1>10. CASE Len(s) + 1 \notin I
  BY <1>8, <1>7, <1>10 DEF t
<1> QED  BY <1>9, <1>10

LEMMA PickedThrough ==
  ASSUME NEW S, NEW s \in Seq(S), NEW I, NEW f, f \in [S -> { f[x] : x \in S }]
  PROVE  Through(Picked(s, I), f) = Picked(Through(s, f), I)
<1> DEFINE R == { f[x] : x \in S }
<1>0. f \in [S -> R]
  OBVIOUS
<1> HIDE DEF R
<1> DEFINE P == { t \in Seq(S) : Through(Picked(t, I), f) = Picked(Through(t, f), I) }
<1>1. <<>> \in P
  BY PickedEmpty, ThroughEmpty
<1>2. ASSUME NEW t \in Seq(S), NEW x \in S, t \in P PROVE Append(t, x) \in P
  <2> DEFINE u == Append(t, x)
  <2>1. Through(u, f) = Append(Through(t, f), f[x])
    <3>1. \A z \in Seq(S), w \in S : Through(Append(z, w), f) = Append(Through(z, f), f[w])
      BY <1>0, ThroughAppend
    <3> QED  BY <3>1
  <2>2. Through(t, f) \in Seq(R) /\ Len(Through(t, f)) = Len(t) /\ f[x] \in R
    BY ThroughLen, <1>0 DEF R
  <2>3. Picked(Through(u, f), I) = IF Len(t) + 1 \in I THEN Append(Picked(Through(t, f), I), f[x])
                                   ELSE Picked(Through(t, f), I)
    BY <2>1, <2>2, PickedAppend
  <2>4. Picked(u, I) = IF Len(t) + 1 \in I THEN Append(Picked(t, I), x) ELSE Picked(t, I)
    BY PickedAppend
  <2>5. Picked(t, I) \in Seq(S)
    BY PickedFacts
  <2>6. Through(Append(Picked(t, I), x), f) = Append(Through(Picked(t, I), f), f[x])
    <3>1. \A z \in Seq(S), w \in S : Through(Append(z, w), f) = Append(Through(z, f), f[w])
      BY <1>0, ThroughAppend
    <3> QED  BY <2>5, <3>1
  <2>7. Through(Picked(u, I), f) = Picked(Through(u, f), I)
    BY <1>2, <2>3, <2>4, <2>6
  <2>8. u \in Seq(S)
    OBVIOUS
  <2> QED  BY <2>7, <2>8
<1> HIDE DEF P
<1>3. Seq(S) \subseteq P
  BY <1>1, <1>2, SequenceInduction
<1> QED  BY <1>3 DEF P

LEMMA ThroughPicked ==
  ASSUME NEW S, NEW f, NEW s \in Seq(S), NEW I
  PROVE  Through(Picked(s, I), f) = Picked(Through(s, f), I)
<1> DEFINE g == [x \in S |-> f[x]]
<1>1. g \in [S -> { g[x] : x \in S }]
  OBVIOUS
<1>2. ASSUME NEW t \in Seq(S) PROVE Through(t, g) = Through(t, f)
  BY DEF Through
<1> HIDE DEF g
<1>3. Through(Picked(s, I), g) = Picked(Through(s, g), I)
  BY <1>1, PickedThrough
<1>4. Picked(s, I) \in Seq(S)
  BY PickedFacts
<1> QED  BY <1>2, <1>3, <1>4

LEMMA GatheredFlatten ==
  ASSUME NEW S, NEW R, NEW g \in [S -> Seq(R)], NEW ss \in Seq(Seq(S))
  PROVE  Gathered(FlattenSeq(ss), g) = Gathered(ss, [x \in Seq(S) |-> Gathered(x, g)])
<1> DEFINE h == [x \in Seq(S) |-> Gathered(x, g)]
<1>0. h \in [Seq(S) -> Seq(R)] /\ \A x \in Seq(S) : h[x] = Gathered(x, g)
  BY GatheredFacts
<1> HIDE DEF h
<1> DEFINE P == { t \in Seq(Seq(S)) : Gathered(FlattenSeq(t), g) = Gathered(t, h) }
<1>1. <<>> \in P
  BY FlattenEmpty, GatheredEmpty
<1>2. ASSUME NEW t \in Seq(Seq(S)), NEW x \in Seq(S), t \in P PROVE Append(t, x) \in P
  <2>1. FlattenSeq(Append(t, x)) = FlattenSeq(t) \o x
    BY FlattenAppend
  <2>2. FlattenSeq(t) \in Seq(S)
    BY FlattenType
  <2>3. Gathered(FlattenSeq(t) \o x, g) = Gathered(FlattenSeq(t), g) \o Gathered(x, g)
    BY <2>2, GatheredConcat
  <2>4. Gathered(Append(t, x), h) = Gathered(t, h) \o h[x]
    BY <1>0, GatheredAppend
  <2>5. Gathered(FlattenSeq(Append(t, x)), g) = Gathered(Append(t, x), h)
    BY <1>0, <1>2, <2>1, <2>3, <2>4
  <2>6. Append(t, x) \in Seq(Seq(S))
    OBVIOUS
  <2> QED  BY <2>5, <2>6
<1> HIDE DEF P
<1>3. Seq(Seq(S)) \subseteq P
  BY <1>1, <1>2, SequenceInduction
<1> QED  BY <1>3 DEF P, h

LEMMA PickedAll ==
  ASSUME NEW S, NEW s \in Seq(S), NEW I, 1..Len(s) \subseteq I
  PROVE  Picked(s, I) = s
<1> DEFINE P == { t \in Seq(S) : 1..Len(t) \subseteq I => Picked(t, I) = t }
<1>1. <<>> \in P
  BY PickedEmpty
<1>2. ASSUME NEW t \in Seq(S), NEW x \in S, t \in P PROVE Append(t, x) \in P
  BY PickedAppend, <1>2
<1> HIDE DEF P
<1>3. Seq(S) \subseteq P
  BY <1>1, <1>2, SequenceInduction
<1> QED  BY <1>3 DEF P

LEMMA EmptyByElements ==
  ASSUME NEW S, NEW s \in Seq(S), ToSet(s) = {}
  PROVE  s = <<>>
<1> SUFFICES ASSUME s # <<>> PROVE FALSE
  OBVIOUS
<1>1. 1 \in DOMAIN s
  OBVIOUS
<1> QED  BY <1>1 DEF ToSet

LEMMA PickedNone ==
  ASSUME NEW S, NEW s \in Seq(S), NEW I, \A i \in DOMAIN s : i \notin I
  PROVE  Picked(s, I) = <<>>
BY PickedFacts, EmptyByElements

LEMMA FlattenOfEmpties ==
  ASSUME NEW S, NEW s \in Seq(Seq(S)), \A i \in 1..Len(s) : s[i] = <<>>
  PROVE  FlattenSeq(s) = <<>>
<1>1. FlattenSeq(s) \in Seq(S) /\ \A x : x \in ToSet(FlattenSeq(s)) <=> \E i \in DOMAIN s : x \in ToSet(s[i])
  BY FlattenType, FlattenElements
<1>2. \A i \in DOMAIN s : s[i] = <<>>
  OBVIOUS
<1>3. ToSet(<<>>) = {}
  BY DEF ToSet
<1>4. ToSet(FlattenSeq(s)) = {}
  BY <1>1, <1>2, <1>3
<1> QED  BY <1>1, <1>4, EmptyByElements

LEMMA Halves ==
  ASSUME NEW S, NEW s \in Seq(S), NEW m \in 0..Len(s), NEW n \in m..Len(s)
  PROVE  /\ SubSeq(s, 1, m) \in Seq(S) /\ SubSeq(s, m + 1, n) \in Seq(S)
         /\ Len(SubSeq(s, 1, m)) = m /\ Len(SubSeq(s, m + 1, n)) = n - m
         /\ \A i \in 1..m : SubSeq(s, 1, m)[i] = s[i]
         /\ \A i \in 1..n - m : SubSeq(s, m + 1, n)[i] = s[m + i]
         /\ SubSeq(s, 1, n) = SubSeq(s, 1, m) \o SubSeq(s, m + 1, n)
<1>1. m \in Nat /\ n \in Nat /\ m <= n /\ n <= Len(s) /\ Len(s) \in Nat
  OBVIOUS
<1>2. SubSeq(s, 1, m) \in Seq(S) /\ Len(SubSeq(s, 1, m)) = m /\ \A i \in 1..m : SubSeq(s, 1, m)[i] = s[i]
  BY <1>1
<1>3. SubSeq(s, 1, n) \in Seq(S) /\ Len(SubSeq(s, 1, n)) = n /\ \A i \in 1..n : SubSeq(s, 1, n)[i] = s[i]
  BY <1>1
<1>4. SubSeq(s, m + 1, n) \in Seq(S) /\ Len(SubSeq(s, m + 1, n)) = n - m
      /\ \A i \in 1..n - m : SubSeq(s, m + 1, n)[i] = s[m + i]
  BY <1>1
<1> DEFINE h == SubSeq(s, 1, m)
           k == SubSeq(s, m + 1, n)
           w == SubSeq(s, 1, n)
<1>5. h \in Seq(S) /\ k \in Seq(S) /\ w \in Seq(S) /\ Len(h) = m /\ Len(k) = n - m /\ Len(w) = n
  BY <1>2, <1>3, <1>4
<1>6. /\ \A i \in 1..m : h[i] = s[i]
      /\ \A i \in 1..n : w[i] = s[i]
      /\ \A i \in 1..n - m : k[i] = s[m + i]
  BY <1>2, <1>3, <1>4
<1> HIDE DEF h, k, w
<1>7. h \o k \in Seq(S) /\ Len(h \o k) = n
  BY <1>1, <1>5
<1>8. ASSUME NEW i \in 1..n PROVE w[i] = (h \o k)[i]
  <2>1. CASE i <= m
    BY <1>1, <1>5, <2>1, <1>6
  <2>2. CASE i > m
    BY <1>1, <1>5, <2>2, <1>6
  <2>3. i <= m \/ i > m
    BY <1>1
  <2> QED  BY <2>1, <2>2, <2>3, Zenon
<1>9. w = h \o k
  BY <1>5, <1>7, <1>8, SeqEqual
<1> QED  BY <1>2, <1>4, <1>9 DEF h, k, w

LEMMA WholePrefix ==
  ASSUME NEW S, NEW s \in Seq(S)
  PROVE  SubSeq(s, 1, Len(s)) = s
OBVIOUS

LEMMA FlattenTrailing ==
  ASSUME NEW S, NEW s \in Seq(Seq(S)), NEW m \in 0..Len(s), \A i \in m + 1..Len(s) : s[i] = <<>>
  PROVE  FlattenSeq(s) = FlattenSeq(SubSeq(s, 1, m))
<1> DEFINE h == SubSeq(s, 1, m)
           k == SubSeq(s, m + 1, Len(s))
<1>1. Len(s) \in m..Len(s) /\ Len(s) \in Nat /\ m \in Nat
  OBVIOUS
<1>2. h \in Seq(Seq(S)) /\ k \in Seq(Seq(S)) /\ Len(k) = Len(s) - m
      /\ (\A i \in 1..Len(s) - m : k[i] = s[m + i]) /\ SubSeq(s, 1, Len(s)) = h \o k
  <2>1. h \in Seq(Seq(S)) /\ k \in Seq(Seq(S)) /\ Len(k) = Len(s) - m
    BY <1>1, Halves
  <2>2. \A i \in 1..Len(s) - m : k[i] = s[m + i]
    BY <1>1, Halves
  <2>3. SubSeq(s, 1, Len(s)) = h \o k
    <3>1. \A n \in m..Len(s) : SubSeq(s, 1, n) = SubSeq(s, 1, m) \o SubSeq(s, m + 1, n)
      BY Halves
    <3> QED  BY <1>1, <3>1
  <2> QED  BY <2>1, <2>2, <2>3
<1>3. SubSeq(s, 1, Len(s)) = s
  BY WholePrefix
<1> HIDE DEF h, k
<1>4. \A i \in 1..Len(k) : k[i] = <<>>
  <2>1. \A i \in 1..Len(s) - m : m + i \in m + 1..Len(s)
    BY <1>1
  <2> QED  BY <1>2, <2>1
<1>5. FlattenSeq(k) = <<>>
  BY <1>2, <1>4, FlattenOfEmpties
<1>6. FlattenSeq(s) = FlattenSeq(h) \o FlattenSeq(k)
  BY <1>2, <1>3, FlattenConcat
<1>7. FlattenSeq(h) \in Seq(S)
  BY <1>2, FlattenType
<1>8. FlattenSeq(h) \o <<>> = FlattenSeq(h)
  BY <1>7
<1> QED  BY <1>5, <1>6, <1>8 DEF h

(* The pieces g makes of some of the elements, and nothing of the others.   *)
Partly(s, I, g) == [i \in DOMAIN s |-> IF i \in I THEN g[s[i]] ELSE <<>>]

LEMMA PartlyFacts ==
  ASSUME NEW S, NEW R, NEW g \in [S -> Seq(R)], NEW s \in Seq(S), NEW I
  PROVE  Partly(s, I, g) \in Seq(Seq(R)) /\ Len(Partly(s, I, g)) = Len(s)
<1> DEFINE u == Partly(s, I, g)
<1>1. Len(s) \in Nat /\ DOMAIN s = 1..Len(s) /\ \A i \in 1..Len(s) : g[s[i]] \in Seq(R)
  OBVIOUS
<1>2. u = [i \in 1..Len(s) |-> u[i]] /\ \A i \in 1..Len(s) : u[i] = IF i \in I THEN g[s[i]] ELSE <<>>
  BY <1>1 DEF Partly
<1> HIDE DEF u
<1>3. <<>> \in Seq(R)
  OBVIOUS
<1>4. ASSUME NEW i \in 1..Len(s) PROVE u[i] \in Seq(R)
  BY <1>1, <1>2, <1>3
<1>5. u \in Seq(Seq(R)) /\ Len(u) = Len(s)
  BY <1>1, <1>2, <1>4, FunctionIsASequence
<1> QED  BY <1>2, <1>5 DEF u

LEMMA PartlyAppend ==
  ASSUME NEW S, NEW R, NEW g \in [S -> Seq(R)], NEW s \in Seq(S), NEW x \in S, NEW I
  PROVE  /\ Len(s) + 1 \in I => Partly(Append(s, x), I, g) = Append(Partly(s, I, g), g[x])
         /\ Len(s) + 1 \notin I => Partly(Append(s, x), I, g) = Append(Partly(s, I, g), <<>>)
<1>0. ASSUME NEW r \in Seq(S)
      PROVE  Partly(r, I, g) \in Seq(Seq(R)) /\ Len(Partly(r, I, g)) = Len(r)
  <2>1. Partly(r, I, g) \in Seq(Seq(R))
    BY PartlyFacts
  <2>2. DOMAIN Partly(r, I, g) = DOMAIN r
    BY DEF Partly
  <2> QED  BY <2>1, <2>2
<1> DEFINE t == Append(s, x)
           u == Partly(s, I, g)
           w == Partly(t, I, g)
           y == IF Len(s) + 1 \in I THEN g[x] ELSE <<>>
           z == Append(u, y)
<1>1. t \in Seq(S) /\ Len(t) = Len(s) + 1 /\ t[Len(s) + 1] = x /\ Len(s) \in Nat
      /\ \A i \in 1..Len(s) : t[i] = s[i]
  OBVIOUS
<1>2. u \in Seq(Seq(R)) /\ Len(u) = Len(s)
      /\ \A i \in 1..Len(s) : u[i] = IF i \in I THEN g[s[i]] ELSE <<>>
  <2>1. u \in Seq(Seq(R)) /\ Len(u) = Len(s)
    BY PartlyFacts
  <2>2. \A i \in 1..Len(s) : u[i] = IF i \in I THEN g[s[i]] ELSE <<>>
    BY DEF Partly
  <2> QED  BY <2>1, <2>2
<1>3. w \in Seq(Seq(R)) /\ Len(w) = Len(t)
      /\ \A i \in 1..Len(t) : w[i] = IF i \in I THEN g[t[i]] ELSE <<>>
  BY <1>1, <1>0 DEF Partly
<1>4. y \in Seq(R)
  OBVIOUS
<1> HIDE DEF t, u, w
<1>5. z \in Seq(Seq(R)) /\ Len(z) = Len(s) + 1 /\ z[Len(s) + 1] = y /\ \A i \in 1..Len(s) : z[i] = u[i]
  BY <1>2, <1>4
<1> HIDE DEF z
<1>6. ASSUME NEW i \in 1..Len(w) PROVE w[i] = z[i]
  <2>1. CASE i = Len(s) + 1
    BY <2>1, <1>1, <1>3, <1>5
  <2>2. CASE i \in 1..Len(s)
    BY <2>2, <1>1, <1>2, <1>3, <1>5
  <2>3. i = Len(s) + 1 \/ i \in 1..Len(s)
    BY <1>1, <1>3
  <2> QED  BY <2>1, <2>2, <2>3
<1>7. w = z
  BY <1>1, <1>3, <1>5, <1>6, SeqEqual
<1>8. Partly(Append(s, x), I, g) = Append(Partly(s, I, g), y)
  BY <1>7 DEF z, w, t, u
<1> QED  BY <1>8

LEMMA GatheredPicked ==
  ASSUME NEW S, NEW R, NEW g \in [S -> Seq(R)], NEW s \in Seq(S), NEW I
  PROVE  Gathered(Picked(s, I), g) = FlattenSeq(Partly(s, I, g))
<1> DEFINE P == { t \in Seq(S) : Gathered(Picked(t, I), g) = FlattenSeq(Partly(t, I, g)) }
<1>1. <<>> \in P
  BY PickedEmpty, GatheredEmpty, FlattenEmpty DEF Partly
<1>2. ASSUME NEW t \in Seq(S), NEW x \in S, t \in P PROVE Append(t, x) \in P
  <2> DEFINE y == IF Len(t) + 1 \in I THEN g[x] ELSE <<>>
  <2>1. Picked(Append(t, x), I) = IF Len(t) + 1 \in I THEN Append(Picked(t, I), x) ELSE Picked(t, I)
    BY PickedAppend
  <2>2. Picked(t, I) \in Seq(S)
    BY PickedFacts
  <2>3. Gathered(Append(Picked(t, I), x), g) = Gathered(Picked(t, I), g) \o g[x]
    BY <2>2, GatheredAppend
  <2>4. Partly(Append(t, x), I, g) = Append(Partly(t, I, g), y)
    <3>1. CASE Len(t) + 1 \in I
      BY <3>1, PartlyAppend
    <3>2. CASE Len(t) + 1 \notin I
      BY <3>2, PartlyAppend
    <3> QED  BY <3>1, <3>2
  <2>5. Partly(t, I, g) \in Seq(Seq(R))
    BY PartlyFacts
  <2>6. y \in Seq(R)
    OBVIOUS
  <2>7. FlattenSeq(Append(Partly(t, I, g), y)) = FlattenSeq(Partly(t, I, g)) \o y
    BY <2>5, <2>6, FlattenAppend
  <2>8. Gathered(Picked(t, I), g) \in Seq(R)
    BY <2>2, GatheredFacts
  <2>9. Gathered(Picked(t, I), g) \o <<>> = Gathered(Picked(t, I), g)
    BY <2>8
  <2>10. Gathered(Picked(Append(t, x), I), g) = Gathered(Picked(t, I), g) \o y
    BY <2>1, <2>3, <2>9
  <2>11. Append(t, x) \in Seq(S)
    OBVIOUS
  <2> QED  BY <1>2, <2>4, <2>7, <2>10, <2>11
<1> HIDE DEF P
<1>3. Seq(S) \subseteq P
  BY <1>1, <1>2, SequenceInduction
<1> QED  BY <1>3 DEF P

(* How many of the positions before i are picked.                          *)
Before(I, i) == Cardinality({ j \in 1..i - 1 : j \in I })

LEMMA BeforeFacts ==
  ASSUME NEW I, NEW i \in Nat \ {0}
  PROVE  /\ Before(I, i) \in Nat
         /\ Before(I, i + 1) = Before(I, i) + IF i \in I THEN 1 ELSE 0
<1> DEFINE A == { j \in 1..i - 1 : j \in I }
           B == { j \in 1..(i + 1) - 1 : j \in I }
<1>1. IsFiniteSet(1..i - 1)
  BY FS_Interval
<1>2. IsFiniteSet(A) /\ Cardinality(A) \in Nat
  BY <1>1, FS_Subset, FS_CardinalityType
<1>3. CASE i \in I
  <2>1. B = A \cup {i} /\ i \notin A
    BY <1>3
  <2>2. Cardinality(B) = Cardinality(A) + 1
    BY <2>1, <1>2, FS_AddElement
  <2> QED  BY <2>2, <1>2, <1>3 DEF Before
<1>4. CASE i \notin I
  <2>1. B = A
    BY <1>4
  <2>2. Before(I, i + 1) = Before(I, i) /\ Before(I, i) \in Nat
    BY <2>1, <1>2 DEF Before
  <2> QED  BY <2>2, <1>4
<1> QED  BY <1>3, <1>4

LEMMA PickedPlaces ==
  ASSUME NEW S, NEW s \in Seq(S), NEW I
  PROVE  /\ Len(Picked(s, I)) = Before(I, Len(s) + 1)
         /\ \A i \in 1..Len(s) : i \in I =>
              /\ Before(I, i) + 1 \in 1..Len(Picked(s, I))
              /\ Picked(s, I)[Before(I, i) + 1] = s[i]
         /\ \A n \in 1..Len(Picked(s, I)) : \E i \in 1..Len(s) : i \in I /\ n = Before(I, i) + 1
<1> DEFINE Holds(t) ==
             /\ Len(Picked(t, I)) = Before(I, Len(t) + 1)
             /\ \A i \in 1..Len(t) : i \in I =>
                  /\ Before(I, i) + 1 \in 1..Len(Picked(t, I))
                  /\ Picked(t, I)[Before(I, i) + 1] = t[i]
             /\ \A n \in 1..Len(Picked(t, I)) : \E i \in 1..Len(t) : i \in I /\ n = Before(I, i) + 1
           P == { t \in Seq(S) : Holds(t) }
<1>1. <<>> \in P
  BY FS_EmptySet, PickedEmpty DEF Before
<1>2. ASSUME NEW t \in Seq(S), NEW x \in S, t \in P PROVE Append(t, x) \in P
  <2> DEFINE u == Append(t, x)
             p == Picked(t, I)
             q == Picked(u, I)
             b == Before(I, Len(t) + 1)
  <2>1. q = IF Len(t) + 1 \in I THEN Append(p, x) ELSE p
    BY PickedAppend
  <2>2. p \in Seq(S) /\ Len(p) \in Nat
    BY PickedFacts
  <2>3. u \in Seq(S) /\ Len(u) = Len(t) + 1 /\ Len(t) \in Nat /\ u[Len(t) + 1] = x
        /\ \A i \in 1..Len(t) : u[i] = t[i]
    OBVIOUS
  <2>4. b \in Nat /\ Before(I, (Len(t) + 1) + 1) = b + IF Len(t) + 1 \in I THEN 1 ELSE 0
    BY <2>3, BeforeFacts
  <2>5. Holds(t)
    BY <1>2
  <2>6. \A i \in 1..Len(t) : i \in I => Before(I, i) + 1 \in 1..Len(p) /\ p[Before(I, i) + 1] = t[i]
    BY <2>5
  <2>7. \A n \in 1..Len(p) : \E i \in 1..Len(t) : i \in I /\ n = Before(I, i) + 1
    BY <2>5
  <2>8. Len(p) = b
    BY <2>5
  <2> HIDE DEF u, p, q, b
  <2>9. CASE Len(t) + 1 \in I
    <3>1. q = Append(p, x) /\ Len(q) = b + 1 /\ q[b + 1] = x /\ b + 1 \in 1..Len(q)
          /\ \A n \in 1..Len(p) : q[n] = p[n] /\ n \in 1..Len(q)
      BY <2>1, <2>2, <2>4, <2>8, <2>9
    <3>2. Before(I, Len(u) + 1) = Len(q)
      BY <3>1, <2>3, <2>4, <2>9
    <3>3. ASSUME NEW i \in 1..Len(u), i \in I
          PROVE  Before(I, i) + 1 \in 1..Len(q) /\ q[Before(I, i) + 1] = u[i]
      BY <3>1, <3>3, <2>3, <2>6 DEF b
    <3>4. ASSUME NEW n \in 1..Len(q) PROVE \E i \in 1..Len(u) : i \in I /\ n = Before(I, i) + 1
      BY <2>7, <2>3, <2>9, <3>1, <2>4, <2>8 DEF b
    <3>5. Holds(u)
      BY <3>2, <3>3, <3>4 DEF q
    <3> QED  BY <3>5, <2>3 DEF u
  <2>10. CASE Len(t) + 1 \notin I
    <3>1. q = p /\ Before(I, Len(u) + 1) = Len(q)
      BY <2>1, <2>3, <2>4, <2>8, <2>10
    <3>3. ASSUME NEW i \in 1..Len(u), i \in I
          PROVE  Before(I, i) + 1 \in 1..Len(q) /\ q[Before(I, i) + 1] = u[i]
      BY <2>3, <2>10, <3>3, <3>1, <2>6
    <3>4. ASSUME NEW n \in 1..Len(q) PROVE \E i \in 1..Len(u) : i \in I /\ n = Before(I, i) + 1
      BY <3>1, <2>7, <2>3
    <3>5. Holds(u)
      BY <3>1, <3>3, <3>4 DEF q
    <3> QED  BY <3>5, <2>3 DEF u
  <2> QED  BY <2>9, <2>10
<1> HIDE DEF P
<1>3. Seq(S) \subseteq P
  BY <1>1, <1>2, SequenceInduction
<1>4. s \in P
  BY <1>3
<1> QED  BY <1>4 DEF P

-----------------------------------------------------------------------------
(* The beats of an answer.                                                 *)

BodyOf == [b \in AnswerBlock |-> b.body]

LEMMA AnswerFacts ==
  ASSUME NEW a \in Answer
  PROVE  /\ a.blocks \in Seq(AnswerBlock) /\ Len(a.blocks) \in Nat /\ DOMAIN a.blocks = 1..Len(a.blocks)
         /\ \A i \in 1..Len(a.blocks) :
              /\ a.blocks[i] \in AnswerBlock
              /\ a.blocks[i].body \in Seq(Lines)
              /\ a.blocks[i].type \in {"text", "thinking", "tool_use"}
              /\ a.blocks[i].type = "tool_use" =>
                   a.blocks[i].id \in CallIds /\ a.blocks[i].name \in Functions
BY DEF Answer, AnswerBlock, Text

LEMMA BodyOfType == BodyOf \in [AnswerBlock -> Seq(Lines)]
BY DEF AnswerBlock, Text, BodyOf

LEMMA BodiesAreGathered ==
  ASSUME NEW s \in Seq(AnswerBlock)
  PROVE  Bodies(s) = Gathered(s, BodyOf)
<1>1. DOMAIN s = 1..Len(s) /\ \A i \in DOMAIN s : s[i] \in AnswerBlock
  OBVIOUS
<1>2. [i \in DOMAIN s |-> s[i].body] = [i \in DOMAIN s |-> BodyOf[s[i]]]
  BY <1>1 DEF BodyOf
<1> QED  BY <1>2 DEF Bodies, Gathered

-----------------------------------------------------------------------------
(* The beats of an answer.                                                 *)
Opening(i) == Beat("open", i, Unset)
Called(i) == Beat("call", i, Unset)
Starting == Beat("start", 0, Unset)
Ending == Beat("end", 0, Unset)

ToolBlocks(a) == { i \in DOMAIN a.blocks : a.blocks[i].type = "tool_use" }

BlockBeat(k, a) ==
  [type : {"piece"}, block : DOMAIN a.blocks, line : Lines] \cup
  { Opening(i) : i \in { j \in DOMAIN a.blocks : k = "anthropic" \/ (k = "openai" /\ j \in ToolBlocks(a)) } } \cup
  { Called(i) : i \in { j \in ToolBlocks(a) : k = "gemini" } }

AnswerBeat(k, a) == BlockBeat(k, a) \cup {Starting, Ending}

LEMMA AnswerBeatFacts ==
  ASSUME NEW a, NEW k, NEW b \in AnswerBeat(k, a)
  PROVE  /\ b.type \in {"piece", "open", "call", "start", "end"}
         /\ b.type \in {"piece", "open", "call"} <=> b \in BlockBeat(k, a)
         /\ b.type = "start" <=> b = Starting
         /\ b.type = "end" <=> b = Ending
         /\ b.type = "piece" => b.block \in DOMAIN a.blocks /\ b.line \in Lines
         /\ b.type = "open" => /\ b.block \in DOMAIN a.blocks /\ b = Opening(b.block)
                               /\ k = "anthropic" \/ (k = "openai" /\ b.block \in ToolBlocks(a))
         /\ b.type = "call" => k = "gemini" /\ b.block \in ToolBlocks(a)
BY DEF AnswerBeat, BlockBeat, Starting, Ending, Beat, Opening, Called

PieceOf(i) == [l \in Lines |-> Beat("piece", i, l)]

Pieces(a, i) == Through(a.blocks[i].body, PieceOf(i))

LEMMA PiecesType ==
  ASSUME NEW a \in Answer, NEW i \in 1..Len(a.blocks), NEW k
  PROVE  /\ PieceOf(i) \in [Lines -> BlockBeat(k, a)]
         /\ Pieces(a, i) \in Seq(BlockBeat(k, a))
         /\ Len(Pieces(a, i)) = Len(a.blocks[i].body)
         /\ \A n \in 1..Len(a.blocks[i].body) : Pieces(a, i)[n] = Beat("piece", i, a.blocks[i].body[n])
<1>1. i \in DOMAIN a.blocks /\ a.blocks[i].body \in Seq(Lines)
  BY AnswerFacts
<1>2. \A l \in Lines : Beat("piece", i, l) \in BlockBeat(k, a)
  BY <1>1 DEF Beat, BlockBeat
<1>3. PieceOf(i) \in [Lines -> BlockBeat(k, a)]
  BY <1>2 DEF PieceOf
<1> DEFINE s == a.blocks[i].body
<1>4. s \in Seq(Lines)
  BY <1>1
<1> HIDE DEF s
<1>5. Through(s, PieceOf(i)) \in Seq(BlockBeat(k, a)) /\ Len(Through(s, PieceOf(i))) = Len(s)
      /\ \A n \in 1..Len(s) : Through(s, PieceOf(i))[n] = PieceOf(i)[s[n]]
  BY <1>3, <1>4, ThroughFacts DEF Through
<1>6. \A n \in 1..Len(s) : PieceOf(i)[s[n]] = Beat("piece", i, s[n])
  BY <1>4 DEF PieceOf
<1> QED  BY <1>3, <1>5, <1>6 DEF Pieces, s

LEMMA BlockBeatsAre ==
  ASSUME NEW a \in Answer, NEW i \in 1..Len(a.blocks), NEW k \in ProviderKind
  PROVE  BlockBeats(k, a, i) =
           IF a.blocks[i].type = "tool_use" /\ k = "gemini" THEN <<Called(i)>>
           ELSE IF a.blocks[i].type = "tool_use" \/ k = "anthropic" THEN <<Opening(i)>> \o Pieces(a, i)
           ELSE Pieces(a, i)
<1>1. DOMAIN a.blocks[i].body = 1..Len(a.blocks[i].body) /\ \A n \in DOMAIN a.blocks[i].body : a.blocks[i].body[n] \in Lines
  BY AnswerFacts
<1>2. Pieces(a, i) = [n \in DOMAIN a.blocks[i].body |-> Beat("piece", i, a.blocks[i].body[n])]
  BY <1>1 DEF Pieces, Through, PieceOf
<1> QED  BY <1>2 DEF BlockBeats, Opening, Called

LEMMA BlockBeatsType ==
  ASSUME NEW a \in Answer, NEW i \in 1..Len(a.blocks), NEW k \in ProviderKind
  PROVE  BlockBeats(k, a, i) \in Seq(BlockBeat(k, a))
<1>1. i \in DOMAIN a.blocks
  BY AnswerFacts
<1>3. Pieces(a, i) \in Seq(BlockBeat(k, a))
  BY PiecesType
<1> DEFINE B == BlockBeat(k, a)
           p == Pieces(a, i)
<1>4. p \in Seq(B)
  BY <1>3
<1>5. CASE a.blocks[i].type = "tool_use" /\ k = "gemini"
  <2>1. Called(i) \in B
    BY <1>1, <1>5 DEF BlockBeat, ToolBlocks
  <2>2. BlockBeats(k, a, i) = <<Called(i)>>
    BY <1>5, BlockBeatsAre
  <2> QED  BY <2>1, <2>2
<1>6. CASE ~(a.blocks[i].type = "tool_use" /\ k = "gemini")
           /\ (a.blocks[i].type = "tool_use" \/ k = "anthropic")
  <2>1. Opening(i) \in B
    BY <1>1, <1>6 DEF BlockBeat, ToolBlocks, ProviderKind
  <2>2. BlockBeats(k, a, i) = <<Opening(i)>> \o p
    BY <1>6, BlockBeatsAre
  <2> HIDE DEF B, p
  <2>3. <<Opening(i)>> \o p \in Seq(B)
    BY <2>1, <1>4
  <2> QED  BY <2>2, <2>3 DEF B
<1>7. CASE a.blocks[i].type # "tool_use" /\ k # "anthropic"
  BY <1>4, <1>7, BlockBeatsAre
<1> QED  BY <1>5, <1>6, <1>7

AllBlockBeats(k, a) == [i \in DOMAIN a.blocks |-> BlockBeats(k, a, i)]
Prologue(k) == IF k = "anthropic" THEN <<Starting>> ELSE <<>>

LEMMA BeatsAre ==
  ASSUME NEW a \in Answer, NEW k \in ProviderKind
  PROVE  /\ Beats(k, a) = (Prologue(k) \o FlattenSeq(AllBlockBeats(k, a))) \o <<Ending>>
         /\ AllBlockBeats(k, a) \in Seq(Seq(AnswerBeat(k, a)))
         /\ Len(AllBlockBeats(k, a)) = Len(a.blocks)
         /\ \A i \in 1..Len(a.blocks) : AllBlockBeats(k, a)[i] = BlockBeats(k, a, i)
         /\ Prologue(k) \in Seq(AnswerBeat(k, a))
         /\ FlattenSeq(AllBlockBeats(k, a)) \in Seq(AnswerBeat(k, a))
         /\ Ending \in AnswerBeat(k, a)
         /\ Beats(k, a) \in Seq(AnswerBeat(k, a))
<1> DEFINE B == AnswerBeat(k, a)
           u == AllBlockBeats(k, a)
<1>1. Beats(k, a) = (Prologue(k) \o FlattenSeq(u)) \o <<Ending>>
  BY DEF Beats, Prologue, AllBlockBeats, Starting, Ending
<1>2. u = [i \in 1..Len(a.blocks) |-> u[i]] /\ \A i \in 1..Len(a.blocks) : u[i] = BlockBeats(k, a, i)
  BY AnswerFacts DEF AllBlockBeats
<1>3. ASSUME NEW i \in 1..Len(a.blocks) PROVE BlockBeats(k, a, i) \in Seq(B)
  BY BlockBeatsType DEF AnswerBeat
<1>4. Len(a.blocks) \in Nat
  BY AnswerFacts
<1>5. Ending \in B /\ Starting \in B
  BY DEF AnswerBeat
<1> HIDE DEF u, B
<1>6. u \in Seq(Seq(B)) /\ Len(u) = Len(a.blocks)
  <2>1. \A i \in 1..Len(a.blocks) : u[i] \in Seq(B)
    BY <1>2, <1>3
  <2>2. u \in Seq(Seq(B))
    BY <1>2, <2>1, <1>4, FunctionIsASequence
  <2>3. DOMAIN u = 1..Len(a.blocks)
    BY <1>2
  <2> QED  BY <2>2, <2>3, <1>4
<1>7. FlattenSeq(u) \in Seq(B)
  BY <1>6, FlattenType
<1>8. Prologue(k) \in Seq(B)
  BY <1>5 DEF Prologue
<1>9. Beats(k, a) \in Seq(B)
  BY <1>1, <1>5, <1>7, <1>8
<1> QED  BY <1>1, <1>2, <1>5, <1>6, <1>7, <1>8, <1>9 DEF u, B

(* What a function gathers from all the beats is what it gathers from the  *)
(* beats of each block.                                                    *)
LEMMA GatheredBeats ==
  ASSUME NEW a \in Answer, NEW k \in ProviderKind, NEW R, NEW g \in [AnswerBeat(k, a) -> Seq(R)],
         g[Ending] = <<>>, g[Starting] = <<>>
  PROVE  Gathered(Beats(k, a), g) = FlattenSeq([i \in DOMAIN a.blocks |-> Gathered(BlockBeats(k, a, i), g)])
<1> DEFINE B == AnswerBeat(k, a)
           u == AllBlockBeats(k, a)
           h == [x \in Seq(B) |-> Gathered(x, g)]
           f == FlattenSeq(u)
           start == Starting
<1>1. /\ Beats(k, a) = (Prologue(k) \o f) \o <<Ending>>
      /\ u \in Seq(Seq(B)) /\ Len(u) = Len(a.blocks)
      /\ \A i \in 1..Len(a.blocks) : u[i] = BlockBeats(k, a, i)
      /\ Prologue(k) \in Seq(B) /\ f \in Seq(B) /\ Ending \in B
  BY BeatsAre
<1>2. start \in B
  BY DEF AnswerBeat
<1>3. g \in [B -> Seq(R)]
  OBVIOUS
<1>4. DOMAIN a.blocks = 1..Len(a.blocks) /\ Len(a.blocks) \in Nat
  BY AnswerFacts
<1>5. \A i \in 1..Len(a.blocks) : u[i] \in Seq(B)
  BY <1>1, <1>4
<1> HIDE DEF B, u, f, start
<1>6. h \in [Seq(B) -> Seq(R)]
  BY <1>3, GatheredFacts
<1>7. \A x \in Seq(B) : h[x] = Gathered(x, g)
  OBVIOUS
<1>8. Gathered(u, h) = FlattenSeq([i \in DOMAIN a.blocks |-> Gathered(BlockBeats(k, a, i), g)])
  <2>1. [i \in DOMAIN u |-> h[u[i]]] = [i \in DOMAIN a.blocks |-> Gathered(BlockBeats(k, a, i), g)]
    <3>1. DOMAIN u = DOMAIN a.blocks
      BY <1>1, <1>4
    <3>2. \A i \in DOMAIN a.blocks : h[u[i]] = Gathered(BlockBeats(k, a, i), g)
      BY <1>1, <1>4, <1>5
    <3> HIDE DEF h
    <3> QED  BY <3>1, <3>2
  <2> QED  BY <2>1 DEF Gathered
<1> HIDE DEF h
<1>9. Gathered(f, g) = Gathered(u, h)
  BY <1>1, <1>3, GatheredFlatten DEF f, h
<1>10. Gathered(<<Ending>>, g) = <<>>
  BY <1>1, <1>3, GatheredOne
<1>11. Gathered(Prologue(k), g) = <<>>
  BY <1>2, <1>3, GatheredOne, GatheredEmpty DEF start, Prologue
<1>12. Gathered(Prologue(k) \o f, g) = Gathered(Prologue(k), g) \o Gathered(f, g)
  BY <1>1, <1>3, GatheredConcat
<1>13. Prologue(k) \o f \in Seq(B) /\ <<Ending>> \in Seq(B)
  BY <1>1
<1>14. Gathered(Beats(k, a), g) = Gathered(Prologue(k) \o f, g) \o Gathered(<<Ending>>, g)
  <2>1. \A s, t \in Seq(B) : Gathered(s \o t, g) = Gathered(s, g) \o Gathered(t, g)
    BY <1>1, <1>3, GatheredConcat
  <2> QED  BY <1>1, <1>13, <2>1
<1>15. Gathered(f, g) \in Seq(R)
  BY <1>1, <1>3, GatheredFacts
<1>16. (<<>> \o Gathered(f, g)) \o <<>> = Gathered(f, g)
  BY <1>15
<1> QED  BY <1>8, <1>9, <1>10, <1>11, <1>12, <1>14, <1>16

(* Where the beats are that belong to no block.                            *)
LEMMA BeatPlaces ==
  ASSUME NEW a \in Answer, NEW k \in ProviderKind
  PROVE  /\ Len(Beats(k, a)) \in Nat \ {0}
         /\ \A m \in 1..Len(Beats(k, a)) : Beats(k, a)[m] = Ending <=> m = Len(Beats(k, a))
         /\ \A m \in 1..Len(Beats(k, a)) : Beats(k, a)[m] = Starting <=> k = "anthropic" /\ m = 1
<1> DEFINE B == BlockBeat(k, a)
           p == Prologue(k)
           f == FlattenSeq(AllBlockBeats(k, a))
           bs == Beats(k, a)
<1>1. bs = (p \o f) \o <<Ending>>
  BY BeatsAre
<1>2. f \in Seq(B)
  <2> DEFINE u == AllBlockBeats(k, a)
  <2>1. u = [i \in 1..Len(a.blocks) |-> u[i]] /\ \A i \in 1..Len(a.blocks) : u[i] = BlockBeats(k, a, i)
    BY AnswerFacts DEF AllBlockBeats
  <2>2. \A i \in 1..Len(a.blocks) : u[i] \in Seq(B)
    BY <2>1, BlockBeatsType
  <2>3. Len(a.blocks) \in Nat
    BY AnswerFacts
  <2> HIDE DEF u, B
  <2>4. u \in Seq(Seq(B))
    BY <2>1, <2>2, <2>3, FunctionIsASequence
  <2> QED  BY <2>4, FlattenType DEF u
<1>3. \A x \in B : x # Starting /\ x # Ending
  BY DEF BlockBeat, Opening, Called, Beat, Starting, Ending
<1>4. Starting # Ending
  BY DEF Starting, Ending, Beat
<1> DEFINE C == B \cup {Starting, Ending}
<1> HIDE DEF B, p, f, bs
<1>5. CASE k = "anthropic"
  <2>1. p = <<Starting>>
    BY <1>5 DEF p, Prologue
  <2>2. f \in Seq(C) /\ <<Starting>> \in Seq(C) /\ <<Ending>> \in Seq(C) /\ Len(f) \in Nat
        /\ \A n \in 1..Len(f) : f[n] \in B
    BY <1>2
  <2>3. Len(bs) = Len(f) + 2 /\ bs[1] = Starting /\ bs[Len(f) + 2] = Ending
        /\ \A m \in 2..Len(f) + 1 : bs[m] = f[m - 1]
    BY <1>1, <2>1, <2>2
  <2>4. \A m \in 2..Len(f) + 1 : bs[m] \in B
    BY <2>2, <2>3
  <2>5. \A m \in 1..Len(f) + 2 : m = 1 \/ m = Len(f) + 2 \/ m \in 2..Len(f) + 1
    BY <2>2
  <2> QED  BY <1>3, <1>4, <1>5, <2>2, <2>3, <2>4, <2>5 DEF bs
<1>6. CASE k # "anthropic"
  BY <1>6, <1>2, <1>1, <1>3, <1>4 DEF p, Prologue, bs
<1> QED  BY <1>5, <1>6

(* Every call of a stream that opens its blocks is opened.                 *)
LEMMA EveryCallIsOpened ==
  ASSUME NEW a \in Answer, NEW k \in {"anthropic", "openai"}, NEW i \in ToolBlocks(a)
  PROVE  \E m \in 1..Len(Beats(k, a)) : Beats(k, a)[m] = Opening(i)
<1> DEFINE B == AnswerBeat(k, a)
           p == Prologue(k)
           u == AllBlockBeats(k, a)
           f == FlattenSeq(u)
           bs == Beats(k, a)
<1>0. k \in ProviderKind /\ k # "gemini"
  BY DEF ProviderKind
<1>1. bs = (p \o f) \o <<Ending>> /\ u \in Seq(Seq(B)) /\ p \in Seq(B) /\ f \in Seq(B) /\ Ending \in B
      /\ bs \in Seq(B)
  BY <1>0, BeatsAre
<1>2. i \in 1..Len(a.blocks) /\ a.blocks[i].type = "tool_use"
  BY AnswerFacts DEF ToolBlocks
<1>3. DOMAIN u = DOMAIN a.blocks /\ u[i] = BlockBeats(k, a, i)
  BY <1>2, AnswerFacts DEF AllBlockBeats
<1>4. u[i] = <<Opening(i)>> \o Pieces(a, i)
  BY <1>0, <1>2, <1>3, BlockBeatsAre
<1>5. Pieces(a, i) \in Seq(BlockBeat(k, a))
  BY <1>2, PiecesType
<1>6. i \in DOMAIN u
  BY <1>2, <1>3, AnswerFacts
<1>7. Opening(i) \in ToSet(u[i])
  <2> DEFINE q == Pieces(a, i)
             Q == BlockBeat(k, a) \cup {Opening(i)}
  <2>1. q \in Seq(BlockBeat(k, a))
    BY <1>5
  <2> HIDE DEF q
  <2>2. u[i] = <<Opening(i)>> \o q
    BY <1>4 DEF q
  <2> HIDE DEF u
  <2>3. 1 \in DOMAIN u[i] /\ u[i][1] = Opening(i)
    BY <2>1, <2>2
  <2> QED  BY <2>3 DEF ToSet
<1> HIDE DEF B, p, u, f, bs
<1>8. Opening(i) \in ToSet(f)
  BY <1>1, <1>6, <1>7, FlattenElements DEF f
<1>9. Opening(i) \in ToSet(p \o f)
  BY <1>1, <1>8, ElementsOfConcat
<1>10. p \o f \in Seq(B) /\ <<Ending>> \in Seq(B)
  BY <1>1
<1>11. Opening(i) \in ToSet(bs)
  BY <1>1, <1>9, <1>10, ElementsOfConcat
<1>12. DOMAIN bs = 1..Len(bs)
  BY <1>1
<1> QED  BY <1>11, <1>12 DEF ToSet, bs

(* The lines the beats of some blocks carry.                               *)
Spoken(k, a, I) ==
  [b \in AnswerBeat(k, a) |-> IF b.type = "piece" /\ b.block \in I THEN <<b.line>> ELSE <<>>]

LEMMA SpokenType ==
  ASSUME NEW a, NEW k, NEW I
  PROVE  /\ Spoken(k, a, I) \in [AnswerBeat(k, a) -> Seq(Lines)]
         /\ \A b \in AnswerBeat(k, a) : b.type # "piece" => Spoken(k, a, I)[b] = <<>>
BY AnswerBeatFacts DEF Spoken

LEMMA SpokenOfPieces ==
  ASSUME NEW a \in Answer, NEW k \in ProviderKind, NEW i \in 1..Len(a.blocks), NEW I
  PROVE  Gathered(Pieces(a, i), Spoken(k, a, I)) = IF i \in I THEN a.blocks[i].body ELSE <<>>
<1> DEFINE s == a.blocks[i].body
           p == Pieces(a, i)
           g == Spoken(k, a, I)
<1>1. s \in Seq(Lines)
  BY AnswerFacts
<1>2. p \in Seq(BlockBeat(k, a)) /\ Len(p) = Len(s)
      /\ \A n \in 1..Len(s) : p[n] = Beat("piece", i, s[n])
  BY PiecesType
<1> HIDE DEF s, p
<1>3. \A n \in 1..Len(s) : g[p[n]] = IF i \in I THEN <<s[n]>> ELSE <<>>
  <2>1. ASSUME NEW n \in 1..Len(s) PROVE g[p[n]] = IF i \in I THEN <<s[n]>> ELSE <<>>
    <3>1. p[n] \in AnswerBeat(k, a)
      BY <1>2 DEF AnswerBeat
    <3>2. p[n].type = "piece" /\ p[n].block = i /\ p[n].line = s[n]
      <4>1. p[n] = Beat("piece", i, s[n])
        BY <1>2
      <4> QED  BY <4>1 DEF Beat
    <3> QED  BY <3>1, <3>2 DEF Spoken
  <2> QED  BY <2>1
<1>4. [n \in DOMAIN p |-> g[p[n]]] = Chosen(s, IF i \in I THEN 1..Len(s) ELSE {})
  BY <1>1, <1>2, <1>3 DEF Chosen
<1>5. Gathered(p, g) = Picked(s, IF i \in I THEN 1..Len(s) ELSE {})
  BY <1>4, PickedIsFlattened DEF Gathered
<1>6. Picked(s, 1..Len(s)) = s
  BY <1>1, PickedAll
<1>7. Picked(s, {}) = <<>>
  BY <1>1, PickedNone
<1> QED  BY <1>5, <1>6, <1>7 DEF p, s

LEMMA SpokenOfBlock ==
  ASSUME NEW a \in Answer, NEW k \in ProviderKind, NEW i \in 1..Len(a.blocks), NEW I,
         k = "gemini" /\ a.blocks[i].type = "tool_use" => i \notin I
  PROVE  Gathered(BlockBeats(k, a, i), Spoken(k, a, I)) = IF i \in I THEN a.blocks[i].body ELSE <<>>
<1> DEFINE g == Spoken(k, a, I)
           B == AnswerBeat(k, a)
           p == Pieces(a, i)
           out == IF i \in I THEN a.blocks[i].body ELSE <<>>
<1>1. g \in [B -> Seq(Lines)] /\ \A b \in B : b.type # "piece" => g[b] = <<>>
  BY SpokenType
<1>2. p \in Seq(B)
  BY PiecesType DEF AnswerBeat
<1>3. Gathered(p, g) = out
  BY SpokenOfPieces
<1>4. out \in Seq(Lines)
  BY AnswerFacts
<1>5. i \in DOMAIN a.blocks
  BY AnswerFacts
<1>6. CASE a.blocks[i].type = "tool_use" /\ k = "gemini"
  <2>1. BlockBeats(k, a, i) = <<Called(i)>>
    BY <1>6, BlockBeatsAre
  <2>2. Called(i) \in B /\ Called(i).type = "call"
    BY <1>5, <1>6 DEF AnswerBeat, BlockBeat, ToolBlocks, Called, Beat
  <2> HIDE DEF g, B
  <2>3. Gathered(<<Called(i)>>, g) = g[Called(i)]
    BY <1>1, <2>2, GatheredOne
  <2> QED  BY <1>1, <1>6, <2>1, <2>2, <2>3 DEF g
<1>7. CASE ~(a.blocks[i].type = "tool_use" /\ k = "gemini")
           /\ (a.blocks[i].type = "tool_use" \/ k = "anthropic")
  <2>1. BlockBeats(k, a, i) = <<Opening(i)>> \o p
    BY <1>7, BlockBeatsAre
  <2>2. Opening(i) \in B /\ Opening(i).type = "open"
    BY <1>5, <1>7 DEF AnswerBeat, BlockBeat, ToolBlocks, ProviderKind, Opening, Beat
  <2> HIDE DEF g, B, p, out
  <2>3. Gathered(<<Opening(i)>>, g) = g[Opening(i)]
    BY <1>1, <2>2, GatheredOne
  <2>4. <<Opening(i)>> \in Seq(B)
    BY <2>2
  <2>5. Gathered(<<Opening(i)>> \o p, g) = Gathered(<<Opening(i)>>, g) \o Gathered(p, g)
    <3>1. \A s, t \in Seq(B) : Gathered(s \o t, g) = Gathered(s, g) \o Gathered(t, g)
      BY <1>1, GatheredConcat
    <3> QED  BY <1>2, <2>4, <3>1
  <2>6. <<>> \o out = out
    BY <1>4
  <2>7. g[Opening(i)] = <<>>
    BY <1>1, <2>2
  <2> QED  BY <1>3, <2>1, <2>3, <2>5, <2>6, <2>7 DEF g, out
<1>8. CASE a.blocks[i].type # "tool_use" /\ k # "anthropic"
  BY <1>3, <1>8, BlockBeatsAre
<1> QED  BY <1>6, <1>7, <1>8

LEMMA SpokenOfBeats ==
  ASSUME NEW a \in Answer, NEW k \in ProviderKind, NEW I,
         k = "gemini" => \A i \in ToolBlocks(a) : i \notin I
  PROVE  Gathered(Beats(k, a), Spoken(k, a, I)) = Bodies(Picked(a.blocks, I))
<1> DEFINE g == Spoken(k, a, I)
           s == a.blocks
<1>1. g \in [AnswerBeat(k, a) -> Seq(Lines)] /\ g[Ending] = <<>> /\ g[Starting] = <<>>
  BY SpokenType DEF AnswerBeat, Starting, Ending, Beat
<1>2. s \in Seq(AnswerBlock) /\ DOMAIN s = 1..Len(s)
  BY AnswerFacts
<1>3. ASSUME NEW i \in DOMAIN s
      PROVE  Gathered(BlockBeats(k, a, i), g) = IF i \in I THEN BodyOf[s[i]] ELSE <<>>
  BY <1>2, <1>3, SpokenOfBlock DEF ToolBlocks, BodyOf
<1>4. [i \in DOMAIN s |-> Gathered(BlockBeats(k, a, i), g)] = Partly(s, I, BodyOf)
  <2> HIDE DEF g, s
  <2> QED  BY <1>3 DEF Partly
<1>5. Gathered(Beats(k, a), g) = FlattenSeq([i \in DOMAIN a.blocks |-> Gathered(BlockBeats(k, a, i), g)])
  <2> HIDE DEF g
  <2> QED  BY <1>1, GatheredBeats
<1>6. FlattenSeq(Partly(s, I, BodyOf)) = Gathered(Picked(s, I), BodyOf)
  <2> HIDE DEF s
  <2> QED  BY <1>2, BodyOfType, GatheredPicked
<1>7. Picked(s, I) \in Seq(AnswerBlock)
  BY <1>2, PickedFacts
<1>8. Gathered(Picked(s, I), BodyOf) = Bodies(Picked(s, I))
  BY <1>7, BodiesAreGathered
<1> QED  BY <1>4, <1>5, <1>6, <1>8

(* The lines of an event.                                                  *)
LineOf(k, a) == [b \in AnswerBeat(k, a) |-> b.line]

OfTypes(a, types) == { i \in DOMAIN a.blocks : a.blocks[i].type \in types }

LEMMA LinesAreSpoken ==
  ASSUME NEW a \in Answer, NEW k \in ProviderKind, NEW e \in Seq(AnswerBeat(k, a)), NEW types
  PROVE  LinesOf(e, a, types) = Gathered(e, Spoken(k, a, OfTypes(a, types)))
<1> DEFINE B == AnswerBeat(k, a)
           J == { n \in DOMAIN e : e[n].type = "piece" /\ a.blocks[e[n].block].type \in types }
           f == LineOf(k, a)
           R == { b.line : b \in B }
           g == Spoken(k, a, OfTypes(a, types))
           q == Picked(e, J)
<1>1. f \in [B -> R]
  BY DEF LineOf
<1>2. ASSUME NEW n \in DOMAIN e PROVE g[e[n]] = IF n \in J THEN <<f[e[n]]>> ELSE <<>>
  BY AnswerBeatFacts DEF LineOf, Spoken, OfTypes
<1>3. e \in Seq(B)
  OBVIOUS
<1>4. q \in Seq(B)
  BY <1>3, PickedFacts
<1>5. LinesOf(e, a, types) = [n \in DOMAIN q |-> q[n].line]
  BY DEF LinesOf, Selected
<1> HIDE DEF B, J, f, R, g, q
<1>6. [n \in DOMAIN q |-> f[q[n]]] = Gathered(e, g)
  <2>1. Chosen(Through(e, f), J) = [n \in DOMAIN e |-> g[e[n]]]
    BY <1>2 DEF Chosen, Through
  <2>2. Through(Picked(e, J), f) = Picked(Through(e, f), J)
    BY <1>3, ThroughPicked
  <2>3. Picked(Through(e, f), J) = FlattenSeq(Chosen(Through(e, f), J))
    BY PickedIsFlattened
  <2>4. FlattenSeq(Chosen(Through(e, f), J)) = Gathered(e, g)
    BY <2>1 DEF Gathered
  <2>5. Through(Picked(e, J), f) = Gathered(e, g)
    BY <2>2, <2>3, <2>4
  <2> QED  BY <2>5 DEF q, Through
<1>7. [n \in DOMAIN q |-> q[n].line] = [n \in DOMAIN q |-> f[q[n]]]
  BY <1>4 DEF f, LineOf, B
<1> QED  BY <1>5, <1>6, <1>7 DEF g

LEMMA GatheredNothing ==
  ASSUME NEW S, NEW s \in Seq(S), NEW g, \A n \in DOMAIN s : g[s[n]] = <<>>
  PROVE  Gathered(s, g) = <<>>
<1> DEFINE u == [n \in DOMAIN s |-> g[s[n]]]
<1>1. Len(s) \in Nat /\ DOMAIN s = 1..Len(s)
  OBVIOUS
<1>2. u = [n \in 1..Len(s) |-> u[n]] /\ \A n \in 1..Len(s) : u[n] = <<>>
  BY <1>1
<1>3. Gathered(s, g) = FlattenSeq(u)
  BY DEF Gathered
<1> HIDE DEF u
<1>4. <<>> \in Seq({})
  OBVIOUS
<1>5. u \in Seq(Seq({})) /\ Len(u) = Len(s)
  <2>1. \A n \in 1..Len(s) : u[n] \in Seq({})
    BY <1>2, <1>4
  <2>2. u \in Seq(Seq({}))
    BY <1>1, <1>2, <2>1, FunctionIsASequence
  <2>3. DOMAIN u = 1..Len(s)
    BY <1>2
  <2> QED  BY <1>1, <2>2, <2>3
<1>6. FlattenSeq(u) = <<>>
  BY <1>2, <1>5, FlattenOfEmpties
<1> QED  BY <1>3, <1>6

LEMMA SpokenAlike ==
  ASSUME NEW a, NEW k, NEW e \in Seq(AnswerBeat(k, a)), NEW I, NEW J,
         \A n \in DOMAIN e : e[n].type = "piece" => (e[n].block \in I <=> e[n].block \in J)
  PROVE  Gathered(e, Spoken(k, a, I)) = Gathered(e, Spoken(k, a, J))
<1>1. \A n \in DOMAIN e : e[n] \in AnswerBeat(k, a)
  OBVIOUS
<1>2. ASSUME NEW n \in DOMAIN e PROVE Spoken(k, a, I)[e[n]] = Spoken(k, a, J)[e[n]]
  BY <1>1 DEF Spoken
<1>3. [n \in DOMAIN e |-> Spoken(k, a, I)[e[n]]] = [n \in DOMAIN e |-> Spoken(k, a, J)[e[n]]]
  BY <1>2
<1> QED  BY <1>3 DEF Gathered

LEMMA SpokenNothing ==
  ASSUME NEW a, NEW k, NEW e \in Seq(AnswerBeat(k, a)), NEW I,
         \A n \in DOMAIN e : e[n].type = "piece" => e[n].block \notin I
  PROVE  Gathered(e, Spoken(k, a, I)) = <<>>
BY GatheredNothing DEF Spoken

-----------------------------------------------------------------------------
(* Gemini's calls.                                                         *)
CallOfBeat(a) ==
  [b \in AnswerBeat("gemini", a) |-> IF b.type = "call" THEN <<a.blocks[b.block]>> ELSE <<>>]

LEMMA CallOfBeatType ==
  ASSUME NEW a \in Answer
  PROVE  CallOfBeat(a) \in [AnswerBeat("gemini", a) -> Seq(AnswerBlock)]
BY AnswerBeatFacts, AnswerFacts DEF ToolBlocks, CallOfBeat

LEMMA CallsAreOfTools ==
  ASSUME NEW a \in Answer
  PROVE  Calls(a) = Picked(a.blocks, ToolBlocks(a))
BY DEF Calls, OfType, Selected, ToolBlocks

LEMMA CallsOfBeats ==
  ASSUME NEW a \in Answer
  PROVE  Gathered(Beats("gemini", a), CallOfBeat(a)) = Calls(a)
<1> DEFINE g == CallOfBeat(a)
           k == "gemini"
           s == a.blocks
           T == ToolBlocks(a)
           B == AnswerBeat("gemini", a)
<1>0. k \in ProviderKind
  BY DEF ProviderKind
<1>1. g \in [B -> Seq(AnswerBlock)]
  BY CallOfBeatType
<1>2. Starting \in B /\ Ending \in B /\ g[Ending] = <<>> /\ g[Starting] = <<>>
  BY DEF AnswerBeat, Starting, Ending, Beat, CallOfBeat
<1>3. s \in Seq(AnswerBlock) /\ DOMAIN s = 1..Len(s)
  BY AnswerFacts
<1>4. ASSUME NEW i \in DOMAIN s
      PROVE  Gathered(BlockBeats(k, a, i), g) = IF i \in T THEN <<s[i]>> ELSE <<>>
  <2>1. i \in 1..Len(a.blocks)
    BY <1>3
  <2>2. CASE i \in T
    <3>1. BlockBeats(k, a, i) = <<Called(i)>>
      BY <1>0, <2>1, <2>2, BlockBeatsAre DEF ToolBlocks
    <3>2. Called(i) \in B /\ Called(i).type = "call" /\ Called(i).block = i
      BY <2>2 DEF AnswerBeat, BlockBeat, Called, Beat
    <3>3. g[Called(i)] = <<s[i]>>
      BY <3>2 DEF CallOfBeat
    <3> HIDE DEF g, B, k, s, T
    <3>4. Gathered(<<Called(i)>>, g) = g[Called(i)]
      BY <1>1, <3>2, GatheredOne
    <3> QED  BY <3>1, <3>3, <3>4, <2>2
  <2>3. CASE i \notin T
    <3>1. BlockBeats(k, a, i) = Pieces(a, i)
      BY <1>0, <2>1, <2>3, BlockBeatsAre DEF ToolBlocks
    <3>2. Pieces(a, i) \in Seq(BlockBeat(k, a)) /\ Len(Pieces(a, i)) = Len(a.blocks[i].body)
      BY <2>1, PiecesType
    <3>3. \A n \in 1..Len(a.blocks[i].body) : Pieces(a, i)[n] = Beat("piece", i, a.blocks[i].body[n])
      BY <2>1, PiecesType
    <3> DEFINE p == Pieces(a, i)
    <3>4. \A n \in DOMAIN p : p[n] \in B /\ p[n].type = "piece"
      <4>1. DOMAIN p = 1..Len(a.blocks[i].body) /\ \A n \in DOMAIN p : p[n] \in BlockBeat(k, a)
        BY <3>2
      <4>2. \A n \in DOMAIN p : p[n].type = "piece"
        <5>1. ASSUME NEW n \in DOMAIN p PROVE p[n].type = "piece"
          <6>1. p[n] = Beat("piece", i, a.blocks[i].body[n])
            BY <4>1, <3>3
          <6> QED  BY <6>1 DEF Beat
        <5> QED  BY <5>1
      <4> QED  BY <4>1, <4>2 DEF AnswerBeat
    <3>5. \A n \in DOMAIN p : g[p[n]] = <<>>
      BY <3>4 DEF CallOfBeat
    <3> HIDE DEF g, p
    <3>6. Gathered(p, g) = <<>>
      BY <3>2, <3>5, GatheredNothing DEF p
    <3> QED  BY <3>1, <3>6, <2>3 DEF p
  <2> QED  BY <2>2, <2>3
<1>5. [i \in DOMAIN s |-> Gathered(BlockBeats(k, a, i), g)] = Chosen(s, T)
  BY <1>4 DEF Chosen
<1>6. Gathered(Beats(k, a), g) = FlattenSeq([i \in DOMAIN a.blocks |-> Gathered(BlockBeats(k, a, i), g)])
  BY <1>1, <1>0, <1>2, GatheredBeats DEF k
<1>7. FlattenSeq(Chosen(s, T)) = Picked(s, T)
  BY PickedIsFlattened
<1> QED  BY <1>5, <1>6, <1>7, CallsAreOfTools

LEMMA CallsOfEvent ==
  ASSUME NEW a \in Answer, NEW e \in Seq(AnswerBeat("gemini", a))
  PROVE  LET called == Selected(e, LAMBDA b : b.type = "call")
         IN [n \in DOMAIN called |-> a.blocks[called[n].block]] = Gathered(e, CallOfBeat(a))
<1> DEFINE B == AnswerBeat("gemini", a)
           J == { n \in DOMAIN e : e[n].type = "call" }
           f == [b \in B |-> a.blocks[b.block]]
           g == CallOfBeat(a)
           q == Picked(e, J)
<1>1. Selected(e, LAMBDA b : b.type = "call") = q
  BY DEF Selected
<1>2. e \in Seq(B) /\ q \in Seq(B)
  BY PickedFacts
<1>3. Chosen(Through(e, f), J) = [n \in DOMAIN e |-> g[e[n]]]
  BY DEF CallOfBeat, Chosen, Through
<1>4. Through(q, f) = [n \in DOMAIN q |-> a.blocks[q[n].block]]
  <2>1. \A n \in DOMAIN q : q[n] \in B
    BY <1>2
  <2> HIDE DEF q
  <2>2. \A n \in DOMAIN q : f[q[n]] = a.blocks[q[n].block]
    BY <2>1
  <2> HIDE DEF f
  <2> QED  BY <2>2 DEF Through
<1> HIDE DEF f, g, J
<1>5. Through(q, f) = Picked(Through(e, f), J)
  BY <1>2, ThroughPicked
<1>6. Picked(Through(e, f), J) = FlattenSeq(Chosen(Through(e, f), J))
  BY PickedIsFlattened
<1>7. FlattenSeq(Chosen(Through(e, f), J)) = Gathered(e, g)
  BY <1>3 DEF Gathered
<1> QED  BY <1>1, <1>4, <1>5, <1>6, <1>7 DEF g

-----------------------------------------------------------------------------
(* A stream: what each event says is what the beats it is made of say.     *)

(* Where an event's beats are.                                             *)
(* An event that is beats n + 1 to `to` of a stream.                       *)
IsEvent(k, a, n, to, e) ==
  /\ e \in Seq(AnswerBeat(k, a)) /\ Len(e) = to - n /\ DOMAIN e = 1..to - n
  /\ 1 \in DOMAIN e /\ e[1] = Beats(k, a)[n + 1]
  /\ \A m \in 1..to - n : e[m] = Beats(k, a)[n + m] /\ e[m] \in AnswerBeat(k, a)
                            /\ n + m \in 1..Len(Beats(k, a))
  /\ SubSeq(Beats(k, a), 1, n) \in Seq(AnswerBeat(k, a))
  /\ SubSeq(Beats(k, a), 1, to) = SubSeq(Beats(k, a), 1, n) \o e

LEMMA EventFacts ==
  ASSUME NEW a \in Answer, NEW k \in ProviderKind, NEW n \in 0..Len(Beats(k, a)) - 1,
         NEW to \in n + 1..Len(Beats(k, a))
  PROVE  IsEvent(k, a, n, to, SubSeq(Beats(k, a), n + 1, to))
<1> DEFINE bs == Beats(k, a)
           B == AnswerBeat(k, a)
           e == SubSeq(bs, n + 1, to)
<1>1. bs \in Seq(B) /\ Len(bs) \in Nat
  BY BeatsAre
<1>2. n \in 0..Len(bs) /\ to \in n..Len(bs) /\ n \in Nat /\ to \in Nat /\ n < to
  BY <1>1
<1> HIDE DEF bs, B
<1>3. SubSeq(bs, 1, n) \in Seq(B) /\ e \in Seq(B) /\ Len(e) = to - n
  BY <1>1, <1>2, Halves
<1>4. \A m \in 1..to - n : e[m] = bs[n + m]
  BY <1>1, <1>2, Halves
<1>5. SubSeq(bs, 1, to) = SubSeq(bs, 1, n) \o e
  BY <1>1, <1>2, Halves
<1> HIDE DEF e
<1>6. DOMAIN e = 1..to - n /\ 1 \in DOMAIN e /\ to - n \in Nat
  BY <1>2, <1>3
<1>7. e[1] = bs[n + 1]
  BY <1>4, <1>6
<1>8. \A m \in 1..to - n : e[m] \in B /\ n + m \in 1..Len(bs)
  BY <1>1, <1>2, <1>3, <1>6
<1>9. IsEvent(k, a, n, to, e)
  BY <1>3, <1>4, <1>5, <1>6, <1>7, <1>8 DEF bs, B, IsEvent
<1> QED  BY <1>9 DEF e, bs

(* An event of a stream that sends one beat at a time, or pieces of one    *)
(* block together.                                                         *)
ShapeOfEvent(k, a, n, to, e) ==
  \/ e = <<Starting>> /\ n = 0 /\ k = "anthropic" /\ to < Len(Beats(k, a))
  \/ e = <<Ending>> /\ to = Len(Beats(k, a))
  \/ /\ to < Len(Beats(k, a))
     /\ \E i \in DOMAIN a.blocks : e = <<Opening(i)>> /\ (k = "anthropic" \/ i \in ToolBlocks(a))
  \/ /\ to < Len(Beats(k, a))
     /\ \E i \in DOMAIN a.blocks : \A m \in DOMAIN e : e[m].type = "piece" /\ e[m].block = i

LEMMA EventShape ==
  ASSUME NEW a \in Answer, NEW k \in {"anthropic", "openai"}, NEW n \in 0..Len(Beats(k, a)) - 1,
         NEW to \in n + 1..Len(Beats(k, a)), OneEvent(k, Beats(k, a), n + 1, to),
         NEW e, e = SubSeq(Beats(k, a), n + 1, to)
  PROVE  ShapeOfEvent(k, a, n, to, e)
<1> SUFFICES \/ e = <<Starting>> /\ n = 0 /\ k = "anthropic" /\ to < Len(Beats(k, a))
             \/ e = <<Ending>> /\ to = Len(Beats(k, a))
             \/ /\ to < Len(Beats(k, a))
                /\ \E i \in DOMAIN a.blocks : e = <<Opening(i)>> /\ (k = "anthropic" \/ i \in ToolBlocks(a))
             \/ /\ to < Len(Beats(k, a))
                /\ \E i \in DOMAIN a.blocks : \A m \in DOMAIN e : e[m].type = "piece" /\ e[m].block = i
  BY DEF ShapeOfEvent
<1> DEFINE bs == Beats(k, a)
           b == bs[n + 1]
<1>0. k \in ProviderKind /\ k # "gemini"
  BY DEF ProviderKind
<1>1. /\ Len(bs) \in Nat \ {0}
      /\ \A m \in 1..Len(bs) : bs[m] = Ending <=> m = Len(bs)
      /\ \A m \in 1..Len(bs) : bs[m] = Starting <=> k = "anthropic" /\ m = 1
  BY <1>0, BeatPlaces
<1>2. /\ e \in Seq(AnswerBeat(k, a)) /\ DOMAIN e = 1..to - n
      /\ 1 \in DOMAIN e /\ e[1] = b /\ Len(e) = to - n
  <2>1. IsEvent(k, a, n, to, e)
    BY <1>0, EventFacts
  <2> QED  BY <2>1 DEF IsEvent
<1>3. \A m \in 1..to - n : e[m] = bs[n + m] /\ e[m] \in AnswerBeat(k, a) /\ n + m \in 1..Len(bs)
  <2>1. IsEvent(k, a, n, to, e)
    BY <1>0, EventFacts
  <2> QED  BY <2>1 DEF IsEvent
<1>4. n \in Nat /\ to \in Nat /\ n < to /\ to <= Len(bs) /\ n + 1 \in 1..Len(bs)
  BY <1>1
<1>5. n + 1 = to \/ \A m \in n + 1..to : bs[m].type = "piece" /\ bs[m].block = b.block
  BY <1>0 DEF OneEvent
<1>6. b \in AnswerBeat(k, a)
  BY <1>2, <1>3, <1>4
<1> HIDE DEF bs, b
<1>7. Ending \in AnswerBeat(k, a) /\ Ending.type = "end" /\ Starting.type = "start"
  BY DEF AnswerBeat, Ending, Starting, Beat
<1>8. CASE b.type = "piece"
  <2>1. b.block \in DOMAIN a.blocks
    BY <1>6, <1>8, AnswerBeatFacts
  <2>2. \A m \in n + 1..to : bs[m].type = "piece" /\ bs[m].block = b.block
    BY <1>4, <1>5, <1>8 DEF b
  <2>3. ASSUME NEW m \in DOMAIN e PROVE e[m].type = "piece" /\ e[m].block = b.block
    <3>1. m \in 1..to - n /\ n + m \in n + 1..to
      BY <1>2, <1>4
    <3> QED  BY <3>1, <1>3, <2>2
  <2>4. to < Len(bs)
    BY <2>2, <1>4, <1>1, <1>7
  <2> QED  BY <2>1, <2>3, <2>4 DEF bs
<1>9. CASE b.type # "piece"
  <2>1. n + 1 = to
    BY <1>4, <1>5, <1>9 DEF b
  <2>2. e = <<b>>
    <3> DEFINE B == AnswerBeat(k, a)
    <3>1. e \in Seq(B) /\ b \in B /\ e[1] = b
      BY <1>2, <1>6
    <3>2. Len(e) = 1
      BY <1>2, <1>4, <2>1
    <3> HIDE DEF B
    <3> DEFINE u == <<b>>
    <3>3. u \in Seq(B) /\ Len(u) = 1 /\ u[1] = b
      BY <3>1
    <3> HIDE DEF u
    <3>4. \A m \in 1..Len(e) : e[m] = u[m]
      BY <3>1, <3>2, <3>3
    <3>5. e = u
      BY <3>1, <3>2, <3>3, <3>4, SeqEqual
    <3> QED  BY <3>5 DEF u
  <2>3. CASE b.type = "start"
    <3>1. b = Starting
      BY <1>6, <2>3, AnswerBeatFacts
    <3>2. n + 1 = 1 /\ k = "anthropic"
      BY <3>1, <1>1, <1>4 DEF b
    <3>3. to < Len(bs)
      BY <3>1, <2>1, <1>1, <1>4, <1>7 DEF b
    <3>4. n = 0 /\ e = <<Starting>>
      <4>1. n = 0
        BY <3>2, <1>4
      <4>2. e = <<Starting>>
        BY <2>2, <3>1, Zenon
      <4> QED  BY <4>1, <4>2
    <3>5. e = <<Starting>> /\ n = 0 /\ k = "anthropic" /\ to < Len(Beats(k, a))
      BY <3>2, <3>3, <3>4 DEF bs
    <3> QED  BY <3>5
  <2>4. CASE b.type = "end"
    <3>1. b = Ending
      BY <1>6, <2>4, AnswerBeatFacts
    <3>2. n + 1 = Len(bs)
      BY <3>1, <1>1, <1>4 DEF b
    <3> QED  BY <2>1, <2>2, <3>1, <3>2 DEF bs
  <2>5. CASE b.type = "open"
    <3>1. b.block \in DOMAIN a.blocks /\ b = Opening(b.block)
          /\ (k = "anthropic" \/ b.block \in ToolBlocks(a))
      BY <1>6, <2>5, AnswerBeatFacts
    <3>2. to < Len(bs)
      <4>1. b # Ending
        BY <2>5, <1>7
      <4> QED  BY <4>1, <2>1, <1>1, <1>4 DEF b
    <3> QED  BY <2>2, <3>1, <3>2 DEF bs
  <2>6. b.type \in {"piece", "open", "call", "start", "end"} /\ b.type # "call"
    BY <1>0, <1>6, AnswerBeatFacts
  <2> QED  BY <2>3, <2>4, <2>5, <2>6, <1>9
<1> QED  BY <1>8, <1>9

(* The blocks that make up an answer's content, and its reasoning.         *)
Answering(k, r, a) ==
  { i \in DOMAIN a.blocks : \/ a.blocks[i].type = "text"
                            \/ k = "anthropic" /\ ForcedTool(r) # Unset /\ i \in ToolBlocks(a) }
Pondering(r, a) == IF Excluded(r) THEN {} ELSE OfTypes(a, {"thinking"})

(* Are an answer's calls calls?                                            *)
Tracked(k, r) == ~(k = "anthropic" /\ ForcedTool(r) # Unset)

SlotOf(k, a, i) == IF k = "anthropic" THEN i - 1 ELSE Before(ToolBlocks(a), i)

Touched(p, i) == \E m \in DOMAIN p : p[m].type \in {"open", "piece"} /\ p[m].block = i
Opened(p, i) == \E m \in DOMAIN p : p[m] = Opening(i)

CallSoFar(k, a, p, i) ==
  [id |-> IF Opened(p, i) THEN a.blocks[i].id ELSE Unset,
   name |-> IF Opened(p, i) THEN a.blocks[i].name ELSE Unset,
   arguments |-> Gathered(p, Spoken(k, a, {i}))]

DeltaSaid(k, a, e, i) ==
  Delta(SlotOf(k, a, i), CallSoFar(k, a, e, i).id, CallSoFar(k, a, e, i).name,
        CallSoFar(k, a, e, i).arguments)

CallsSaid(k, r, a, e, deltas) ==
  \/ deltas = <<>> /\ (Tracked(k, r) => \A i \in ToolBlocks(a) : ~Touched(e, i))
  \/ Tracked(k, r) /\ \E i \in ToolBlocks(a) :
        /\ \A j \in ToolBlocks(a) : Touched(e, j) <=> j = i
        /\ deltas = <<DeltaSaid(k, a, e, i)>>

Says(k, r, a, e, last, c) ==
  /\ c.content = Gathered(e, Spoken(k, a, Answering(k, r, a)))
  /\ c.reasoning = Gathered(e, Spoken(k, a, Pondering(r, a)))
  /\ c.finish_reason = IF last THEN Chat(k, r, a).finish_reason ELSE Unset
  /\ c.usage = IF last THEN Chat(k, r, a).usage ELSE Unset
  /\ CallsSaid(k, r, a, e, c.tool_calls)

(* An event of pieces of one block.                                        *)
PiecesSay(k, a, e, i) ==
  /\ \A I, J : (i \in I <=> i \in J) => Gathered(e, Spoken(k, a, I)) = Gathered(e, Spoken(k, a, J))
  /\ \A I : i \notin I => Gathered(e, Spoken(k, a, I)) = <<>>
  /\ \A j : Touched(e, j) <=> j = i
  /\ \A j : ~Opened(e, j)
  /\ \A types : LinesOf(e, a, types) = Gathered(e, Spoken(k, a, OfTypes(a, types)))

LEMMA PiecesOfOne ==
  ASSUME NEW a \in Answer, NEW k \in {"anthropic", "openai"}, NEW e \in Seq(AnswerBeat(k, a)), NEW i,
         1 \in DOMAIN e, \A m \in DOMAIN e : e[m].type = "piece" /\ e[m].block = i
  PROVE  PiecesSay(k, a, e, i)
BY SpokenAlike, SpokenNothing, LinesAreSpoken DEF Touched, Opening, Beat, Opened, ProviderKind,
   PiecesSay

(* An event of one beat that is no piece.                                  *)
LEMMA OneOther ==
  ASSUME NEW a \in Answer, NEW k \in {"anthropic", "openai"}, NEW b \in AnswerBeat(k, a), b.type # "piece"
  PROVE  /\ \A I : Gathered(<<b>>, Spoken(k, a, I)) = <<>>
         /\ \A j : Touched(<<b>>, j) <=> b.type = "open" /\ b.block = j
         /\ \A j : Opened(<<b>>, j) <=> b = Opening(j)
<1> DEFINE e == <<b>>
           B == AnswerBeat(k, a)
<1>1. e \in Seq(B) /\ DOMAIN e = {1} /\ e[1] = b
  OBVIOUS
<1> HIDE DEF e
<1>2. ASSUME NEW I PROVE Gathered(e, Spoken(k, a, I)) = <<>>
  BY <1>1, SpokenNothing
<1>3. \A j : Touched(e, j) <=> b.type = "open" /\ b.block = j
  BY <1>1 DEF Touched
<1>4. \A j : Opened(e, j) <=> b = Opening(j)
  BY <1>1 DEF Opened
<1> QED  BY <1>2, <1>3, <1>4 DEF e

LEMMA SlotType ==
  ASSUME NEW a \in Answer, NEW k, NEW i \in ToolBlocks(a)
  PROVE  SlotOf(k, a, i) \in Nat
<1>1. i \in 1..Len(a.blocks) /\ Len(a.blocks) \in Nat
  BY AnswerFacts DEF ToolBlocks
<1>2. i \in Nat \ {0} /\ i - 1 \in Nat
  BY <1>1
<1>3. Before(ToolBlocks(a), i) \in Nat
  BY <1>2, BeforeFacts
<1> QED  BY <1>2, <1>3 DEF SlotOf

LEMMA FinalType ==
  ASSUME NEW a \in Answer, NEW r
  PROVE  /\ Chat("anthropic", r, a).finish_reason \in FinishReason
         /\ Chat("anthropic", r, a).usage \in Usage
         /\ Chat("openai", r, a).finish_reason \in FinishReason
         /\ Chat("openai", r, a).usage \in Usage
         /\ Chat("gemini", r, a).finish_reason \in FinishReason
         /\ Chat("gemini", r, a).usage \in Usage
<1>1. a.stop \in {"end", "max", "tool"} /\ a.fresh \in Nat /\ a.written \in Nat /\ a.cached \in Nat
      /\ a.output \in Nat
  BY DEF Answer
<1>2. \A n \in Nat : Positive(n) \in Optional(Nat)
  BY DEF Positive, Optional
<1>3. InclusiveUsage(a) \in Usage
  BY <1>1, <1>2 DEF Optional, InclusiveUsage, Usage
<1>4. AnthropicUsage(a.fresh, a.output, a.written, a.cached) \in Usage
  BY <1>1, <1>2 DEF AnthropicUsage, Usage
<1>5. Chat("anthropic", r, a).finish_reason \in FinishReason
  BY <1>1 DEF Chat, AnthropicChat, FinishReason, map_stop_reason
<1>6. Chat("openai", r, a).finish_reason \in FinishReason
  BY <1>1 DEF Chat, OpenAiChat, FinishReason, StopWord
<1>7. Chat("gemini", r, a).finish_reason \in FinishReason
  BY <1>1, UnsetIsApart DEF StopWord, map_finish_reason, FinishReason, Chat, GeminiChat,
     resolve_finish_reason
<1> QED  BY <1>3, <1>4, <1>5, <1>6, <1>7 DEF Chat, AnthropicChat, OpenAiChat, GeminiChat

LEMMA SaidIsText ==
  ASSUME NEW a, NEW k, NEW e \in Seq(AnswerBeat(k, a)), NEW I
  PROVE  Gathered(e, Spoken(k, a, I)) \in Text
BY SpokenType, GatheredFacts DEF Text

LEMMA TypesOfBlocks ==
  ASSUME NEW a \in Answer, NEW i \in DOMAIN a.blocks
  PROVE  /\ \A types : i \in OfTypes(a, types) <=> a.blocks[i].type \in types
         /\ i \in ToolBlocks(a) <=> a.blocks[i].type = "tool_use"
         /\ a.blocks[i].type \in {"text", "thinking", "tool_use"}
         /\ a.blocks[i].type = "tool_use" => a.blocks[i].id \in CallIds /\ a.blocks[i].name \in Functions
         /\ i \in Nat \ {0}
BY AnswerFacts DEF OfTypes, ToolBlocks

LEMMA ChunkTypes ==
  /\ EmptyChunk \in ChatChunk
  /\ \A d \in ToolCallDelta : [EmptyChunk EXCEPT !.tool_calls = <<d>>] \in ChatChunk
  /\ \A x \in Text, y \in Text : [EmptyChunk EXCEPT !.content = x, !.reasoning = y] \in ChatChunk
  /\ \A x \in Text : [EmptyChunk EXCEPT !.content = x] \in ChatChunk
  /\ \A f \in FinishReason, u \in Usage : [EmptyChunk EXCEPT !.finish_reason = f, !.usage = u] \in ChatChunk
<1>1. <<>> \in Text /\ <<>> \in Seq(ToolCallDelta) /\ Unset \in Optional(FinishReason) /\ Unset \in Optional(Usage)
  BY DEF Text, Optional
<1>2. FinishReason \subseteq Optional(FinishReason) /\ Usage \subseteq Optional(Usage)
  BY DEF Optional
<1>3. \A x \in Text, y \in Text, d \in Seq(ToolCallDelta), f \in Optional(FinishReason), u \in Optional(Usage) :
        [content |-> x, reasoning |-> y, tool_calls |-> d, finish_reason |-> f, usage |-> u] \in ChatChunk
  BY DEF ChatChunk
<1>4. EmptyChunk = [content |-> <<>>, reasoning |-> <<>>, tool_calls |-> <<>>, finish_reason |-> Unset, usage |-> Unset]
  BY DEF EmptyChunk
<1>5. EmptyChunk \in ChatChunk
  BY <1>1, <1>3, <1>4
<1>6. ASSUME NEW d \in ToolCallDelta PROVE [EmptyChunk EXCEPT !.tool_calls = <<d>>] \in ChatChunk
  <2>1. <<d>> \in Seq(ToolCallDelta)
    OBVIOUS
  <2>2. [EmptyChunk EXCEPT !.tool_calls = <<d>>] =
          [content |-> <<>>, reasoning |-> <<>>, tool_calls |-> <<d>>, finish_reason |-> Unset, usage |-> Unset]
    BY DEF EmptyChunk
  <2> QED  BY <2>1, <2>2, <1>1 DEF ChatChunk
<1>7. ASSUME NEW x \in Text, NEW y \in Text
      PROVE  [EmptyChunk EXCEPT !.content = x, !.reasoning = y] \in ChatChunk
  <2>1. [EmptyChunk EXCEPT !.content = x, !.reasoning = y] =
          [content |-> x, reasoning |-> y, tool_calls |-> <<>>, finish_reason |-> Unset, usage |-> Unset]
    <3> DEFINE c == [EmptyChunk EXCEPT !.content = x, !.reasoning = y]
    <3>1. DOMAIN c = {"content", "reasoning", "tool_calls", "finish_reason", "usage"}
      BY <1>4
    <3>2. c = [f_ \in {"content", "reasoning", "tool_calls", "finish_reason", "usage"} |-> c[f_]]
      BY <3>1
    <3>3. c.content = x /\ c.reasoning = y /\ c.tool_calls = <<>> /\ c.finish_reason = Unset /\ c.usage = Unset
      BY <1>4
    <3> HIDE DEF c
    <3>4. c = [content |-> x, reasoning |-> y, tool_calls |-> <<>>, finish_reason |-> Unset, usage |-> Unset]
      BY <3>2, <3>3
    <3> QED  BY <3>4 DEF c
  <2> QED  BY <2>1, <1>1 DEF ChatChunk
<1>8. ASSUME NEW x \in Text PROVE [EmptyChunk EXCEPT !.content = x] \in ChatChunk
  BY <1>1 DEF EmptyChunk, ChatChunk
<1>9. ASSUME NEW f \in FinishReason, NEW u \in Usage
      PROVE  [EmptyChunk EXCEPT !.finish_reason = f, !.usage = u] \in ChatChunk
  <2>1. [EmptyChunk EXCEPT !.finish_reason = f, !.usage = u] =
          [content |-> <<>>, reasoning |-> <<>>, tool_calls |-> <<>>, finish_reason |-> f, usage |-> u]
    <3> DEFINE c == [EmptyChunk EXCEPT !.finish_reason = f, !.usage = u]
    <3>1. DOMAIN c = {"content", "reasoning", "tool_calls", "finish_reason", "usage"}
      BY <1>4
    <3>2. c = [f_ \in {"content", "reasoning", "tool_calls", "finish_reason", "usage"} |-> c[f_]]
      BY <3>1
    <3>3. c.content = <<>> /\ c.reasoning = <<>> /\ c.tool_calls = <<>> /\ c.finish_reason = f /\ c.usage = u
      BY <1>4
    <3> HIDE DEF c
    <3>4. c = [content |-> <<>>, reasoning |-> <<>>, tool_calls |-> <<>>, finish_reason |-> f, usage |-> u]
      BY <3>2, <3>3
    <3> QED  BY <3>4 DEF c
  <2> QED  BY <2>1, <1>1, <1>2 DEF ChatChunk
<1> QED  BY <1>5, <1>6, <1>7, <1>8, <1>9

(* chat_stream() of the OpenAI-compatible adapter: every event's chunk     *)
(* says what its beats are.                                                *)
LEMMA OpenAiSays ==
  ASSUME NEW a \in Answer, NEW r, NEW k \in {"openai"}, NEW n \in 0..Len(Beats(k, a)) - 1,
         NEW to \in n + 1..Len(Beats(k, a)), OneEvent(k, Beats(k, a), n + 1, to),
         NEW e, e = SubSeq(Beats(k, a), n + 1, to), NEW tokens
  PROVE  LET c == Chunk(k, r, e, a, tokens)
         IN c \in ChatChunk /\ Says(k, r, a, e, to = Len(Beats(k, a)), c)
<1> DEFINE bs == Beats(k, a)
           c == Chunk(k, r, e, a, tokens)
           whole == Chat(k, r, a)
           T == ToolBlocks(a)
           Saying(I) == Gathered(e, Spoken(k, a, I))
<1>0. k \in {"anthropic", "openai"} /\ k \in ProviderKind
  BY DEF ProviderKind
<1>1. c = OpenAiChunk(r, e, a)
  BY DEF Chunk
<1>2. Tracked(k, r)
  BY DEF Tracked
<1>3. e \in Seq(AnswerBeat(k, a)) /\ 1 \in DOMAIN e /\ e[1] = bs[n + 1] /\ bs[n + 1] \in AnswerBeat(k, a)
  BY <1>0, EventFacts, BeatPlaces DEF IsEvent
<1>4. \A I : Saying(I) \in Text
  BY <1>3, SaidIsText
<1>5. whole.finish_reason \in FinishReason /\ whole.usage \in Usage
  BY FinalType
<1>6. whole.finish_reason = StopWord.openai[a.stop] /\ whole.usage = InclusiveUsage(a)
  BY DEF Chat, OpenAiChat
<1>7. <<>> \in Text /\ <<>> \in Seq(ToolCallDelta) /\ Unset \in Optional(FinishReason) /\ Unset \in Optional(Usage)
  BY DEF Text, Optional
<1>8. ASSUME e = <<Ending>>, to = Len(bs)
      PROVE  c \in ChatChunk /\ Says(k, r, a, e, to = Len(bs), c)
  <2>1. Ending.type = "end" /\ Ending \in AnswerBeat(k, a)
    BY DEF Ending, Beat, AnswerBeat
  <2>2. c = [EmptyChunk EXCEPT !.finish_reason = whole.finish_reason, !.usage = whole.usage]
    <3>1. e[1].type = "end"
      BY <1>8, <2>1
    <3>2. OpenAiChunk(r, e, a) = [EmptyChunk EXCEPT !.finish_reason = StopWord.openai[a.stop],
                                                    !.usage = InclusiveUsage(a)]
      BY <3>1 DEF OpenAiChunk
    <3> HIDE DEF whole, c
    <3> QED  BY <1>1, <1>6, <3>2
  <2>3. c.content = <<>> /\ c.reasoning = <<>> /\ c.tool_calls = <<>>
        /\ c.finish_reason = whole.finish_reason /\ c.usage = whole.usage
    BY <2>2 DEF EmptyChunk
  <2>4. c \in ChatChunk
    BY <2>2, <1>5, ChunkTypes
  <2>5. (\A I : Saying(I) = <<>>) /\ (\A i : ~Touched(e, i))
    <3>1. /\ \A I : Gathered(<<Ending>>, Spoken(k, a, I)) = <<>>
          /\ \A j : Touched(<<Ending>>, j) <=> Ending.type = "open" /\ Ending.block = j
      BY <1>0, <2>1, OneOther
    <3> QED  BY <1>8, <2>1, <3>1
  <2>6. CallsSaid(k, r, a, e, c.tool_calls)
    BY <2>3, <2>5 DEF CallsSaid
  <2> QED  BY <1>8, <2>3, <2>4, <2>5, <2>6 DEF Says
<1>9. ASSUME NEW i \in DOMAIN a.blocks, e = <<Opening(i)>>, i \in T, to < Len(bs)
      PROVE  c \in ChatChunk /\ Says(k, r, a, e, to = Len(bs), c)
  <2>1. Opening(i).type = "open" /\ Opening(i).block = i /\ \A j : Opening(i) = Opening(j) <=> i = j
    BY DEF Opening, Beat
  <2>2. Opening(i) \in AnswerBeat(k, a)
    BY <1>3, <1>9
  <2>3. /\ \A I : Saying(I) = <<>>
        /\ \A j : Touched(e, j) <=> j = i
        /\ Opened(e, i)
    <3> DEFINE b == Opening(i)
    <3>1. b \in AnswerBeat(k, a) /\ b.type # "piece"
      BY <2>1, <2>2
    <3> HIDE DEF b
    <3>2. /\ \A I : Gathered(<<b>>, Spoken(k, a, I)) = <<>>
          /\ \A j : Touched(<<b>>, j) <=> b.type = "open" /\ b.block = j
          /\ \A j : Opened(<<b>>, j) <=> b = Opening(j)
      BY <1>0, <3>1, OneOther
    <3> QED  BY <1>9, <2>1, <3>2 DEF b
  <2>4. e[1].type = "open" /\ e[1].block = i
    BY <1>9 DEF Opening, Beat
  <2>5. SlotOf(k, a, i) \in Nat
    BY <1>9, SlotType
  <2>6. Cardinality({ j \in 1..i - 1 : a.blocks[j].type = "tool_use" }) = SlotOf(k, a, i)
    <3>1. { j \in 1..i - 1 : a.blocks[j].type = "tool_use" } = { j \in 1..i - 1 : j \in T }
      BY AnswerFacts DEF ToolBlocks
    <3> QED  BY <3>1 DEF SlotOf, Before
  <2>7. c = [EmptyChunk EXCEPT !.tool_calls =
               <<Delta(SlotOf(k, a, i), a.blocks[i].id, a.blocks[i].name, <<>>)>>]
    BY <1>1, <2>4, <2>6 DEF OpenAiChunk
  <2>8. DeltaSaid(k, a, e, i) = Delta(SlotOf(k, a, i), a.blocks[i].id, a.blocks[i].name, <<>>)
    BY <2>3 DEF DeltaSaid, CallSoFar
  <2>9. c.content = <<>> /\ c.reasoning = <<>> /\ c.tool_calls = <<DeltaSaid(k, a, e, i)>>
        /\ c.finish_reason = Unset /\ c.usage = Unset
    BY <2>7, <2>8 DEF EmptyChunk
  <2>10. CallsSaid(k, r, a, e, c.tool_calls)
    BY <1>2, <1>9, <2>3, <2>9 DEF CallsSaid
  <2>11. c \in ChatChunk
    <3>1. a.blocks[i].id \in CallIds /\ a.blocks[i].name \in Functions
      BY <1>9, TypesOfBlocks
    <3>2. DeltaSaid(k, a, e, i) \in ToolCallDelta
      BY <2>5, <2>8, <3>1, <1>7 DEF Delta, ToolCallDelta, Optional
    <3>3. c = [EmptyChunk EXCEPT !.tool_calls = <<DeltaSaid(k, a, e, i)>>]
      BY <2>7, <2>8, Zenon
    <3> QED  BY <3>2, <3>3, ChunkTypes
  <2> QED  BY <1>9, <2>3, <2>9, <2>10, <2>11 DEF Says
<1>10. ASSUME NEW i \in DOMAIN a.blocks, \A m \in DOMAIN e : e[m].type = "piece" /\ e[m].block = i, to < Len(bs)
       PROVE  c \in ChatChunk /\ Says(k, r, a, e, to = Len(bs), c)
  <2>1. /\ \A I, J : (i \in I <=> i \in J) => Saying(I) = Saying(J)
        /\ \A I : i \notin I => Saying(I) = <<>>
        /\ \A j : Touched(e, j) <=> j = i
        /\ \A j : ~Opened(e, j)
        /\ \A types : LinesOf(e, a, types) = Saying(OfTypes(a, types))
    <3> HIDE DEF Saying, c, whole, T
    <3>0. \A m \in DOMAIN e : e[m].type = "piece" /\ e[m].block = i
      BY <1>10
    <3>1. PiecesSay(k, a, e, i)
      BY <1>0, <1>3, <3>0, PiecesOfOne
    <3> QED  BY <3>1 DEF Saying, PiecesSay
  <2>2. e[1].type = "piece" /\ e[1].block = i
    BY <1>3, <1>10
  <2>3. /\ \A types : i \in OfTypes(a, types) <=> a.blocks[i].type \in types
        /\ i \in T <=> a.blocks[i].type = "tool_use"
        /\ a.blocks[i].type \in {"text", "thinking", "tool_use"} /\ i \in Nat \ {0}
    BY TypesOfBlocks
  <2>4. i \in Answering(k, r, a) <=> a.blocks[i].type = "text"
    BY DEF Answering
  <2>5. i \in Pondering(r, a) <=> ~Excluded(r) /\ a.blocks[i].type = "thinking"
    BY <2>3 DEF Pondering
  <2>6. CASE a.blocks[i].type = "tool_use"
    <3>1. SlotOf(k, a, i) \in Nat
      BY <2>3, <2>6, SlotType
    <3>2. Cardinality({ j \in 1..i - 1 : a.blocks[j].type = "tool_use" }) = SlotOf(k, a, i)
      <4>0. { j \in 1..i - 1 : a.blocks[j].type = "tool_use" } = { j \in 1..i - 1 : j \in T }
        BY AnswerFacts DEF ToolBlocks
      <4> QED  BY <4>0 DEF SlotOf, Before
    <3>3. c = [EmptyChunk EXCEPT !.tool_calls =
                 <<Delta(SlotOf(k, a, i), Unset, Unset, LinesOf(e, a, {"tool_use"}))>>]
      BY <1>1, <2>2, <2>6, <3>2 DEF OpenAiChunk
    <3>4. LinesOf(e, a, {"tool_use"}) = Saying({i})
      <4>1. i \in OfTypes(a, {"tool_use"}) <=> i \in {i}
        BY <2>3, <2>6
      <4> QED  BY <2>1, <4>1
    <3>5. DeltaSaid(k, a, e, i) = Delta(SlotOf(k, a, i), Unset, Unset, LinesOf(e, a, {"tool_use"}))
      BY <2>1, <3>4 DEF DeltaSaid, CallSoFar
    <3>6. c.content = <<>> /\ c.reasoning = <<>> /\ c.tool_calls = <<DeltaSaid(k, a, e, i)>>
          /\ c.finish_reason = Unset /\ c.usage = Unset
      BY <3>3, <3>5 DEF EmptyChunk
    <3>7. Saying(Answering(k, r, a)) = <<>> /\ Saying(Pondering(r, a)) = <<>>
      BY <2>1, <2>4, <2>5, <2>6
    <3>8. CallsSaid(k, r, a, e, c.tool_calls)
      BY <1>2, <2>1, <2>3, <2>6, <3>6 DEF CallsSaid
    <3>9. c \in ChatChunk
      <4>1. DeltaSaid(k, a, e, i) \in ToolCallDelta
        BY <3>1, <3>4, <3>5, <1>4 DEF Delta, ToolCallDelta, Optional
      <4>2. c = [EmptyChunk EXCEPT !.tool_calls = <<DeltaSaid(k, a, e, i)>>]
        BY <3>3, <3>5, Zenon
      <4> QED  BY <4>1, <4>2, ChunkTypes
    <3> QED  BY <1>10, <3>6, <3>7, <3>8, <3>9 DEF Says
  <2>7. CASE a.blocks[i].type # "tool_use"
    <3>1. c = [EmptyChunk EXCEPT
                 !.content = LinesOf(e, a, {"text"}),
                 !.reasoning = IF Excluded(r) THEN <<>> ELSE LinesOf(e, a, {"thinking"})]
      BY <1>1, <2>2, <2>7 DEF OpenAiChunk
    <3>2. LinesOf(e, a, {"text"}) = Saying(Answering(k, r, a))
      BY <2>3, <2>4, <2>1
    <3>3. (IF Excluded(r) THEN <<>> ELSE LinesOf(e, a, {"thinking"})) = Saying(Pondering(r, a))
      BY <2>1, <2>5 DEF Pondering
    <3>4. c = [EmptyChunk EXCEPT !.content = Saying(Answering(k, r, a)), !.reasoning = Saying(Pondering(r, a))]
      BY <3>1, <3>2, <3>3, Zenon
    <3>5. c.content = Saying(Answering(k, r, a)) /\ c.reasoning = Saying(Pondering(r, a)) /\ c.tool_calls = <<>>
          /\ c.finish_reason = Unset /\ c.usage = Unset
      BY <3>4 DEF EmptyChunk
    <3>6. CallsSaid(k, r, a, e, c.tool_calls)
      BY <2>1, <2>3, <2>7, <3>5 DEF CallsSaid
    <3>7. c \in ChatChunk
      <4>1. Saying(Answering(k, r, a)) \in Text /\ Saying(Pondering(r, a)) \in Text
        BY <1>4
      <4> HIDE DEF Saying, c
      <4> QED  BY <3>4, <4>1, ChunkTypes
    <3> QED  BY <1>10, <3>5, <3>6, <3>7 DEF Says
  <2> QED  BY <2>6, <2>7
<1>11. \/ e = <<Ending>> /\ to = Len(bs)
       \/ to < Len(bs) /\ \E i \in DOMAIN a.blocks : e = <<Opening(i)>> /\ i \in T
       \/ to < Len(bs) /\ \E i \in DOMAIN a.blocks : \A m \in DOMAIN e : e[m].type = "piece" /\ e[m].block = i
  <2>1. \/ e = <<Starting>> /\ n = 0 /\ k = "anthropic" /\ to < Len(Beats(k, a))
        \/ e = <<Ending>> /\ to = Len(Beats(k, a))
        \/ /\ to < Len(Beats(k, a))
           /\ \E i \in DOMAIN a.blocks : e = <<Opening(i)>> /\ (k = "anthropic" \/ i \in ToolBlocks(a))
        \/ /\ to < Len(Beats(k, a))
           /\ \E i \in DOMAIN a.blocks : \A m \in DOMAIN e : e[m].type = "piece" /\ e[m].block = i
    <3> HIDE DEF c, T, Saying
    <3>1. ShapeOfEvent(k, a, n, to, e)
      BY <1>0, EventShape
    <3> QED  BY <3>1 DEF ShapeOfEvent
  <2>2. k # "anthropic"
    OBVIOUS
  <2> QED  BY <2>1, <2>2
<1> HIDE DEF c, bs, T, Saying
<1>12. c \in ChatChunk /\ Says(k, r, a, e, to = Len(bs), c)
  BY <1>8, <1>9, <1>10, <1>11
<1> QED  BY <1>12 DEF c, bs

(* An event that becomes no chunk says what an empty chunk does.           *)
Told(c) == IF c = Unset THEN EmptyChunk ELSE c

CountsOf(a) == [input |-> a.fresh, creation |-> a.written, cached |-> a.cached]

LEMMA SilentSays ==
  ASSUME NEW k, NEW r, NEW a, NEW e,
         \A I : Gathered(e, Spoken(k, a, I)) = <<>>, Tracked(k, r) => \A i \in ToolBlocks(a) : ~Touched(e, i)
  PROVE  Says(k, r, a, e, FALSE, EmptyChunk)
BY DEF Says, EmptyChunk, CallsSaid

LEMMA AnthropicSays ==
  ASSUME NEW a \in Answer, NEW r, NEW k \in {"anthropic"}, NEW n \in 0..Len(Beats(k, a)) - 1,
         NEW to \in n + 1..Len(Beats(k, a)), OneEvent(k, Beats(k, a), n + 1, to),
         NEW e, e = SubSeq(Beats(k, a), n + 1, to), NEW tokens, n > 0 => tokens = CountsOf(a)
  PROVE  LET c == Told(Chunk(k, r, e, a, tokens))
         IN c \in ChatChunk /\ Says(k, r, a, e, to = Len(Beats(k, a)), c)
<1> DEFINE bs == Beats(k, a)
           chunk == Chunk(k, r, e, a, tokens)
           c == Told(chunk)
           whole == Chat(k, r, a)
           T == ToolBlocks(a)
           Saying(I) == Gathered(e, Spoken(k, a, I))
<1>0. k \in {"anthropic", "openai"} /\ k \in ProviderKind
  BY DEF ProviderKind
<1>1. chunk = AnthropicChunk(r, e, a, tokens)
  BY DEF Chunk
<1>2. Tracked(k, r) <=> ForcedTool(r) = Unset
  BY DEF Tracked
<1>3. e \in Seq(AnswerBeat(k, a)) /\ 1 \in DOMAIN e /\ e[1] = bs[n + 1] /\ bs[n + 1] \in AnswerBeat(k, a)
  BY <1>0, EventFacts, BeatPlaces DEF IsEvent
<1>4. \A I : Saying(I) \in Text
  BY <1>3, SaidIsText
<1>5. whole.finish_reason \in FinishReason /\ whole.usage \in Usage
  BY FinalType
<1>6. /\ whole.finish_reason = IF ForcedTool(r) # Unset THEN "stop"
                               ELSE map_stop_reason(StopWord.anthropic[a.stop])
      /\ whole.usage = AnthropicUsage(a.fresh, a.output, a.written, a.cached)
  BY DEF Chat, AnthropicChat
<1>7. \A x \in ChatChunk : x # Unset /\ Told(x) = x
  BY UnsetIsApart DEF Told
<1>8. Told(Unset) = EmptyChunk /\ EmptyChunk \in ChatChunk
  BY ChunkTypes DEF Told
<1>9. ASSUME e = <<Starting>>, to < Len(bs)
      PROVE  c \in ChatChunk /\ Says(k, r, a, e, to = Len(bs), c)
  <2>1. Starting.type = "start" /\ Starting \in AnswerBeat(k, a)
    BY DEF Starting, Beat, AnswerBeat
  <2>2. chunk = EmptyChunk
    <3>1. e[1].type = "start"
      BY <1>9, <2>1
    <3> QED  BY <1>1, <3>1 DEF AnthropicChunk
  <2>3. (\A I : Saying(I) = <<>>) /\ (\A i : ~Touched(e, i))
    <3>1. /\ \A I : Gathered(<<Starting>>, Spoken(k, a, I)) = <<>>
          /\ \A j : Touched(<<Starting>>, j) <=> Starting.type = "open" /\ Starting.block = j
      BY <1>0, <2>1, OneOther
    <3> QED  BY <1>9, <2>1, <3>1
  <2>4. c = EmptyChunk /\ c \in ChatChunk
    BY <1>7, <1>8, <2>2
  <2>5. Says(k, r, a, e, FALSE, EmptyChunk)
    BY <2>3, SilentSays
  <2>6. (to = Len(bs)) = FALSE
    BY <1>0, BeatPlaces, <1>9
  <2> HIDE DEF c, bs
  <2> QED  BY <2>4, <2>5, <2>6
<1>10. ASSUME e = <<Ending>>, to = Len(bs)
       PROVE  c \in ChatChunk /\ Says(k, r, a, e, to = Len(bs), c)
  <2>1. Ending.type = "end" /\ Ending \in AnswerBeat(k, a)
    BY DEF Ending, Beat, AnswerBeat
  <2>2. tokens = CountsOf(a)
    BY <1>0, BeatPlaces, <1>10, <1>3, <2>1 DEF Starting, Beat
  <2>3. chunk = [EmptyChunk EXCEPT !.finish_reason = whole.finish_reason, !.usage = whole.usage]
    <3>1. e[1].type = "end"
      BY <1>10, <2>1
    <3>2. AnthropicChunk(r, e, a, tokens) = AnthropicEndChunk(r, a, tokens)
      BY <3>1 DEF AnthropicChunk
    <3>3. AnthropicUsage(tokens.input, a.output, tokens.creation, tokens.cached) = whole.usage
      BY <1>6, <2>2 DEF CountsOf
    <3> HIDE DEF whole, chunk
    <3> QED  BY <1>1, <1>6, <3>2, <3>3 DEF AnthropicEndChunk
  <2>4. chunk \in ChatChunk /\ c = chunk
    <3>0. c = Told(chunk)
      OBVIOUS
    <3> HIDE DEF c, chunk, whole
    <3>1. chunk \in ChatChunk
      BY <2>3, <1>5, ChunkTypes
    <3> QED  BY <3>0, <3>1, <1>7
  <2>5. c.content = <<>> /\ c.reasoning = <<>> /\ c.tool_calls = <<>>
        /\ c.finish_reason = whole.finish_reason /\ c.usage = whole.usage
    BY <2>3, <2>4 DEF EmptyChunk
  <2>6. (\A I : Saying(I) = <<>>) /\ (\A i : ~Touched(e, i))
    <3>1. /\ \A I : Gathered(<<Ending>>, Spoken(k, a, I)) = <<>>
          /\ \A j : Touched(<<Ending>>, j) <=> Ending.type = "open" /\ Ending.block = j
      BY <1>0, <2>1, OneOther
    <3> QED  BY <1>10, <2>1, <3>1
  <2>7. CallsSaid(k, r, a, e, c.tool_calls)
    <3> HIDE DEF c
    <3> QED  BY <2>5, <2>6 DEF CallsSaid
  <2> HIDE DEF c, chunk
  <2> QED  BY <1>10, <2>4, <2>5, <2>6, <2>7 DEF Says
<1>11. ASSUME NEW i \in DOMAIN a.blocks, e = <<Opening(i)>>, to < Len(bs)
       PROVE  c \in ChatChunk /\ Says(k, r, a, e, to = Len(bs), c)
  <2>0. (to = Len(bs)) = FALSE
    BY <1>0, BeatPlaces, <1>11
  <2>1. Opening(i).type = "open" /\ Opening(i).block = i /\ \A j : Opening(i) = Opening(j) <=> i = j
    BY DEF Opening, Beat
  <2>2. Opening(i) \in AnswerBeat(k, a)
    BY <1>3, <1>11
  <2>3. /\ \A I : Saying(I) = <<>>
        /\ \A j : Touched(e, j) <=> j = i
        /\ Opened(e, i)
    <3> DEFINE b == Opening(i)
    <3>1. b \in AnswerBeat(k, a) /\ b.type # "piece"
      BY <2>1, <2>2
    <3> HIDE DEF b
    <3>2. /\ \A I : Gathered(<<b>>, Spoken(k, a, I)) = <<>>
          /\ \A j : Touched(<<b>>, j) <=> b.type = "open" /\ b.block = j
          /\ \A j : Opened(<<b>>, j) <=> b = Opening(j)
      BY <1>0, <3>1, OneOther
    <3> QED  BY <1>11, <2>1, <3>2 DEF b
  <2>4. e[1].type = "open" /\ e[1].block = i
    BY <1>11 DEF Opening, Beat
  <2>5. AnthropicChunk(r, e, a, tokens) = IF a.blocks[i].type = "tool_use"
                                          THEN AnthropicToolChunk(r, e, a) ELSE AnthropicTextChunk(r, e, a)
    BY <2>4 DEF AnthropicChunk
  <2>6. i \in T <=> a.blocks[i].type = "tool_use"
    BY TypesOfBlocks
  <2>7. CASE ~(i \in T /\ Tracked(k, r))
    <3>1. chunk = Unset
      BY <1>1, <1>2, <2>4, <2>5, <2>6, <2>7 DEF AnthropicToolChunk, AnthropicTextChunk
    <3>2. c = EmptyChunk /\ c \in ChatChunk
      BY <3>1, <1>8
    <3>3. Tracked(k, r) => \A j \in T : ~Touched(e, j)
      BY <2>3, <2>7
    <3>4. Says(k, r, a, e, FALSE, EmptyChunk)
      BY <2>3, <3>3, SilentSays
    <3> HIDE DEF c, bs
    <3> QED  BY <2>0, <3>2, <3>4
  <2>8. CASE i \in T /\ Tracked(k, r)
    <3>1. SlotOf(k, a, i) = i - 1 /\ SlotOf(k, a, i) \in Nat
      BY <2>8, SlotType DEF SlotOf
    <3>2. chunk = [EmptyChunk EXCEPT !.tool_calls =
                     <<Delta(SlotOf(k, a, i), a.blocks[i].id, a.blocks[i].name, <<>>)>>]
      BY <1>1, <1>2, <2>4, <2>5, <2>6, <2>8, <3>1 DEF AnthropicToolChunk
    <3>3. DeltaSaid(k, a, e, i) = Delta(SlotOf(k, a, i), a.blocks[i].id, a.blocks[i].name, <<>>)
      BY <2>3 DEF DeltaSaid, CallSoFar
    <3>4. chunk = [EmptyChunk EXCEPT !.tool_calls = <<DeltaSaid(k, a, e, i)>>]
      BY <3>2, <3>3, Zenon
    <3>5. DeltaSaid(k, a, e, i) \in ToolCallDelta
      <4>1. a.blocks[i].id \in CallIds /\ a.blocks[i].name \in Functions
        BY <2>6, <2>8, TypesOfBlocks
      <4>2. <<>> \in Text
        BY DEF Text
      <4> QED  BY <3>1, <3>3, <4>1, <4>2 DEF Delta, ToolCallDelta, Optional
    <3>6. chunk \in ChatChunk /\ c = chunk
      BY <3>4, <3>5, <1>7, ChunkTypes
    <3>7. c.content = <<>> /\ c.reasoning = <<>> /\ c.tool_calls = <<DeltaSaid(k, a, e, i)>>
          /\ c.finish_reason = Unset /\ c.usage = Unset
      BY <3>4, <3>6 DEF EmptyChunk
    <3>8. CallsSaid(k, r, a, e, c.tool_calls)
      BY <2>3, <2>8, <3>7 DEF CallsSaid
    <3> HIDE DEF c, chunk
    <3> QED  BY <2>0, <2>3, <3>6, <3>7, <3>8 DEF Says
  <2> QED  BY <2>7, <2>8
<1>12. ASSUME NEW i \in DOMAIN a.blocks, \A m \in DOMAIN e : e[m].type = "piece" /\ e[m].block = i, to < Len(bs)
       PROVE  c \in ChatChunk /\ Says(k, r, a, e, to = Len(bs), c)
  <2>0. (to = Len(bs)) = FALSE
    BY <1>0, BeatPlaces, <1>12
  <2>1. /\ \A I, J : (i \in I <=> i \in J) => Saying(I) = Saying(J)
        /\ \A I : i \notin I => Saying(I) = <<>>
        /\ \A j : Touched(e, j) <=> j = i
        /\ \A j : ~Opened(e, j)
        /\ \A types : LinesOf(e, a, types) = Saying(OfTypes(a, types))
    <3> HIDE DEF Saying, c, whole, T
    <3>0. \A m \in DOMAIN e : e[m].type = "piece" /\ e[m].block = i
      BY <1>12
    <3>1. PiecesSay(k, a, e, i)
      BY <1>0, <1>3, <3>0, PiecesOfOne
    <3> QED  BY <3>1 DEF Saying, PiecesSay
  <2>2. e[1].type = "piece" /\ e[1].block = i
    BY <1>3, <1>12
  <2>3. /\ \A types : i \in OfTypes(a, types) <=> a.blocks[i].type \in types
        /\ i \in T <=> a.blocks[i].type = "tool_use"
        /\ a.blocks[i].type \in {"text", "thinking", "tool_use"} /\ i \in Nat \ {0}
    BY TypesOfBlocks
  <2>4. i \in Answering(k, r, a) <=> a.blocks[i].type = "text" \/ (i \in T /\ ~Tracked(k, r))
    BY <1>2 DEF Answering
  <2>5. i \in Pondering(r, a) <=> ~Excluded(r) /\ a.blocks[i].type = "thinking"
    BY <2>3 DEF Pondering
  <2>6. AnthropicChunk(r, e, a, tokens) = IF a.blocks[i].type = "tool_use"
                                          THEN AnthropicToolChunk(r, e, a) ELSE AnthropicTextChunk(r, e, a)
    BY <2>2 DEF AnthropicChunk
  <2>7. CASE i \in T /\ Tracked(k, r)
    <3>1. SlotOf(k, a, i) = i - 1 /\ SlotOf(k, a, i) \in Nat
      BY <2>7, SlotType DEF SlotOf
    <3>2. chunk = [EmptyChunk EXCEPT !.tool_calls =
                     <<Delta(SlotOf(k, a, i), Unset, Unset, LinesOf(e, a, {"tool_use"}))>>]
      BY <1>1, <1>2, <2>2, <2>3, <2>6, <2>7, <3>1 DEF AnthropicToolChunk
    <3>3. LinesOf(e, a, {"tool_use"}) = Saying({i})
      <4>1. i \in OfTypes(a, {"tool_use"}) <=> i \in {i}
        BY <2>3, <2>7
      <4> QED  BY <2>1, <4>1
    <3>4. DeltaSaid(k, a, e, i) = Delta(SlotOf(k, a, i), Unset, Unset, LinesOf(e, a, {"tool_use"}))
      BY <2>1, <3>3 DEF DeltaSaid, CallSoFar
    <3>5. chunk = [EmptyChunk EXCEPT !.tool_calls = <<DeltaSaid(k, a, e, i)>>]
      BY <3>2, <3>4, Zenon
    <3>6. DeltaSaid(k, a, e, i) \in ToolCallDelta
      BY <3>1, <3>3, <3>4, <1>4 DEF Delta, ToolCallDelta, Optional
    <3>7. chunk \in ChatChunk /\ c = chunk
      BY <3>5, <3>6, <1>7, ChunkTypes
    <3>8. c.content = <<>> /\ c.reasoning = <<>> /\ c.tool_calls = <<DeltaSaid(k, a, e, i)>>
          /\ c.finish_reason = Unset /\ c.usage = Unset
      BY <3>5, <3>7 DEF EmptyChunk
    <3>9. Saying(Answering(k, r, a)) = <<>> /\ Saying(Pondering(r, a)) = <<>>
      BY <2>1, <2>3, <2>4, <2>5, <2>7
    <3>10. CallsSaid(k, r, a, e, c.tool_calls)
      BY <2>1, <2>7, <3>8 DEF CallsSaid
    <3> HIDE DEF c, chunk
    <3> QED  BY <2>0, <3>7, <3>8, <3>9, <3>10 DEF Says
  <2>8. CASE i \in T /\ ~Tracked(k, r)
    <3>1. chunk = [EmptyChunk EXCEPT !.content = LinesOf(e, a, {"tool_use"})]
      BY <1>1, <1>2, <2>2, <2>3, <2>6, <2>8 DEF AnthropicToolChunk
    <3>2. LinesOf(e, a, {"tool_use"}) = Saying(Answering(k, r, a))
      BY <2>3, <2>4, <2>8, <2>1
    <3>3. chunk = [EmptyChunk EXCEPT !.content = Saying(Answering(k, r, a))]
      BY <3>1, <3>2, Zenon
    <3>4. chunk \in ChatChunk /\ c = chunk
      <4>1. Saying(Answering(k, r, a)) \in Text
        BY <1>4
      <4> HIDE DEF Saying, chunk
      <4> QED  BY <3>3, <4>1, <1>7, ChunkTypes
    <3>5. c.content = Saying(Answering(k, r, a)) /\ c.reasoning = <<>> /\ c.tool_calls = <<>>
          /\ c.finish_reason = Unset /\ c.usage = Unset
      BY <3>3, <3>4 DEF EmptyChunk
    <3>6. Saying(Pondering(r, a)) = <<>>
      BY <2>1, <2>3, <2>5, <2>8
    <3>7. CallsSaid(k, r, a, e, c.tool_calls)
      BY <2>8, <3>5 DEF CallsSaid
    <3> HIDE DEF c, chunk
    <3> QED  BY <2>0, <3>4, <3>5, <3>6, <3>7 DEF Says
  <2>9. CASE i \notin T /\ Excluded(r) /\ a.blocks[i].type = "thinking"
    <3>1. chunk = Unset
      BY <1>1, <2>2, <2>3, <2>6, <2>9 DEF AnthropicTextChunk
    <3>2. c = EmptyChunk /\ c \in ChatChunk
      BY <3>1, <1>8
    <3>3. Saying(Answering(k, r, a)) = <<>> /\ Saying(Pondering(r, a)) = <<>>
      BY <2>1, <2>4, <2>5, <2>9
    <3>4. CallsSaid(k, r, a, e, <<>>)
      BY <2>1, <2>9 DEF CallsSaid
    <3>5. c.content = <<>> /\ c.reasoning = <<>> /\ c.tool_calls = <<>>
          /\ c.finish_reason = Unset /\ c.usage = Unset
      BY <3>2 DEF EmptyChunk
    <3> HIDE DEF c
    <3> QED  BY <2>0, <3>2, <3>3, <3>4, <3>5 DEF Says
  <2>10. CASE i \notin T /\ ~(Excluded(r) /\ a.blocks[i].type = "thinking")
    <3>1. chunk = [EmptyChunk EXCEPT !.content = LinesOf(e, a, {"text"}),
                                     !.reasoning = LinesOf(e, a, {"thinking"})]
      BY <1>1, <2>2, <2>3, <2>6, <2>10 DEF AnthropicTextChunk
    <3>2. LinesOf(e, a, {"text"}) = Saying(Answering(k, r, a))
      BY <2>3, <2>4, <2>10, <2>1
    <3>3. LinesOf(e, a, {"thinking"}) = Saying(Pondering(r, a))
      BY <2>3, <2>5, <2>10, <2>1
    <3>4. chunk = [EmptyChunk EXCEPT !.content = Saying(Answering(k, r, a)), !.reasoning = Saying(Pondering(r, a))]
      BY <3>1, <3>2, <3>3, Zenon
    <3>5. chunk \in ChatChunk /\ c = chunk
      <4>1. Saying(Answering(k, r, a)) \in Text /\ Saying(Pondering(r, a)) \in Text
        BY <1>4
      <4> HIDE DEF Saying, chunk
      <4> QED  BY <3>4, <4>1, <1>7, ChunkTypes
    <3>6. c.content = Saying(Answering(k, r, a)) /\ c.reasoning = Saying(Pondering(r, a)) /\ c.tool_calls = <<>>
          /\ c.finish_reason = Unset /\ c.usage = Unset
      <4> HIDE DEF c, chunk, Saying
      <4> QED  BY <3>4, <3>5 DEF EmptyChunk
    <3>7. CallsSaid(k, r, a, e, c.tool_calls)
      BY <2>1, <2>10, <3>6 DEF CallsSaid
    <3> HIDE DEF c, chunk
    <3> QED  BY <2>0, <3>5, <3>6, <3>7 DEF Says
  <2> QED  BY <2>7, <2>8, <2>9, <2>10
<1>13. \/ e = <<Starting>> /\ to < Len(bs)
       \/ e = <<Ending>> /\ to = Len(bs)
       \/ to < Len(bs) /\ \E i \in DOMAIN a.blocks : e = <<Opening(i)>>
       \/ to < Len(bs) /\ \E i \in DOMAIN a.blocks : \A m \in DOMAIN e : e[m].type = "piece" /\ e[m].block = i
  <2> HIDE DEF c, T, Saying, chunk, whole
  <2>1. ShapeOfEvent(k, a, n, to, e)
    BY <1>0, EventShape
  <2> QED  BY <2>1 DEF ShapeOfEvent
<1> HIDE DEF c, bs, T, Saying
<1>14. c \in ChatChunk /\ Says(k, r, a, e, to = Len(bs), c)
  BY <1>9, <1>10, <1>11, <1>12, <1>13
<1> QED  BY <1>14 DEF c, bs, chunk

(* The calls of an answer as Gemini's adapter makes them, and the deltas   *)
(* it sends for them.                                                      *)
FreshCalls(a) == WithFreshIds(AsCalls(Calls(a)))
DeltasOf(calls) ==
  [m \in DOMAIN calls |-> Delta(m - 1, calls[m].id, calls[m].name, calls[m].arguments)]

LEMMA CallsType ==
  ASSUME NEW a \in Answer
  PROVE  /\ Calls(a) \in Seq(AnswerBlock) /\ Len(Calls(a)) \in Nat /\ DOMAIN Calls(a) = 1..Len(Calls(a))
         /\ \A m \in 1..Len(Calls(a)) : /\ Calls(a)[m] \in AnswerBlock /\ Calls(a)[m].type = "tool_use"
                                        /\ Calls(a)[m].id \in CallIds /\ Calls(a)[m].name \in Functions
                                        /\ Calls(a)[m].body \in Text
<1> DEFINE c == Calls(a)
           s == a.blocks
<1>1. c = Picked(s, ToolBlocks(a)) /\ s \in Seq(AnswerBlock)
  BY CallsAreOfTools, AnswerFacts
<1>2. c \in Seq(AnswerBlock)
  BY <1>1, PickedFacts
<1>3. \A m \in 1..Len(c) : \E i \in 1..Len(s) : i \in ToolBlocks(a) /\ m = Before(ToolBlocks(a), i) + 1
  BY <1>1, PickedPlaces
<1>4. \A i \in 1..Len(s) : i \in ToolBlocks(a) => c[Before(ToolBlocks(a), i) + 1] = s[i]
  BY <1>1, PickedPlaces
<1> HIDE DEF c, s
<1>5. Len(c) \in Nat /\ DOMAIN c = 1..Len(c)
  BY <1>2
<1>6. ASSUME NEW m \in 1..Len(c)
      PROVE  /\ c[m] \in AnswerBlock /\ c[m].type = "tool_use"
             /\ c[m].id \in CallIds /\ c[m].name \in Functions /\ c[m].body \in Text
  BY <1>3, <1>4, AnswerFacts DEF s, ToolBlocks, Text
<1> QED  BY <1>2, <1>5, <1>6 DEF c

LEMMA FreshCallsType ==
  ASSUME NEW a \in Answer, FreshIds \in Seq(CallIds), Len(Calls(a)) <= Len(FreshIds)
  PROVE  /\ FreshCalls(a) \in Seq(ToolCall) /\ Len(FreshCalls(a)) = Len(Calls(a))
         /\ \A m \in 1..Len(Calls(a)) : FreshCalls(a)[m] \in ToolCall
         /\ DeltasOf(FreshCalls(a)) \in Seq(ToolCallDelta) /\ Len(DeltasOf(FreshCalls(a))) = Len(Calls(a))
         /\ \A m \in 1..Len(Calls(a)) : DeltasOf(FreshCalls(a))[m] =
              Delta(m - 1, FreshCalls(a)[m].id, FreshCalls(a)[m].name, FreshCalls(a)[m].arguments)
<1> DEFINE c == Calls(a)
           d == AsCalls(c)
           f == WithFreshIds(d)
           t == DeltasOf(f)
<1>1. /\ Len(c) \in Nat /\ DOMAIN c = 1..Len(c)
      /\ \A m \in 1..Len(c) : c[m].id \in CallIds /\ c[m].name \in Functions /\ c[m].body \in Text
  BY CallsType
<1>2. Len(FreshIds) \in Nat /\ \A m \in 1..Len(c) : FreshIds[m] \in CallIds
  BY <1>1
<1> HIDE DEF c
<1>3. d = [m \in 1..Len(c) |-> [id |-> c[m].id, name |-> c[m].name, arguments |-> c[m].body]]
  BY <1>1 DEF AsCalls
<1> HIDE DEF d
<1>4. f = [m \in 1..Len(c) |-> [d[m] EXCEPT !.id = FreshIds[m]]]
  BY <1>3 DEF WithFreshIds
<1> HIDE DEF f
<1>5. ASSUME NEW m \in 1..Len(c) PROVE f[m] \in ToolCall
  BY <1>3, <1>4, <1>1, <1>2 DEF ToolCall
<1>6. f = [m \in 1..Len(c) |-> f[m]]
  BY <1>4
<1>7. f \in Seq(ToolCall) /\ Len(f) = Len(c) /\ DOMAIN f = 1..Len(c)
  BY <1>1, <1>5, <1>6, FunctionIsASequence
<1>8. t = [m \in 1..Len(c) |-> Delta(m - 1, f[m].id, f[m].name, f[m].arguments)]
  BY <1>7 DEF DeltasOf
<1> HIDE DEF t
<1>9. ASSUME NEW m \in 1..Len(c) PROVE t[m] \in ToolCallDelta
  BY <1>8, <1>1, <1>5 DEF Delta, ToolCall, Optional, ToolCallDelta
<1>10. t = [m \in 1..Len(c) |-> t[m]]
  BY <1>8
<1>11. t \in Seq(ToolCallDelta) /\ Len(t) = Len(c)
  BY <1>1, <1>9, <1>10, FunctionIsASequence
<1>12. \A m \in 1..Len(c) : t[m] = Delta(m - 1, f[m].id, f[m].name, f[m].arguments)
  BY <1>8
<1> QED  BY <1>5, <1>7, <1>11, <1>12 DEF c, d, f, t, FreshCalls

SaysAlone(r, a, e, last, c) ==
  /\ c.content = Gathered(e, Spoken("gemini", a, Answering("gemini", r, a)))
  /\ c.reasoning = Gathered(e, Spoken("gemini", a, Pondering(r, a)))
  /\ c.finish_reason = IF last THEN Chat("gemini", r, a).finish_reason ELSE Unset
  /\ c.usage = IF last THEN Chat("gemini", r, a).usage ELSE Unset
  /\ c.tool_calls = IF last THEN DeltasOf(FreshCalls(a)) ELSE <<>>

LEMMA GeminiSays ==
  ASSUME NEW a \in Answer, NEW r, NEW k \in {"gemini"}, NEW n \in 0..Len(Beats(k, a)) - 1,
         NEW to \in n + 1..Len(Beats(k, a)), OneEvent(k, Beats(k, a), n + 1, to),
         NEW e, e = SubSeq(Beats(k, a), n + 1, to), NEW tokens,
         FreshIds \in Seq(CallIds), Len(Calls(a)) <= Len(FreshIds)
  PROVE  LET c == Chunk(k, r, e, a, tokens)
         IN c \in ChatChunk /\ SaysAlone(r, a, e, to = Len(Beats(k, a)), c)
<1> DEFINE bs == Beats(k, a)
           c == Chunk(k, r, e, a, tokens)
           whole == Chat(k, r, a)
           last == to = Len(bs)
           g == CallOfBeat(a)
           B == AnswerBeat(k, a)
           p == SubSeq(bs, 1, n)
           ended == \E m \in DOMAIN e : e[m].type = "end"
           now_called == Gathered(e, g)
           fresh == WithFreshIds(AsCalls(now_called))
<1>0. k \in ProviderKind /\ k = "gemini"
  BY DEF ProviderKind
<1>1. /\ e \in Seq(B) /\ DOMAIN e = 1..to - n
      /\ \A m \in 1..to - n : e[m] = bs[n + m] /\ e[m] \in B /\ n + m \in 1..Len(bs)
      /\ p \in Seq(B) /\ SubSeq(bs, 1, to) = p \o e
  <2>1. IsEvent(k, a, n, to, e)
    BY <1>0, EventFacts
  <2> QED  BY <2>1 DEF IsEvent
<1>2. /\ Len(bs) \in Nat \ {0}
      /\ \A m \in 1..Len(bs) : bs[m] = Ending <=> m = Len(bs)
  BY <1>0, BeatPlaces
<1>3. bs \in Seq(B)
  BY <1>0, BeatsAre
<1>4. \A b \in B : b.type = "end" <=> b = Ending
  BY AnswerBeatFacts
<1>5. n \in Nat /\ to \in Nat /\ n < to /\ to <= Len(bs)
  BY <1>2
<1>6. OneEvent(k, bs, n + 1, to)
  OBVIOUS
<1>6a. \/ \A m \in 1..to : bs[m].type # "call"
       \/ to = Len(bs) /\ \A m \in 1..n : bs[m].type # "call"
  <2> HIDE DEF bs
  <2>1. (\E m \in DOMAIN bs : m <= to /\ bs[m].type = "call") =>
           to = Len(bs) /\ \A m \in 1..(n + 1) - 1 : bs[m].type # "call"
    BY <1>0, <1>6 DEF OneEvent
  <2>2. DOMAIN bs = 1..Len(bs) /\ (n + 1) - 1 = n
    BY <1>3, <1>5
  <2>3. CASE \A m \in 1..to : bs[m].type # "call"
    BY <2>3
  <2>4. CASE \E m \in 1..to : bs[m].type = "call"
    <3>1. \E m \in DOMAIN bs : m <= to /\ bs[m].type = "call"
      BY <2>2, <2>4, <1>5
    <3> QED  BY <3>1, <2>1, <2>2
  <2> QED  BY <2>3, <2>4
<1>7. ended <=> last
  <2> HIDE DEF bs, B
  <2>1. CASE last
    <3>1. to - n \in 1..to - n /\ n + (to - n) = Len(bs) /\ Len(bs) \in 1..Len(bs)
      BY <2>1, <1>2, <1>5
    <3>2. e[to - n] = bs[Len(bs)] /\ e[to - n] \in B
      BY <3>1, <1>1
    <3> QED  BY <2>1, <3>1, <3>2, <1>1, <1>2, <1>4
  <2>2. CASE ended
    <3>1. PICK m \in 1..to - n : e[m].type = "end"
      BY <2>2, <1>1
    <3>2. bs[n + m] = Ending /\ n + m \in 1..Len(bs)
      BY <3>1, <1>1, <1>4
    <3>3. n + m = Len(bs) /\ m \in Int /\ m <= to - n
      BY <3>1, <3>2, <1>2
    <3>4. to = Len(bs)
      BY <3>3, <1>2, <1>5
    <3> QED  BY <2>2, <3>4
  <2> QED  BY <2>1, <2>2
<1>8. g \in [B -> Seq(AnswerBlock)]
  BY CallOfBeatType
<1>9. \A b \in B : b.type # "call" => g[b] = <<>>
  BY DEF CallOfBeat
<1>10. now_called = IF last THEN Calls(a) ELSE <<>>
  <2>0. \A m \in 1..to : bs[m] \in B
    BY <1>3, <1>5
  <2>1. p = [m \in 1..n |-> bs[m]] /\ DOMAIN p = 1..n /\ \A m \in 1..n : p[m] = bs[m]
    BY <1>3, <1>5
  <2> HIDE DEF bs, B, p, g
  <2>2. CASE ~last
    <3>1. \A m \in 1..to : bs[m].type # "call"
      BY <2>2, <1>6a
    <3>2. \A m \in DOMAIN e : g[e[m]] = <<>>
      <4> SUFFICES ASSUME NEW m \in 1..to - n PROVE g[e[m]] = <<>>
        BY <1>1
      <4>1. n + m \in 1..to
        BY <1>5
      <4> QED  BY <4>1, <3>1, <1>1, <1>9
    <3>3. now_called = <<>>
      BY <1>1, <3>2, GatheredNothing
    <3> QED  BY <2>2, <3>3
  <2>3. CASE last
    <3>1. \A m \in 1..n : bs[m].type # "call"
      BY <1>5, <1>6a
    <3>2. \A m \in DOMAIN p : g[p[m]] = <<>>
      BY <1>5, <3>1, <2>0, <2>1, <1>9
    <3>3. Gathered(p, g) = <<>>
      BY <1>1, <3>2, GatheredNothing
    <3>4. p \o e = bs
      <4>1. SubSeq(bs, 1, Len(bs)) = bs
        BY <1>3, WholePrefix
      <4> QED  BY <4>1, <1>1, <2>3
    <3>5. Gathered(p \o e, g) = Gathered(p, g) \o Gathered(e, g)
      <4>1. p \in Seq(B) /\ e \in Seq(B) /\ g \in [B -> Seq(AnswerBlock)]
        BY <1>1, <1>8
      <4>2. \A s, t \in Seq(B) : Gathered(s \o t, g) = Gathered(s, g) \o Gathered(t, g)
        BY <4>1, GatheredConcat
      <4> QED  BY <4>1, <4>2
    <3>6. Gathered(e, g) \in Seq(AnswerBlock)
      BY <1>1, <1>8, GatheredFacts
    <3>7. Gathered(bs, g) = Calls(a)
      BY <1>0, CallsOfBeats DEF bs, g
    <3>8. now_called = Calls(a)
      <4>1. Calls(a) = <<>> \o Gathered(e, g)
        BY <3>3, <3>4, <3>5, <3>7
      <4> QED  BY <4>1, <3>6
    <3> QED  BY <2>3, <3>8
  <2> QED  BY <2>2, <2>3
<1>11. LET called == Selected(e, LAMBDA b : b.type = "call")
       IN [m \in DOMAIN called |-> a.blocks[called[m].block]] = now_called
  <2>1. e \in Seq(AnswerBeat("gemini", a))
    BY <1>0, <1>1
  <2> HIDE DEF bs, B, p, c, whole, fresh
  <2> QED  BY <2>1, CallsOfEvent DEF Selected
<1>12. LinesOf(e, a, {"text"}) = Gathered(e, Spoken(k, a, OfTypes(a, {"text"})))
       /\ LinesOf(e, a, {"thinking"}) = Gathered(e, Spoken(k, a, OfTypes(a, {"thinking"})))
  BY <1>0, <1>1, LinesAreSpoken
<1>13. OfTypes(a, {"text"}) = Answering(k, r, a)
  BY <1>0 DEF OfTypes, Answering
<1>14. (IF Excluded(r) THEN <<>> ELSE LinesOf(e, a, {"thinking"})) = Gathered(e, Spoken(k, a, Pondering(r, a)))
  BY <1>1, SpokenNothing, <1>12 DEF Pondering
<1>15. c = [content |-> LinesOf(e, a, {"text"}),
            reasoning |-> IF Excluded(r) THEN <<>> ELSE LinesOf(e, a, {"thinking"}),
            tool_calls |-> DeltasOf(fresh),
            finish_reason |-> resolve_finish_reason(fresh, IF ended THEN StopWord.gemini[a.stop] ELSE Unset),
            usage |-> IF ended THEN InclusiveUsage(a) ELSE Unset]
  <2>1. c = GeminiChunk(r, e, a)
    BY <1>0 DEF Chunk
  <2> HIDE DEF c, bs, B, p, g, now_called
  <2> QED  BY <2>1, <1>11 DEF GeminiChunk, DeltasOf, Selected
<1>16. fresh = IF last THEN FreshCalls(a) ELSE <<>>
  <2>1. WithFreshIds(AsCalls(<<>>)) = <<>>
    BY DEF WithFreshIds, AsCalls
  <2> HIDE DEF bs, now_called
  <2> QED  BY <1>10, <2>1 DEF FreshCalls
<1>17. DeltasOf(<<>>) = <<>>
  BY DEF DeltasOf
<1>18. /\ FreshCalls(a) \in Seq(ToolCall) /\ Len(FreshCalls(a)) = Len(Calls(a))
       /\ DeltasOf(FreshCalls(a)) \in Seq(ToolCallDelta)
  BY FreshCallsType
<1>19. /\ whole.finish_reason = resolve_finish_reason(Calls(a), StopWord.gemini[a.stop])
       /\ whole.usage = InclusiveUsage(a)
  BY <1>0 DEF Chat, GeminiChat
<1>20. resolve_finish_reason(FreshCalls(a), StopWord.gemini[a.stop]) = whole.finish_reason
  BY CallsType, <1>18, <1>19 DEF resolve_finish_reason
<1>21. resolve_finish_reason(<<>>, Unset) = Unset
  BY DEF resolve_finish_reason
<1> HIDE DEF c, bs, B, p, g, now_called, fresh, whole, ended, last
<1>22. /\ c.content = Gathered(e, Spoken(k, a, Answering(k, r, a)))
       /\ c.reasoning = Gathered(e, Spoken(k, a, Pondering(r, a)))
  BY <1>12, <1>13, <1>14, <1>15
<1>23. c.tool_calls = IF last THEN DeltasOf(FreshCalls(a)) ELSE <<>>
  BY <1>15, <1>16, <1>17
<1>24. c.finish_reason = IF last THEN whole.finish_reason ELSE Unset
  BY <1>15, <1>7, <1>16, <1>20, <1>21
<1>25. c.usage = IF last THEN whole.usage ELSE Unset
  BY <1>7, <1>15, <1>19
<1>26. c \in ChatChunk
  <2>1. c.content \in Text /\ c.reasoning \in Text
    <3>1. e \in Seq(AnswerBeat(k, a))
      BY <1>1 DEF B
    <3>2. Gathered(e, Spoken(k, a, Answering(k, r, a))) \in Text
      BY <3>1, SaidIsText
    <3>3. Gathered(e, Spoken(k, a, Pondering(r, a))) \in Text
      BY <3>1, SaidIsText
    <3> QED  BY <3>2, <3>3, <1>22
  <2>2. c.tool_calls \in Seq(ToolCallDelta)
    BY <1>18, <1>23
  <2>3. c.finish_reason \in Optional(FinishReason) /\ c.usage \in Optional(Usage)
    BY <1>0, FinalType, <1>24, <1>25 DEF whole, Optional
  <2> QED  BY <2>1, <2>2, <2>3, <1>15 DEF ChatChunk
<1>27. SaysAlone(r, a, e, last, c)
  BY <1>0, <1>22, <1>23, <1>24, <1>25 DEF SaysAlone, whole
<1> QED  BY <1>26, <1>27 DEF c, last, bs

-----------------------------------------------------------------------------
(* What the caller has put together after n beats (PutTogether), and that  *)
(* each event takes it from one n to the next.                             *)

(* What a caller has of an answer's calls after the beats p of it.         *)
CallsSoFar(k, r, a, p, last, calls) ==
  IF k = "gemini"
  THEN /\ DOMAIN calls = IF last THEN 0..Len(Calls(a)) - 1 ELSE {}
       /\ \A i \in DOMAIN calls : calls[i] = FreshCalls(a)[i + 1]
  ELSE /\ DOMAIN calls = { SlotOf(k, a, i) : i \in { j \in ToolBlocks(a) : Tracked(k, r) /\ Touched(p, j) } }
       /\ \A i \in ToolBlocks(a) :
            Tracked(k, r) /\ Touched(p, i) => calls[SlotOf(k, a, i)] = CallSoFar(k, a, p, i)

(* What a caller who heard the beats p of an answer has put together.      *)
PutTogether(k, r, a, p, last, m) ==
  /\ m.content = Gathered(p, Spoken(k, a, Answering(k, r, a)))
  /\ m.reasoning = Gathered(p, Spoken(k, a, Pondering(r, a)))
  /\ m.finish_reason = IF last THEN Chat(k, r, a).finish_reason ELSE Unset
  /\ m.usage = IF last THEN Chat(k, r, a).usage ELSE Unset
  /\ CallsSoFar(k, r, a, p, last, m.calls)

LEMMA SlotsDiffer ==
  ASSUME NEW a \in Answer, NEW k, NEW i \in ToolBlocks(a), NEW j \in ToolBlocks(a),
         SlotOf(k, a, i) = SlotOf(k, a, j)
  PROVE  i = j
<1>1. /\ i \in 1..Len(a.blocks) /\ j \in 1..Len(a.blocks)
      /\ Len(a.blocks) \in Nat
  BY AnswerFacts DEF ToolBlocks
<1>2. CASE k = "anthropic"
  BY <1>1, <1>2 DEF SlotOf
<1>3. CASE k # "anthropic"
  <2> DEFINE T == ToolBlocks(a)
             s == [x \in 1..Len(a.blocks) |-> x]
  <2>1. s \in Seq(Nat) /\ Len(s) = Len(a.blocks) /\ \A x \in 1..Len(a.blocks) : s[x] = x
    BY <1>1
  <2> HIDE DEF s, T
  <2>2. \A x \in 1..Len(s) : x \in T => Picked(s, T)[Before(T, x) + 1] = s[x]
    BY <2>1, PickedPlaces
  <2>3. Before(T, i) = Before(T, j)
    BY <1>3 DEF SlotOf, T
  <2>4. i \in T /\ j \in T
    BY DEF T
  <2> QED  BY <2>1, <2>2, <2>3, <2>4, <1>1
<1> QED  BY <1>2, <1>3

(* What is heard of a call in two parts.                                   *)
LEMMA CallInParts ==
  ASSUME NEW a \in Answer, NEW k, NEW p \in Seq(AnswerBeat(k, a)), NEW e \in Seq(AnswerBeat(k, a)), NEW i
  PROVE  /\ Touched(p \o e, i) <=> Touched(p, i) \/ Touched(e, i)
         /\ Opened(p \o e, i) <=> Opened(p, i) \/ Opened(e, i)
         /\ CallSoFar(k, a, p \o e, i).arguments = CallSoFar(k, a, p, i).arguments \o CallSoFar(k, a, e, i).arguments
         /\ CallSoFar(k, a, p, i).arguments \in Text
         /\ ~Touched(p, i) => ~Opened(p, i) /\ CallSoFar(k, a, p, i) = NoCallYet
<1> DEFINE q == p \o e
           B == AnswerBeat(k, a)
           g == Spoken(k, a, {i})
<1>1. /\ q \in Seq(B) /\ Len(q) = Len(p) + Len(e)
      /\ \A m \in 1..Len(p) : q[m] = p[m]
      /\ \A m \in 1..Len(e) : q[Len(p) + m] = e[m]
  OBVIOUS
<1>2. Len(p) \in Nat /\ Len(e) \in Nat /\ DOMAIN p = 1..Len(p) /\ DOMAIN e = 1..Len(e) /\ DOMAIN q = 1..Len(q)
  OBVIOUS
<1>3. \A m \in 1..Len(q) : m \in 1..Len(p) \/ (m - Len(p) \in 1..Len(e) /\ q[m] = e[m - Len(p)])
  BY <1>1, <1>2
<1>3a. \A m \in 1..Len(p) : m \in 1..Len(q)
  BY <1>1, <1>2
<1>3b. \A m \in 1..Len(e) : Len(p) + m \in 1..Len(q)
  BY <1>1, <1>2
<1> HIDE DEF q
<1>4. Touched(q, i) <=> Touched(p, i) \/ Touched(e, i)
  <2>1. ASSUME Touched(q, i) PROVE Touched(p, i) \/ Touched(e, i)
    <3>1. PICK m \in DOMAIN q : q[m].type \in {"open", "piece"} /\ q[m].block = i
      BY <2>1 DEF Touched
    <3> QED  BY <3>1, <1>1, <1>2, <1>3 DEF Touched
  <2>2. ASSUME Touched(p, i) PROVE Touched(q, i)
    BY <2>2, <1>1, <1>2, <1>3a DEF Touched
  <2>3. ASSUME Touched(e, i) PROVE Touched(q, i)
    BY <2>3, <1>1, <1>2, <1>3b DEF Touched
  <2> QED  BY <2>1, <2>2, <2>3
<1>5. Opened(q, i) <=> Opened(p, i) \/ Opened(e, i)
  BY <1>1, <1>2, <1>3, <1>3a, <1>3b DEF Opened
<1>6. g \in [B -> Seq(Lines)]
  BY SpokenType
<1>7. Gathered(q, g) = Gathered(p, g) \o Gathered(e, g)
  BY <1>6, GatheredConcat DEF q
<1>8. Gathered(p, g) \in Text
  BY SaidIsText
<1>9. ASSUME ~Touched(p, i) PROVE ~Opened(p, i) /\ CallSoFar(k, a, p, i) = NoCallYet
  BY <1>9, SpokenNothing DEF Opening, Beat, Opened, Touched, CallSoFar, NoCallYet
<1> QED  BY <1>4, <1>5, <1>7, <1>8, <1>9 DEF CallSoFar, q

(* Merging an empty chunk changes nothing.                                 *)
LEMMA MergedEmpty ==
  ASSUME NEW m, m.content \in Text, m.reasoning \in Text
  PROVE  /\ Merged(m, EmptyChunk).content = m.content /\ Merged(m, EmptyChunk).reasoning = m.reasoning
         /\ Merged(m, EmptyChunk).finish_reason = m.finish_reason /\ Merged(m, EmptyChunk).usage = m.usage
         /\ DOMAIN Merged(m, EmptyChunk).calls = DOMAIN m.calls
         /\ \A i \in DOMAIN m.calls : Merged(m, EmptyChunk).calls[i] = m.calls[i]
BY DEF EmptyChunk, Text, Merged, Latest

(* Merging a chunk with one delta.                                         *)
OneMore(m, w, d) ==
  LET old == IF d.index \in DOMAIN m.calls THEN m.calls[d.index] ELSE NoCallYet
  IN /\ DOMAIN w.calls = DOMAIN m.calls \cup {d.index}
     /\ \A i \in DOMAIN m.calls : i # d.index => w.calls[i] = m.calls[i]
     /\ w.calls[d.index] = [id |-> Latest(old.id, d.id), name |-> Latest(old.name, d.name),
                            arguments |-> old.arguments \o d.arguments]

LEMMA MergedOne ==
  ASSUME NEW m, NEW c, NEW d, c.tool_calls = <<d>>
  PROVE  OneMore(m, Merged(m, c), d)
<1> DEFINE deltas == c.tool_calls
           touched == { deltas[x].index : x \in DOMAIN deltas }
           DeltaOf(i) == deltas[CHOOSE x \in DOMAIN deltas : deltas[x].index = i]
           Put(old, y) == [id |-> Latest(old.id, y.id), name |-> Latest(old.name, y.name),
                           arguments |-> old.arguments \o y.arguments]
<1>1. DOMAIN deltas = {1} /\ deltas[1] = d
  OBVIOUS
<1>2. touched = {d.index}
  BY <1>1
<1>3. DeltaOf(d.index) = d
  BY <1>1
<1>4. Merged(m, c).calls =
        [i \in DOMAIN m.calls \cup touched |->
           IF i \notin touched THEN m.calls[i]
           ELSE Put(IF i \in DOMAIN m.calls THEN m.calls[i] ELSE NoCallYet, DeltaOf(i))]
  BY DEF Merged
<1> HIDE DEF touched, DeltaOf
<1>5. DOMAIN Merged(m, c).calls = DOMAIN m.calls \cup {d.index}
  BY <1>2, <1>4
<1>6. \A i \in DOMAIN m.calls : i # d.index => Merged(m, c).calls[i] = m.calls[i]
  BY <1>2, <1>4
<1>7. Merged(m, c).calls[d.index] =
        Put(IF d.index \in DOMAIN m.calls THEN m.calls[d.index] ELSE NoCallYet, d)
  <2> HIDE DEF Put, deltas
  <2>1. d.index \in DOMAIN m.calls \cup touched /\ d.index \in touched
    BY <1>2
  <2> QED  BY <1>3, <1>4, <2>1
<1> QED  BY <1>5, <1>6, <1>7 DEF OneMore

(* One event more.                                                         *)
LEMMA HeardMore ==
  ASSUME NEW a \in Answer, NEW r, NEW k \in {"anthropic", "openai"}, NEW p \in Seq(AnswerBeat(k, a)),
         NEW e \in Seq(AnswerBeat(k, a)), NEW m, NEW last \in BOOLEAN, NEW c \in ChatChunk,
         PutTogether(k, r, a, p, FALSE, m), Says(k, r, a, e, last, c)
  PROVE  PutTogether(k, r, a, p \o e, last, Merged(m, c))
<1> DEFINE B == AnswerBeat(k, a)
           q == p \o e
           w == Merged(m, c)
           A == Answering(k, r, a)
           P == Pondering(r, a)
           T == ToolBlocks(a)
           Slots(s) == { SlotOf(k, a, i) : i \in { j \in T : Tracked(k, r) /\ Touched(s, j) } }
<1>0. k # "gemini"
  OBVIOUS
<1>1. \A I : Gathered(q, Spoken(k, a, I)) = Gathered(p, Spoken(k, a, I)) \o Gathered(e, Spoken(k, a, I))
  <2> SUFFICES ASSUME NEW I
               PROVE  Gathered(q, Spoken(k, a, I)) = Gathered(p, Spoken(k, a, I)) \o Gathered(e, Spoken(k, a, I))
    OBVIOUS
  <2>1. Spoken(k, a, I) \in [B -> Seq(Lines)]
    BY SpokenType
  <2> QED  BY <2>1, GatheredConcat
<1>2. /\ m.content = Gathered(p, Spoken(k, a, A)) /\ m.reasoning = Gathered(p, Spoken(k, a, P))
      /\ m.finish_reason = Unset /\ m.usage = Unset
      /\ CallsSoFar(k, r, a, p, FALSE, m.calls)
  BY DEF PutTogether
<1>3. /\ c.content = Gathered(e, Spoken(k, a, A)) /\ c.reasoning = Gathered(e, Spoken(k, a, P))
      /\ c.finish_reason = IF last THEN Chat(k, r, a).finish_reason ELSE Unset
      /\ c.usage = IF last THEN Chat(k, r, a).usage ELSE Unset
      /\ CallsSaid(k, r, a, e, c.tool_calls)
  BY DEF Says
<1>4. w.content = m.content \o c.content /\ w.reasoning = m.reasoning \o c.reasoning
      /\ w.finish_reason = Latest(m.finish_reason, c.finish_reason)
      /\ w.usage = Latest(m.usage, c.usage)
  BY DEF Merged
<1>5a. \A i : Touched(q, i) <=> Touched(p, i) \/ Touched(e, i)
  BY CallInParts
<1>5b. \A i : Opened(q, i) <=> Opened(p, i) \/ Opened(e, i)
  BY CallInParts
<1>5c. \A i : CallSoFar(k, a, q, i).arguments = CallSoFar(k, a, p, i).arguments \o CallSoFar(k, a, e, i).arguments
  <2> HIDE DEF q
  <2> QED  BY <1>1 DEF CallSoFar
<1>5d. \A i : CallSoFar(k, a, p, i).arguments \in Text
  BY CallInParts
<1>5e. \A i : ~Touched(p, i) => ~Opened(p, i) /\ CallSoFar(k, a, p, i) = NoCallYet
  BY CallInParts
<1>5f. \A i : ~Touched(e, i) => ~Opened(e, i) /\ CallSoFar(k, a, e, i) = NoCallYet
  BY CallInParts
<1>5. \A i : /\ Touched(q, i) <=> Touched(p, i) \/ Touched(e, i)
             /\ Opened(q, i) <=> Opened(p, i) \/ Opened(e, i)
             /\ CallSoFar(k, a, q, i).arguments = CallSoFar(k, a, p, i).arguments \o CallSoFar(k, a, e, i).arguments
             /\ CallSoFar(k, a, p, i).arguments \in Text
             /\ ~Touched(p, i) => ~Opened(p, i) /\ CallSoFar(k, a, p, i) = NoCallYet
             /\ ~Touched(e, i) => ~Opened(e, i) /\ CallSoFar(k, a, e, i) = NoCallYet
  BY <1>5a, <1>5b, <1>5c, <1>5d, <1>5e, <1>5f
<1>6. DOMAIN m.calls = Slots(p)
      /\ \A i \in T : Tracked(k, r) /\ Touched(p, i) => m.calls[SlotOf(k, a, i)] = CallSoFar(k, a, p, i)
  BY <1>0, <1>2 DEF CallsSoFar
<1>7. \A i, j \in T : SlotOf(k, a, i) = SlotOf(k, a, j) => i = j
  BY SlotsDiffer
<1>8. \A i \in T : a.blocks[i].id # Unset /\ a.blocks[i].name # Unset
  BY TypesOfBlocks, UnsetIsApart DEF ToolBlocks, ToolChoice
<1> HIDE DEF q, w, A, P, T
<1>9. CallsSoFar(k, r, a, q, last, w.calls)
  <2>1. CASE c.tool_calls = <<>> /\ (Tracked(k, r) => \A i \in T : ~Touched(e, i))
    <3>1. w.calls = [i \in DOMAIN m.calls |-> m.calls[i]]
      BY <2>1 DEF Merged, w
    <3>2. Slots(q) = Slots(p)
      BY <1>5, <2>1
    <3>3. DOMAIN w.calls = Slots(q) /\ \A i \in DOMAIN m.calls : w.calls[i] = m.calls[i]
      BY <1>6, <3>1, <3>2
    <3>4. ASSUME NEW i \in T, Tracked(k, r), Touched(q, i)
          PROVE  w.calls[SlotOf(k, a, i)] = CallSoFar(k, a, q, i)
      <4>1. Touched(p, i) /\ ~Touched(e, i)
        BY <1>5, <2>1, <3>4
      <4>2. SlotOf(k, a, i) \in Slots(p)
        BY <3>4, <4>1
      <4>3. w.calls[SlotOf(k, a, i)] = CallSoFar(k, a, p, i)
        BY <1>6, <3>3, <3>4, <4>1, <4>2
      <4>4. CallSoFar(k, a, q, i) = CallSoFar(k, a, p, i)
        <5>1. CallSoFar(k, a, e, i).arguments = <<>> /\ ~Opened(e, i)
          BY <1>5, <4>1 DEF NoCallYet
        <5>2. CallSoFar(k, a, p, i).arguments \o <<>> = CallSoFar(k, a, p, i).arguments
          BY <1>5 DEF Text
        <5>3. CallSoFar(k, a, q, i).arguments = CallSoFar(k, a, p, i).arguments
          BY <1>5, <5>1, <5>2
        <5>4. Opened(q, i) <=> Opened(p, i)
          BY <1>5, <5>1
        <5> QED  BY <5>3, <5>4 DEF CallSoFar
      <4> QED  BY <4>3, <4>4
    <3> QED  BY <1>0, <3>3, <3>4 DEF CallsSoFar, T
  <2>2. ASSUME Tracked(k, r), NEW i \in T, \A j \in T : Touched(e, j) <=> j = i,
               c.tool_calls = <<DeltaSaid(k, a, e, i)>>
        PROVE  CallsSoFar(k, r, a, q, last, w.calls)
    <3> DEFINE d == DeltaSaid(k, a, e, i)
               slot == SlotOf(k, a, i)
               old == IF slot \in DOMAIN m.calls THEN m.calls[slot] ELSE NoCallYet
    <3>1. d.index = slot /\ d.id = CallSoFar(k, a, e, i).id /\ d.name = CallSoFar(k, a, e, i).name
          /\ d.arguments = CallSoFar(k, a, e, i).arguments
      BY DEF DeltaSaid, Delta
    <3> HIDE DEF d
    <3>2. /\ DOMAIN w.calls = DOMAIN m.calls \cup {slot}
          /\ \A x \in DOMAIN m.calls : x # slot => w.calls[x] = m.calls[x]
          /\ w.calls[slot] = [id |-> Latest(old.id, d.id), name |-> Latest(old.name, d.name),
                              arguments |-> old.arguments \o d.arguments]
      <4>1. c.tool_calls = <<d>>
        BY <2>2 DEF d
      <4>2. OneMore(m, w, d)
        BY <4>1, MergedOne DEF w
      <4> HIDE DEF slot
      <4> QED  BY <3>1, <4>2 DEF OneMore
    <3>3. Slots(q) = Slots(p) \cup {slot}
      BY <1>5, <2>2
    <3>4. DOMAIN w.calls = Slots(q)
      BY <1>6, <3>2, <3>3
    <3>5. old = CallSoFar(k, a, p, i)
      BY <1>6, <2>2, <1>7, <1>5
    <3>6. w.calls[slot] = CallSoFar(k, a, q, i)
      <4> HIDE DEF old, slot
      <4>1. old.arguments \o d.arguments = Gathered(q, Spoken(k, a, {i}))
        BY <1>5, <3>1, <3>5 DEF CallSoFar
      <4>2. Latest(old.id, d.id) = IF Opened(q, i) THEN a.blocks[i].id ELSE Unset
        BY <1>5, <1>8, <2>2, <3>1, <3>5 DEF CallSoFar, Latest
      <4>3. Latest(old.name, d.name) = IF Opened(q, i) THEN a.blocks[i].name ELSE Unset
        BY <1>5, <1>8, <2>2, <3>1, <3>5 DEF CallSoFar, Latest
      <4> QED  BY <3>2, <4>1, <4>2, <4>3 DEF CallSoFar
    <3>7. ASSUME NEW j \in T, Touched(q, j) PROVE w.calls[SlotOf(k, a, j)] = CallSoFar(k, a, q, j)
      <4>1. CASE j = i
        BY <4>1, <3>6
      <4>2. CASE j # i
        <5>1. Touched(p, j) /\ ~Touched(e, j)
          BY <4>2, <1>5, <2>2, <3>7
        <5>2. SlotOf(k, a, j) # slot /\ SlotOf(k, a, j) \in DOMAIN m.calls
          BY <4>2, <5>1, <1>6, <1>7, <2>2
        <5>3. w.calls[SlotOf(k, a, j)] = CallSoFar(k, a, p, j)
          BY <5>1, <5>2, <1>6, <2>2, <3>2
        <5>4. CallSoFar(k, a, q, j) = CallSoFar(k, a, p, j)
          <6>1. CallSoFar(k, a, e, j).arguments = <<>> /\ ~Opened(e, j)
            BY <1>5, <5>1 DEF NoCallYet
          <6>2. CallSoFar(k, a, p, j).arguments \o <<>> = CallSoFar(k, a, p, j).arguments
            BY <1>5 DEF Text
          <6>3. CallSoFar(k, a, q, j).arguments = CallSoFar(k, a, p, j).arguments
            BY <1>5, <6>1, <6>2
          <6>4. Opened(q, j) <=> Opened(p, j)
            BY <1>5, <6>1
          <6> QED  BY <6>3, <6>4 DEF CallSoFar
        <5> QED  BY <5>3, <5>4
      <4> QED  BY <4>1, <4>2
    <3> QED  BY <1>0, <3>4, <3>7 DEF CallsSoFar, T
  <2> QED  BY <1>3, <2>1, <2>2 DEF CallsSaid, T
<1>10. w.content = Gathered(q, Spoken(k, a, A)) /\ w.reasoning = Gathered(q, Spoken(k, a, P))
  BY <1>1, <1>2, <1>3, <1>4
<1>11. /\ w.finish_reason = IF last THEN Chat(k, r, a).finish_reason ELSE Unset
       /\ w.usage = IF last THEN Chat(k, r, a).usage ELSE Unset
  BY <1>2, <1>3, <1>4 DEF Latest
<1> QED  BY <1>9, <1>10, <1>11 DEF PutTogether, q, w, A, P

(* Only what a message says matters.                                       *)
LEMMA PutTogetherAlike ==
  ASSUME NEW k, NEW r, NEW a, NEW p, NEW last, NEW m, NEW w, PutTogether(k, r, a, p, last, m),
         w.content = m.content, w.reasoning = m.reasoning, w.finish_reason = m.finish_reason,
         w.usage = m.usage, DOMAIN w.calls = DOMAIN m.calls, \A i \in DOMAIN m.calls : w.calls[i] = m.calls[i]
  PROVE  PutTogether(k, r, a, p, last, w)
BY DEF PutTogether, CallsSoFar

LEMMA NothingHeard ==
  ASSUME NEW k, NEW r, NEW a
  PROVE  PutTogether(k, r, a, <<>>, FALSE, NothingYet)
BY GatheredEmpty DEF NothingYet, Touched, PutTogether, CallsSoFar

(* Gemini's chunks.                                                        *)
LEMMA HeardMoreOfGemini ==
  ASSUME NEW a \in Answer, NEW r, NEW k \in {"gemini"}, NEW p \in Seq(AnswerBeat(k, a)),
         NEW e \in Seq(AnswerBeat(k, a)), NEW m, NEW last \in BOOLEAN, NEW c \in ChatChunk,
         PutTogether(k, r, a, p, FALSE, m), SaysAlone(r, a, e, last, c),
         FreshIds \in Seq(CallIds), Len(Calls(a)) <= Len(FreshIds)
  PROVE  PutTogether(k, r, a, p \o e, last, Merged(m, c))
<1> DEFINE B == AnswerBeat(k, a)
           q == p \o e
           w == Merged(m, c)
           A == Answering(k, r, a)
           P == Pondering(r, a)
           F == FreshCalls(a)
           N == Len(Calls(a))
<1>0. k = "gemini"
  OBVIOUS
<1>1. \A I : Gathered(q, Spoken(k, a, I)) = Gathered(p, Spoken(k, a, I)) \o Gathered(e, Spoken(k, a, I))
  <2> SUFFICES ASSUME NEW I
               PROVE  Gathered(q, Spoken(k, a, I)) = Gathered(p, Spoken(k, a, I)) \o Gathered(e, Spoken(k, a, I))
    OBVIOUS
  <2>1. Spoken(k, a, I) \in [B -> Seq(Lines)]
    BY SpokenType
  <2>2. \A s, t \in Seq(B) : Gathered(s \o t, Spoken(k, a, I))
                              = Gathered(s, Spoken(k, a, I)) \o Gathered(t, Spoken(k, a, I))
    BY <2>1, GatheredConcat
  <2> QED  BY <2>2
<1>2. /\ m.content = Gathered(p, Spoken(k, a, A)) /\ m.reasoning = Gathered(p, Spoken(k, a, P))
      /\ m.finish_reason = Unset /\ m.usage = Unset
      /\ CallsSoFar(k, r, a, p, FALSE, m.calls)
  BY DEF PutTogether
<1>3. /\ c.content = Gathered(e, Spoken(k, a, A)) /\ c.reasoning = Gathered(e, Spoken(k, a, P))
      /\ c.finish_reason = IF last THEN Chat(k, r, a).finish_reason ELSE Unset
      /\ c.usage = IF last THEN Chat(k, r, a).usage ELSE Unset
      /\ c.tool_calls = IF last THEN DeltasOf(F) ELSE <<>>
  BY <1>0 DEF SaysAlone
<1>4. w.content = m.content \o c.content /\ w.reasoning = m.reasoning \o c.reasoning
      /\ w.finish_reason = Latest(m.finish_reason, c.finish_reason)
      /\ w.usage = Latest(m.usage, c.usage)
  BY DEF Merged
<1>5. DOMAIN m.calls = {}
  BY <1>0, <1>2 DEF CallsSoFar
<1>6. /\ N \in Nat /\ DOMAIN DeltasOf(F) = 1..N
      /\ \A n \in 1..N : /\ F[n] \in ToolCall
                         /\ DeltasOf(F)[n] = Delta(n - 1, F[n].id, F[n].name, F[n].arguments)
  BY FreshCallsType, CallsType
<1> HIDE DEF q, w, A, P, F, N
<1>9. CallsSoFar(k, r, a, q, last, w.calls)
  <2>1. CASE ~last
    BY <1>3, <2>1, <1>5, <1>0 DEF Merged, w, CallsSoFar, N
  <2>2. CASE last
    <3> DEFINE deltas == c.tool_calls
               touched == { deltas[n].index : n \in DOMAIN deltas }
               DeltaAt(i) == deltas[CHOOSE n \in DOMAIN deltas : deltas[n].index = i]
               Put(old, d) == [id |-> Latest(old.id, d.id), name |-> Latest(old.name, d.name),
                               arguments |-> old.arguments \o d.arguments]
    <3>1. DOMAIN deltas = 1..N /\ \A n \in 1..N : deltas[n] = Delta(n - 1, F[n].id, F[n].name, F[n].arguments)
      BY <1>3, <1>6, <2>2
    <3>2. ASSUME NEW n \in 1..N PROVE deltas[n].index = n - 1
      <4> HIDE DEF deltas
      <4>1. deltas[n] = Delta(n - 1, F[n].id, F[n].name, F[n].arguments)
        BY <3>1
      <4> QED  BY <4>1 DEF Delta
    <3>3. touched = 0..N - 1
      <4> HIDE DEF deltas
      <4>1. \A n \in 1..N : n - 1 \in 0..N - 1
        BY <1>6
      <4>2. \A i \in 0..N - 1 : i + 1 \in 1..N /\ (i + 1) - 1 = i
        BY <1>6
      <4>3. ASSUME NEW i \in 0..N - 1 PROVE i \in touched
        BY <3>1, <3>2, <4>2
      <4>4. ASSUME NEW i \in touched PROVE i \in 0..N - 1
        BY <3>1, <3>2, <4>1, <4>4
      <4> QED  BY <4>3, <4>4
    <3>4. ASSUME NEW i \in 0..N - 1 PROVE DeltaAt(i) = deltas[i + 1]
      <4> HIDE DEF deltas
      <4>0. i + 1 \in 1..N /\ (i + 1) - 1 = i
        BY <1>6
      <4>1. i + 1 \in DOMAIN deltas /\ deltas[i + 1].index = i
        BY <3>1, <3>2, <4>0
      <4>2. \A n \in DOMAIN deltas : deltas[n].index = i => n = i + 1
        BY <1>6, <3>1, <3>2
      <4> QED  BY <4>1, <4>2
    <3>5. w.calls = [i \in DOMAIN m.calls \cup touched |->
                       IF i \notin touched THEN m.calls[i]
                       ELSE Put(IF i \in DOMAIN m.calls THEN m.calls[i] ELSE NoCallYet, DeltaAt(i))]
      BY DEF Merged, w
    <3> HIDE DEF touched, DeltaAt
    <3>6. DOMAIN w.calls = 0..N - 1
      BY <3>3, <3>5, <1>5
    <3>7. ASSUME NEW i \in 0..N - 1 PROVE w.calls[i] = F[i + 1]
      <4>1. w.calls[i] = Put(NoCallYet, deltas[i + 1])
        BY <1>5, <3>3, <3>4, <3>5
      <4>2. i + 1 \in 1..N
        BY <1>6
      <4>3. F[i + 1] \in ToolCall /\ deltas[i + 1] = Delta((i + 1) - 1, F[i + 1].id, F[i + 1].name, F[i + 1].arguments)
        BY <1>6, <3>1, <4>2
      <4> DEFINE f == F[i + 1]
                 d == deltas[i + 1]
      <4>4. f \in ToolCall /\ d.id = f.id /\ d.name = f.name /\ d.arguments = f.arguments
        BY <4>3 DEF Delta
      <4> HIDE DEF f, d
      <4>5. f = [id |-> f.id, name |-> f.name, arguments |-> f.arguments] /\ f.arguments \in Seq(Lines)
        BY <4>4 DEF ToolCall, Text
      <4>6. <<>> \o f.arguments = f.arguments
        BY <4>5
      <4>7. Latest(Unset, f.id) = f.id /\ Latest(Unset, f.name) = f.name
        BY DEF Latest
      <4>8. Put(NoCallYet, d) = [id |-> f.id, name |-> f.name, arguments |-> f.arguments]
        BY <4>4, <4>6, <4>7 DEF NoCallYet
      <4> QED  BY <4>1, <4>5, <4>8 DEF f, d
    <3> QED  BY <1>0, <2>2, <3>6, <3>7 DEF CallsSoFar, N, F
  <2> QED  BY <2>1, <2>2
<1>10. w.content = Gathered(q, Spoken(k, a, A)) /\ w.reasoning = Gathered(q, Spoken(k, a, P))
  BY <1>1, <1>2, <1>3, <1>4
<1>11. /\ w.finish_reason = IF last THEN Chat(k, r, a).finish_reason ELSE Unset
       /\ w.usage = IF last THEN Chat(k, r, a).usage ELSE Unset
  BY <1>2, <1>3, <1>4 DEF Latest
<1> QED  BY <1>9, <1>10, <1>11 DEF PutTogether, q, w, A, P

(* A silent event adds nothing.                                            *)
LEMMA HeardNothing ==
  ASSUME NEW k, NEW r, NEW a, NEW p, NEW last, NEW m, m.content \in Text, m.reasoning \in Text,
         PutTogether(k, r, a, p, last, Merged(m, EmptyChunk))
  PROVE  PutTogether(k, r, a, p, last, m)
BY MergedEmpty, PutTogetherAlike

(* The next event of a stream, whatever the provider puts in it, brings a  *)
(* caller from the beats before it to those with it.                       *)
LEMMA EventHeard ==
  ASSUME NEW a \in Answer, NEW r, NEW k \in ProviderKind, NEW n \in 0..Len(Beats(k, a)) - 1,
         NEW to \in n + 1..Len(Beats(k, a)), OneEvent(k, Beats(k, a), n + 1, to),
         NEW e, e = SubSeq(Beats(k, a), n + 1, to),
         NEW tokens, k = "anthropic" /\ n > 0 => tokens = CountsOf(a),
         NEW m, PutTogether(k, r, a, SubSeq(Beats(k, a), 1, n), FALSE, m),
         FreshIds \in Seq(CallIds), Len(Calls(a)) <= Len(FreshIds)
  PROVE  LET c == Chunk(k, r, e, a, tokens)
         IN PutTogether(k, r, a, SubSeq(Beats(k, a), 1, to), to = Len(Beats(k, a)),
                        IF c = Unset THEN m ELSE Merged(m, c))
<1> DEFINE bs == Beats(k, a)
           p == SubSeq(bs, 1, n)
           last == to = Len(bs)
           c == Chunk(k, r, e, a, tokens)
           w == IF c = Unset THEN m ELSE Merged(m, c)
<1>1. p \in Seq(AnswerBeat(k, a)) /\ e \in Seq(AnswerBeat(k, a)) /\ SubSeq(bs, 1, to) = p \o e
  BY EventFacts DEF IsEvent
<1>2. PutTogether(k, r, a, p, FALSE, m) /\ last \in BOOLEAN
  OBVIOUS
<1> SUFFICES PutTogether(k, r, a, p \o e, last, w)
  <2> HIDE DEF c
  <2> QED  BY <1>1 DEF c
<1>3. CASE k = "gemini"
  <2>1. c \in ChatChunk
    BY <1>3, GeminiSays
  <2>2. SaysAlone(r, a, e, last, c)
    BY <1>3, GeminiSays
  <2>3. c # Unset
    BY <2>1, UnsetIsApart
  <2> HIDE DEF c, p, last
  <2>4. PutTogether(k, r, a, p \o e, last, Merged(m, c))
    BY <1>1, <1>2, <1>3, <2>1, <2>2, HeardMoreOfGemini
  <2> QED  BY <2>3, <2>4
<1>4. CASE k = "openai"
  <2>1. c \in ChatChunk
    BY <1>4, OpenAiSays
  <2>2. Says(k, r, a, e, last, c)
    BY <1>4, OpenAiSays
  <2>3. c # Unset
    BY <2>1, UnsetIsApart
  <2> HIDE DEF c, p, last
  <2>4. PutTogether(k, r, a, p \o e, last, Merged(m, c))
    BY <1>1, <1>2, <1>4, <2>1, <2>2, HeardMore
  <2> QED  BY <2>3, <2>4
<1>5. CASE k = "anthropic"
  <2>1. Told(c) \in ChatChunk
    BY <1>5, AnthropicSays
  <2>2. Says(k, r, a, e, last, Told(c))
    BY <1>5, AnthropicSays
  <2> HIDE DEF c, p, last
  <2>3. PutTogether(k, r, a, p \o e, last, Merged(m, Told(c)))
    BY <1>1, <1>2, <1>5, <2>1, <2>2, HeardMore
  <2>4. CASE c = Unset
    BY <2>3, <2>4, <1>2, <1>1, SaidIsText, HeardNothing DEF Told, PutTogether
  <2>5. CASE c # Unset
    BY <2>3, <2>5 DEF Told
  <2> QED  BY <2>4, <2>5
<1> QED  BY <1>3, <1>4, <1>5 DEF ProviderKind

LEMMA CountsHeard ==
  ASSUME NEW a \in Answer, NEW k \in {"anthropic"}, NEW n \in 0..Len(Beats(k, a)) - 1,
         NEW to \in n + 1..Len(Beats(k, a)),
         NEW tokens, n > 0 => tokens = CountsOf(a)
  PROVE  AnthropicCounts(SubSeq(Beats(k, a), n + 1, to), a, tokens) = CountsOf(a)
<1> DEFINE bs == Beats(k, a)
           e == SubSeq(bs, n + 1, to)
<1>0. k \in ProviderKind /\ k = "anthropic"
  BY DEF ProviderKind
<1>1. e[1] = bs[n + 1]
  BY <1>0, EventFacts DEF IsEvent
<1>2. Len(bs) \in Nat \ {0}
  BY <1>0, BeatPlaces
<1>3. \A m \in 1..Len(bs) : bs[m] = Starting <=> k = "anthropic" /\ m = 1
  BY <1>0, BeatPlaces
<1> HIDE DEF e, bs
<1>4. CASE n = 0
  <2>1. e[1] = Starting
    BY <1>0, <1>1, <1>2, <1>3, <1>4
  <2>2. e[1].type = "start"
    BY <2>1 DEF Starting, Beat
  <2> QED  BY <2>2 DEF AnthropicCounts, CountsOf, e, bs
<1>5. CASE n # 0
  BY <1>5 DEF bs, AnthropicCounts, CountsOf
<1> QED  BY <1>4, <1>5

-----------------------------------------------------------------------------
(* After the last beat it is the unstreamed answer.                        *)

LEMMA HasMax ==
  ASSUME NEW N \in Nat, NEW D \in SUBSET (0..N - 1), D # {}
  PROVE  Max(D) \in D /\ \A d \in D : d <= Max(D)
<1> DEFINE P == { n \in Nat : \A E \in SUBSET (0..n - 1) : E # {} => \E x \in E : \A y \in E : x >= y }
<1>1. 0 \in P
  <2>1. \A E \in SUBSET (0..0 - 1) : E = {}
    OBVIOUS
  <2> QED  BY <2>1
<1>2. ASSUME NEW n \in Nat, n \in P PROVE n + 1 \in P
  BY <1>2
<1> HIDE DEF P
<1>3. Nat \subseteq P
  BY <1>1, <1>2, Inductive
<1>4. N \in P
  BY <1>3
<1>5. \E x \in D : \A y \in D : x >= y
  BY <1>4 DEF P
<1>6. Max(D) \in D /\ \A y \in D : Max(D) >= y
  BY <1>5 DEF Max
<1> QED  BY <1>6

(* The calls in their slots are the elements of s at the same places.      *)
LEMMA InTheirSlots ==
  ASSUME NEW S, NEW s \in Seq(S), NEW I, NEW calls, DOMAIN calls \subseteq 0..Len(s) - 1,
         \A i \in 1..Len(s) : i \in I <=> i - 1 \in DOMAIN calls,
         \A i \in 1..Len(s) : i \in I => calls[i - 1] = s[i]
  PROVE  InSlots(calls, IF DOMAIN calls = {} THEN 0 ELSE 1 + Max(DOMAIN calls)) = Picked(s, I)
<1> DEFINE N == Len(s)
           D == DOMAIN calls
           slots == IF D = {} THEN 0 ELSE 1 + Max(D)
           t == [n \in 1..slots |-> IF n - 1 \in D THEN <<calls[n - 1]>> ELSE <<>>]
           u == Chosen(s, I)
<1>1. N \in Nat
  OBVIOUS
<1>2. slots \in 0..N /\ \A i \in 1..N : i > slots => i - 1 \notin D
  <2>1. CASE D = {}
    BY <1>1, <2>1
  <2>2. CASE D # {}
    <3>1. D \in SUBSET (0..N - 1)
      OBVIOUS
    <3> HIDE DEF D, N
    <3>2. Max(D) \in D /\ \A d \in D : d <= Max(D)
      BY <1>1, <2>2, <3>1, HasMax
    <3>3. slots = 1 + Max(D) /\ Max(D) \in 0..N - 1
      BY <2>2, <3>1, <3>2
    <3>4. ASSUME NEW i \in 1..N, i > slots PROVE i - 1 \notin D
      BY <1>1, <3>3, <3>4, <3>2
    <3>5. slots \in 0..N
      BY <1>1, <3>3
    <3> QED  BY <3>4, <3>5
  <2> QED  BY <2>1, <2>2
<1>3. u \in Seq(Seq(S)) /\ Len(u) = N /\ \A i \in 1..N : u[i] = IF i \in I THEN <<s[i]>> ELSE <<>>
  BY ChosenFacts
<1> HIDE DEF slots, u
<1>4. \A i \in 1..N : i \in I <=> i - 1 \in D
  OBVIOUS
<1>5. \A i \in slots + 1..Len(u) : u[i] = <<>>
  <2> SUFFICES ASSUME NEW i \in slots + 1..Len(u) PROVE u[i] = <<>>
    OBVIOUS
  <2> HIDE DEF D, N
  <2>1. i \in 1..N /\ i > slots
    BY <1>1, <1>2, <1>3
  <2>2. i - 1 \notin D
    BY <1>2, <2>1
  <2>3. i \notin I
    BY <1>4, <2>1, <2>2
  <2> QED  BY <1>3, <2>1, <2>3
<1>6. FlattenSeq(u) = FlattenSeq(SubSeq(u, 1, slots))
  BY <1>2, <1>3, <1>5, FlattenTrailing
<1>7. SubSeq(u, 1, slots) = t
  <2>1. SubSeq(u, 1, slots) = [i \in 1..slots |-> u[i]]
    BY <1>1, <1>2, <1>3
  <2>2. ASSUME NEW i \in 1..slots PROVE u[i] = t[i]
    <3>1. i \in 1..N
      BY <1>1, <1>2
    <3>2. u[i] = IF i \in I THEN <<s[i]>> ELSE <<>>
      BY <1>3, <3>1
    <3>3. t[i] = IF i - 1 \in D THEN <<calls[i - 1]>> ELSE <<>>
      OBVIOUS
    <3>4. i \in I => calls[i - 1] = s[i]
      BY <3>1
    <3> HIDE DEF t, D, N
    <3> QED  BY <1>4, <3>1, <3>2, <3>3, <3>4
  <2> QED  BY <2>1, <2>2
<1>8. InSlots(calls, slots) = FlattenSeq(t)
  BY DEF InSlots
<1>9. Picked(s, I) = FlattenSeq(u)
  BY PickedIsFlattened DEF u
<1> QED  BY <1>6, <1>7, <1>8, <1>9 DEF slots

LEMMA InAllSlots ==
  ASSUME NEW S, NEW s \in Seq(S), NEW calls, DOMAIN calls = 0..Len(s) - 1,
         \A i \in DOMAIN calls : calls[i] = s[i + 1]
  PROVE  InSlots(calls, IF DOMAIN calls = {} THEN 0 ELSE 1 + Max(DOMAIN calls)) = s
<1> DEFINE I == 1..Len(s)
<1>1. Len(s) \in Nat
  OBVIOUS
<1>2. \A i \in 1..Len(s) : i - 1 \in DOMAIN calls /\ (i - 1) + 1 = i
  BY <1>1
<1>3. \A i \in 1..Len(s) : calls[i - 1] = s[i]
  BY <1>2
<1>4. InSlots(calls, IF DOMAIN calls = {} THEN 0 ELSE 1 + Max(DOMAIN calls)) = Picked(s, I)
  BY <1>2, <1>3, InTheirSlots
<1>5. Picked(s, I) = s
  BY PickedAll
<1> QED  BY <1>4, <1>5

LEMMA PickedSingle ==
  ASSUME NEW S, NEW s \in Seq(S), NEW i \in 1..Len(s)
  PROVE  Picked(s, {i}) = <<s[i]>>
<1> DEFINE t == Picked(s, {i})
<1>1. t \in Seq(S)
  BY PickedFacts
<1>2. Len(t) = Before({i}, Len(s) + 1)
  BY PickedPlaces
<1>3. i \in {i} => t[Before({i}, i) + 1] = s[i]
  BY PickedPlaces
<1> HIDE DEF t
<1>4. Len(s) \in Nat /\ i \in Nat
  OBVIOUS
<1>5. Before({i}, Len(s) + 1) = 1
  <2>1. { j \in 1..(Len(s) + 1) - 1 : j \in {i} } = {i}
    BY <1>4
  <2> QED  BY <2>1, FS_Singleton DEF Before
<1>6. Before({i}, i) = 0
  <2>1. { j \in 1..i - 1 : j \in {i} } = {}
    BY <1>4
  <2> QED  BY <2>1, FS_EmptySet DEF Before
<1>7. Len(t) = 1 /\ t[1] = s[i]
  BY <1>2, <1>3, <1>5, <1>6
<1>8. t = <<s[i]>>
  BY <1>1, <1>7
<1> QED  BY <1>8 DEF t

(* All that is said of a block is its body.                                *)
LEMMA SpokenOfOne ==
  ASSUME NEW a \in Answer, NEW k \in {"anthropic", "openai"}, NEW i \in 1..Len(a.blocks)
  PROVE  Gathered(Beats(k, a), Spoken(k, a, {i})) = a.blocks[i].body
<1>1. a.blocks \in Seq(AnswerBlock) /\ a.blocks[i] \in AnswerBlock
  BY AnswerFacts
<1>2. Gathered(Beats(k, a), Spoken(k, a, {i})) = Bodies(Picked(a.blocks, {i}))
  BY SpokenOfBeats DEF ProviderKind
<1>3. Picked(a.blocks, {i}) = <<a.blocks[i]>>
  BY <1>1, PickedSingle
<1>4. Bodies(<<a.blocks[i]>>) = Gathered(<<a.blocks[i]>>, BodyOf)
  <2>1. <<a.blocks[i]>> \in Seq(AnswerBlock)
    BY <1>1
  <2> QED  BY <2>1, BodiesAreGathered
<1>5. Gathered(<<a.blocks[i]>>, BodyOf) = BodyOf[a.blocks[i]]
  <2>1. \A b \in AnswerBlock : Gathered(<<b>>, BodyOf) = BodyOf[b]
    BY BodyOfType, GatheredOne
  <2> QED  BY <1>1, <2>1
<1> QED  BY <1>1, <1>2, <1>3, <1>4, <1>5 DEF BodyOf

AsCall == [b \in AnswerBlock |-> [id |-> b.id, name |-> b.name, arguments |-> b.body]]

LEMMA AsCallsAreThrough ==
  ASSUME NEW s \in Seq(AnswerBlock)
  PROVE  AsCalls(s) = Through(s, AsCall)
BY DEF AsCalls, Through, AsCall

LEMMA ContentIsWhole ==
  ASSUME NEW a \in Answer, NEW r, NEW k \in ProviderKind,
         k = "anthropic" /\ ForcedTool(r) # Unset => \A i \in ToolBlocks(a) : a.blocks[i].name = ForcedTool(r)
  PROVE  /\ Gathered(Beats(k, a), Spoken(k, a, Answering(k, r, a))) = Chat(k, r, a).content
         /\ Gathered(Beats(k, a), Spoken(k, a, Pondering(r, a))) = Chat(k, r, a).reasoning
<1> DEFINE A == Answering(k, r, a)
           P == Pondering(r, a)
           texts == { i \in DOMAIN a.blocks : a.blocks[i].type = "text" }
           thoughts == { i \in DOMAIN a.blocks : a.blocks[i].type = "thinking" }
           wanted == { i \in DOMAIN a.blocks : a.blocks[i].type = "text"
                         \/ (a.blocks[i].type = "tool_use" /\ a.blocks[i].name = ForcedTool(r)) }
<1>0. a.blocks \in Seq(AnswerBlock)
  BY AnswerFacts
<1>1. /\ Gathered(Beats(k, a), Spoken(k, a, A)) = Bodies(Picked(a.blocks, A))
      /\ Gathered(Beats(k, a), Spoken(k, a, P)) = Bodies(Picked(a.blocks, P))
  BY SpokenOfBeats DEF Answering, ToolBlocks, Pondering, OfTypes
<1>2. Chat(k, r, a).reasoning = Reasoning(r, a)
  BY DEF Chat, AnthropicChat, GeminiChat, OpenAiChat, ProviderKind
<1>3. Bodies(Picked(a.blocks, P)) = Reasoning(r, a)
  <2>1. CASE Excluded(r)
    <3>1. P = {}
      BY <2>1 DEF Pondering
    <3>2. Picked(a.blocks, P) = <<>>
      BY <1>0, <3>1, PickedNone
    <3>3. Bodies(<<>>) = <<>>
      <4>1. <<>> \in Seq(AnswerBlock)
        OBVIOUS
      <4> QED  BY <4>1, BodiesAreGathered, GatheredEmpty
    <3> QED  BY <2>1, <3>2, <3>3 DEF Reasoning
  <2>2. CASE ~Excluded(r)
    BY <2>2 DEF Pondering, OfTypes, OfType, Selected, Reasoning
  <2> QED  BY <2>1, <2>2
<1>4. Bodies(Picked(a.blocks, A)) = Chat(k, r, a).content
  <2>1. CASE k # "anthropic"
    BY <2>1 DEF Answering, OfType, Selected, Chat, GeminiChat, OpenAiChat, ProviderKind
  <2>2. CASE k = "anthropic"
    <3>1. A = wanted
      BY AnswerFacts, UnsetIsApart, <2>2 DEF ToolChoice, ToolBlocks, Answering
    <3>2. Chat(k, r, a).content = Bodies(Picked(a.blocks, wanted))
      BY <2>2 DEF Chat, AnthropicChat, Selected
    <3> HIDE DEF A, wanted
    <3> QED  BY <3>1, <3>2
  <2> QED  BY <2>1, <2>2
<1> QED  BY <1>1, <1>2, <1>3, <1>4

(* Once everything was heard, each call is put together.                   *)
LEMMA CallIsWhole ==
  ASSUME NEW a \in Answer, NEW k \in {"anthropic", "openai"}, NEW i \in ToolBlocks(a)
  PROVE  Touched(Beats(k, a), i) /\ CallSoFar(k, a, Beats(k, a), i) = AsCall[a.blocks[i]]
<1>1. PICK m \in 1..Len(Beats(k, a)) : Beats(k, a)[m] = Opening(i)
  BY EveryCallIsOpened
<1>2. m \in DOMAIN Beats(k, a)
  <2>1. Beats(k, a) \in Seq(AnswerBeat(k, a))
    BY BeatsAre DEF ProviderKind
  <2> HIDE DEF ProviderKind
  <2> QED  BY <1>1, <2>1
<1>3. Opened(Beats(k, a), i)
  BY <1>1, <1>2 DEF Opened
<1>4. Opening(i).type = "open" /\ Opening(i).block = i
  BY DEF Opening, Beat
<1>5. Touched(Beats(k, a), i)
  BY <1>1, <1>2, <1>4 DEF Touched
<1>6. i \in 1..Len(a.blocks) /\ a.blocks[i] \in AnswerBlock
  BY AnswerFacts DEF ToolBlocks
<1>7. Gathered(Beats(k, a), Spoken(k, a, {i})) = a.blocks[i].body
  BY <1>6, SpokenOfOne
<1> QED  BY <1>3, <1>5, <1>6, <1>7 DEF CallSoFar, AsCall

LEMMA CallsAreWhole ==
  ASSUME NEW a \in Answer, NEW r, NEW k \in ProviderKind, NEW calls,
         CallsSoFar(k, r, a, Beats(k, a), TRUE, calls),
         FreshIds \in Seq(CallIds), Len(Calls(a)) <= Len(FreshIds),
         k = "anthropic" /\ ForcedTool(r) # Unset => \A i \in ToolBlocks(a) : a.blocks[i].name = ForcedTool(r)
  PROVE  InSlots(calls, IF DOMAIN calls = {} THEN 0 ELSE 1 + Max(DOMAIN calls)) = Chat(k, r, a).tool_calls
<1> DEFINE bs == Beats(k, a)
           T == ToolBlocks(a)
           C == Picked(a.blocks, T)
           slots == IF DOMAIN calls = {} THEN 0 ELSE 1 + Max(DOMAIN calls)
           R == [id : Optional(CallIds), name : Optional(Functions), arguments : Text]
<1>0. /\ a.blocks \in Seq(AnswerBlock) /\ Len(a.blocks) \in Nat
      /\ T \subseteq 1..Len(a.blocks)
      /\ C = Calls(a) /\ C \in Seq(AnswerBlock)
  BY AnswerFacts, CallsAreOfTools, CallsType DEF ToolBlocks
<1>1. AsCall \in [AnswerBlock -> R]
  BY DEF AnswerBlock, Optional, AsCall
<1>2. CASE k = "gemini"
  <2> DEFINE F == FreshCalls(a)
  <2>1. F \in Seq(ToolCall) /\ Len(F) = Len(Calls(a))
    BY FreshCallsType
  <2>2. DOMAIN calls = 0..Len(F) - 1 /\ \A i \in DOMAIN calls : calls[i] = F[i + 1]
    BY <1>2, <2>1 DEF CallsSoFar
  <2>3. Chat(k, r, a).tool_calls = F
    BY <1>2 DEF Chat, GeminiChat, FreshCalls
  <2> HIDE DEF F
  <2>4. InSlots(calls, slots) = F
    BY <2>1, <2>2, InAllSlots
  <2> QED  BY <2>3, <2>4
<1>3. CASE k # "gemini" /\ Tracked(k, r)
  <2>0. k \in {"anthropic", "openai"}
    BY <1>3 DEF ProviderKind
  <2>1. \A i \in T : Touched(bs, i) /\ CallSoFar(k, a, bs, i) = AsCall[a.blocks[i]]
    BY <2>0, CallIsWhole
  <2>2. /\ DOMAIN calls = { SlotOf(k, a, i) : i \in T }
        /\ \A i \in T : calls[SlotOf(k, a, i)] = AsCall[a.blocks[i]]
    BY <1>3, <2>1 DEF CallsSoFar
  <2>3. CASE k = "openai"
    <3> DEFINE s == AsCalls(C)
               N == Len(C)
    <3>1. s = Through(C, AsCall)
      BY <1>0, AsCallsAreThrough
    <3>2. s \in Seq(R) /\ Len(s) = N /\ \A n \in 1..N : s[n] = AsCall[C[n]]
      <4> HIDE DEF s, C, R
      <4>1. Through(C, AsCall) \in Seq(R)
        BY <1>0, <1>1, ThroughFacts
      <4>2. Len(Through(C, AsCall)) = N
        BY <1>0, ThroughLen
      <4>3. \A n \in 1..N : Through(C, AsCall)[n] = AsCall[C[n]]
        BY <1>0 DEF Through
      <4> QED  BY <3>1, <4>1, <4>2, <4>3
    <3>3. \A i \in 1..Len(a.blocks) : i \in T =>
            Before(T, i) + 1 \in 1..N /\ C[Before(T, i) + 1] = a.blocks[i]
      BY <1>0, PickedPlaces
    <3>4. \A n \in 1..N : \E i \in 1..Len(a.blocks) : i \in T /\ n = Before(T, i) + 1
      BY <1>0, PickedPlaces
    <3>5. \A i \in T : SlotOf(k, a, i) = Before(T, i) /\ Before(T, i) \in Nat
      <4>1. \A i \in T : SlotOf(k, a, i) \in Nat
        BY SlotType
      <4> QED  BY <2>3, <4>1 DEF SlotOf
    <3>6. N \in Nat
      BY <1>0
    <3>7. Chat(k, r, a).tool_calls = s
      BY <2>3, <1>0 DEF Chat, OpenAiChat
    <3> HIDE DEF s, N, C, T
    <3>8. DOMAIN calls = 0..N - 1
      <4>1. ASSUME NEW x \in DOMAIN calls PROVE x \in 0..N - 1
        BY <2>2, <3>5, <4>1, <1>0, <3>3, <3>6
      <4>2. ASSUME NEW x \in 0..N - 1 PROVE x \in DOMAIN calls
        <5>1. x + 1 \in 1..N
          BY <3>6
        <5>2. PICK i \in 1..Len(a.blocks) : i \in T /\ x + 1 = Before(T, i) + 1
          BY <3>4, <5>1
        <5>3. x = Before(T, i)
          BY <3>5, <5>2
        <5> QED  BY <2>2, <3>5, <5>2, <5>3
      <4> QED  BY <4>1, <4>2
    <3>9. ASSUME NEW x \in DOMAIN calls PROVE calls[x] = s[x + 1]
      <4>1. PICK i \in T : x = Before(T, i)
        BY <2>2, <3>5, <3>9
      <4>2. calls[x] = AsCall[a.blocks[i]]
        BY <2>2, <3>5, <4>1
      <4>3. x + 1 \in 1..N /\ C[x + 1] = a.blocks[i]
        BY <1>0, <3>3, <4>1
      <4> QED  BY <3>2, <4>2, <4>3
    <3>10. InSlots(calls, slots) = s
      BY <3>2, <3>8, <3>9, InAllSlots
    <3> QED  BY <3>7, <3>10
  <2>4. CASE k = "anthropic"
    <3> DEFINE s == Through(a.blocks, AsCall)
               N == Len(a.blocks)
    <3>1. s \in Seq(R) /\ Len(s) = N /\ \A n \in 1..N : s[n] = AsCall[a.blocks[n]]
      <4> HIDE DEF R
      <4>1. s \in Seq(R)
        BY <1>0, <1>1, ThroughFacts
      <4>2. Len(s) = N
        BY <1>0, ThroughLen
      <4>3. \A n \in 1..N : s[n] = AsCall[a.blocks[n]]
        BY <1>0 DEF Through, s
      <4> QED  BY <4>1, <4>2, <4>3
    <3>2. \A i \in T : SlotOf(k, a, i) = i - 1
      BY <2>4 DEF SlotOf
    <3> HIDE DEF s, T
    <3>3. ASSUME NEW x \in DOMAIN calls PROVE x \in 0..N - 1
      BY <2>2, <3>2, <3>3, <1>0
    <3>4. ASSUME NEW i \in 1..N, i \in T PROVE i - 1 \in DOMAIN calls /\ calls[i - 1] = s[i]
      BY <2>2, <3>1, <3>2, <3>4
    <3>5. ASSUME NEW i \in 1..N, i - 1 \in DOMAIN calls PROVE i \in T
      BY <2>2, <3>2, <3>5, <1>0
    <3>6. InSlots(calls, slots) = Picked(s, T)
      BY <3>1, <3>3, <3>4, <3>5, InTheirSlots
    <3>7. Picked(s, T) = Through(C, AsCall)
      BY <1>0, ThroughPicked DEF s
    <3>8. Through(C, AsCall) = AsCalls(C)
      BY <1>0, AsCallsAreThrough
    <3>9. Chat(k, r, a).tool_calls = AsCalls(C)
      <4>1. ForcedTool(r) = Unset
        BY <1>3, <2>4 DEF Tracked
      <4>2. \A n \in DOMAIN Calls(a) : Calls(a)[n].name # Unset
        BY CallsType, UnsetIsApart DEF ToolChoice
      <4> DEFINE J == { n \in DOMAIN Calls(a) : Calls(a)[n].name # Unset }
      <4>3. Picked(Calls(a), J) = Calls(a)
        BY CallsType, <4>2, PickedAll
      <4>4. Chat(k, r, a).tool_calls = AsCalls(Picked(Calls(a), J))
        BY <2>4, <4>1 DEF Chat, AnthropicChat, Selected
      <4> HIDE DEF J
      <4> QED  BY <1>0, <4>3, <4>4
    <3> QED  BY <3>6, <3>7, <3>8, <3>9
  <2> QED  BY <2>0, <2>3, <2>4
<1>4. CASE k # "gemini" /\ ~Tracked(k, r)
  <2>1. k = "anthropic" /\ ForcedTool(r) # Unset
    BY <1>4 DEF Tracked
  <2>2. DOMAIN calls = {}
    BY <1>4 DEF CallsSoFar
  <2>3. InSlots(calls, 0) = <<>>
    BY FlattenEmpty DEF InSlots
  <2> DEFINE J == { n \in DOMAIN Calls(a) : Calls(a)[n].name # ForcedTool(r) }
  <2>4. \A n \in DOMAIN Calls(a) : n \notin J
    <3>1. \A n \in DOMAIN Calls(a) : \E i \in T : Calls(a)[n] = a.blocks[i]
      <4> SUFFICES ASSUME NEW n \in DOMAIN Calls(a) PROVE \E i \in T : Calls(a)[n] = a.blocks[i]
        OBVIOUS
      <4>1. Calls(a)[n] \in ToSet(C)
        BY <1>0 DEF ToSet
      <4>2. \E i \in DOMAIN a.blocks : i \in T /\ Calls(a)[n] = a.blocks[i]
        BY <1>0, <4>1, PickedFacts
      <4> QED  BY <4>2
    <3> QED  BY <2>1, <3>1
  <2>5. Picked(Calls(a), J) = <<>>
    BY CallsType, <2>4, PickedNone
  <2>6. Chat(k, r, a).tool_calls = AsCalls(Picked(Calls(a), J))
    BY <2>1 DEF Chat, AnthropicChat, Selected
  <2>7. AsCalls(<<>>) = <<>>
    BY DEF AsCalls
  <2> HIDE DEF J
  <2> QED  BY <2>2, <2>3, <2>5, <2>6, <2>7
<1> QED  BY <1>2, <1>3, <1>4

(* A caller who heard every beat has what the adapter answers unstreamed.  *)
LEMMA WholeHeard ==
  ASSUME NEW a \in Answer, NEW r, NEW k \in ProviderKind, NEW m,
         PutTogether(k, r, a, Beats(k, a), TRUE, m),
         FreshIds \in Seq(CallIds), Len(Calls(a)) <= Len(FreshIds),
         k = "anthropic" /\ ForcedTool(r) # Unset => \A i \in ToolBlocks(a) : a.blocks[i].name = ForcedTool(r)
  PROVE  Assembled(m) = Chat(k, r, a)
<1>1. /\ m.content = Gathered(Beats(k, a), Spoken(k, a, Answering(k, r, a)))
      /\ m.reasoning = Gathered(Beats(k, a), Spoken(k, a, Pondering(r, a)))
      /\ m.finish_reason = Chat(k, r, a).finish_reason
      /\ m.usage = Chat(k, r, a).usage
      /\ CallsSoFar(k, r, a, Beats(k, a), TRUE, m.calls)
  BY DEF PutTogether
<1>2. m.content = Chat(k, r, a).content /\ m.reasoning = Chat(k, r, a).reasoning
  BY <1>1, ContentIsWhole
<1>3. InSlots(m.calls, IF DOMAIN m.calls = {} THEN 0 ELSE 1 + Max(DOMAIN m.calls)) = Chat(k, r, a).tool_calls
  BY <1>1, CallsAreWhole
<1>4. Chat(k, r, a) = [content |-> Chat(k, r, a).content, reasoning |-> Chat(k, r, a).reasoning,
                       tool_calls |-> Chat(k, r, a).tool_calls,
                       finish_reason |-> Chat(k, r, a).finish_reason, usage |-> Chat(k, r, a).usage]
  BY DEF Chat, AnthropicChat, GeminiChat, OpenAiChat, ProviderKind
<1> QED  BY <1>1, <1>2, <1>3, <1>4 DEF Assembled

-----------------------------------------------------------------------------
(* The conversation keeps PutTogether, turn after turn.                    *)

Unasked == {"preset", "search", "guardrails", "moderation", "budget", "dispatch", "asked"}

(* What a provider may answer a request it was sent.                       *)
Answers_(k, r, a) ==
  /\ a \in ModelAnswers
  /\ k = "anthropic" /\ ForcedTool(r) # Unset =>
       \A i \in ToolBlocks(a) : a.blocks[i].name = ForcedTool(r)

(* What the caller has of a stream no event of which was lost.             *)
HeardSoFar(k, r, a, n, m, tokens) ==
  /\ PutTogether(k, r, a, SubSeq(Beats(k, a), 1, n), n = Len(Beats(k, a)), m)
  /\ k = "anthropic" /\ n > 0 => tokens = CountsOf(a)

StreamInv ==
  /\ config \in Configs
  /\ phase \in {"asked", "streaming", "remember"} => sent.kind \in ProviderKind
  /\ phase \in Unasked => /\ candidate \in Nat \ {0}
                         /\ beats_sent = 0 /\ counts = NoCounts /\ message = NothingYet /\ told_error = FALSE
  /\ phase = "streaming" =>
       /\ sent.req.stream /\ Answers_(sent.kind, sent.req, answer)
       /\ beats_sent \in 0..Len(Beats(sent.kind, answer))
       /\ ~told_error => HeardSoFar(sent.kind, sent.req, answer, beats_sent, message, counts)

(* A tool's request is asked for whole.                                    *)
ToolInv ==
  /\ door = "tool" =>
       /\ phase \in {"dispatch", "asked", "remember", "answered", "refused"}
       /\ phase \in {"dispatch", "asked"} => \E args \in ToolCalls : req = ToolRequest(args)
       /\ phase = "asked" => ~sent.req.stream
  /\ phase = "remember" =>
       ~sent.req.stream /\ answer \in Answer /\ reply = Chat(sent.kind, sent.req, answer)

AnswersInv == StreamInv /\ ToolInv /\ StreamMatchesChat /\ ToolAnswersMatch

LEMMA StagesFollow ==
  /\ After("preset") = "search" /\ After("search") = "guardrails" /\ After("guardrails") = "moderation"
  /\ After("moderation") = "budget" /\ After("budget") = "dispatch" /\ Stages[1] = "preset"
BY DEF Stages, After

(* A candidate of the chain is one of the configuration's.                 *)
LEMMA ChainIsOfCandidates ==
  ASSUME config \in Configs
  PROVE  Chain \in Seq(Candidate) /\ \A i \in 1..Len(Chain) : Chain[i].kind \in ProviderKind
<1>1. config.chain \in Seq(Candidate)
  BY ConfigAssumption DEF IsConfig
<1>2. Chain \in Seq(Candidate)
  BY <1>1, PickedFacts DEF Chain, Filtered, Selected
<1> HIDE DEF Chain
<1>3. \A i \in 1..Len(Chain) : Chain[i] \in Candidate
  BY <1>2
<1> QED  BY <1>2, <1>3 DEF Candidate

(* A tool's request is prepared for a candidate without a stream.          *)
LEMMA ToolsAreWhole ==
  ASSUME NEW args, NEW c, req = ToolRequest(args)
  PROVE  Prepared(c).stream = FALSE
BY DEF ToolRequest, Compacted, Truncated, Prepared

(* Providers call only what they were offered, a forced tool alone.        *)
LEMMA AnswersAreOffered ==
  ASSUME NEW a \in Answerable, sent.kind \in ProviderKind
  PROVE  Answers_(sent.kind, sent.req, a)
BY DEF Answers_, Answerable, Wire, WireRequest, AnthropicRequest, ToolBlocks

LEMMA AnswersAreAnswers ==
  ASSUME NEW k, NEW r, NEW a, Answers_(k, r, a)
  PROVE  /\ a \in Answer /\ FreshIds \in Seq(CallIds) /\ Len(Calls(a)) <= Len(FreshIds)
         /\ k = "anthropic" /\ ForcedTool(r) # Unset =>
              \A i \in ToolBlocks(a) : a.blocks[i].name = ForcedTool(r)
BY AnswerAssumption DEF Answers_

LEMMA StreamStarts == PipelineInit => AnswersInv
BY DEF PipelineInit, AnswersInv, StreamInv, ToolInv, StreamMatchesChat, ToolAnswersMatch, Unasked

LEMMA Arriving ==
  ASSUME AnswersInv, NEW request, NEW by, NEW stage, Receive(request, by, stage),
         \/ by = "http" /\ stage \in {"preset", "refused"}
         \/ by = "tool" /\ stage = "dispatch" /\ \E args \in ToolCalls : request = ToolRequest(args)
  PROVE  AnswersInv'
BY DEF Receive, AnswersInv, StreamInv, Unasked, ToolInv, StreamMatchesChat, ToolAnswersMatch

(* The stages change neither door nor answer.                              *)
LEMMA StagesKeepAnswers ==
  ASSUME AnswersInv, apply_preset \/ apply_web_search \/ apply_guardrails \/ apply_moderation
                     \/ check_client_budget
  PROVE  AnswersInv'
<1>1. /\ phase \in {"preset", "search", "guardrails", "moderation", "budget"}
      /\ phase' \in {"search", "guardrails", "moderation", "budget", "dispatch", "refused"}
      /\ config' = config /\ door' = door /\ beats_sent' = beats_sent /\ counts' = counts
      /\ message' = message /\ told_error' = told_error /\ candidate' = candidate
  BY StagesFollow DEF apply_preset, apply_web_search, apply_guardrails, apply_moderation,
                      check_client_budget, Unstaged
<1>2. StreamInv'
  BY <1>1 DEF AnswersInv, StreamInv, Unasked
<1>3. ToolInv'
  BY <1>1 DEF AnswersInv, ToolInv
<1> QED  BY <1>1, <1>2, <1>3 DEF AnswersInv, StreamMatchesChat, ToolAnswersMatch

LEMMA CandidatesKeepAnswers ==
  ASSUME AnswersInv, Ask \/ CandidateFails \/ NoneLeft
  PROVE  AnswersInv'
<1>1. /\ phase \in {"dispatch", "asked"} /\ phase' \in {"dispatch", "asked", "refused"}
      /\ config' = config /\ door' = door /\ req' = req /\ beats_sent' = beats_sent /\ counts' = counts
      /\ message' = message /\ told_error' = told_error
  BY DEF Ask, CandidateFails, NoneLeft, Undispatched, Unanswered
<1>1a. candidate' \in Nat \ {0}
  BY DEF Ask, CandidateFails, NoneLeft, AnswersInv, StreamInv, Unasked
<1>2. StreamInv'
  BY ChainIsOfCandidates, <1>1, <1>1a DEF CandidateFails, NoneLeft, AnswersInv, StreamInv, Ask,
     Unasked
<1>3. ToolInv'
  <2>1. ASSUME door' = "tool" PROVE \E args \in ToolCalls : req' = ToolRequest(args)
    BY <1>1, <2>1 DEF AnswersInv, ToolInv
  <2>2. ASSUME door' = "tool", phase' = "asked" PROVE ~sent'.req.stream
    <3>1. Ask
      BY <2>2 DEF CandidateFails, NoneLeft
    <3>2. sent'.req = Prepared(Chain[candidate])
      BY <2>2, <3>1 DEF Ask
    <3>3. PICK args \in ToolCalls : req = ToolRequest(args)
      BY <1>1, <2>1, <2>2
    <3> QED  BY <3>2, <3>3, ToolsAreWhole
  <2> QED  BY <1>1, <2>1, <2>2 DEF AnswersInv, ToolInv
<1> QED  BY <1>1, <1>2, <1>3 DEF AnswersInv, StreamMatchesChat, ToolAnswersMatch

LEMMA WholeAnswersKeepAnswers ==
  ASSUME AnswersInv, NEW a \in Answerable, AnswerWhole(a)
  PROVE  AnswersInv'
<1>1. /\ phase = "asked" /\ phase' = "remember" /\ ~sent.req.stream /\ sent' = sent
      /\ answer' = a /\ reply' = Chat(sent.kind, sent.req, a)
      /\ config' = config /\ door' = door
  BY DEF AnswerWhole, Undispatched
<1>2. StreamInv'
  BY <1>1 DEF AnswersInv, StreamInv, Unasked
<1>3. ToolInv'
  BY AnswerAssumption, <1>1 DEF Answerable, AnswersInv, ToolInv
<1> QED  BY <1>1, <1>2, <1>3 DEF AnswersInv, StreamMatchesChat, ToolAnswersMatch

LEMMA RemembersKeepAnswers ==
  ASSUME AnswersInv, Remember
  PROVE  AnswersInv'
BY DEF Remember, Undispatched, AnswersInv, StreamInv, Unasked, ToolInv, StreamMatchesChat,
   ToolAnswersMatch

LEMMA RepliesKeepAnswers ==
  ASSUME AnswersInv, Reply
  PROVE  AnswersInv'
<1>1. /\ phase = "remember" /\ phase' = "answered" /\ sent' = sent /\ answer' = answer
      /\ reply' = IF door = "tool" THEN ChatCompletionOutput(reply) ELSE reply
      /\ config' = config /\ door' = door
  BY DEF Reply, Undispatched
<1>2. StreamInv'
  BY <1>1 DEF AnswersInv, StreamInv, Unasked
<1>3. ToolInv'
  BY <1>1 DEF AnswersInv, ToolInv
<1>4. ~sent'.req.stream
  BY <1>1 DEF AnswersInv, ToolInv
<1>5. ASSUME door = "tool" PROVE ToolAnswersMatch'
  <2> DEFINE whole == Chat(sent.kind, sent.req, answer)
  <2>1. reply = whole /\ answer \in Answer /\ sent.kind \in ProviderKind
    BY <1>1 DEF AnswersInv, ToolInv, StreamInv
  <2>2. whole.usage \in Usage
    BY <2>1, FinalType DEF ProviderKind
  <2>3. whole.usage # Unset
    BY <2>2, UnsetIsApart
  <2> HIDE DEF whole
  <2>4. /\ reply'.content = whole.content /\ reply'.prompt_tokens = whole.usage.prompt_tokens
        /\ reply'.completion_tokens = whole.usage.completion_tokens
    BY <1>1, <1>5, <2>1, <2>3 DEF ChatCompletionOutput
  <2> QED  BY <1>1, <2>4 DEF ToolAnswersMatch, whole
<1> QED  BY <1>1, <1>2, <1>3, <1>4, <1>5 DEF AnswersInv, StreamMatchesChat, ToolAnswersMatch

LEMMA OpeningsKeepAnswers ==
  ASSUME AnswersInv, NEW a \in Answerable, OpenStream(a)
  PROVE  AnswersInv'
<1>1. /\ phase = "asked" /\ phase' = "streaming" /\ sent.req.stream /\ sent' = sent /\ answer' = a
      /\ beats_sent' = beats_sent /\ counts' = counts /\ message' = message /\ told_error' = told_error
      /\ config' = config /\ door' = door
  BY DEF OpenStream, Undispatched
<1>2. /\ sent.kind \in ProviderKind /\ beats_sent = 0 /\ message = NothingYet /\ door # "tool"
  BY <1>1 DEF AnswersInv, StreamInv, Unasked, ToolInv
<1>3. Answers_(sent.kind, sent.req, a)
  BY <1>2, AnswersAreOffered
<1>4. Len(Beats(sent.kind, a)) \in Nat \ {0}
  BY <1>2, <1>3, AnswersAreAnswers, BeatPlaces
<1>5. SubSeq(Beats(sent.kind, a), 1, 0) = <<>>
  OBVIOUS
<1>6. HeardSoFar(sent.kind, sent.req, a, 0, NothingYet, counts)
  <2>1. PutTogether(sent.kind, sent.req, a, <<>>, FALSE, NothingYet)
    BY NothingHeard
  <2>2. 0 # Len(Beats(sent.kind, a))
    BY <1>4
  <2>3. PutTogether(sent.kind, sent.req, a, SubSeq(Beats(sent.kind, a), 1, 0),
                    0 = Len(Beats(sent.kind, a)), NothingYet)
    BY <1>5, <2>1, <2>2 DEF PutTogether, CallsSoFar
  <2>4. ~(0 > 0)
    OBVIOUS
  <2> QED  BY <2>3, <2>4, Zenon DEF HeardSoFar
<1>7. StreamInv'
  BY <1>1, <1>2, <1>3, <1>4, <1>6 DEF AnswersInv, StreamInv, Unasked
<1>8. ToolInv'
  BY <1>1, <1>2 DEF ToolInv
<1> QED  BY <1>1, <1>7, <1>8 DEF AnswersInv, StreamMatchesChat, ToolAnswersMatch

LEMMA EventsKeepAnswers ==
  ASSUME AnswersInv, NextEvent
  PROVE  AnswersInv'
<1> DEFINE k == sent.kind
           r == sent.req
           a == answer
           bs == Beats(k, a)
           n == beats_sent
<1>1. PICK to \in n + 1..Len(bs) :
        /\ OneEvent(k, bs, n + 1, to) /\ beats_sent' = to
        /\ LET e == SubSeq(bs, n + 1, to)
               c == Chunk(k, r, e, a, counts)
           IN /\ message' = IF c = Unset THEN message ELSE Merged(message, c)
              /\ counts' = IF k = "anthropic" THEN AnthropicCounts(e, a, counts) ELSE counts
  BY DEF NextEvent
<1>2. /\ phase = "streaming" /\ phase' = phase /\ sent' = sent /\ answer' = answer
      /\ told_error' = told_error /\ config' = config /\ door' = door
  BY DEF NextEvent, Undispatched
<1>3. k \in ProviderKind /\ r.stream /\ Answers_(k, r, a) /\ n \in 0..Len(bs)
      /\ (~told_error => HeardSoFar(k, r, a, n, message, counts))
  BY <1>2 DEF AnswersInv, StreamInv
<1>4. a \in Answer /\ FreshIds \in Seq(CallIds) /\ Len(Calls(a)) <= Len(FreshIds)
  BY <1>3, AnswersAreAnswers
<1>5. Len(bs) \in Nat \ {0}
  BY <1>3, <1>4, BeatPlaces
<1>6. n \in 0..Len(bs) - 1 /\ to \in 0..Len(bs) /\ to > 0
  BY <1>1, <1>3, <1>5
<1>7. ASSUME ~told_error PROVE HeardSoFar(k, r, a, to, message', counts')
  <2>1. PutTogether(k, r, a, SubSeq(bs, 1, n), FALSE, message) /\ (k = "anthropic" /\ n > 0 => counts = CountsOf(a))
    BY <1>3, <1>7, <1>5, <1>6 DEF HeardSoFar, PutTogether, CallsSoFar
  <2> DEFINE e == SubSeq(bs, n + 1, to)
             c == Chunk(k, r, e, a, counts)
  <2>2. PutTogether(k, r, a, SubSeq(bs, 1, to), to = Len(bs), IF c = Unset THEN message ELSE Merged(message, c))
    <3> HIDE DEF k, r, a, n
    <3> QED  BY <1>1, <1>3, <1>4, <1>6, <2>1, EventHeard
  <2>3. k = "anthropic" => AnthropicCounts(e, a, counts) = CountsOf(a)
    BY <1>1, <1>4, <1>6, <2>1, CountsHeard
  <2> HIDE DEF e, c
  <2>4. message' = (IF c = Unset THEN message ELSE Merged(message, c))
        /\ counts' = IF k = "anthropic" THEN AnthropicCounts(e, a, counts) ELSE counts
    BY <1>1 DEF e, c
  <2> HIDE DEF k, r, a, n, bs
  <2> QED  BY <2>2, <2>3, <2>4 DEF HeardSoFar, bs
<1>8. StreamInv'
  BY <1>2, <1>1, <1>3, <1>6, <1>7 DEF AnswersInv, StreamInv, Unasked
<1>9. ToolInv'
  BY <1>2 DEF AnswersInv, ToolInv
<1> QED  BY <1>2, <1>8, <1>9 DEF AnswersInv, StreamMatchesChat, ToolAnswersMatch

LEMMA GarbledEventsKeepAnswers ==
  ASSUME AnswersInv, GarbledEvent
  PROVE  AnswersInv'
<1> DEFINE bs == Beats(sent.kind, answer)
<1>1. PICK to \in beats_sent + 1..Len(bs) : beats_sent' = to
  BY DEF GarbledEvent
<1>2. /\ phase = "streaming" /\ phase' = phase /\ sent' = sent /\ answer' = answer
      /\ told_error' = TRUE /\ config' = config /\ door' = door
  BY DEF GarbledEvent, Undispatched
<1>3. sent.kind \in ProviderKind /\ sent.req.stream /\ Answers_(sent.kind, sent.req, answer)
      /\ beats_sent \in 0..Len(bs)
  BY <1>2 DEF AnswersInv, StreamInv
<1>4. Len(bs) \in Nat \ {0}
  BY <1>3, AnswersAreAnswers, BeatPlaces
<1>5. beats_sent' \in 0..Len(bs)
  <2> HIDE DEF bs
  <2> QED  BY <1>1, <1>3, <1>4
<1>6. StreamInv'
  BY <1>2, <1>3, <1>5 DEF AnswersInv, StreamInv, Unasked
<1>7. ToolInv'
  BY <1>2 DEF AnswersInv, ToolInv
<1> QED  BY <1>2, <1>6, <1>7 DEF AnswersInv, StreamMatchesChat, ToolAnswersMatch

LEMMA EndsKeepAnswers ==
  ASSUME AnswersInv, EndStream
  PROVE  AnswersInv'
<1> DEFINE k == sent.kind
           r == sent.req
           a == answer
           bs == Beats(k, a)
<1>1. /\ phase = "streaming" /\ phase' = "answered" /\ sent' = sent /\ answer' = answer
      /\ reply' = Assembled(message) /\ beats_sent' = beats_sent /\ config' = config /\ door' = door
      /\ told_error' = told_error \/ told_error' = TRUE
  BY DEF EndStream, Undispatched
<1>2. k \in ProviderKind /\ r.stream /\ Answers_(k, r, a) /\ beats_sent \in 0..Len(bs)
      /\ (~told_error => HeardSoFar(k, r, a, beats_sent, message, counts)) /\ door # "tool"
  BY <1>1 DEF AnswersInv, StreamInv, ToolInv
<1>3. a \in Answer /\ FreshIds \in Seq(CallIds) /\ Len(Calls(a)) <= Len(FreshIds)
      /\ (k = "anthropic" /\ ForcedTool(r) # Unset => \A i \in ToolBlocks(a) : a.blocks[i].name = ForcedTool(r))
  BY <1>2, AnswersAreAnswers
<1>4. Len(bs) \in Nat \ {0} /\ bs \in Seq(AnswerBeat(k, a))
  BY <1>2, <1>3, BeatPlaces, BeatsAre
<1>5. reply'.finish_reason = message.finish_reason
  BY <1>1 DEF Assembled
<1>6. ASSUME ~told_error, beats_sent = Len(bs)
      PROVE  reply' = Chat(k, r, a) /\ reply'.finish_reason # Unset
  <2>1. SubSeq(bs, 1, Len(bs)) = bs
    BY <1>4, WholePrefix
  <2>2. PutTogether(k, r, a, bs, TRUE, message)
    <3> HIDE DEF bs
    <3> QED  BY <1>2, <1>6, <2>1 DEF HeardSoFar, bs
  <2>3. reply' = Chat(k, r, a)
    BY <1>1, <1>2, <1>3, <2>2, WholeHeard
  <2>4. Chat(k, r, a).finish_reason \in FinishReason
    BY <1>2, <1>3, FinalType DEF ProviderKind
  <2> HIDE DEF k, r, a
  <2> QED  BY <2>3, <2>4, UnsetIsApart
<1>7. ASSUME ~told_error, beats_sent # Len(bs)
      PROVE  reply'.finish_reason = Unset /\ beats_sent < Len(bs)
  <2>1. PutTogether(k, r, a, SubSeq(bs, 1, beats_sent), beats_sent = Len(bs), message)
    BY <1>2, <1>7 DEF HeardSoFar
  <2>2. message.finish_reason = Unset
    BY <1>7, <2>1 DEF PutTogether
  <2>3. beats_sent < Len(bs)
    <3> HIDE DEF bs
    <3> QED  BY <1>2, <1>4, <1>7
  <2> QED  BY <1>5, <2>2, <2>3
<1>8. StreamMatchesChat'
  BY <1>6, <1>7, <1>1 DEF StreamMatchesChat
<1>9. StreamInv'
  BY <1>1 DEF AnswersInv, StreamInv, Unasked
<1>10. ToolInv'
  BY <1>1, <1>2 DEF ToolInv
<1> QED  BY <1>1, <1>2, <1>8, <1>9, <1>10 DEF AnswersInv, ToolAnswersMatch

LEMMA UnchangedAnswers == AnswersInv /\ UNCHANGED pipeline_vars => AnswersInv'
BY DEF AnswersInv, StreamInv, ToolInv, StreamMatchesChat, ToolAnswersMatch, pipeline_vars, turn_vars,
       HeardSoFar, Answers_, Unasked

LEMMA PipelineKeepsAnswers ==
  ASSUME AnswersInv, PipelineNext
  PROVE  AnswersInv'
<1>1. ASSUME Open PROVE AnswersInv'
  BY <1>1, Arriving, StagesFollow DEF Open, Arrival
<1>2. ASSUME OpenTool PROVE AnswersInv'
  BY <1>2, Arriving DEF OpenTool
<1>3. ASSUME NEW keep \in BOOLEAN, FollowUp(keep) PROVE AnswersInv'
  BY <1>3, Arriving, StagesFollow DEF FollowUp, Arrival
<1>4. ASSUME NEW a \in Answerable, phase = "asked", AnswerWhole(a) \/ OpenStream(a) PROVE AnswersInv'
  BY <1>4, WholeAnswersKeepAnswers, OpeningsKeepAnswers
<1> QED  BY <1>1, <1>2, <1>3, <1>4, StagesKeepAnswers, CandidatesKeepAnswers, RemembersKeepAnswers,
            RepliesKeepAnswers, EventsKeepAnswers, GarbledEventsKeepAnswers, EndsKeepAnswers
         DEF PipelineNext

-----------------------------------------------------------------------------
(* The embeddings calls.                                                   *)

(* A list of a batch's positions without repetition has every position.    *)
LEMMA NoneIsLeftOut ==
  ASSUME NEW n \in Nat, NEW o \in [1..n -> 1..n], \A i, j \in 1..n : o[i] = o[j] => i = j,
         NEW i \in 1..n
  PROVE  \E j \in 1..n : o[j] = i
<1>1. IsFiniteSet(1..n)
  BY FS_Interval
<1>2. o \in Injection(1..n, 1..n)
  BY DEF Injection, IsInjective
<1>3. o \in Surjection(1..n, 1..n)
  BY <1>1, <1>2, FS_Injection
<1> QED  BY <1>3 DEF Surjection

(* Data that has a vector for each text, at its position.                  *)
Cover(data, texts) ==
  /\ Len(data) = Len(texts)
  /\ \A i \in DOMAIN texts : \E d \in ToSet(data) : d.index = i - 1 /\ d.embedding = texts[i]

(* Whatever the provider's order, its vectors cover the texts.             *)
LEMMA VectorsCover ==
  ASSUME NEW kind, NEW request, NEW texts \in Seq(Text), AsSlice(request.input) = texts,
         NEW brought \in ProviderVectors(kind, WireInput(kind, request))
  PROVE  Cover(Embeddings_(kind, brought).data, texts)
<1> DEFINE n == Len(texts)
           data == Embeddings_(kind, brought).data
           Entry_(j) == [embedding |-> brought[j].values, index |-> brought[j].index]
<1>1. AsSlice(WireInput(kind, request)) = texts
  BY DEF AsSlice, WireInput
<1>2. n \in Nat /\ DOMAIN texts = 1..n
  OBVIOUS
<1>3. PICK o \in [1..n -> 1..n] :
        /\ brought = [i \in 1..n |-> [values |-> texts[o[i]], index |-> o[i] - 1]]
        /\ \A i, j \in 1..n : o[i] = o[j] => i = j
        /\ kind = "gemini" => \A i \in 1..n : o[i] = i
  <2> HIDE DEF n
  <2>1. CASE kind = "gemini"
    <3> DEFINE id == [i \in 1..n |-> i]
    <3>1. brought = [i \in 1..n |-> [values |-> texts[id[i]], index |-> id[i] - 1]]
      BY <1>1, <1>2, <2>1 DEF ProviderVectors
    <3>2. id \in [1..n -> 1..n] /\ \A i \in 1..n : id[i] = i
      OBVIOUS
    <3> HIDE DEF id
    <3> QED  BY <3>1, <3>2
  <2>2. CASE kind # "gemini"
    <3>1. PICK o \in { p \in [1..n -> 1..n] : \A i, j \in 1..n : p[i] = p[j] => i = j } :
            brought = [i \in 1..n |-> [values |-> texts[o[i]], index |-> o[i] - 1]]
      <4> DEFINE t == AsSlice(WireInput(kind, request))
                 orders == { p \in [DOMAIN t -> DOMAIN t] : \A i, j \in DOMAIN t : p[i] = p[j] => i = j }
      <4>1. brought \in { [i \in DOMAIN t |-> [values |-> t[p[i]], index |-> p[i] - 1]] : p \in orders }
        BY <2>2 DEF ProviderVectors
      <4>2. t = texts /\ DOMAIN t = 1..n
        BY <1>1, <1>2
      <4> HIDE DEF t
      <4>3. PICK q \in orders : brought = [i \in DOMAIN t |-> [values |-> t[q[i]], index |-> q[i] - 1]]
        BY <4>1
      <4>4. orders = { z \in [1..n -> 1..n] : \A i, j \in 1..n : z[i] = z[j] => i = j }
        BY <4>2
      <4>5. brought = [i \in 1..n |-> [values |-> texts[q[i]], index |-> q[i] - 1]]
        BY <4>2, <4>3
      <4> QED  BY <4>3, <4>4, <4>5
    <3> QED  BY <2>2, <3>1
  <2> QED  BY <2>1, <2>2
<1>4. DOMAIN brought = 1..n /\ \A i \in 1..n : brought[i].values = texts[o[i]] /\ brought[i].index = o[i] - 1
  BY <1>3
<1> HIDE DEF n
<1>5. data = [i \in 1..n |-> Entry_(i)]
  BY <1>4, <1>3 DEF Embeddings_, GeminiEmbeddings, OpenAiEmbeddings
<1> HIDE DEF data
<1>6. Len(data) = n /\ DOMAIN data = 1..n
  BY <1>2, FunctionIsASequence, <1>5
<1>7. ASSUME NEW i \in 1..n
      PROVE  \E d \in ToSet(data) : d.index = i - 1 /\ d.embedding = texts[i]
  <2>1. PICK j \in 1..n : o[j] = i
    <3>1. \A z \in 1..n : \E j \in 1..n : o[j] = z
      BY <1>2, <1>3, NoneIsLeftOut, Zenon
    <3> QED  BY <3>1
  <2>2. data[j].index = i - 1 /\ data[j].embedding = texts[i]
    BY <1>4, <1>5, <2>1
  <2>3. data[j] \in ToSet(data)
    BY <1>6 DEF ToSet
  <2> QED  BY <2>2, <2>3
<1> QED  BY <1>2, <1>6, <1>7 DEF Cover, data, n

(* What a call asks for is a list of texts, as a single text or a batch.   *)
LEMMA InputFacts ==
  ASSUME NEW by \in {"http", "tool", "cache"}, NEW input \in InputsBy(by)
  PROVE  /\ input.texts \in Seq(Text) /\ AsSlice(input) = input.texts
         /\ by = "cache" => Len(input.texts) = 1
<1> DEFINE Single(texts) == [single |-> TRUE, texts |-> <<texts[1]>>]
           Batch(texts) == [single |-> FALSE, texts |-> texts]
<1>1. \A texts \in Inputs : texts \in Seq(Text)
  BY EmbeddingAssumption
<1>2. \/ \E texts \in Inputs : input = Batch(texts) /\ by # "cache"
      \/ \E texts \in Inputs : Len(texts) = 1 /\ input = Single(texts)
  BY DEF InputsBy
<1>3. ASSUME NEW texts \in Inputs, input = Batch(texts), by # "cache"
      PROVE  input.texts \in Seq(Text) /\ AsSlice(input) = input.texts
  BY <1>1, <1>3 DEF AsSlice
<1>4. ASSUME NEW texts \in Inputs, Len(texts) = 1, input = Single(texts)
      PROVE  input.texts \in Seq(Text) /\ AsSlice(input) = input.texts /\ Len(input.texts) = 1
  <2>1. texts[1] \in Text
    BY <1>1, <1>4
  <2> QED  BY <1>4, <2>1 DEF AsSlice
<1> QED  BY <1>2, <1>3, <1>4

(* A candidate's failure is one of those an embeddings call can meet.      *)
Met == {"not_configured", "rate_limited", "unsupported_feature", "auth", "invalid_request",
        "upstream_5xx", "upstream_4xx", "timeout", "network", "decode", "invalid_model"}

IsFailure(f) ==
  /\ f.error \in Met /\ f.upstream \in Nat /\ f.wait \in Nat
  /\ f.wait > 0 => f.error = "rate_limited"
  /\ f.error = "upstream_5xx" => f.upstream >= 500
  /\ f.error = "upstream_4xx" => f.upstream < 500

Outcomes == {"not_configured", "rate_limited", "retryable_error", "success", "error"}

CallFields == {"at", "by", "input", "pos", "attempts", "failure", "response", "told"}

(* How far a call is in the chain, and what it counted on the way.         *)
PlaceInv ==
  LET n == Len(config.chain)
  IN /\ call.pos \in Nat \ {0}
     /\ Len(call.attempts) \in Nat
     /\ call.at \in {"none", "loop"} => Len(call.attempts) = call.pos - 1 /\ call.pos <= n + 1
     /\ call.at = "asked" => Len(call.attempts) = call.pos - 1 /\ call.pos <= n
     /\ call.at = "failed" => \/ call.pos > n /\ Len(call.attempts) = n
                              \/ call.failure.error \in Fatal /\ Len(call.attempts) = call.pos

CallInv ==
  /\ DOMAIN call = CallFields /\ call.attempts \in Seq(Outcomes)
  /\ call.at \in {"none", "loop", "asked", "answered", "failed"}
  /\ call.by \in {"http", "tool", "cache"}
  /\ call.at # "none" => call.input \in InputsBy(call.by)
  /\ PlaceInv
  /\ call.failure = NoFailure \/ IsFailure(call.failure)
  /\ call.at = "failed" => IsFailure(call.failure)
  /\ call.told # Unset =>
       /\ call.at = "failed"
       /\ call.told.status = status_code(call.failure.error, call.failure.upstream)
       /\ call.told.retry_after # Unset => call.failure.wait > 0
  /\ EmbeddingsFollowInputs

CallsInv == AnswersInv /\ CallInv

(* The failures a call can meet are well formed.                           *)
LEMMA FailureFacts ==
  /\ \A e \in {"not_configured", "unsupported_feature", "timeout", "network", "decode", "invalid_model"} :
       IsFailure([NoFailure EXCEPT !.error = e])
  /\ \A wait \in Waits \ {0} :
       IsFailure([NoFailure EXCEPT !.error = "rate_limited", !.wait = wait])
  /\ \A f \in Failures : IsFailure(f)
<1>1. ASSUME NEW e \in {"not_configured", "unsupported_feature", "timeout", "network", "decode", "invalid_model"}
      PROVE  IsFailure([NoFailure EXCEPT !.error = e])
  BY DEF IsFailure, NoFailure, Met
<1>2. ASSUME NEW wait \in Waits \ {0}
      PROVE  IsFailure([NoFailure EXCEPT !.error = "rate_limited", !.wait = wait])
  BY EmbeddingAssumption DEF IsFailure, NoFailure, Met
<1>3. ASSUME NEW status \in Statuses, NEW wait \in Waits
      PROVE  IsFailure([error |-> map_error_response(status), upstream |-> status,
                        wait |-> IF status = 429 THEN wait ELSE 0])
  BY EmbeddingAssumption DEF map_error_response, Met, IsFailure
<1>4. ASSUME NEW f \in Failures PROVE IsFailure(f)
  <2>1. CASE f \in { [NoFailure EXCEPT !.error = e] : e \in {"timeout", "network", "decode"} }
    BY <1>1, <2>1
  <2>2. CASE f \in { [error |-> map_error_response(status), upstream |-> status,
                      wait |-> IF status = 429 THEN wait ELSE 0] : status \in Statuses, wait \in Waits }
    BY <1>3, <2>2
  <2> QED  BY <1>4, <2>1, <2>2 DEF Failures
<1> QED  BY <1>1, <1>2, <1>4

(* What a client is told of a failure.                                     *)
LEMMA StatusFacts ==
  ASSUME NEW f, IsFailure(f)
  PROVE  /\ f.wait > 0 => status_code(f.error, f.upstream) = 429
         /\ status_code(f.error, f.upstream) >= 500 <=>
              f.error \in {"timeout", "network", "decode", "upstream_5xx"}
<1>1. f.upstream \in Nat /\ f.error \in Met /\ (f.wait > 0 => f.error = "rate_limited")
      /\ (f.error = "upstream_5xx" => f.upstream >= 500) /\ (f.error = "upstream_4xx" => f.upstream < 500)
  BY DEF IsFailure
<1>2. /\ status_code("invalid_model", f.upstream) = 400 /\ status_code("not_configured", f.upstream) = 424
      /\ status_code("auth", f.upstream) = 401 /\ status_code("invalid_request", f.upstream) = 400
      /\ status_code("unsupported_feature", f.upstream) = 400 /\ status_code("rate_limited", f.upstream) = 429
      /\ status_code("upstream_4xx", f.upstream) = f.upstream /\ status_code("upstream_5xx", f.upstream) = f.upstream
      /\ status_code("timeout", f.upstream) = 504 /\ status_code("network", f.upstream) = 502
      /\ status_code("decode", f.upstream) = 502
  BY DEF status_code, ProviderStatus
<1> QED  BY <1>1, <1>2 DEF Met

LEMMA CallsStart == CallsInit => CallsInv
<1> SUFFICES ASSUME CallsInit PROVE CallsInv
  OBVIOUS
<1>1. AnswersInv /\ call = NoCall /\ config \in Configs
  BY StreamStarts DEF CallsInit, PipelineInit
<1>2. Len(config.chain) \in Nat
  BY <1>1, ConfigAssumption DEF IsConfig
<1>3. CallInv
  BY <1>1, <1>2 DEF CallInv, NoCall, PlaceInv, CallFields, EmbeddingsFollowInputs
<1> QED  BY <1>1, <1>3 DEF CallsInv

(* The pipeline leaves the calls alone.                                    *)
LEMMA PipelineKeepsCalls ==
  ASSUME CallsInv, AnswersInv', config' = config, call' = call
  PROVE  CallsInv'
BY DEF CallsInv, CallInv, PlaceInv, EmbeddingsFollowInputs

LEMMA ConfigStays == PipelineNext => config' = config
BY DEF PipelineNext, Open, OpenTool, Arrival, Receive, apply_preset, apply_web_search, apply_guardrails,
       apply_moderation, check_client_budget, Ask, CandidateFails, NoneLeft, AnswerWhole, OpenStream,
       Remember, Reply, NextEvent, GarbledEvent, EndStream, FollowUp, Unstaged, Undispatched

LEMMA CallFacts ==
  ASSUME CallsInv
  PROVE  /\ DOMAIN call = CallFields /\ call.attempts \in Seq(Outcomes) /\ PlaceInv
         /\ Len(config.chain) \in Nat
BY ConfigAssumption DEF CallsInv, CallInv, AnswersInv, StreamInv, IsConfig

(* The next candidate's turn.                                              *)
LEMMA MissingKeepsCalls ==
  ASSUME CallsInv, UNCHANGED pipeline_vars, NEW failure, IsFailure(failure),
         NEW outcome \in Outcomes, call' = Missed(failure, outcome),
         call.at \in {"loop", "asked"}, call.pos <= Len(config.chain)
  PROVE  CallsInv'
<1>1. AnswersInv' /\ config' = config
  BY UnchangedAnswers DEF CallsInv, pipeline_vars
<1>2. DOMAIN call = CallFields /\ call.attempts \in Seq(Outcomes) /\ PlaceInv /\ Len(config.chain) \in Nat
  BY CallFacts
<1>3. Append(call.attempts, outcome) \in Seq(Outcomes)
      /\ Len(Append(call.attempts, outcome)) = Len(call.attempts) + 1
  BY <1>2
<1>4. /\ DOMAIN call' = CallFields /\ call'.attempts = Append(call.attempts, outcome)
      /\ call'.at = "loop" /\ call'.pos = call.pos + 1 /\ call'.failure = failure
      /\ call'.by = call.by /\ call'.input = call.input /\ call'.told = call.told
  BY <1>2 DEF Missed, Attempted, CallFields
<1>5. PlaceInv'
  <2>1. call.pos \in Nat \ {0} /\ Len(call.attempts) = call.pos - 1
    BY <1>2 DEF PlaceInv
  <2>2. Len(call'.attempts) = call'.pos - 1 /\ call'.pos \in Nat \ {0}
        /\ Len(call'.attempts) \in Nat /\ call'.pos <= Len(config.chain) + 1
    BY <1>2, <1>3, <1>4, <2>1
  <2> QED  BY <1>1, <1>4, <2>2 DEF PlaceInv
<1>6. call.told = Unset
  BY DEF CallsInv, CallInv
<1>7. CallInv'
  BY <1>3, <1>4, <1>5, <1>6 DEF CallsInv, CallInv, EmbeddingsFollowInputs
<1> QED  BY <1>1, <1>7 DEF CallsInv

LEMMA CallsGoOn ==
  ASSUME CallsInv, CallsNext
  PROVE  CallsInv'
<1>1. ASSUME call.at = "none", PipelineNext, UNCHANGED call PROVE CallsInv'
  BY <1>1, PipelineKeepsAnswers, PipelineKeepsCalls, ConfigStays DEF CallsInv
<1>2. UNCHANGED pipeline_vars => AnswersInv' /\ config' = config
  BY UnchangedAnswers DEF CallsInv, pipeline_vars
<1>3. DOMAIN call = CallFields /\ call.attempts \in Seq(Outcomes) /\ PlaceInv /\ Len(config.chain) \in Nat
  BY CallFacts
<1>4. ASSUME NEW by \in {"http", "tool", "cache"}, Begin(by) PROVE CallsInv'
  <2>1. PICK input \in InputsBy(by) : call' = [NoCall EXCEPT !.at = "loop", !.by = by, !.input = input]
    BY <1>4 DEF Begin
  <2>2. UNCHANGED pipeline_vars
    BY <1>4 DEF Begin
  <2>3. /\ DOMAIN call' = CallFields /\ call'.at = "loop" /\ call'.by = by /\ call'.input = input
        /\ call'.pos = 1 /\ call'.attempts = <<>> /\ call'.failure = NoFailure /\ call'.told = Unset
    BY <2>1 DEF NoCall, CallFields
  <2>4. CallInv'
    BY <1>2, <1>3, <2>2, <2>3 DEF CallInv, PlaceInv, EmbeddingsFollowInputs
  <2> QED  BY <1>2, <2>2, <2>4 DEF CallsInv
<1>5. ASSUME SkipCandidate PROVE CallsInv'
  <2>1. CASE call' = Missed([NoFailure EXCEPT !.error = "not_configured"], "not_configured")
    <3>1. IsFailure([NoFailure EXCEPT !.error = "not_configured"]) /\ "not_configured" \in Outcomes
      BY FailureFacts DEF Outcomes
    <3>2. UNCHANGED pipeline_vars /\ call.at \in {"loop", "asked"} /\ call.pos <= Len(config.chain)
      BY <1>5 DEF SkipCandidate
    <3> QED  BY <2>1, <3>1, <3>2, MissingKeepsCalls
  <2>2. ASSUME NEW wait \in Waits \ {0},
               call' = Missed([NoFailure EXCEPT !.error = "rate_limited", !.wait = wait], "rate_limited")
        PROVE  CallsInv'
    <3>1. IsFailure([NoFailure EXCEPT !.error = "rate_limited", !.wait = wait]) /\ "rate_limited" \in Outcomes
      BY FailureFacts DEF Outcomes
    <3>2. UNCHANGED pipeline_vars /\ call.at \in {"loop", "asked"} /\ call.pos <= Len(config.chain)
      BY <1>5 DEF SkipCandidate
    <3> QED  BY <2>2, <3>1, <3>2, MissingKeepsCalls
  <2> QED  BY <1>5, <2>1, <2>2 DEF SkipCandidate
<1>6. ASSUME AskEmbeddings PROVE CallsInv'
  <2>1. call.at = "loop" /\ call.pos <= Len(config.chain) /\ UNCHANGED pipeline_vars
    BY <1>6 DEF AskEmbeddings
  <2>2. CASE call' = Missed([NoFailure EXCEPT !.error = "unsupported_feature"], "retryable_error")
    <3>1. IsFailure([NoFailure EXCEPT !.error = "unsupported_feature"]) /\ "retryable_error" \in Outcomes
      BY FailureFacts DEF Outcomes
    <3> QED  BY <2>1, <2>2, <3>1, MissingKeepsCalls
  <2>3. CASE call' = [call EXCEPT !.at = "asked"]
    BY <1>3, <2>3, <1>2, <2>1 DEF CallFields, PlaceInv, CallsInv, CallInv, EmbeddingsFollowInputs
  <2> QED  BY <1>6, <2>2, <2>3 DEF AskEmbeddings
<1>7. ASSUME AnswerEmbeddings PROVE CallsInv'
  <2>1. PICK brought \in ProviderVectors(Kind, WireInput(Kind, call)) :
          call' = [Attempted("success") EXCEPT !.at = "answered", !.response = Embeddings_(Kind, brought)]
    BY <1>7 DEF AnswerEmbeddings
  <2>2. call.at = "asked" /\ UNCHANGED pipeline_vars
    BY <1>7 DEF AnswerEmbeddings
  <2>3. /\ DOMAIN call' = CallFields /\ call'.at = "answered" /\ call'.by = call.by /\ call'.input = call.input
        /\ call'.pos = call.pos /\ call'.attempts = Append(call.attempts, "success")
        /\ call'.failure = call.failure /\ call'.told = call.told
        /\ call'.response = Embeddings_(Kind, brought)
    BY <1>3, <2>1 DEF CallFields, Attempted
  <2>4. call.input \in InputsBy(call.by) /\ call.by \in {"http", "tool", "cache"} /\ call.told = Unset
    BY <2>2 DEF CallsInv, CallInv
  <2>5. call.input.texts \in Seq(Text) /\ AsSlice(call.input) = call.input.texts
        /\ (call.by = "cache" => Len(call.input.texts) = 1)
    BY <2>4, InputFacts
  <2>6. Cover(Embeddings_(Kind, brought).data, call.input.texts)
    BY <2>5, VectorsCover
  <2>7. EmbeddingsFollowInputs'
    BY <2>3, <2>6, <2>5 DEF Cover, ToSet, EmbeddingsFollowInputs
  <2>8. PlaceInv'
    BY <1>3, <2>3 DEF PlaceInv
  <2>9. Append(call.attempts, "success") \in Seq(Outcomes)
    BY <1>3 DEF Outcomes
  <2>10. CallInv'
    BY <2>3, <2>4, <2>7, <2>8, <2>9 DEF CallsInv, CallInv
  <2> QED  BY <1>2, <2>2, <2>10 DEF CallsInv
<1>8. ASSUME FailEmbeddings PROVE CallsInv'
  <2>1. PICK failure \in Failures :
          call' = IF IsRetryable(failure.error) THEN Missed(failure, "retryable_error")
                  ELSE [Attempted("error") EXCEPT !.at = "failed", !.failure = failure]
    BY <1>8 DEF FailEmbeddings
  <2>2. call.at = "asked" /\ UNCHANGED pipeline_vars /\ IsFailure(failure)
    BY <1>8, FailureFacts DEF FailEmbeddings
  <2>3. CASE IsRetryable(failure.error)
    <3>1. call.pos <= Len(config.chain)
      BY <1>3, <2>2 DEF PlaceInv
    <3>2. "retryable_error" \in Outcomes
      BY DEF Outcomes
    <3> QED  BY <2>1, <2>2, <2>3, <3>1, <3>2, MissingKeepsCalls
  <2>4. CASE ~IsRetryable(failure.error)
    <3>1. /\ DOMAIN call' = CallFields /\ call'.at = "failed" /\ call'.by = call.by /\ call'.input = call.input
          /\ call'.pos = call.pos /\ call'.attempts = Append(call.attempts, "error")
          /\ call'.failure = failure /\ call'.told = call.told
      BY <1>3, <2>1, <2>4 DEF CallFields, Attempted
    <3>2. Append(call.attempts, "error") \in Seq(Outcomes) /\ Len(call'.attempts) = Len(call.attempts) + 1
      BY <1>3, <3>1 DEF Outcomes
    <3>3. failure.error \in Fatal
      BY <2>4 DEF Failures, NoFailure, IsRetryable, Retryable, Fatal, map_error_response
    <3>4. PlaceInv'
      BY <1>3, <2>2, <3>1, <3>2, <3>3 DEF PlaceInv
    <3>5. call.told = Unset
      BY <2>2 DEF CallsInv, CallInv
    <3>6. CallInv'
      BY <2>2, <3>1, <3>2, <3>4, <3>5 DEF CallsInv, CallInv, EmbeddingsFollowInputs
    <3> QED  BY <1>2, <2>2, <3>6 DEF CallsInv
  <2> QED  BY <2>3, <2>4
<1>9. ASSUME ExhaustEmbeddings PROVE CallsInv'
  <2>1. /\ call.at = "loop" /\ call.pos > Len(config.chain) /\ UNCHANGED pipeline_vars
        /\ call' = [call EXCEPT !.at = "failed",
                                !.failure = IF @ = NoFailure THEN [@ EXCEPT !.error = "invalid_model"] ELSE @]
    BY <1>9 DEF ExhaustEmbeddings
  <2>2. /\ DOMAIN call' = CallFields /\ call'.at = "failed" /\ call'.by = call.by /\ call'.input = call.input
        /\ call'.pos = call.pos /\ call'.attempts = call.attempts /\ call'.told = call.told
        /\ call'.failure = IF call.failure = NoFailure THEN [NoFailure EXCEPT !.error = "invalid_model"]
                           ELSE call.failure
    BY <1>3, <2>1 DEF CallFields
  <2>3. IsFailure(call'.failure)
    BY <2>2, FailureFacts DEF CallsInv, CallInv
  <2>4. PlaceInv'
    BY <1>2, <1>3, <2>1, <2>2 DEF PlaceInv
  <2>5. call.told = Unset
    BY <2>1 DEF CallsInv, CallInv
  <2>6. CallInv'
    BY <2>1, <2>2, <2>3, <2>4, <2>5 DEF CallsInv, CallInv, EmbeddingsFollowInputs
  <2> QED  BY <1>2, <2>1, <2>6 DEF CallsInv
<1>10. ASSUME TellFailure PROVE CallsInv'
  <2> DEFINE told == [status |-> status_code(call.failure.error, call.failure.upstream),
                      retry_after |-> IF call.failure.wait > 0 THEN call.failure.wait ELSE Unset]
  <2>1. call.at = "failed" /\ UNCHANGED pipeline_vars /\ call' = [call EXCEPT !.told = told]
    BY <1>10 DEF TellFailure
  <2>2. /\ DOMAIN call' = CallFields /\ call'.at = "failed" /\ call'.by = call.by /\ call'.input = call.input
        /\ call'.pos = call.pos /\ call'.attempts = call.attempts /\ call'.failure = call.failure
        /\ call'.told = told
    BY <1>3, <2>1 DEF CallFields
  <2>3. told.status = status_code(call.failure.error, call.failure.upstream)
        /\ (told.retry_after # Unset => call.failure.wait > 0)
    OBVIOUS
  <2> HIDE DEF told
  <2>4. PlaceInv'
    BY <1>2, <1>3, <2>1, <2>2 DEF PlaceInv
  <2>5. CallInv'
    BY <2>1, <2>2, <2>3, <2>4 DEF CallsInv, CallInv, EmbeddingsFollowInputs
  <2> QED  BY <1>2, <2>1, <2>5 DEF CallsInv
<1> QED  BY <1>1, <1>4, <1>5, <1>6, <1>7, <1>8, <1>9, <1>10 DEF CallsNext

LEMMA UnchangedCalls == CallsInv /\ UNCHANGED all_vars => CallsInv'
BY UnchangedAnswers, PipelineKeepsCalls DEF CallsInv, all_vars, pipeline_vars

LEMMA CallsInvImplies == CallsInv => AnswersAreWhole
BY StatusFacts DEF CallsInv, AnswersInv, CallInv, FailuresAreTold, PlaceInv, AnswersAreWhole

(* Whoever asked, and in whatever form, has the provider's answer whole.   *)
THEOREM AnswersStayWhole == CallsSpec => []AnswersAreWhole
<1>1. CallsInit => CallsInv
  BY CallsStart
<1>2. CallsInv /\ [CallsNext]_all_vars => CallsInv'
  BY CallsGoOn, UnchangedCalls
<1> QED  BY <1>1, <1>2, CallsInvImplies, PTL DEF CallsSpec

-----------------------------------------------------------------------------
(* The semantic cache.  A similarity is a fraction, and AtMost orders the  *)
(* fractions.                                                              *)
Fraction == Int \X (Nat \ {0})

Sums(f, a, b, n) == f = [i \in 0..n |-> IF i = 0 THEN 0 ELSE f[i - 1] + a[i] * b[i]]

LEMMA SumsAt ==
  ASSUME NEW a, NEW b, NEW n \in Nat, NEW f, Sums(f, a, b, n), NEW i \in 0..n
  PROVE  f[i] = IF i = 0 THEN 0 ELSE f[i - 1] + a[i] * b[i]
BY DEF Sums

LEMMA SummingExists ==
  ASSUME NEW a, NEW b, NEW n \in Nat
  PROVE  \E f : Sums(f, a, b, n)
<1> DEFINE T == { k \in Nat : \E f : Sums(f, a, b, k) }
<1>1. 0 \in T
  <2> DEFINE f == [i \in 0..0 |-> 0]
  <2>1. f = [i \in 0..0 |-> IF i = 0 THEN 0 ELSE f[i - 1] + a[i] * b[i]]
    OBVIOUS
  <2>2. Sums(f, a, b, 0)
    BY <2>1 DEF Sums
  <2> QED  BY <2>2
<1>2. ASSUME NEW k \in Nat, k \in T PROVE k + 1 \in T
  <2>1. PICK f : Sums(f, a, b, k)
    BY <1>2
  <2> DEFINE g == [i \in 0..k + 1 |-> IF i <= k THEN f[i] ELSE f[i - 1] + a[i] * b[i]]
  <2>2. ASSUME NEW i \in 0..k + 1 PROVE g[i] = IF i = 0 THEN 0 ELSE g[i - 1] + a[i] * b[i]
    BY <1>2, <2>1, SumsAt
  <2>3. g = [i \in 0..k + 1 |-> g[i]]
    OBVIOUS
  <2> HIDE DEF g
  <2>4. Sums(g, a, b, k + 1)
    BY <2>2, <2>3 DEF Sums
  <2> QED  BY <2>4
<1> HIDE DEF T
<1>3. Nat \subseteq T
  BY <1>1, <1>2, Inductive
<1> QED  BY <1>3 DEF T

LEMMA ProductType ==
  ASSUME NEW a \in Seq(Int), NEW b \in Seq(Int), Len(a) = Len(b)
  PROVE  DotProduct(a, b) \in Int /\ (a = b => DotProduct(a, b) \in Nat)
<1> DEFINE n == Len(a)
           f == CHOOSE h : h = [i \in 0..n |-> IF i = 0 THEN 0 ELSE h[i - 1] + a[i] * b[i]]
<1>1. n \in Nat /\ \A i \in 1..n : a[i] \in Int /\ b[i] \in Int
  OBVIOUS
<1>2. DotProduct(a, b) = f[n]
  BY DEF DotProduct
<1> HIDE DEF n
<1>3. Sums(f, a, b, n)
  <2>1. \E h : h = [i \in 0..n |-> IF i = 0 THEN 0 ELSE h[i - 1] + a[i] * b[i]]
    <3>1. PICK h : Sums(h, a, b, n)
      BY <1>1, SummingExists
    <3>2. h = [i \in 0..n |-> IF i = 0 THEN 0 ELSE h[i - 1] + a[i] * b[i]]
      BY <3>1, Zenon DEF Sums
    <3> QED  BY <3>2
  <2> QED  BY <2>1 DEF Sums
<1> HIDE DEF f
<1> DEFINE T == { k \in Nat : k <= n => f[k] \in Int /\ (a = b => f[k] \in Nat) }
<1>4. 0 \in T
  BY <1>1, <1>3, SumsAt
<1>5. ASSUME NEW k \in Nat, k \in T PROVE k + 1 \in T
  <2> SUFFICES ASSUME k + 1 <= n PROVE f[k + 1] \in Int /\ (a = b => f[k + 1] \in Nat)
    OBVIOUS
  <2>1. k + 1 \in 0..n /\ k + 1 \in 1..n /\ (k + 1) - 1 = k /\ k + 1 # 0
    BY <1>1
  <2>2. f[k] \in Int /\ (a = b => f[k] \in Nat)
    BY <1>1, <1>5
  <2>3. f[k + 1] = f[(k + 1) - 1] + a[k + 1] * b[k + 1]
    BY <1>1, <1>3, <2>1, SumsAt
  <2>4. f[k + 1] = f[k] + a[k + 1] * b[k + 1]
    BY <2>1, <2>3
  <2>5. a[k + 1] \in Int /\ b[k + 1] \in Int
    BY <1>1, <2>1
  <2>6. ASSUME NEW x \in Int PROVE x * x \in Nat
    BY <2>6
  <2>7. a = b => a[k + 1] * b[k + 1] \in Nat
    BY <2>5, <2>6
  <2>8. a[k + 1] * b[k + 1] \in Int
    BY <2>5
  <2> QED  BY <2>2, <2>4, <2>7, <2>8
<1> HIDE DEF T
<1>6. Nat \subseteq T
  BY <1>4, <1>5, Inductive
<1> QED  BY <1>1, <1>2, <1>6 DEF T

LEMMA SquaredType == \A n \in Int : Squared(n) \in Int
BY DEF Squared

LEMMA SimilarityType ==
  ASSUME NEW t \in Texts, NEW u \in Texts
  PROVE  Similarity(t, u) \in Fraction
<1> DEFINE a == Embedding[t]
           b == Embedding[u]
           norms == DotProduct(a, a) * DotProduct(b, b)
<1>1. a \in Seq(Int) /\ b \in Seq(Int)
  BY CacheAssumption
<1>2. Similarity(t, u) = IF Len(a) # Len(b) \/ norms = 0 THEN <<0, 1>>
                         ELSE <<Squared(DotProduct(a, b)), norms>>
  BY DEF Similarity, cosine_similarity
<1> HIDE DEF a, b
<1>3. DotProduct(a, a) \in Nat /\ DotProduct(b, b) \in Nat
  BY <1>1, ProductType
<1>4. norms \in Nat
  BY <1>3
<1>5. CASE Len(a) # Len(b) \/ norms = 0
  BY <1>2, <1>5 DEF Fraction
<1>6. CASE Len(a) = Len(b) /\ norms # 0
  BY <1>1, <1>6, ProductType, SquaredType, <1>2, <1>4 DEF Fraction
<1> QED  BY <1>5, <1>6

LEMMA AtMostIsTotal ==
  ASSUME NEW p \in Fraction, NEW q \in Fraction
  PROVE  AtMost(p, q) \/ AtMost(q, p)
BY DEF Fraction, AtMost

LEMMA Scaling ==
  ASSUME NEW x \in Int, NEW y \in Int, NEW c \in Nat \ {0}
  PROVE  x <= y <=> x * c <= y * c
OBVIOUS

LEMMA AtMostIsTransitive ==
  ASSUME NEW p \in Fraction, NEW q \in Fraction, NEW z \in Fraction, AtMost(p, q), AtMost(q, z)
  PROVE  AtMost(p, z)
BY Scaling DEF Fraction, AtMost

(* Of finitely many fractions one is the largest, and the last of those.   *)
LEMMA LastLargest ==
  ASSUME NEW n \in Nat, NEW C \in SUBSET (1..n), C # {}, NEW sim \in [C -> Fraction]
  PROVE  \E i \in C : \A j \in C :
           AtMost(sim[j], sim[i]) /\ (AtMost(sim[i], sim[j]) => j <= i)
<1> DEFINE Largest(i, k) == \A j \in C \cap (1..k) :
             AtMost(sim[j], sim[i]) /\ (AtMost(sim[i], sim[j]) => j <= i)
           T == { k \in Nat : C \cap (1..k) # {} => \E i \in C \cap (1..k) : Largest(i, k) }
<1>1. 0 \in T
  OBVIOUS
<1>2. ASSUME NEW k \in Nat, k \in T PROVE k + 1 \in T
  <2> SUFFICES ASSUME C \cap (1..k + 1) # {} PROVE \E i \in C \cap (1..k + 1) : Largest(i, k + 1)
    BY <1>2
  <2>1. C \cap (1..k + 1) = (C \cap (1..k)) \cup (C \cap {k + 1})
    BY <1>2
  <2>2. CASE k + 1 \notin C
    BY <2>1, <2>2, <1>2
  <2>3. CASE k + 1 \in C /\ C \cap (1..k) = {}
    BY <2>1, <2>3, <1>2, AtMostIsTotal
  <2>4. CASE k + 1 \in C /\ C \cap (1..k) # {}
    <3>1. PICK i \in C \cap (1..k) : Largest(i, k)
      BY <1>2, <2>4
    <3>2. sim[i] \in Fraction /\ sim[k + 1] \in Fraction /\ i <= k + 1
      BY <1>2, <2>4, <3>1
    <3>3. CASE AtMost(sim[i], sim[k + 1])
      <4>1. ASSUME NEW j \in C \cap (1..k)
            PROVE  AtMost(sim[j], sim[k + 1]) /\ j <= k + 1
        BY <3>1, <3>2, <3>3, AtMostIsTransitive, <1>2
      <4>2. AtMost(sim[k + 1], sim[k + 1]) /\ k + 1 <= k + 1
        BY <1>2, <3>2, AtMostIsTotal
      <4>3. Largest(k + 1, k + 1)
        BY <2>1, <4>1, <4>2
      <4>4. k + 1 \in C \cap (1..k + 1)
        BY <2>1, <2>4
      <4> HIDE DEF Largest
      <4> QED  BY <4>3, <4>4
    <3>4. CASE ~AtMost(sim[i], sim[k + 1])
      BY <3>2, <3>4, AtMostIsTotal, <2>1, <3>1
    <3> QED  BY <3>3, <3>4
  <2> QED  BY <2>2, <2>3, <2>4
<1> HIDE DEF T
<1>3. Nat \subseteq T
  BY <1>1, <1>2, Inductive
<1>4. C \cap (1..n) = C
  OBVIOUS
<1> QED  BY <1>3, <1>4 DEF T

LEMMA SweptFacts ==
  ASSUME NEW S, vectors \in Seq(S)
  PROVE  /\ Swept \in Seq(S)
         /\ \A e \in ToSet(Swept) : e \in ToSet(vectors) /\ now - e.inserted_at <= TTL
<1> DEFINE I == { i \in DOMAIN vectors : now - vectors[i].inserted_at <= TTL }
<1>1. Swept = Picked(vectors, I)
  BY DEF Swept, Picked
<1> HIDE DEF I
<1>2. Picked(vectors, I) \in Seq(S)
      /\ \A x : x \in ToSet(Picked(vectors, I)) <=> \E i \in DOMAIN vectors : i \in I /\ x = vectors[i]
  BY PickedFacts
<1>3. DOMAIN vectors = 1..Len(vectors)
  OBVIOUS
<1> QED  BY <1>1, <1>2, <1>3 DEF I, ToSet

(* An entry of the semantic cache holds an answer given for its scope and  *)
(* text, stored when it says, which no request still carries.              *)
VectorsKept ==
  /\ vectors \in Seq(SemanticEntry)
  /\ \A e \in ToSet(vectors) :
       /\ e.answer <= answers /\ asked[e.answer] \in Asks
       /\ asked[e.answer].scope = e.scope /\ asked[e.answer].text = e.embedding
       /\ stored_at[e.answer] = e.inserted_at
       /\ \A r \in Requests : pc[r] = "storing" => resp[r] # e.answer

SemanticInv == VectorsKept /\ HitsAreBestMatches

LEMMA EntryFacts ==
  ASSUME vectors \in Seq(SemanticEntry), NEW e \in ToSet(vectors)
  PROVE  /\ e \in SemanticEntry /\ e.scope \in Scopes /\ e.embedding \in Texts
         /\ e.answer \in Answers /\ e.inserted_at \in 0..MaxTime
<1>1. e \in SemanticEntry
  BY DEF ToSet
<1> QED  BY <1>1 DEF SemanticEntry

(* The lookup's hit.                                                       *)
LEMMA SemanticHitIsBest ==
  ASSUME CacheInv, SemanticInv, NEW r \in Requests, SemanticHit(r)
  PROVE  HitsAreBestMatches'
<1> DEFINE e == Swept[BestMatch(r)]
           k == ask[r]
           sim == [i \in Candidates(r) |-> Similarity(Swept[i].embedding, text(r))]
<1>1. /\ Candidates(r) # {} /\ UNCHANGED <<mode, asked, stored_at>>
      /\ hit' = [answer |-> e.answer, ask |-> k,
                 live |-> {Swept[i].answer : i \in 1..Len(Swept)}, at |-> now]
      /\ mode = "semantic" /\ k \in Asks
  BY DEF SemanticHit, exact, CacheInv, Types
<1>2. k.scope \in Scopes /\ k.text \in Texts /\ scope(r) = k.scope /\ text(r) = k.text
  BY <1>1, CacheAssumption DEF scope, text, scope_key_for, request_text_for_embedding
<1>3. Swept \in Seq(SemanticEntry)
      /\ \A x \in ToSet(Swept) : x \in ToSet(vectors) /\ now - x.inserted_at <= TTL
  BY SweptFacts DEF SemanticInv, VectorsKept
<1>4. ASSUME NEW i \in 1..Len(Swept)
      PROVE  /\ Swept[i] \in ToSet(vectors) /\ now - Swept[i].inserted_at <= TTL
             /\ Swept[i].embedding \in Texts /\ Swept[i].answer \in Answers
             /\ asked[Swept[i].answer].scope = Swept[i].scope
             /\ asked[Swept[i].answer].text = Swept[i].embedding
             /\ stored_at[Swept[i].answer] = Swept[i].inserted_at
  BY <1>3, EntryFacts DEF ToSet, SemanticInv, VectorsKept
<1>5. Len(Swept) \in Nat /\ Candidates(r) \in SUBSET (1..Len(Swept))
  BY <1>3 DEF Candidates
<1>6. sim \in [Candidates(r) -> Fraction]
  BY <1>2, <1>4, <1>5, SimilarityType
<1> DEFINE b == BestMatch(r)
<1>7. /\ b \in Candidates(r)
      /\ \A j \in Candidates(r) : AtMost(sim[j], sim[b])
  BY <1>1, <1>5, <1>6, LastLargest DEF BestMatch
<1> HIDE DEF b
<1>8. /\ b \in 1..Len(Swept) /\ e = Swept[b] /\ Swept[b].scope = k.scope
      /\ SimilarEnough(Swept[b].embedding, k.text)
  BY <1>2, <1>7 DEF Candidates, b
<1> HIDE DEF e
<1> DEFINE best == Similarity(asked[e.answer].text, k.text)
<1>9. best = sim[b] /\ best \in Fraction
  BY <1>2, <1>4, <1>6, <1>7, <1>8
<1>10. ASSUME NEW a \in {Swept[i].answer : i \in 1..Len(Swept)}, asked[a].scope = k.scope
       PROVE  AtMost(Similarity(asked[a].text, k.text), best)
  <2>1. PICK j \in 1..Len(Swept) : a = Swept[j].answer
    OBVIOUS
  <2>2. asked[a].text = Swept[j].embedding /\ Swept[j].scope = k.scope /\ Swept[j].embedding \in Texts
    BY <1>4, <1>10, <2>1
  <2>3. CASE j \in Candidates(r)
    BY <1>2, <1>7, <1>9, <2>2, <2>3
  <2>4. CASE j \notin Candidates(r)
    <3> DEFINE p == Similarity(Swept[j].embedding, k.text)
               least == <<Squared(Threshold), 10000>>
    <3>1. ~AtMost(least, p)
      BY <1>2, <2>2, <2>4 DEF Candidates, SimilarEnough
    <3>2. AtMost(least, best)
      BY <1>4, <1>8 DEF SimilarEnough
    <3>3. least \in Fraction
      <4>1. Squared(Threshold) \in Int /\ 10000 \in Nat \ {0}
        BY SquaredType, CacheAssumption
      <4> QED  BY <4>1 DEF Fraction
    <3>4. p \in Fraction
      BY <1>2, <2>2, SimilarityType
    <3> HIDE DEF p, least, best
    <3>5. AtMost(p, best)
      BY <1>9, <3>1, <3>2, <3>3, <3>4, AtMostIsTotal, AtMostIsTransitive
    <3> QED  BY <2>2, <3>5 DEF p
  <2> QED  BY <2>3, <2>4
<1>11. /\ now - stored_at[e.answer] <= TTL /\ asked[e.answer].scope = k.scope
       /\ SimilarEnough(asked[e.answer].text, k.text)
  BY <1>4, <1>8
<1>12. /\ hit'.answer = e.answer /\ hit'.ask = k /\ hit'.at = now
       /\ hit'.live = {Swept[i].answer : i \in 1..Len(Swept)}
       /\ mode' # "exact" /\ asked' = asked /\ stored_at' = stored_at
  BY <1>1
<1> HIDE DEF k
<1> QED  BY <1>10, <1>11, <1>12 DEF HitsAreBestMatches

(* A step that stores nothing and adds no entry keeps the entries true.    *)
LEMMA VectorsStay ==
  ASSUME VectorsKept, vectors' \in Seq(SemanticEntry), ToSet(vectors') \subseteq ToSet(vectors),
         UNCHANGED <<answers, asked, stored_at>>,
         \A r \in Requests : pc'[r] = "storing" => pc[r] = "storing" /\ resp'[r] = resp[r]
  PROVE  VectorsKept'
BY DEF VectorsKept

(* What an insert leaves: the entries there were, but for the oldest, and  *)
(* the new one.                                                            *)
LEMMA InsertedFacts ==
  ASSUME NEW S, NEW s \in Seq(S), NEW x \in S
  PROVE  /\ Trimmed(Append(s, x)) \in Seq(S)
         /\ ToSet(Trimmed(Append(s, x))) \subseteq ToSet(s) \cup {x}
BY DEF ToSet, Trimmed

LEMMA SemanticAnswerStep ==
  ASSUME CacheInv, VectorsKept, NEW r \in Requests, ProviderAnswers(r)
  PROVE  VectorsKept'
BY BoundAssumption, EntryFacts DEF CacheInv, Types, ProviderAnswers, Answers, VectorsKept

LEMMA SemanticInsertStep ==
  ASSUME CacheInv, VectorsKept, NEW r \in Requests, SemanticStore(r)
  PROVE  VectorsKept'
<1> DEFINE new == [scope |-> scope(r), embedding |-> text(r), answer |-> resp[r], inserted_at |-> now]
<1>1. /\ pc[r] = "storing" /\ vectors' = Trimmed(Append(vectors, new))
      /\ stored_at' = [stored_at EXCEPT ![resp[r]] = now] /\ Ends(r)
      /\ UNCHANGED <<answers, asked>>
  BY DEF SemanticStore
<1>2. /\ ask[r] \in Asks /\ resp[r] \in Answers /\ resp[r] <= answers /\ asked[resp[r]] = ask[r]
      /\ now \in 0..MaxTime /\ stored_at \in [Answers -> 0..MaxTime]
  BY <1>1 DEF CacheInv, Types, Brought
<1>3. /\ ask[r].scope \in Scopes /\ ask[r].text \in Texts
      /\ scope(r) = ask[r].scope /\ text(r) = ask[r].text
  BY <1>2, CacheAssumption DEF scope, text, scope_key_for, request_text_for_embedding
<1>4. new \in SemanticEntry
  BY <1>2, <1>3 DEF SemanticEntry
<1>5. /\ new.answer = resp[r] /\ new.scope = ask[r].scope /\ new.embedding = ask[r].text
      /\ new.inserted_at = now
  BY <1>3
<1> HIDE DEF new
<1>6. vectors' \in Seq(SemanticEntry) /\ ToSet(vectors') \subseteq ToSet(vectors) \cup {new}
  BY <1>1, <1>4, InsertedFacts DEF VectorsKept
<1>7. /\ \A q \in Requests \ {r} : pc'[q] = pc[q] /\ resp'[q] = resp[q]
      /\ pc'[r] = "idle"
  BY <1>1, EndsFacts DEF CacheInv
<1>8. ASSUME NEW q \in Requests, pc'[q] = "storing"
      PROVE  pc[q] = "storing" /\ resp'[q] = resp[q] /\ resp[q] # resp[r]
  BY <1>1, <1>7, <1>8 DEF CacheInv, Brought
<1>9. ASSUME NEW e \in ToSet(vectors)
      PROVE  e.answer # resp[r] /\ stored_at'[e.answer] = e.inserted_at
  BY <1>1, EntryFacts, <1>2 DEF VectorsKept
<1>10. ASSUME NEW e \in ToSet(vectors)
       PROVE  /\ e.answer <= answers' /\ asked'[e.answer] \in Asks
              /\ asked'[e.answer].scope = e.scope /\ asked'[e.answer].text = e.embedding
              /\ stored_at'[e.answer] = e.inserted_at
              /\ \A q \in Requests : pc'[q] = "storing" => resp'[q] # e.answer
  BY <1>1, <1>8, <1>9 DEF VectorsKept
<1>11. /\ new.answer <= answers' /\ asked'[new.answer] \in Asks
       /\ asked'[new.answer].scope = new.scope /\ asked'[new.answer].text = new.embedding
       /\ stored_at'[new.answer] = new.inserted_at
       /\ \A q \in Requests : pc'[q] = "storing" => resp'[q] # new.answer
  BY <1>1, <1>2, <1>5, <1>8
<1> QED  BY <1>6, <1>10, <1>11 DEF VectorsKept

(* The exact cache's insert dates an answer no semantic entry holds.       *)
LEMMA SemanticExactStep ==
  ASSUME CacheInv, VectorsKept, NEW r \in Requests, ExactStore(r)
  PROVE  VectorsKept'
<1>1. /\ pc[r] = "storing" /\ stored_at' = [stored_at EXCEPT ![resp[r]] = now] /\ Ends(r)
      /\ UNCHANGED <<vectors, answers, asked>>
  BY DEF ExactStore
<1>2. \A q \in Requests : pc'[q] = "storing" => pc[q] = "storing" /\ resp'[q] = resp[q]
  BY <1>1, EndsFacts DEF CacheInv
<1>3. stored_at \in [Answers -> 0..MaxTime]
  BY DEF CacheInv, Types
<1>4. ASSUME NEW e \in ToSet(vectors) PROVE stored_at'[e.answer] = e.inserted_at
  BY <1>1, EntryFacts, <1>3 DEF VectorsKept
<1> QED  BY <1>1, <1>2, <1>4 DEF VectorsKept

LEMMA SemanticElsewhere ==
  ASSUME CacheInv, VectorsKept, NEW r \in Requests,
         \/ \E k \in Asks : ExactHit(r, k) \/ ExactMiss(r, k) \/ Embed(r, k)
         \/ SemanticHit(r) \/ SemanticMiss(r) \/ SkipLookup(r) \/ ProviderFails(r) \/ SkipStore(r)
  PROVE  VectorsKept'
<1>1. UNCHANGED <<answers, asked, stored_at>>
  BY DEF ExactHit, ExactMiss, Embed, SemanticHit, SemanticMiss, SkipLookup, ProviderFails, SkipStore
<1>2. vectors' = vectors \/ vectors' = Swept
  BY DEF ExactHit, ExactMiss, Embed, SemanticHit, SemanticMiss, SkipLookup, ProviderFails, SkipStore
<1>3. vectors' \in Seq(SemanticEntry) /\ ToSet(vectors') \subseteq ToSet(vectors)
  BY SweptFacts, <1>2 DEF VectorsKept
<1>4. ASSUME NEW q \in Requests, pc'[q] = "storing"
      PROVE  pc[q] = "storing" /\ resp'[q] = resp[q]
  <2>1. CASE SemanticHit(r) \/ ProviderFails(r) \/ SkipStore(r)
    BY <2>1, <1>4, EndsFacts DEF SemanticHit, ProviderFails, SkipStore, CacheInv
  <2>2. CASE (\E k \in Asks : ExactHit(r, k) \/ ExactMiss(r, k) \/ Embed(r, k))
             \/ SemanticMiss(r) \/ SkipLookup(r)
    BY <2>2, <1>4 DEF ExactHit, ExactMiss, Embed, SemanticMiss, SkipLookup, CacheInv, Types
  <2> QED  BY <2>1, <2>2
<1> QED  BY <1>1, <1>3, <1>4, VectorsStay

LEMMA SemanticKept == CacheInv /\ SemanticInv /\ [Next]_vars => SemanticInv'
<1> SUFFICES ASSUME CacheInv, SemanticInv, [Next]_vars PROVE SemanticInv'
  OBVIOUS
<1>1. ASSUME NEW r \in Requests, SemanticHit(r) PROVE SemanticInv'
  BY <1>1, SemanticHitIsBest, SemanticElsewhere DEF SemanticInv
<1>2. ASSUME NEW r \in Requests, NEW k \in Asks, ExactHit(r, k) PROVE SemanticInv'
  BY <1>2, HitStep, SemanticElsewhere DEF ExactHit, SemanticInv, CacheInv, ExactHitsOwn
<1>3. hit' = None => HitsAreBestMatches'
  BY DEF HitsAreBestMatches
<1>4. ASSUME NEW r \in Requests,
             \/ \E k \in Asks : ExactMiss(r, k) \/ Embed(r, k)
             \/ SemanticMiss(r) \/ SkipLookup(r) \/ ProviderFails(r) \/ SkipStore(r)
      PROVE  SemanticInv'
  <2>1. hit' = None
    BY <1>4 DEF ExactMiss, Embed, SemanticMiss, SkipLookup, ProviderFails, SkipStore
  <2> QED  BY <1>3, <1>4, <2>1, SemanticElsewhere DEF SemanticInv
<1>5. ASSUME NEW r \in Requests, ProviderAnswers(r) \/ ExactStore(r) \/ SemanticStore(r)
      PROVE  SemanticInv'
  BY <1>5, <1>3, SemanticAnswerStep, SemanticExactStep, SemanticInsertStep DEF ProviderAnswers,
     ExactStore, SemanticStore, SemanticInv
<1>6. CASE Tick
  BY <1>6, <1>3 DEF Tick, SemanticInv, VectorsKept
<1>7. CASE UNCHANGED vars
  BY <1>7 DEF vars, SemanticInv, VectorsKept, HitsAreBestMatches
<1> QED  BY <1>1, <1>2, <1>4, <1>5, <1>6, <1>7 DEF Next

(* A hit is no older than the TTL: of the exact cache an answer to the very *)
(* same request, of the semantic cache one to a request of the same scope  *)
(* whose text is similar enough, and none in the cache was a better match. *)
THEOREM HitsStayBestMatches == Spec => []HitsAreBestMatches
<1>1. Init => CacheInv /\ SemanticInv
  BY CacheStarts DEF ToSet, Init, SemanticInv, VectorsKept, HitsAreBestMatches
<1>2. CacheInv /\ SemanticInv /\ [Next]_vars => CacheInv' /\ SemanticInv'
  BY CacheKept, SemanticKept
<1>3. SemanticInv => HitsAreBestMatches
  BY DEF SemanticInv
<1> QED  BY <1>1, <1>2, <1>3, PTL DEF Spec

-----------------------------------------------------------------------------
(* Types.  Compaction makes texts of texts.                                *)

(* Compaction makes texts of texts.                                        *)

LEMMA CutTogether ==
  ASSUME NEW S, NEW s \in Seq(S), NEW R, NEW c, DOMAIN c = DOMAIN s, c = [i \in DOMAIN s |-> c[i]],
         \A i \in DOMAIN s : c[i] \in Seq(R)
  PROVE  FlattenSeq(c) \in Seq(R)
<1>1. DOMAIN s = 1..Len(s) /\ Len(s) \in Nat
  OBVIOUS
<1>2. c \in Seq(Seq(R))
  BY <1>1, FunctionIsASequence
<1> QED  BY <1>2, FlattenType

LEMMA DedupedText ==
  ASSUME NEW S, NEW lines \in Seq(S), RepeatMarker \in S, NEW n
  PROVE  dedupe_repeated_lines(lines, n) \in Seq(S)
<1> DEFINE Shown(i) == LET run == Run(lines, i)
                           first == i - 1 \notin run
                           long == \E j \in run : j + n - 1 \in run
                       IN IF ~long THEN <<lines[i]>>
                          ELSE IF first THEN <<lines[i], RepeatMarker>> ELSE <<>>
           c == [i \in DOMAIN lines |-> Shown(i)]
<1>1. \A i \in DOMAIN lines : Shown(i) \in Seq(S)
  OBVIOUS
<1> HIDE DEF Shown
<1>2. DOMAIN c = DOMAIN lines /\ c = [i \in DOMAIN lines |-> c[i]] /\ \A i \in DOMAIN lines : c[i] \in Seq(S)
  BY <1>1
<1> HIDE DEF c
<1>3. FlattenSeq(c) \in Seq(S)
  BY <1>2, CutTogether
<1> QED  BY <1>3 DEF dedupe_repeated_lines, c, Shown

LEMMA CollapsedText ==
  ASSUME NEW S, NEW lines \in Seq(S), OmittedMarker \in S, NEW trait
  PROVE  Collapsed(lines, trait) \in Seq(S)
<1> DEFINE Shown(i) == IF trait \notin Traits[lines[i]] THEN <<lines[i]>>
                       ELSE IF i > 1 /\ trait \in Traits[lines[i - 1]] THEN <<>>
                       ELSE <<OmittedMarker>>
           c == [i \in DOMAIN lines |-> Shown(i)]
<1>1. \A i \in DOMAIN lines : Shown(i) \in Seq(S)
  OBVIOUS
<1> HIDE DEF Shown
<1>2. DOMAIN c = DOMAIN lines /\ c = [i \in DOMAIN lines |-> c[i]] /\ \A i \in DOMAIN lines : c[i] \in Seq(S)
  BY <1>1
<1> HIDE DEF c
<1>3. FlattenSeq(c) \in Seq(S)
  BY <1>2, CutTogether
<1> QED  BY <1>3 DEF Collapsed, c, Shown

LEMMA HeadTailText ==
  ASSUME NEW S, NEW lines \in Seq(S), OmittedMarker \in S, NEW ends \in [head : Nat, tail : Nat]
  PROVE  head_tail(lines, ends) \in Seq(S)
BY DEF head_tail

LEMMA CompressedText ==
  ASSUME NEW S, NEW lines \in Seq(S), {RepeatMarker, OmittedMarker} \subseteq S
  PROVE  compress(lines) \in Seq(S)
<1> DEFINE stripped == strip_ansi(lines)
           category == classify(stripped)
<1>1. stripped \in Seq(S)
  BY PickedFacts DEF strip_ansi, Selected
<1>2. category \in {"git", "test", "build", "package", "generic"}
  BY DEF classify
<1> HIDE DEF stripped, category
<1>3. CASE category = "test"
  BY <1>1, <1>3, CollapsedText DEF compress, stripped, category
<1>4. CASE category = "build"
  BY <1>1, <1>4, CollapsedText DEF compress, stripped, category
<1>5. CASE category = "package"
  <2>1. compress(lines) = compress_package(stripped)
    BY <1>5 DEF compress, stripped, category
  <2> DEFINE summary == Selected(stripped, LAMBDA l : "summary" \in Traits[l])
  <2>2. summary \in Seq(S)
    BY <1>1, PickedFacts DEF Selected
  <2>3. head_tail(stripped, KeepEnds["package"]) \in Seq(S)
    BY <1>1, HeadTailText, StageAssumption
  <2>4. compress_package(stripped) = IF Len(stripped) <= 4 THEN stripped
                                     ELSE IF summary # <<>> THEN summary
                                     ELSE head_tail(stripped, KeepEnds["package"])
    BY DEF compress_package
  <2> HIDE DEF summary
  <2> QED  BY <1>1, <2>1, <2>2, <2>3, <2>4
<1>6. CASE category \in {"git", "generic"}
  BY <1>6, StageAssumption, <1>1, DedupedText, HeadTailText DEF compress, stripped, category
<1> QED  BY <1>2, <1>3, <1>4, <1>5, <1>6

-----------------------------------------------------------------------------
(* Every stage makes a request of a request, and leaves each message all   *)
(* but its content.                                                        *)

Conversations == Seq(ChatMessage)

(* Two messages are the same but for their contents.                       *)
Alike(m, n) ==
  /\ m.role = n.role /\ m.tool_calls = n.tool_calls /\ m.tool_call_id = n.tool_call_id
  /\ m.reasoning = n.reasoning /\ m.cache_control = n.cache_control

(* Every message of ms is one of ns, but for its content.                  *)
Among(ms, ns) == \A i \in DOMAIN ms : \E j \in DOMAIN ns : Alike(ms[i], ns[j])

LEMMA AmongSelf == ASSUME NEW ms PROVE Among(ms, ms)
BY DEF Among, Alike

LEMMA AmongTransitive ==
  ASSUME NEW ls, NEW ms, NEW ns, Among(ls, ms), Among(ms, ns)
  PROVE  Among(ls, ns)
BY DEF Among, Alike

LEMMA MessageFacts ==
  ASSUME NEW m \in ChatMessage
  PROVE  /\ m.role \in Role /\ m.content \in Optional(MessageContent)
         /\ m.tool_calls \in Seq(ToolCall) /\ m.tool_call_id \in Optional(CallIds)
         /\ m.reasoning \in Optional(Text) /\ m.cache_control \in BOOLEAN
         /\ m = [role |-> m.role, content |-> m.content, tool_calls |-> m.tool_calls,
                 tool_call_id |-> m.tool_call_id, reasoning |-> m.reasoning,
                 cache_control |-> m.cache_control]
BY DEF ChatMessage

LEMMA MessageType ==
  ASSUME NEW r \in Role, NEW lines \in Text
  PROVE  /\ Message(r, lines) \in ChatMessage
         /\ Message(r, lines).reasoning = Unset /\ Message(r, lines).tool_calls = <<>>
         /\ Message(r, lines).role = r /\ Message(r, lines).cache_control = FALSE
BY DEF TextPart, ContentPart, MessageContent, Optional, Message, ChatMessage

LEMMA ContentChanges ==
  ASSUME NEW m \in ChatMessage, NEW c \in Optional(MessageContent)
  PROVE  [m EXCEPT !.content = c] \in ChatMessage /\ Alike([m EXCEPT !.content = c], m)
BY MessageFacts DEF ChatMessage, Alike

(* Parts of a content whose text has only lines of L.                      *)
Saying(L) ==
  [kind : {"text"}, body : Seq(L)] \cup [kind : {"image_url", "file", "input_audio"}, body : Data]

LEMMA PartsAreSaying == ContentPart = Saying(Lines) /\ MessageContent = Seq(Saying(Lines))
BY DEF ContentPart, MessageContent, Saying, Text

LEMMA SayingChanges ==
  ASSUME NEW L, NEW R, NEW p \in Saying(L), IsText(p), NEW lines \in Seq(R)
  PROVE  [p EXCEPT !.body = lines] = TextPart(lines) /\ TextPart(lines) \in Saying(R)
         /\ p.body \in Seq(L)
BY DEF Saying, IsText, TextPart

LEMMA BodyChanges ==
  ASSUME NEW p \in ContentPart, IsText(p), NEW lines \in Text
  PROVE  [p EXCEPT !.body = lines] = TextPart(lines) /\ TextPart(lines) \in ContentPart
         /\ p.body \in Text
BY PartsAreSaying, SayingChanges DEF Text

(* A function on the positions of a conversation is one, if each of its    *)
(* values is a message.                                                    *)
LEMMA PointwiseMessages ==
  ASSUME NEW ms \in Conversations, NEW ns, ns = [i \in DOMAIN ms |-> ns[i]],
         \A i \in DOMAIN ms : ns[i] \in ChatMessage
  PROVE  ns \in Conversations /\ Len(ns) = Len(ms) /\ DOMAIN ns = DOMAIN ms
BY FunctionIsASequence DEF Conversations

LEMMA MapTextSays ==
  ASSUME NEW S, NEW R, NEW c \in Seq(Saying(S)), NEW change, \A l \in S : change[l] \in R
  PROVE  MapText(c, change) \in Seq(Saying(R))
<1> DEFINE d == MapText(c, change)
<1>1. DOMAIN c = 1..Len(c) /\ Len(c) \in Nat /\ \A i \in 1..Len(c) : c[i] \in Saying(S)
  OBVIOUS
<1>2. ASSUME NEW i \in 1..Len(c) PROVE d[i] \in Saying(R)
  <2>1. d[i] = IF IsText(c[i])
               THEN [c[i] EXCEPT !.body = [n \in DOMAIN c[i].body |-> change[c[i].body[n]]]]
               ELSE c[i]
    BY <1>1 DEF MapText
  <2>2. CASE IsText(c[i])
    BY <1>1, <2>2, <2>1, SayingChanges DEF Saying, IsText
  <2>3. CASE ~IsText(c[i])
    BY <1>1, <2>1, <2>3 DEF Saying, IsText
  <2> QED  BY <2>2, <2>3
<1>3. d = [i \in 1..Len(c) |-> d[i]]
  BY <1>1 DEF MapText
<1> HIDE DEF d
<1>4. d \in Seq(Saying(R))
  BY <1>1, <1>2, <1>3, FunctionIsASequence
<1> QED  BY <1>4 DEF d

LEMMA RedactType ==
  ASSUME NEW ms \in Conversations, NEW g \in Guardrail
  PROVE  /\ Redact(ms, g) \in Conversations /\ Len(Redact(ms, g)) = Len(ms)
         /\ DOMAIN Redact(ms, g) = DOMAIN ms
         /\ \A i \in DOMAIN ms : Alike(Redact(ms, g)[i], ms[i])
<1> DEFINE change == [l \in Lines |-> IF l \in g.pattern THEN g.replacement ELSE l]
           ns == [i \in DOMAIN ms |-> IF ms[i].content = Unset THEN ms[i]
                                      ELSE [ms[i] EXCEPT !.content = MapText(@, change)]]
<1>1. change \in [Lines -> Lines]
  BY DEF Guardrail
<1>2. CASE g.action = "block"
  BY <1>2 DEF Redact, Alike
<1>3. CASE g.action # "block"
  <2>1. Redact(ms, g) = ns
    BY <1>3 DEF Redact
  <2> HIDE DEF change
  <2>2. ASSUME NEW i \in DOMAIN ms PROVE ns[i] \in ChatMessage /\ Alike(ns[i], ms[i])
    BY MessageFacts, <1>1, PartsAreSaying, MapTextSays, ContentChanges DEF Conversations, Alike,
       Optional
  <2>3. ns = [i \in DOMAIN ms |-> ns[i]]
    OBVIOUS
  <2> HIDE DEF ns
  <2> QED  BY <2>1, <2>2, <2>3, PointwiseMessages
<1> QED  BY <1>2, <1>3

(* What Redacted's recursion computes.                                     *)
Redacts(f, ms, gs, n) ==
  f = [k \in 0..n |-> IF k = 0 THEN ms ELSE Redact(f[k - 1], gs[k])]

LEMMA RedactsAt ==
  ASSUME NEW ms, NEW gs, NEW n, NEW f, Redacts(f, ms, gs, n)
  PROVE  \A k \in 0..n : f[k] = IF k = 0 THEN ms ELSE Redact(f[k - 1], gs[k])
BY DEF Redacts

LEMMA RedactingExists ==
  ASSUME NEW ms, NEW gs, NEW n \in Nat
  PROVE  \E f : Redacts(f, ms, gs, n)
<1> DEFINE T == { k \in Nat : \E f : Redacts(f, ms, gs, k) }
<1>1. 0 \in T
  <2> DEFINE g == [k \in 0..0 |-> ms]
  <2>1. g = [k \in 0..0 |-> IF k = 0 THEN ms ELSE Redact(g[k - 1], gs[k])]
    OBVIOUS
  <2> HIDE DEF g
  <2>2. Redacts(g, ms, gs, 0)
    BY <2>1 DEF Redacts
  <2> QED  BY <2>2
<1>2. ASSUME NEW k \in Nat, k \in T PROVE k + 1 \in T
  <2>1. PICK f : Redacts(f, ms, gs, k)
    BY <1>2
  <2> DEFINE g == [i \in 0..k + 1 |-> IF i <= k THEN f[i] ELSE Redact(f[i - 1], gs[i])]
  <2>2. ASSUME NEW i \in 0..k + 1 PROVE g[i] = IF i = 0 THEN ms ELSE Redact(g[i - 1], gs[i])
    BY <2>1, RedactsAt
  <2>3. Redacts(g, ms, gs, k + 1)
    BY <2>2 DEF Redacts
  <2> QED  BY <2>3
<1> HIDE DEF T
<1>3. Nat \subseteq T
  BY <1>1, <1>2, Inductive
<1> QED  BY <1>3 DEF T

LEMMA RedactedBy ==
  ASSUME NEW ms, NEW gs, Len(gs) \in Nat
  PROVE  \E f : Redacts(f, ms, gs, Len(gs)) /\ Redacted(ms, gs) = f[Len(gs)]
<1> DEFINE f == CHOOSE h : h = [k \in 0..Len(gs) |-> IF k = 0 THEN ms ELSE Redact(h[k - 1], gs[k])]
<1>1. \E h : h = [k \in 0..Len(gs) |-> IF k = 0 THEN ms ELSE Redact(h[k - 1], gs[k])]
  <2>1. PICK h : Redacts(h, ms, gs, Len(gs))
    BY RedactingExists
  <2> QED  BY <2>1, Zenon DEF Redacts
<1>2. Redacts(f, ms, gs, Len(gs))
  BY <1>1 DEF Redacts
<1>3. Redacted(ms, gs) = f[Len(gs)]
  BY DEF Redacted
<1> QED  BY <1>2, <1>3

(* Messages that redactions made of other messages.                        *)
Screening(ns, ms) ==
  /\ ns \in Conversations /\ Len(ns) = Len(ms) /\ DOMAIN ns = DOMAIN ms
  /\ \A i \in DOMAIN ms : Alike(ns[i], ms[i])

LEMMA RedactedType ==
  ASSUME NEW ms \in Conversations, NEW gs \in Seq(Guardrail)
  PROVE  Screening(Redacted(ms, gs), ms)
<1>1. Len(gs) \in Nat /\ \A k \in 1..Len(gs) : gs[k] \in Guardrail
  OBVIOUS
<1>2. PICK f : Redacts(f, ms, gs, Len(gs)) /\ Redacted(ms, gs) = f[Len(gs)]
  BY <1>1, RedactedBy
<1> DEFINE T == { k \in Nat : k <= Len(gs) => Screening(f[k], ms) }
<1>3. 0 \in T
  BY <1>1, <1>2, RedactsAt DEF Screening, Alike
<1>4. ASSUME NEW k \in Nat, k \in T PROVE k + 1 \in T
  <2> SUFFICES ASSUME k + 1 <= Len(gs) PROVE Screening(f[k + 1], ms)
    OBVIOUS
  <2>1. Screening(f[k], ms)
    BY <1>1, <1>4
  <2>2. k + 1 \in 0..Len(gs) /\ k + 1 # 0 /\ (k + 1) - 1 = k
    BY <1>1
  <2>3. f[k + 1] = Redact(f[k], gs[k + 1])
    BY <1>1, <1>2, <2>2, RedactsAt
  <2>4. gs[k + 1] \in Guardrail
    BY <1>1, <2>2
  <2>5. f[k] \in Conversations
    BY <2>1 DEF Screening
  <2>6. /\ f[k + 1] \in Conversations /\ Len(f[k + 1]) = Len(f[k]) /\ DOMAIN f[k + 1] = DOMAIN f[k]
        /\ \A i \in DOMAIN f[k] : Alike(f[k + 1][i], f[k][i])
    BY <2>3, <2>4, <2>5, RedactType
  <2> QED  BY <2>1, <2>6 DEF Screening, Alike
<1> HIDE DEF T
<1>5. Len(gs) \in T
  BY <1>1, <1>3, <1>4, Inductive
<1> QED  BY <1>1, <1>2, <1>5 DEF T

(* A nonempty set of positions has a first and a last.                     *)
LEMMA HasEnds ==
  ASSUME NEW N \in Nat, NEW D \in SUBSET (1..N), D # {}
  PROVE  (\E x \in D : \A y \in D : y <= x) /\ (\E x \in D : \A y \in D : x <= y)
<1> DEFINE P == { n \in Nat : \A E \in SUBSET (1..n) : E # {} =>
                     (\E x \in E : \A y \in E : y <= x) /\ (\E x \in E : \A y \in E : x <= y) }
<1>1. 0 \in P
  <2>1. \A E \in SUBSET (1..0) : E = {}
    OBVIOUS
  <2> QED  BY <2>1
<1>2. ASSUME NEW n \in Nat, n \in P PROVE n + 1 \in P
  <2> SUFFICES ASSUME NEW E \in SUBSET (1..n + 1), E # {}
               PROVE  (\E x \in E : \A y \in E : y <= x) /\ (\E x \in E : \A y \in E : x <= y)
    OBVIOUS
  <2> DEFINE F == E \ {n + 1}
  <2>1. F \in SUBSET (1..n) /\ \A x \in E : x \in Nat /\ x <= n + 1
    OBVIOUS
  <2>2. CASE F = {}
    <3>1. E = {n + 1}
      BY <2>2
    <3> QED  BY <3>1
  <2>3. CASE F # {}
    <3>1. (\E x \in F : \A y \in F : y <= x) /\ (\E x \in F : \A y \in F : x <= y)
      BY <1>2, <2>1, <2>3
    <3>2. \E x \in E : \A y \in E : y <= x
      BY <2>1, <3>1
    <3>3. \E x \in E : \A y \in E : x <= y
      BY <3>1, <2>1
    <3> QED  BY <3>2, <3>3
  <2> QED  BY <2>2, <2>3
<1> HIDE DEF P
<1>3. N \in P
  BY <1>1, <1>2, Inductive
<1> QED  BY <1>3 DEF P

-----------------------------------------------------------------------------
(* What a request is made of, and what a change of its messages leaves.    *)
LEMMA RequestFacts ==
  ASSUME NEW r \in ChatRequest
  PROVE  /\ r.messages \in Conversations /\ r.max_tokens \in Optional(Nat)
         /\ r.stream \in BOOLEAN /\ r.web_search \in BOOLEAN
         /\ r.preset \in Optional(Presets) /\ r.provider \in Optional(Values)
         /\ r.params \in [SamplingParams -> Optional(Values)]
BY DEF ChatRequest, Conversations

LEMMA MessagesChange ==
  ASSUME NEW r \in ChatRequest, NEW ms \in Conversations
  PROVE  /\ [r EXCEPT !.messages = ms] \in ChatRequest
         /\ [r EXCEPT !.messages = ms].messages = ms
BY DEF ChatRequest, Conversations

LEMMA WithPresetType ==
  ASSUME NEW preset \in Preset, NEW r \in ChatRequest
  PROVE  /\ WithPreset(preset, r) \in ChatRequest
         /\ \/ WithPreset(preset, r).messages = r.messages
            \/ /\ preset.system_prompt \in Text
               /\ WithPreset(preset, r).messages =
                    <<Message("system", preset.system_prompt)>> \o r.messages
<1> DEFINE p == WithPreset(preset, r)
           prompted == preset.system_prompt # Unset
                         /\ ~\E i \in DOMAIN r.messages : IsSystem(r.messages[i])
           ms == IF prompted THEN <<Message("system", preset.system_prompt)>> \o r.messages
                 ELSE r.messages
           params == [q \in SamplingParams |->
                        IF q \in Presettable THEN Default(r.params[q], preset.params[q]) ELSE r.params[q]]
<1>1. /\ preset.model \in Optional(Models) /\ preset.system_prompt \in Optional(Text)
      /\ preset.provider \in Optional(Values) /\ preset.max_tokens \in Optional(Nat)
      /\ preset.params \in [SamplingParams -> Optional(Values)]
  BY DEF Preset
<1>2. /\ r.model \in Models /\ r.provider \in Optional(Values) /\ r.max_tokens \in Optional(Nat)
      /\ r.messages \in Conversations /\ r.params \in [SamplingParams -> Optional(Values)]
  BY DEF ChatRequest, Conversations
<1>3. p = [r EXCEPT !.model = Default(preset.model, r.model), !.messages = ms,
                    !.provider = Default(r.provider, preset.provider),
                    !.max_tokens = Default(r.max_tokens, preset.max_tokens),
                    !.params = params]
  BY DEF WithPreset
<1>4. ms \in Conversations
  <2>1. CASE prompted
    <3>1. preset.system_prompt \in Text /\ "system" \in Role
      BY <1>1, <2>1 DEF Optional, Role
    <3>2. Message("system", preset.system_prompt) \in ChatMessage
      BY <3>1, MessageType
    <3> QED  BY <1>2, <2>1, <3>2 DEF Conversations
  <2> QED  BY <1>2, <2>1
<1>5. /\ Default(preset.model, r.model) \in Models
      /\ Default(r.provider, preset.provider) \in Optional(Values)
      /\ Default(r.max_tokens, preset.max_tokens) \in Optional(Nat)
  BY <1>1, <1>2 DEF Default, Optional
<1>6. params \in [SamplingParams -> Optional(Values)]
  BY <1>1, <1>2 DEF Default, Optional
<1>7. prompted => preset.system_prompt \in Text
  BY <1>1 DEF Optional
<1>8. p.messages = ms
  BY <1>3 DEF ChatRequest
<1>9. p \in ChatRequest
  <2> HIDE DEF p, ms, params
  <2> QED  BY <1>3, <1>4, <1>5, <1>6 DEF ChatRequest, Conversations
<1> QED  BY <1>7, <1>8, <1>9

LEMMA PrependedType ==
  ASSUME NEW ms \in Conversations, Searchable(ms), NEW lines \in Text
  PROVE  /\ Prepended(ms, lines) \in Conversations
         /\ DOMAIN Prepended(ms, lines) = DOMAIN ms
         /\ \A i \in DOMAIN ms : Alike(Prepended(ms, lines)[i], ms[i])
<1> DEFINE users == { i \in DOMAIN ms : ms[i].role = "user" }
           u == LastUser(ms)
           c == ms[u].content
           first == CHOOSE i \in DOMAIN c : IsText(c[i]) /\ \A j \in 1..i - 1 : ~IsText(c[j])
           d == [c EXCEPT ![first].body = lines \o @]
<1>1. DOMAIN ms = 1..Len(ms) /\ Len(ms) \in Nat /\ \A i \in DOMAIN ms : ms[i] \in ChatMessage
  BY DEF Conversations
<1>2. u \in DOMAIN ms
  <2>1. users # {}
    BY DEF Searchable, LastUser
  <2>2. \E x \in users : \A y \in users : y <= x
    BY <1>1, <2>1, HasEnds
  <2> QED  BY <2>1, <2>2 DEF LastUser
<1>3. c \in MessageContent /\ \E i \in DOMAIN c : IsText(c[i])
  <2>1. TextOf(c) # <<>>
    BY DEF Searchable
  <2>2. c \in MessageContent
    BY <2>1, <1>1, <1>2, MessageFacts DEF TextOf, Optional
  <2>3. ASSUME \A i \in DOMAIN c : ~IsText(c[i]) PROVE FALSE
    BY <2>2, <2>3, PickedNone, FlattenEmpty, <2>1 DEF MessageContent, Selected, PlainText, TextOf
  <2> QED  BY <2>2, <2>3
<1>4. first \in DOMAIN c /\ IsText(c[first])
  <2> DEFINE texts == { i \in DOMAIN c : IsText(c[i]) }
  <2>1. DOMAIN c = 1..Len(c) /\ Len(c) \in Nat
    BY <1>3 DEF MessageContent
  <2> HIDE DEF c
  <2>2. \E x \in texts : \A y \in texts : x <= y
    BY <1>3, <2>1, HasEnds
  <2>3. PICK x \in texts : \A y \in texts : x <= y
    BY <2>2
  <2>4. x \in DOMAIN c /\ IsText(c[x]) /\ \A j \in 1..x - 1 : ~IsText(c[j])
    BY <2>1, <2>3
  <2> QED  BY <2>4
<1> HIDE DEF first
<1>5. d \in MessageContent
  <2>1. c[first] \in ContentPart /\ DOMAIN c = 1..Len(c) /\ Len(c) \in Nat
    BY <1>3, <1>4 DEF MessageContent
  <2>2. c[first].body \in Text
    BY <1>4, <2>1, BodyChanges
  <2>3. lines \o c[first].body \in Text
    BY <2>2 DEF Text
  <2>4. [c[first] EXCEPT !.body = lines \o c[first].body] \in ContentPart
    BY <1>4, <2>1, <2>3, BodyChanges
  <2>5. d = [c EXCEPT ![first] = [c[first] EXCEPT !.body = lines \o c[first].body]]
    OBVIOUS
  <2> HIDE DEF c, d
  <2> QED  BY <1>3, <1>4, <2>4, <2>5 DEF MessageContent
<1> DEFINE ns == Prepended(ms, lines)
<1>6. ns = [ms EXCEPT ![u] = [ms[u] EXCEPT !.content = d]]
  BY DEF Prepended, first
<1> HIDE DEF d, c, u
<1>7. [ms[u] EXCEPT !.content = d] \in ChatMessage /\ Alike([ms[u] EXCEPT !.content = d], ms[u])
  BY <1>1, <1>2, <1>5, ContentChanges DEF Optional
<1> HIDE DEF ns
<1>8. ASSUME NEW i \in DOMAIN ms PROVE ns[i] \in ChatMessage /\ Alike(ns[i], ms[i])
  BY <1>1, <1>2, <1>6, <1>7 DEF Alike
<1>9. ns = [i \in DOMAIN ms |-> ns[i]]
  BY <1>6
<1>10. ns \in Conversations /\ DOMAIN ns = DOMAIN ms
  BY <1>8, <1>9, PointwiseMessages
<1> QED  BY <1>8, <1>10 DEF ns

Traces == [CallIds -> Optional(Text)]

(* A message as replay leaves it.                                          *)
ReplayedOnly(m, n, traces) ==
  /\ m \in ChatMessage /\ m.role = n.role /\ m.tool_calls = n.tool_calls
  /\ m.content = n.content /\ m.cache_control = n.cache_control
  /\ \/ m.reasoning = n.reasoning
     \/ /\ n.reasoning = Unset /\ m.tool_calls # <<>>
        /\ m.reasoning = traces[m.tool_calls[1].id]

LEMMA ReplayedType ==
  ASSUME NEW ms \in Conversations, NEW traces \in Traces
  PROVE  /\ Replayed(ms, traces) \in Conversations
         /\ DOMAIN Replayed(ms, traces) = DOMAIN ms
         /\ \A i \in DOMAIN ms : ReplayedOnly(Replayed(ms, traces)[i], ms[i], traces)
<1> DEFINE ns == Replayed(ms, traces)
<1>1. ns = [i \in DOMAIN ms |->
              IF ms[i].reasoning = Unset /\ ms[i].tool_calls # <<>>
              THEN [ms[i] EXCEPT !.reasoning = traces[ms[i].tool_calls[1].id]] ELSE ms[i]]
  BY DEF Replayed
<1> HIDE DEF ns
<1>2. ASSUME NEW i \in DOMAIN ms PROVE ReplayedOnly(ns[i], ms[i], traces)
  <2>1. ms[i] \in ChatMessage
    BY DEF Conversations
  <2>2. CASE ms[i].reasoning = Unset /\ ms[i].tool_calls # <<>>
    <3> DEFINE t == traces[ms[i].tool_calls[1].id]
    <3>1. ms[i].tool_calls \in Seq(ToolCall)
      BY <2>1, MessageFacts
    <3>2. ms[i].tool_calls[1] \in ToolCall
      BY <2>2, <3>1
    <3>3. t \in Optional(Text)
      BY <3>2 DEF Traces, ToolCall
    <3> HIDE DEF t
    <3>4. ns[i] = [ms[i] EXCEPT !.reasoning = t]
      BY <1>1, <2>2 DEF t
    <3>5. ns[i] = [role |-> ms[i].role, content |-> ms[i].content, tool_calls |-> ms[i].tool_calls,
                   tool_call_id |-> ms[i].tool_call_id, reasoning |-> t,
                   cache_control |-> ms[i].cache_control]
      BY <2>1, <3>4 DEF ChatMessage
    <3>6. ns[i] \in ChatMessage
      BY <2>1, <3>3, <3>5, MessageFacts DEF ChatMessage
    <3> QED  BY <2>2, <3>5, <3>6 DEF ReplayedOnly, t
  <2>3. CASE ~(ms[i].reasoning = Unset /\ ms[i].tool_calls # <<>>)
    BY <1>1, <2>3, <2>1 DEF ReplayedOnly
  <2> QED  BY <2>2, <2>3
<1>3. ns = [i \in DOMAIN ms |-> ns[i]]
  BY <1>1
<1>4. \A i \in DOMAIN ms : ns[i] \in ChatMessage
  BY <1>2 DEF ReplayedOnly
<1>5. ns \in Conversations /\ DOMAIN ns = DOMAIN ms
  BY <1>3, <1>4, PointwiseMessages
<1> QED  BY <1>2, <1>5 DEF ns

(* A compaction adds only markers.                                         *)
LEMMA ShortenedSays ==
  ASSUME NEW S, {RepeatMarker, OmittedMarker} \subseteq S, NEW c \in Seq(Saying(S))
  PROVE  Shortened(c) \in Seq(Saying(S))
BY CompressedText, FunctionIsASequence DEF Shortened, Saying, IsText, TextPart

LEMMA CompactedType ==
  ASSUME NEW r \in ChatRequest
  PROVE  /\ Compacted(r) \in ChatRequest
         /\ Compacted(r) = [r EXCEPT !.messages = Compacted(r).messages]
         /\ DOMAIN Compacted(r).messages = DOMAIN r.messages
         /\ \A i \in DOMAIN r.messages : Alike(Compacted(r).messages[i], r.messages[i])
<1> DEFINE ms == r.messages
           ns == [i \in DOMAIN ms |->
                    IF ms[i].role # "tool" \/ ms[i].content = Unset THEN ms[i]
                    ELSE [ms[i] EXCEPT !.content = Shortened(ms[i].content)]]
<1>1. ms \in Conversations /\ \A i \in DOMAIN ms : ms[i] \in ChatMessage
  BY RequestFacts DEF Conversations
<1>2. CASE "rtk" \notin r.transforms
  BY <1>2 DEF Compacted, ChatRequest, Alike
<1>3. CASE "rtk" \in r.transforms
  <2>1. Compacted(r) = [r EXCEPT !.messages = ns]
    BY <1>3 DEF Compacted
  <2>2. ASSUME NEW c \in MessageContent PROVE Shortened(c) \in MessageContent
    BY PartsAreSaying, StageAssumption, ShortenedSays
  <2>3. ASSUME NEW i \in DOMAIN ms PROVE ns[i] \in ChatMessage /\ Alike(ns[i], ms[i])
    BY <1>1, MessageFacts, <2>2, ContentChanges DEF Alike, Optional
  <2>4. ns = [i \in DOMAIN ms |-> ns[i]]
    OBVIOUS
  <2> HIDE DEF ns
  <2>5. ns \in Conversations /\ DOMAIN ns = DOMAIN ms
    <3> HIDE DEF ms
    <3> QED  BY <1>1, <2>3, <2>4, PointwiseMessages
  <2>6. Compacted(r) \in ChatRequest /\ Compacted(r).messages = ns
    BY <2>1, <2>5, MessagesChange
  <2> QED  BY <2>1, <2>3, <2>5, <2>6
<1> QED  BY <1>2, <1>3

LEMMA MiddleOutType ==
  ASSUME NEW ms \in Conversations, NEW budget
  PROVE  /\ MiddleOut(ms, budget) \in Conversations /\ Among(MiddleOut(ms, budget), ms)
         /\ ToSet(MiddleOut(ms, budget)) \subseteq ToSet(ms)
<1> DEFINE Without(k) == <<ms[1]>> \o SubSeq(ms, k + 2, Len(ms))
           most == Len(ms) - 2
           enough == { k \in 0..most : Total(Without(k)) <= budget \/ k = most }
           k0 == CHOOSE k \in enough : \A j \in enough : k <= j
<1>1. Len(ms) \in Nat /\ DOMAIN ms = 1..Len(ms) /\ ms \in Seq(ChatMessage)
  BY DEF Conversations
<1>2. CASE Len(ms) <= 2
  BY <1>2, AmongSelf DEF MiddleOut
<1>3. CASE Len(ms) > 2
  <2>1. MiddleOut(ms, budget) = Without(k0)
    <3>1. ~(Len(ms) <= 2)
      BY <1>1, <1>3
    <3> QED  BY <3>1, Zenon DEF MiddleOut
  <2>2. k0 \in 0..most
    <3>1. most \in enough /\ most \in Nat
      BY <1>1, <1>3
    <3>2. enough \in SUBSET (0..most)
      OBVIOUS
    <3> HIDE DEF Without, enough, most
    <3> DEFINE up == { k + 1 : k \in enough }
    <3>3. up \in SUBSET (1..most + 1) /\ up # {} /\ most + 1 \in Nat
      BY <3>1, <3>2
    <3> HIDE DEF up
    <3>4. PICK x \in up : \A y \in up : x <= y
      BY <3>3, HasEnds
    <3>5. PICK k \in enough : x = k + 1
      BY <3>4 DEF up
    <3>6. \A j \in enough : k <= j
      <4> SUFFICES ASSUME NEW j \in enough PROVE k <= j
        OBVIOUS
      <4>1. j + 1 \in up /\ j \in Nat /\ k \in Nat
        BY <3>1, <3>2 DEF up
      <4> QED  BY <3>4, <3>5, <4>1
    <3>7. k0 \in enough
      BY <3>5, <3>6
    <3> QED  BY <3>2, <3>7
  <2> HIDE DEF k0
  <2>3. <<ms[1]>> \in Seq(ChatMessage) /\ SubSeq(ms, k0 + 2, Len(ms)) \in Seq(ChatMessage)
    BY <1>1, <1>3, <2>2
  <2>4. Without(k0) \in Conversations
    BY <2>3 DEF Conversations
  <2>5. ASSUME NEW i \in DOMAIN Without(k0) PROVE \E j \in DOMAIN ms : Without(k0)[i] = ms[j]
    <3>1. Len(SubSeq(ms, k0 + 2, Len(ms))) = Len(ms) - (k0 + 2) + 1
      BY <1>1, <1>3, <2>2
    <3>2. DOMAIN Without(k0) = 1..Len(ms) - k0 /\ i \in 1..Len(ms) - k0
      BY <2>3, <3>1, <1>1, <2>2
    <3>3. CASE i = 1
      BY <1>1, <1>3, <2>3, <3>3
    <3>4. CASE i > 1
      <4>1. Without(k0)[i] = SubSeq(ms, k0 + 2, Len(ms))[i - 1]
        BY <2>3, <3>1, <3>2, <3>4, <1>1, <2>2
      <4>2. SubSeq(ms, k0 + 2, Len(ms))[i - 1] = ms[(k0 + 2) + (i - 1) - 1]
        BY <1>1, <2>2, <3>1, <3>2, <3>4
      <4>3. (k0 + 2) + (i - 1) - 1 \in DOMAIN ms
        BY <1>1, <2>2, <3>2, <3>4
      <4> QED  BY <4>1, <4>2, <4>3
    <3>5. i = 1 \/ i > 1
      BY <1>1, <2>2, <3>2
    <3> QED  BY <3>3, <3>4, <3>5
  <2> HIDE DEF Without
  <2>6. Among(Without(k0), ms)
    BY <2>5 DEF Among, Alike
  <2>7. ToSet(Without(k0)) \subseteq ToSet(ms)
    BY <2>5 DEF ToSet
  <2> QED  BY <2>1, <2>4, <2>6, <2>7
<1> QED  BY <1>1, <1>2, <1>3

LEMMA TruncatedType ==
  ASSUME NEW r \in ChatRequest, NEW context_length
  PROVE  /\ Truncated(r, context_length) \in ChatRequest
         /\ Truncated(r, context_length) = [r EXCEPT !.messages = Truncated(r, context_length).messages]
         /\ Among(Truncated(r, context_length).messages, r.messages)
         /\ ToSet(Truncated(r, context_length).messages) \subseteq ToSet(r.messages)
BY AmongSelf, RequestFacts, MiddleOutType, MessagesChange DEF Truncated, ChatRequest

-----------------------------------------------------------------------------
(* An answer's calls and reasoning are a message's.                        *)
LEMMA BodiesType ==
  ASSUME NEW s \in Seq(AnswerBlock)
  PROVE  Bodies(s) \in Text
<1>1. Bodies(s) = Gathered(s, BodyOf)
  BY BodiesAreGathered
<1>2. BodyOf \in [AnswerBlock -> Seq(Lines)]
  BY BodyOfType
<1>3. Gathered(s, BodyOf) \in Seq(Lines)
  BY <1>2, GatheredFacts
<1> QED  BY <1>1, <1>3 DEF Text

LEMMA AsCallsType ==
  ASSUME NEW a \in Answer, NEW I
  PROVE  AsCalls(Picked(Calls(a), I)) \in Seq(ToolCall)
<1> DEFINE c == Calls(a)
           s == Picked(c, I)
           d == AsCalls(s)
<1>1. c \in Seq(AnswerBlock) /\ DOMAIN c = 1..Len(c)
      /\ \A m \in 1..Len(c) : c[m].id \in CallIds /\ c[m].name \in Functions /\ c[m].body \in Text
  BY CallsType
<1> HIDE DEF c
<1>2. s \in Seq(AnswerBlock)
  BY <1>1, PickedFacts
<1>3. \A x : x \in ToSet(s) <=> \E i \in DOMAIN c : i \in I /\ x = c[i]
  BY <1>1, PickedFacts
<1> HIDE DEF s
<1>4. Len(s) \in Nat /\ DOMAIN s = 1..Len(s)
  BY <1>2
<1>5. ASSUME NEW m \in 1..Len(s)
      PROVE  [id |-> s[m].id, name |-> s[m].name, arguments |-> s[m].body] \in ToolCall
  BY <1>4, <1>3, <1>1 DEF ToSet, ToolCall
<1>6. d = [m \in 1..Len(s) |-> [id |-> s[m].id, name |-> s[m].name, arguments |-> s[m].body]]
  BY <1>4 DEF AsCalls
<1> HIDE DEF d
<1>7. d = [m \in 1..Len(s) |-> d[m]] /\ \A m \in 1..Len(s) : d[m] \in ToolCall
  BY <1>5, <1>6
<1>8. d \in Seq(ToolCall)
  BY <1>4, <1>7, FunctionIsASequence
<1> QED  BY <1>8 DEF d, s, c

(* What a caller can put into a message of its own.                        *)
Spokenable(w) == w.tool_calls \in Seq(ToolCall) /\ w.reasoning \in Text

LEMMA ChatSpokenable ==
  ASSUME NEW k \in ProviderKind, NEW r, NEW a \in Answer,
         FreshIds \in Seq(CallIds), Len(Calls(a)) <= Len(FreshIds)
  PROVE  Spokenable(Chat(k, r, a))
<1>1. Reasoning(r, a) \in Text
  BY AnswerFacts, PickedFacts, BodiesType DEF Text, Reasoning, OfType, Selected
<1>2. CASE k = "anthropic"
  BY <1>2, AsCallsType, <1>1 DEF Chat, AnthropicChat, Selected, Spokenable
<1>3. CASE k = "gemini"
  BY <1>3, FreshCallsType, <1>1 DEF Chat, GeminiChat, FreshCalls, Spokenable
<1>4. CASE k = "openai"
  BY <1>4, CallsType, PickedAll, AsCallsType, <1>1 DEF Chat, OpenAiChat, Spokenable
<1> QED  BY <1>2, <1>3, <1>4 DEF ProviderKind

-----------------------------------------------------------------------------
(* Replay.  Whose reasoning is on a message: the caller's own, or that of  *)
(* an answer that made one of the message's calls.                         *)
FromCaller(m, ms) ==
  \E j \in DOMAIN ms : ms[j].reasoning = m.reasoning /\ ms[j].tool_calls = m.tool_calls
FromAnswer(m, made) ==
  \E c \in DOMAIN m.tool_calls : [id |-> m.tool_calls[c].id, trace |-> m.reasoning] \in made

Owned(ns, ms, made) ==
  \A i \in DOMAIN ns : ns[i].reasoning # Unset => FromCaller(ns[i], ms) \/ FromAnswer(ns[i], made)

LEMMA AmongOwned ==
  ASSUME NEW ls, NEW ns, NEW ms, NEW made, Among(ls, ns), Owned(ns, ms, made)
  PROVE  Owned(ls, ms, made)
BY DEF Owned, Among, Alike, FromCaller, FromAnswer

LEMMA AlikeAmong ==
  ASSUME NEW ls, NEW ns, DOMAIN ls = DOMAIN ns, \A i \in DOMAIN ns : Alike(ls[i], ns[i])
  PROVE  Among(ls, ns)
BY DEF Among

(* What the cache says of a call is what an answer with that call said.    *)
Remembers(traces, made) ==
  \A id \in CallIds : traces[id] # Unset => [id |-> id, trace |-> traces[id]] \in made

LEMMA ReplayedOwned ==
  ASSUME NEW ns \in Conversations, NEW ms, NEW made, NEW traces \in Traces,
         Owned(ns, ms, made), Remembers(traces, made)
  PROVE  Owned(Replayed(ns, traces), ms, made)
<1> DEFINE ls == Replayed(ns, traces)
<1>1. DOMAIN ls = DOMAIN ns /\ \A i \in DOMAIN ns : ReplayedOnly(ls[i], ns[i], traces)
  BY ReplayedType
<1> HIDE DEF ls
<1> SUFFICES ASSUME NEW i \in DOMAIN ns, ls[i].reasoning # Unset
             PROVE  FromCaller(ls[i], ms) \/ FromAnswer(ls[i], made)
  BY <1>1 DEF Owned, ls
<1>2. ReplayedOnly(ls[i], ns[i], traces)
  BY <1>1
<1>3. CASE ls[i].reasoning = ns[i].reasoning
  BY <1>2, <1>3 DEF ReplayedOnly, Owned, FromCaller, FromAnswer
<1>4. CASE ls[i].tool_calls # <<>> /\ ls[i].reasoning = traces[ls[i].tool_calls[1].id]
  <2>1. ls[i] \in ChatMessage
    BY <1>2 DEF ReplayedOnly
  <2>2. ls[i].tool_calls \in Seq(ToolCall)
    BY <2>1, MessageFacts
  <2>3. 1 \in DOMAIN ls[i].tool_calls /\ ls[i].tool_calls[1] \in ToolCall
    BY <1>4, <2>2
  <2>4. ls[i].tool_calls[1].id \in CallIds
    BY <2>3 DEF ToolCall
  <2>5. [id |-> ls[i].tool_calls[1].id, trace |-> ls[i].reasoning] \in made
    BY <1>4, <2>4 DEF Remembers
  <2> QED  BY <2>3, <2>5 DEF FromAnswer
<1> QED  BY <1>2, <1>3, <1>4 DEF ReplayedOnly

-----------------------------------------------------------------------------
(* The conversation keeps what replay needs, turn after turn.              *)

(* What a candidate gets is the staged request with other messages.        *)
LEMMA PreparedType ==
  ASSUME NEW c, req \in ChatRequest, by_id \in Traces
  PROVE  /\ Prepared(c) \in ChatRequest
         /\ Prepared(c) = [req EXCEPT !.messages = Prepared(c).messages]
         /\ Among(Prepared(c).messages, Replayed(req.messages, by_id))
<1> DEFINE ms == Replayed(req.messages, by_id)
           base == [req EXCEPT !.messages = ms]
           short == Compacted(base)
           p == Truncated(short, c.context_length)
<1>1. ms \in Conversations
  BY RequestFacts, ReplayedType
<1> HIDE DEF ms
<1>2. base \in ChatRequest /\ base.messages = ms
  BY <1>1, MessagesChange
<1> HIDE DEF base
<1>3. short \in ChatRequest
  BY <1>2, CompactedType
<1>4. short = [base EXCEPT !.messages = short.messages]
  BY <1>2, CompactedType, Zenon
<1>5. Among(short.messages, ms)
  BY <1>2, CompactedType, AlikeAmong
<1> HIDE DEF short
<1>6. p \in ChatRequest
  BY <1>3, TruncatedType
<1>7. p = [short EXCEPT !.messages = p.messages]
  BY <1>3, TruncatedType, Zenon
<1>8. Among(p.messages, short.messages)
  BY <1>3, TruncatedType, Zenon
<1> HIDE DEF p
<1>9. Among(p.messages, ms)
  BY <1>5, <1>8, AmongTransitive
<1>10. p = [req EXCEPT !.messages = p.messages]
  BY <1>2, <1>4, <1>7 DEF base, ChatRequest
<1>11. Prepared(c) = p
  BY DEF Prepared, p, short, base, ms
<1> QED  BY <1>6, <1>9, <1>10, <1>11 DEF ms

Memory == [id : CallIds, trace : Text]

OwnInv ==
  /\ by_id \in Traces /\ Remembers(by_id, produced)
  /\ to_remember \in Seq(Memory) /\ \A i \in DOMAIN to_remember : to_remember[i] \in produced
  /\ phase # "idle" => given \in ChatRequest /\ req \in ChatRequest
  /\ phase \in Unasked => Owned(req.messages, given.messages, produced)
  /\ phase = "asked" => sent.req \in ChatRequest /\ Owned(sent.req.messages, given.messages, produced)
  /\ phase = "remember" => Spokenable(reply)
  /\ phase = "answered" /\ door = "http" /\ ~told_error /\ reply.finish_reason # Unset => Spokenable(reply)

LEMMA OwnStarts == PipelineInit => OwnInv
BY IdsAssumption, UnsetAssumption DEF PipelineInit, CacheInit, Traces, Optional, Remembers, OwnInv,
   Unasked

LEMMA OwnSelf == ASSUME NEW ms, NEW made PROVE Owned(ms, ms, made)
BY DEF Owned, FromCaller

LEMMA ArrivingIsOwn ==
  ASSUME OwnInv, NEW request \in ChatRequest, NEW by, NEW stage, Receive(request, by, stage),
         stage \in {"preset", "refused", "dispatch"}
  PROVE  OwnInv'
BY OwnSelf DEF Receive, cache_vars, OwnInv

LEMMA StagesKeepOwn ==
  ASSUME OwnInv, StreamInv, apply_preset \/ apply_web_search \/ apply_guardrails \/ apply_moderation
                 \/ check_client_budget
  PROVE  OwnInv'
<1>1. /\ phase \in {"preset", "search", "guardrails", "moderation", "budget"}
      /\ phase' \in {"search", "guardrails", "moderation", "budget", "dispatch", "refused"}
      /\ by_id' = by_id /\ produced' = produced /\ to_remember' = to_remember /\ given' = given
  BY StagesFollow DEF apply_preset, apply_web_search, apply_guardrails, apply_moderation,
                      check_client_budget, Unstaged, cache_vars
<1>2. /\ given \in ChatRequest /\ req \in ChatRequest
      /\ Owned(req.messages, given.messages, produced) /\ config \in Configs
  BY <1>1 DEF OwnInv, Unasked, StreamInv
<1>3. IsConfig(config) /\ req.messages \in Conversations
  BY <1>2, ConfigAssumption, RequestFacts
<1>4. req' \in ChatRequest /\ Owned(req'.messages, given.messages, produced)
  <2>1. CASE req' = req
    BY <1>2, <2>1
  <2>2. CASE apply_preset /\ req' # req
    <3>1. /\ req.preset \in DOMAIN config.presets
          /\ req' = WithPreset(config.presets[req.preset], req)
      BY <2>2 DEF apply_preset
    <3> DEFINE preset == config.presets[req.preset]
    <3>2. preset \in Preset
      BY <1>3, <3>1 DEF IsConfig
    <3> HIDE DEF preset
    <3>3. req' \in ChatRequest
          /\ \/ req'.messages = req.messages
             \/ /\ preset.system_prompt \in Text
                /\ req'.messages = <<Message("system", preset.system_prompt)>> \o req.messages
      BY <1>2, <3>1, <3>2, WithPresetType DEF preset
    <3>4. CASE req'.messages = req.messages
      BY <1>2, <3>3, <3>4
    <3>5. CASE preset.system_prompt \in Text
               /\ req'.messages = <<Message("system", preset.system_prompt)>> \o req.messages
      <4> DEFINE m == Message("system", preset.system_prompt)
      <4>1. m \in ChatMessage /\ m.reasoning = Unset
        BY <3>5, MessageType DEF Role
      <4> HIDE DEF m
      <4>2. req.messages \in Seq(ChatMessage) /\ req'.messages = <<m>> \o req.messages
        BY <1>3, <3>5 DEF Conversations, m
      <4>3. ASSUME NEW i \in DOMAIN req'.messages, i # 1
            PROVE  i - 1 \in DOMAIN req.messages /\ req'.messages[i] = req.messages[i - 1]
        BY <4>1, <4>2, <4>3
      <4>4. req'.messages[1] = m
        BY <4>1, <4>2
      <4> HIDE DEF OwnInv
      <4>5. ASSUME NEW i \in DOMAIN req'.messages, req'.messages[i].reasoning # Unset
            PROVE  FromCaller(req'.messages[i], given.messages) \/ FromAnswer(req'.messages[i], produced)
        BY <4>1, <4>4, <4>5, <1>2, <4>3 DEF Owned
      <4> QED  BY <3>3, <4>5 DEF Owned
    <3> QED  BY <3>3, <3>4, <3>5
  <2>3. CASE apply_web_search /\ req' # req
    <3>1. /\ Searchable(req.messages) /\ found' \in search /\ found' # <<>>
          /\ req' = [req EXCEPT !.messages = Prepended(@, found')]
      BY <2>3 DEF apply_web_search
    <3>2. found' \in Text
      BY <3>1, InputAssumption DEF search
    <3> DEFINE ms == Prepended(req.messages, found')
    <3>3. ms \in Conversations
      BY <1>3, <3>1, <3>2, PrependedType
    <3>4. DOMAIN ms = DOMAIN req.messages
      BY <1>3, <3>1, <3>2, PrependedType
    <3>5. \A i \in DOMAIN req.messages : Alike(ms[i], req.messages[i])
      BY <1>3, <3>1, <3>2, PrependedType
    <3> HIDE DEF ms
    <3>6. Owned(ms, given.messages, produced)
      BY <1>2, <3>4, <3>5, AlikeAmong, AmongOwned
    <3>7. req' = [req EXCEPT !.messages = ms]
      BY <3>1 DEF ms
    <3> QED  BY <1>2, <3>3, <3>6, <3>7, MessagesChange
  <2>4. CASE apply_guardrails /\ req' # req
    <3>1. req' = [req EXCEPT !.messages = Redacted(@, config.guardrails)]
      BY <2>4 DEF apply_guardrails
    <3> DEFINE ms == Redacted(req.messages, config.guardrails)
    <3>2. Screening(ms, req.messages)
      BY <1>3, RedactedType DEF IsConfig
    <3> HIDE DEF ms
    <3>3. ms \in Conversations /\ DOMAIN ms = DOMAIN req.messages
          /\ \A i \in DOMAIN req.messages : Alike(ms[i], req.messages[i])
      BY <3>2 DEF Screening
    <3>4. Owned(ms, given.messages, produced)
      BY <1>2, <3>3, AlikeAmong, AmongOwned
    <3>5. req' = [req EXCEPT !.messages = ms]
      BY <3>1 DEF ms
    <3> QED  BY <1>2, <3>3, <3>4, <3>5, MessagesChange
  <2>5. CASE apply_moderation \/ check_client_budget
    BY <2>5, <2>1 DEF apply_moderation, check_client_budget
  <2> QED  BY <2>1, <2>2, <2>3, <2>4, <2>5
<1> QED  BY <1>1, <1>2, <1>4 DEF OwnInv, Unasked

LEMMA CandidatesKeepOwn ==
  ASSUME OwnInv, Ask \/ CandidateFails \/ NoneLeft
  PROVE  OwnInv'
<1>1. /\ phase \in {"dispatch", "asked"} /\ phase' \in {"dispatch", "asked", "refused"}
      /\ by_id' = by_id /\ produced' = produced /\ to_remember' = to_remember /\ given' = given
      /\ req' = req
  BY DEF Ask, CandidateFails, NoneLeft, Undispatched, Unanswered, cache_vars
<1>2. /\ given \in ChatRequest /\ req \in ChatRequest
      /\ Owned(req.messages, given.messages, produced) /\ by_id \in Traces /\ Remembers(by_id, produced)
  BY <1>1 DEF OwnInv, Unasked
<1>3. ASSUME phase' = "asked"
      PROVE  sent'.req \in ChatRequest /\ Owned(sent'.req.messages, given.messages, produced)
  <2>1. Ask
    BY <1>3 DEF CandidateFails, NoneLeft
  <2> DEFINE c == Chain[candidate]
  <2>2. sent'.req = Prepared(c)
    BY <1>3, <2>1 DEF Ask
  <2> HIDE DEF c
  <2>3. Prepared(c) \in ChatRequest
    BY <1>2, PreparedType
  <2>4. Among(Prepared(c).messages, Replayed(req.messages, by_id))
    BY <1>2, PreparedType, Zenon
  <2>5. Owned(Replayed(req.messages, by_id), given.messages, produced)
    BY <1>2, RequestFacts, ReplayedOwned
  <2>6. Owned(Prepared(c).messages, given.messages, produced)
    BY <2>4, <2>5, AmongOwned
  <2> QED  BY <2>2, <2>3, <2>6
<1> QED  BY <1>1, <1>2, <1>3 DEF OwnInv, Unasked

LEMMA WholeAnswersKeepOwn ==
  ASSUME OwnInv, StreamInv, NEW a \in Answerable, AnswerWhole(a)
  PROVE  OwnInv'
<1>1. /\ phase = "asked" /\ phase' = "remember" /\ reply' = Chat(sent.kind, sent.req, a)
      /\ to_remember' = Remembered(reply') /\ by_id' = by_id /\ given' = given /\ req' = req
      /\ produced' = produced \cup { [id |-> reply'.tool_calls[i].id, trace |-> reply'.reasoning] :
                                       i \in DOMAIN reply'.tool_calls }
  BY DEF AnswerWhole, Undispatched, cache_vars
<1>2. Spokenable(reply')
  BY <1>1, AnswerAssumption, ChatSpokenable DEF StreamInv, Answerable
<1> DEFINE w == reply'
           ts == to_remember'
<1>3. w.tool_calls \in Seq(ToolCall) /\ w.reasoning \in Text
  BY <1>2 DEF Spokenable
<1>4. ts \in Seq(Memory) /\ \A i \in DOMAIN ts : ts[i] \in produced'
  <2>1. CASE w.reasoning = <<>>
    BY <1>1, <2>1 DEF Remembered
  <2>2. CASE w.reasoning # <<>>
    <3>1. ts = [i \in DOMAIN w.tool_calls |-> [id |-> w.tool_calls[i].id, trace |-> w.reasoning]]
      BY <1>1, <2>2 DEF Remembered
    <3> HIDE DEF w, ts
    <3>2. Len(w.tool_calls) \in Nat /\ DOMAIN w.tool_calls = 1..Len(w.tool_calls)
          /\ \A i \in 1..Len(w.tool_calls) : w.tool_calls[i] \in ToolCall
      BY <1>3
    <3>3. \A i \in 1..Len(w.tool_calls) : ts[i] \in Memory
      BY <1>3, <3>1, <3>2 DEF Memory, ToolCall
    <3>4. ts = [i \in 1..Len(w.tool_calls) |-> ts[i]]
      BY <3>1, <3>2
    <3>5. ts \in Seq(Memory)
      BY <3>2, <3>3, <3>4, FunctionIsASequence
    <3>6. \A i \in DOMAIN ts : ts[i] \in produced'
      BY <1>1, <3>1 DEF w
    <3> QED  BY <3>5, <3>6
  <2> QED  BY <2>1, <2>2
<1>5. by_id' \in Traces /\ Remembers(by_id', produced')
  BY <1>1 DEF OwnInv, Remembers
<1>6. given' \in ChatRequest /\ req' \in ChatRequest
  BY <1>1 DEF OwnInv
<1> QED  BY <1>1, <1>2, <1>4, <1>5, <1>6 DEF OwnInv, Unasked

LEMMA RemembersKeepOwn ==
  ASSUME OwnInv, Remember
  PROVE  OwnInv'
<1> DEFINE next == Head(to_remember)
<1>1. /\ phase = "remember" /\ phase' = phase /\ to_remember # <<>> /\ to_remember' = Tail(to_remember)
      /\ Replace(next.id, next.trace) \/ Add(next.id, next.trace)
      /\ reply' = reply /\ produced' = produced /\ given' = given /\ req' = req
  BY DEF Remember, Undispatched
<1>2. to_remember \in Seq(Memory) /\ Len(to_remember) \in Nat \ {0}
      /\ \A i \in 1..Len(to_remember) : to_remember[i] \in produced
  BY <1>1 DEF OwnInv
<1>3. next \in Memory /\ next \in produced
  BY <1>1, <1>2
<1>4. to_remember' \in Seq(Memory) /\ \A i \in DOMAIN to_remember' : to_remember'[i] \in produced
  BY <1>1, <1>2
<1> HIDE DEF next
<1>5. next.id \in CallIds /\ next.trace \in Text /\ next = [id |-> next.id, trace |-> next.trace]
  BY <1>3 DEF Memory
<1>6. by_id \in Traces /\ Remembers(by_id, produced)
  BY DEF OwnInv
<1>7. by_id' \in Traces
      /\ \A id \in CallIds : by_id'[id] \in {by_id[id], Unset} \/ (id = next.id /\ by_id'[id] = next.trace)
  BY <1>5, <1>6, IdsAssumption, UnsetAssumption, <1>1 DEF Replace, Traces, Optional, Add
<1>8. Remembers(by_id', produced)
  BY <1>3, <1>5, <1>6, <1>7 DEF Remembers
<1>9. given \in ChatRequest /\ req \in ChatRequest /\ Spokenable(reply)
  BY <1>1 DEF OwnInv
<1> QED  BY <1>1, <1>4, <1>7, <1>8, <1>9 DEF OwnInv, Unasked

LEMMA RepliesKeepOwn ==
  ASSUME OwnInv, Reply
  PROVE  OwnInv'
BY DEF Reply, Undispatched, cache_vars, OwnInv, Unasked

LEMMA StreamsKeepOwn ==
  ASSUME OwnInv, StreamInv, StreamMatchesChat',
         (\E a \in Answerable : OpenStream(a)) \/ NextEvent \/ GarbledEvent \/ EndStream
  PROVE  OwnInv'
<1>1. /\ phase \in {"asked", "streaming"} /\ phase' \in {"streaming", "answered"}
      /\ by_id' = by_id /\ produced' = produced /\ to_remember' = to_remember
      /\ given' = given /\ req' = req /\ sent' = sent
  BY DEF OpenStream, NextEvent, GarbledEvent, EndStream, Undispatched, cache_vars
<1>2. ASSUME phase' = "answered", ~told_error', reply'.finish_reason # Unset PROVE Spokenable(reply')
  <2>1. EndStream
    BY <1>2 DEF OpenStream, NextEvent, GarbledEvent
  <2>2. phase = "streaming" /\ answer' = answer
    BY <2>1 DEF EndStream
  <2>3. sent.req.stream /\ Answers_(sent.kind, sent.req, answer) /\ sent.kind \in ProviderKind
    BY <2>2 DEF StreamInv
  <2>4. reply' = Chat(sent.kind, sent.req, answer)
    BY <1>1, <1>2, <2>2, <2>3 DEF StreamMatchesChat
  <2>5. answer \in Answer /\ FreshIds \in Seq(CallIds) /\ Len(Calls(answer)) <= Len(FreshIds)
    BY <2>3, AnswersAreAnswers
  <2> QED  BY <2>3, <2>4, <2>5, ChatSpokenable
<1>3. given \in ChatRequest /\ req \in ChatRequest
  BY <1>1 DEF OwnInv
<1> QED  BY <1>1, <1>2, <1>3 DEF OwnInv, Unasked

LEMMA ToolRequestType ==
  ASSUME NEW args \in ToolCallArguments
  PROVE  ToolRequest(args) \in ChatRequest
<1> DEFINE said == args.messages
           ms == [i \in DOMAIN said |-> Message(said[i].role, said[i].content)]
           params == [p \in SamplingParams |-> IF p = "temperature" THEN args.temperature ELSE Unset]
<1>1. /\ args.model \in Models /\ args.temperature \in Optional(Values) /\ args.max_tokens \in Optional(Nat)
      /\ said \in Seq([role : Role, content : Text])
  BY DEF ToolCallArguments
<1>2. Len(said) \in Nat /\ DOMAIN said = 1..Len(said)
      /\ \A i \in 1..Len(said) : said[i].role \in Role /\ said[i].content \in Text
  <2> DEFINE Line == [role : Role, content : Text]
  <2>1. \A m \in Line : m.role \in Role /\ m.content \in Text
    OBVIOUS
  <2>2. said \in Seq(Line)
    BY <1>1
  <2> HIDE DEF Line, said
  <2> QED  BY <2>1, <2>2
<1> HIDE DEF said
<1>3. ms = [i \in 1..Len(said) |-> ms[i]]
      /\ \A i \in 1..Len(said) : ms[i] = Message(said[i].role, said[i].content)
  BY <1>2
<1> HIDE DEF ms
<1>4. \A i \in 1..Len(said) : ms[i] \in ChatMessage
  BY <1>2, <1>3, MessageType
<1>5. ms \in Seq(ChatMessage)
  BY <1>2, <1>3, <1>4, FunctionIsASequence
<1>6. params \in [SamplingParams -> Optional(Values)]
  BY <1>1 DEF Optional
<1> HIDE DEF params
<1>7. ToolRequest(args) =
        [model |-> args.model, preset |-> Unset, provider |-> Unset, messages |-> ms,
         params |-> params, max_tokens |-> args.max_tokens, tools |-> Unset, tool_choice |-> Unset,
         response_format |-> Unset, reasoning |-> Unset, transforms |-> {},
         web_search |-> FALSE, stream |-> FALSE]
  BY DEF ToolRequest, ms, params, said
<1>8. /\ Unset \in Optional(Presets) /\ Unset \in Optional(Values) /\ Unset \in Optional(SUBSET Functions)
      /\ Unset \in Optional(ToolChoice) /\ Unset \in Optional(ResponseFormat)
      /\ Unset \in Optional(ReasoningConfig) /\ {} \in SUBSET {"middle-out", "rtk"}
  BY DEF Optional
<1> QED  BY <1>1, <1>5, <1>6, <1>7, <1>8 DEF ChatRequest

(* The request a caller comes back with.                                   *)
CalledMessage(keep) ==
  [role |-> "assistant", content |-> Unset, tool_calls |-> reply.tool_calls, tool_call_id |-> Unset,
   reasoning |-> IF keep /\ reply.reasoning # <<>> THEN reply.reasoning ELSE Unset,
   cache_control |-> FALSE]
ResultMessages ==
  [i \in DOMAIN reply.tool_calls |->
     [Message("tool", ToolResult[reply.tool_calls[i].name]) EXCEPT !.tool_call_id = reply.tool_calls[i].id]]

LEMMA FollowUpType ==
  ASSUME OwnInv, NEW keep \in BOOLEAN, FollowUp(keep)
  PROVE  \E request \in ChatRequest :
           Receive(request, "http", IF request.messages = <<>> THEN "refused" ELSE Stages[1])
<1>1. phase = "answered" /\ door = "http" /\ ~told_error /\ reply.finish_reason = "tool_calls"
  BY DEF FollowUp
<1>2. given \in ChatRequest /\ Spokenable(reply)
  BY <1>1, UnsetIsApart DEF FinishReason, OwnInv
<1>3. Arrival([given EXCEPT !.messages = @ \o <<CalledMessage(keep)>> \o ResultMessages])
  BY DEF FollowUp, CalledMessage, ResultMessages
<1>4. reply.tool_calls \in Seq(ToolCall) /\ reply.reasoning \in Text
  BY <1>2 DEF Spokenable
<1>5. CalledMessage(keep) \in ChatMessage
  BY <1>4 DEF Optional, Role, CalledMessage, ChatMessage
<1>6. ResultMessages \in Seq(ChatMessage)
  <2> DEFINE calls == reply.tool_calls
             rs == ResultMessages
  <2>1. Len(calls) \in Nat /\ DOMAIN calls = 1..Len(calls) /\ \A i \in 1..Len(calls) : calls[i] \in ToolCall
    BY <1>4
  <2> HIDE DEF calls
  <2>2. rs = [i \in 1..Len(calls) |-> [Message("tool", ToolResult[calls[i].name]) EXCEPT !.tool_call_id = calls[i].id]]
    BY <2>1 DEF ResultMessages, calls
  <2> HIDE DEF rs
  <2>3. ASSUME NEW i \in 1..Len(calls) PROVE rs[i] \in ChatMessage
    <3> DEFINE m == Message("tool", ToolResult[calls[i].name])
    <3>1. calls[i].name \in Functions /\ calls[i].id \in Optional(CallIds)
      BY <2>1 DEF ToolCall, Optional
    <3>2. ToolResult[calls[i].name] \in Text
      BY <3>1, InputAssumption
    <3>3. m \in ChatMessage
      BY <3>2, MessageType DEF Role
    <3> HIDE DEF m
    <3>4. rs[i] = [m EXCEPT !.tool_call_id = calls[i].id]
      BY <2>2 DEF m
    <3> QED  BY <3>1, <3>3, <3>4 DEF ChatMessage
  <2>4. rs = [i \in 1..Len(calls) |-> rs[i]]
    BY <2>2
  <2>5. rs \in Seq(ChatMessage)
    BY <2>1, <2>3, <2>4, FunctionIsASequence
  <2> QED  BY <2>5 DEF rs
<1> DEFINE ms == given.messages \o <<CalledMessage(keep)>> \o ResultMessages
<1>7. ms \in Conversations
  BY <1>2, <1>5, <1>6, RequestFacts DEF Conversations
<1> HIDE DEF ms
<1> DEFINE request == [given EXCEPT !.messages = ms]
<1>8. request \in ChatRequest
  BY <1>2, <1>7, MessagesChange
<1>9. Arrival(request)
  BY <1>3 DEF ms
<1> HIDE DEF request
<1> QED  BY <1>8, <1>9 DEF Arrival

LEMMA PipelineKeepsOwn ==
  ASSUME OwnInv, AnswersInv, PipelineNext
  PROVE  OwnInv'
<1>0. StreamInv /\ StreamMatchesChat'
  BY PipelineKeepsAnswers DEF AnswersInv
<1>1. ASSUME NEW request \in ChatRequest,
             Receive(request, "http", IF request.messages = <<>> THEN "refused" ELSE Stages[1])
      PROVE  OwnInv'
  BY <1>1, ArrivingIsOwn, StagesFollow
<1>2. ASSUME Open PROVE OwnInv'
  BY <1>1, <1>2, InputAssumption DEF Open, Arrival
<1>3. ASSUME OpenTool PROVE OwnInv'
  BY <1>3, InputAssumption, ToolRequestType, ArrivingIsOwn DEF OpenTool
<1>4. ASSUME NEW keep \in BOOLEAN, FollowUp(keep) PROVE OwnInv'
  BY <1>1, <1>4, FollowUpType
<1>5. ASSUME NEW a \in Answerable, phase = "asked", AnswerWhole(a) PROVE OwnInv'
  BY <1>0, <1>5, WholeAnswersKeepOwn
<1>6. ASSUME NEW a \in Answerable, phase = "asked", OpenStream(a) PROVE OwnInv'
  BY <1>0, <1>6, StreamsKeepOwn
<1>7. ASSUME NextEvent \/ GarbledEvent \/ EndStream PROVE OwnInv'
  BY <1>0, <1>7, StreamsKeepOwn
<1> QED  BY <1>0, <1>2, <1>3, <1>4, <1>5, <1>6, <1>7, StagesKeepOwn, CandidatesKeepOwn,
            RemembersKeepOwn, RepliesKeepOwn
         DEF PipelineNext

LEMMA UnchangedOwn == OwnInv /\ UNCHANGED pipeline_vars => OwnInv'
BY DEF OwnInv, Remembers, Owned, FromCaller, FromAnswer, Spokenable, Unasked, pipeline_vars, turn_vars,
       cache_vars

(* While a call is under way the pipeline stands still.                    *)
LEMMA CallsLeaveThePipeline == CallsNext => PipelineNext \/ UNCHANGED pipeline_vars
BY DEF CallsNext, Begin, SkipCandidate, AskEmbeddings, AnswerEmbeddings, FailEmbeddings,
       ExhaustEmbeddings, TellFailure

LEMMA OwnInvImplies == OwnInv => ReplayIsOwn
<1> SUFFICES ASSUME OwnInv, phase = "asked", sent.kind = "openai", NEW i \in DOMAIN Wire.messages,
                    Wire.messages[i].reasoning # Unset
             PROVE  FromCaller(Wire.messages[i], given.messages) \/ FromAnswer(Wire.messages[i], produced)
  BY DEF ReplayIsOwn, FromCaller, FromAnswer
<1> DEFINE ms == sent.req.messages
<1>1. sent.req \in ChatRequest /\ Owned(ms, given.messages, produced)
  BY DEF OwnInv
<1>2. ms \in Seq(ChatMessage)
  BY <1>1, RequestFacts DEF Conversations
<1>3. Wire = OpenAiRequest(sent.req)
  BY DEF Wire, WireRequest
<1>4. Wire.messages = [j \in DOMAIN ms |-> [ms[j] EXCEPT !.cache_control = FALSE]]
  BY <1>3 DEF OpenAiRequest
<1> HIDE DEF ms
<1>5. i \in DOMAIN ms /\ ms[i] \in ChatMessage
  BY <1>2, <1>4
<1>6. Wire.messages[i] = [ms[i] EXCEPT !.cache_control = FALSE]
  BY <1>4, <1>5
<1>7. Wire.messages[i].reasoning = ms[i].reasoning /\ Wire.messages[i].tool_calls = ms[i].tool_calls
  BY <1>5, <1>6 DEF ChatMessage
<1>8. FromCaller(ms[i], given.messages) \/ FromAnswer(ms[i], produced)
  BY <1>1, <1>5, <1>7 DEF Owned
<1> QED  BY <1>7, <1>8 DEF FromCaller, FromAnswer

(* The reasoning on a message that goes out is the caller's own or that of *)
(* an answer that made one of the message's calls, in every conversation,  *)
(* whatever the cache has evicted or replaced.                             *)
THEOREM ReplayStaysOwn == CallsSpec => []ReplayIsOwn
<1> DEFINE Inv == CallsInv /\ OwnInv
<1>1. CallsInit => Inv
  BY CallsStart, OwnStarts DEF CallsInit
<1>2. Inv /\ [CallsNext]_all_vars => Inv'
  BY CallsGoOn, UnchangedCalls, CallsLeaveThePipeline, PipelineKeepsOwn, UnchangedOwn DEF all_vars,
     CallsInv
<1>3. Inv => ReplayIsOwn
  BY OwnInvImplies
<1> QED  BY <1>1, <1>2, <1>3, PTL DEF CallsSpec

-----------------------------------------------------------------------------
(* Required parameters.  What a candidate is sent differs from the staged  *)
(* request in its messages alone.                                          *)
Marked(ms) == \E i \in DOMAIN ms : ms[i].cache_control

Faithful(r, kind) ==
  /\ r \in ChatRequest /\ req \in ChatRequest /\ kind \in ProviderKind
  /\ r = [req EXCEPT !.messages = r.messages]
  /\ Marked(r.messages) => Marked(req.messages)
  /\ req.provider = RequireParameters => active_params(req) \subseteq supported_params(kind)

RequiredInv == phase = "asked" => Faithful(sent.req, sent.kind)

LEMMA KeptCandidates ==
  ASSUME config \in Configs, req.provider = RequireParameters, NEW n \in 1..Len(Chain)
  PROVE  active_params(req) \subseteq supported_params(Chain[n].kind)
<1> DEFINE I == { i \in DOMAIN config.chain :
                    active_params(req) \subseteq supported_params(config.chain[i].kind) }
<1>1. config.chain \in Seq(Candidate)
  BY ConfigAssumption DEF IsConfig
<1>2. Chain = Picked(config.chain, I)
  BY DEF Chain, Filtered, Selected
<1>3. Chain \in Seq(Candidate)
  BY ChainIsOfCandidates
<1>4. Chain[n] \in ToSet(Chain)
  BY <1>3 DEF ToSet
<1> HIDE DEF I, Chain
<1>5. \A x : x \in ToSet(Picked(config.chain, I)) <=> \E i \in DOMAIN config.chain : i \in I /\ x = config.chain[i]
  BY <1>1, PickedFacts
<1>6. PICK i \in I : Chain[n] = config.chain[i]
  BY <1>2, <1>4, <1>5
<1> QED  BY <1>6 DEF I

LEMMA RequiredKept ==
  ASSUME RequiredInv, OwnInv, AnswersInv, PipelineNext
  PROVE  RequiredInv'
<1> SUFFICES ASSUME phase' = "asked" PROVE Faithful(sent.req, sent.kind)'
  BY DEF RequiredInv
<1>1. Ask
  BY StagesFollow DEF PipelineNext, Open, OpenTool, Arrival, Receive, apply_preset, apply_web_search,
       apply_guardrails, apply_moderation, check_client_budget, CandidateFails, NoneLeft, AnswerWhole,
       OpenStream, Remember, Reply, NextEvent, GarbledEvent, EndStream, FollowUp
<1> DEFINE c == Chain[candidate]
           r == Prepared(c)
<1>2. phase = "dispatch" /\ candidate <= Len(Chain) /\ sent'.kind = c.kind /\ sent'.req = r
      /\ req' = req /\ by_id' = by_id
  BY <1>1 DEF Ask, Undispatched, cache_vars
<1>3. config \in Configs /\ candidate \in Nat \ {0} /\ req \in ChatRequest /\ by_id \in Traces
  BY <1>2 DEF AnswersInv, StreamInv, OwnInv, Unasked
<1>4. candidate \in 1..Len(Chain)
  BY <1>3, ChainIsOfCandidates, <1>2
<1>5. c.kind \in ProviderKind
  BY <1>3, <1>4, ChainIsOfCandidates
<1>6. req.provider = RequireParameters => active_params(req) \subseteq supported_params(c.kind)
  BY <1>3, <1>4, KeptCandidates
<1> HIDE DEF c
<1>7. r \in ChatRequest
  BY <1>3, PreparedType
<1>8. r = [req EXCEPT !.messages = r.messages]
  BY <1>3, PreparedType, Zenon
<1>9. Among(r.messages, Replayed(req.messages, by_id))
  BY <1>3, PreparedType, Zenon
<1> HIDE DEF r
<1>10. ASSUME NEW i \in DOMAIN r.messages, r.messages[i].cache_control PROVE Marked(req.messages)
  BY <1>3, RequestFacts, ReplayedType, <1>9, <1>10 DEF Among, Alike, ReplayedOnly, Marked
<1>11. Marked(r.messages) => Marked(req.messages)
  BY <1>10 DEF Marked
<1>12. Faithful(r, c.kind)
  BY <1>3, <1>5, <1>6, <1>7, <1>8, <1>11 DEF Faithful
<1> QED  BY <1>2, <1>12 DEF Faithful, r, c

(* Only the messages differ.                                               *)
LEMMA FaithfulFields ==
  ASSUME NEW r, NEW kind, Faithful(r, kind)
  PROVE  /\ r.params = req.params /\ r.tools = req.tools /\ r.tool_choice = req.tool_choice
         /\ r.response_format = req.response_format /\ r.reasoning = req.reasoning
         /\ r.max_tokens = req.max_tokens
         /\ req.params \in [SamplingParams -> Optional(Values)] /\ req.max_tokens \in Optional(Nat)
         /\ req.tool_choice \in Optional(ToolChoice) /\ req.response_format \in Optional(ResponseFormat)
         /\ req.reasoning \in Optional(ReasoningConfig)
BY DEF Faithful, ChatRequest

LEMMA SupportedBy ==
  /\ supported_params("anthropic") \cap SamplingParams = {"temperature", "top_p", "stop", "top_k"}
  /\ supported_params("gemini") \cap SamplingParams =
       {"temperature", "top_p", "stop", "top_k", "frequency_penalty", "presence_penalty", "seed"}
  /\ "cache_control" \notin supported_params("gemini")
  /\ "cache_control" \notin supported_params("openai")
BY DEF supported_params, SamplingParams

LEMMA ParamsAreSent ==
  ASSUME NEW r, NEW kind, Faithful(r, kind), req.provider = RequireParameters, NEW p \in SamplingParams
  PROVE  \/ WireRequest(kind, r).params[p] = req.params[p]
         \/ p = "top_logprobs" /\ req.params["logprobs"] = Unset
<1> DEFINE w == WireRequest(kind, r)
           free == {"temperature", "top_p", "stop", "top_logprobs"}
<1>1. r.params = req.params
  BY FaithfulFields
<1>2. active_params(req) \subseteq supported_params(kind) /\ kind \in ProviderKind
  BY DEF Faithful
<1>3. ASSUME NEW q \in SamplingParams \ free, req.params[q] # Unset
      PROVE  q \in supported_params(kind) \cap SamplingParams
  BY <1>3, <1>2 DEF active_params
<1>4. "logprobs" \in SamplingParams \ free
  BY DEF SamplingParams
<1> HIDE DEF w
<1>5. CASE kind = "openai"
  BY <1>5, <1>1 DEF w, WireRequest, OpenAiRequest
<1>6. ASSUME NEW names, w.params = Sent(r, names), supported_params(kind) \cap SamplingParams = names,
             {"temperature", "top_p", "stop"} \subseteq names, "logprobs" \notin names
      PROVE  w.params[p] = req.params[p] \/ (p = "top_logprobs" /\ req.params["logprobs"] = Unset)
  BY <1>1, <1>6, <1>3, <1>4 DEF Sent
<1>7. CASE kind = "anthropic"
  BY <1>7, SupportedBy, <1>6 DEF w, WireRequest, AnthropicRequest
<1>8. CASE kind = "gemini"
  BY <1>8, SupportedBy, <1>6 DEF w, WireRequest, GeminiRequest
<1> QED  BY <1>2, <1>5, <1>7, <1>8 DEF ProviderKind

LEMMA ToolsAreSent ==
  ASSUME NEW r, NEW kind, Faithful(r, kind)
  PROVE  LET w == WireRequest(kind, r) IN
         /\ w.tools = req.tools \/ (kind = "anthropic" /\ ForcedTool(req) # Unset)
         /\ req.tool_choice # Unset => w.tool_choice # Unset
         /\ req.response_format \in Functions =>
              w.format = req.response_format \/ w.tools = {req.response_format}
<1> DEFINE w == WireRequest(kind, r)
<1>1. /\ r.tools = req.tools /\ r.tool_choice = req.tool_choice /\ r.response_format = req.response_format
      /\ kind \in ProviderKind
  BY FaithfulFields DEF Faithful
<1>2. ForcedTool(r) = ForcedTool(req)
  BY <1>1 DEF ForcedTool
<1>3. Unset \notin Functions /\ Unset # "any" /\ Unset # "ANY" /\ "text" \notin Functions
  BY UnsetIsApart, VariantsAreApart DEF ResponseFormat
<1>4. CASE kind = "anthropic"
  BY <1>4, <1>1, <1>3, <1>2 DEF WireRequest, AnthropicRequest, ChoiceNamed, ForcedTool, w
<1>5. CASE kind = "gemini"
  BY <1>5, <1>1, <1>3 DEF WireRequest, GeminiRequest, w, ChoiceNamed
<1>6. CASE kind = "openai"
  BY <1>6, <1>1 DEF WireRequest, OpenAiRequest, w
<1> QED  BY <1>1, <1>4, <1>5, <1>6 DEF ProviderKind

LEMMA BudgetType ==
  ASSUME NEW c \in ReasoningConfig, NEW m \in Optional(Nat)
  PROVE  ThinkingBudget(c, m) \in Nat
BY BudgetAssumption DEF ReasoningConfig, ThinkingBudget, Optional, effort_thinking_budget

LEMMA ThinkingIsSent ==
  ASSUME NEW r, NEW kind, Faithful(r, kind), req.reasoning # Unset,
         kind # "openai" \/ req.reasoning.effort # Unset
  PROVE  WireRequest(kind, r).thinking # Unset
<1> DEFINE w == WireRequest(kind, r)
           budget == ThinkingBudget(r.reasoning, r.max_tokens)
<1>1. /\ r.reasoning = req.reasoning /\ kind \in ProviderKind
      /\ r.reasoning \in ReasoningConfig /\ r.max_tokens \in Optional(Nat)
  BY FaithfulFields DEF Faithful, Optional
<1>2. budget \in Nat
  BY <1>1, BudgetType
<1> HIDE DEF budget
<1>3. CASE kind = "anthropic"
  <2>1. w.thinking = IF budget < MinThinkingBudget THEN MinThinkingBudget ELSE budget
    BY <1>1, <1>3 DEF WireRequest, AnthropicRequest, AnthropicThinking, budget
  <2> HIDE DEF w
  <2>2. w.thinking \in Nat
    BY <1>2, <2>1, BudgetAssumption
  <2> QED  BY <2>2, UnsetIsApart DEF w
<1>4. CASE kind = "gemini"
  BY <1>1, <1>4, <1>2, UnsetIsApart DEF WireRequest, GeminiRequest, budget
<1>5. CASE kind = "openai"
  BY <1>1, <1>5 DEF WireRequest, OpenAiRequest
<1> QED  BY <1>1, <1>3, <1>4, <1>5 DEF ProviderKind

(* A marked message with content keeps its mark at Anthropic.              *)
LEMMA MarksAreSent ==
  ASSUME NEW r, NEW kind, Faithful(r, kind), req.provider = RequireParameters,
         NEW i \in DOMAIN r.messages, r.messages[i].cache_control, r.messages[i].content # <<>>,
         IsSystem(r.messages[i]) => r.messages[i].content # Unset
  PROVE  /\ kind = "anthropic"
         /\ \/ \E j \in DOMAIN WireRequest(kind, r).system : WireRequest(kind, r).system[j].cached
            \/ \E j \in DOMAIN WireRequest(kind, r).turns : WireRequest(kind, r).turns[j].cached
<1> DEFINE ms == r.messages
           m == ms[i]
           w == WireRequest(kind, r)
<1>1. ms \in Seq(ChatMessage) /\ kind \in ProviderKind
  BY RequestFacts DEF Faithful, Conversations
<1>2. "cache_control" \in supported_params(kind)
  BY DEF Faithful, Marked, active_params
<1>3. kind = "anthropic"
  BY <1>1, <1>2, SupportedBy DEF ProviderKind
<1>4. w.system = SystemBlocks(ms) /\ w.turns = AnthropicTurns(ms)
  BY <1>3 DEF WireRequest, AnthropicRequest
<1>5. i \in DOMAIN ms /\ m.cache_control /\ m.content # <<>> /\ (IsSystem(m) => m.content # Unset)
  OBVIOUS
<1> HIDE DEF w, ms
<1>6. m \in ChatMessage
  BY <1>1, <1>5
<1>7. m.role \in Role /\ m.content \in Optional(MessageContent) /\ m.tool_calls \in Seq(ToolCall)
  BY <1>6 DEF ChatMessage
<1>8. CASE IsSystem(m)
  <2> DEFINE I == { k \in DOMAIN ms : IsSystem(ms[k]) /\ ms[k].content # Unset }
             present == Picked(ms, I)
  <2>1. SystemBlocks(ms) = [k \in DOMAIN present |->
          [body |-> PlainText(present[k].content), cached |-> present[k].cache_control]]
    BY DEF SystemBlocks, Selected
  <2>2. i \in I
    BY <1>5, <1>8
  <2> HIDE DEF I
  <2>3. present \in Seq(ChatMessage)
        /\ \A x : x \in ToSet(present) <=> \E k \in DOMAIN ms : k \in I /\ x = ms[k]
    BY <1>1, PickedFacts
  <2>4. m \in ToSet(present)
    BY <1>5, <2>2, <2>3
  <2> HIDE DEF present
  <2>5. PICK k \in DOMAIN present : present[k] = m
    BY <2>3, <2>4 DEF ToSet
  <2>6. SystemBlocks(ms)[k].cached = m.cache_control /\ k \in DOMAIN SystemBlocks(ms)
    BY <2>1, <2>5
  <2>7. \E j \in DOMAIN w.system : w.system[j].cached
    BY <1>4, <1>5, <2>6
  <2> QED  BY <1>3, <2>7 DEF w
<1>9. CASE ~IsSystem(m)
  <2> DEFINE I == { k \in DOMAIN ms : IsTurn(ms[k]) }
             turns == Picked(ms, I)
  <2>1. AnthropicTurns(ms) = [k \in DOMAIN turns |->
          [role |-> IF turns[k].role = "assistant" THEN "assistant" ELSE "user",
           blocks |-> AnthropicBlocks(turns[k]),
           cached |-> turns[k].cache_control /\ AnthropicBlocks(turns[k]) # <<>>]]
    BY DEF AnthropicTurns, Selected
  <2>2. i \in I
    BY <1>5, <1>9 DEF IsTurn, IsSystem
  <2> HIDE DEF I
  <2>3. turns \in Seq(ChatMessage)
        /\ \A x : x \in ToSet(turns) <=> \E k \in DOMAIN ms : k \in I /\ x = ms[k]
    BY <1>1, PickedFacts
  <2>4. m \in ToSet(turns)
    BY <1>5, <2>2, <2>3
  <2> HIDE DEF turns
  <2>5. PICK k \in DOMAIN turns : turns[k] = m
    BY <2>3, <2>4 DEF ToSet
  <2>6. \A blocks : AtLeastOne(blocks) # <<>>
    BY DEF AtLeastOne
  <2>7. AnthropicBlocks(m) # <<>>
    BY <1>7, <1>9, <2>6, <1>5 DEF Role, IsSystem, AnthropicBlocks, Optional, MessageContent
  <2>8. AnthropicTurns(ms)[k].cached = (m.cache_control /\ AnthropicBlocks(m) # <<>>)
        /\ k \in DOMAIN AnthropicTurns(ms)
    BY <2>1, <2>5
  <2>9. \E j \in DOMAIN w.turns : w.turns[j].cached
    BY <1>4, <1>5, <2>7, <2>8
  <2> QED  BY <1>3, <2>9 DEF w
<1> QED  BY <1>8, <1>9

LEMMA RequiredInvImplies == RequiredInv => RequiredParametersAreSent
BY ParamsAreSent, ToolsAreSent, ThinkingIsSent, MarksAreSent DEF RequiredParametersAreSent,
   RequiredInv, Wire

LEMMA UnchangedRequired == RequiredInv /\ UNCHANGED pipeline_vars => RequiredInv'
BY DEF RequiredInv, Faithful, pipeline_vars, turn_vars, cache_vars

(* A candidate kept for a request that requires its parameters is sent     *)
(* each of them, whatever the chain, the request and the stages made of it.*)
THEOREM RequiredParametersStaySent == CallsSpec => []RequiredParametersAreSent
<1> DEFINE Inv == CallsInv /\ OwnInv /\ RequiredInv
<1>1. CallsInit => Inv
  BY CallsStart, OwnStarts DEF PipelineInit, RequiredInv, CallsInit
<1>2. Inv /\ [CallsNext]_all_vars => Inv'
  BY CallsGoOn, UnchangedCalls, CallsLeaveThePipeline, PipelineKeepsOwn, UnchangedOwn, RequiredKept,
     UnchangedRequired DEF all_vars, CallsInv
<1>3. Inv => RequiredParametersAreSent
  BY RequiredInvImplies
<1> QED  BY <1>1, <1>2, <1>3, PTL DEF CallsSpec

-----------------------------------------------------------------------------
(* Screening.  The lines a request's texts can have shrink to those that no *)
(* guardrail matches, and to those that moderation was shown.               *)
SaysOnly(ms, L) == \A i \in DOMAIN ms : ms[i].content \in Optional(Seq(Saying(L)))

LEMMA SayingMore ==
  ASSUME NEW L, NEW R, L \subseteq R
  PROVE  /\ Seq(Saying(L)) \subseteq Seq(Saying(R))
         /\ \A ms : SaysOnly(ms, L) => SaysOnly(ms, R)
BY DEF Saying, SaysOnly, Optional

LEMMA AllAreSaying == ASSUME NEW ms \in Conversations PROVE SaysOnly(ms, Lines)
BY PartsAreSaying, MessageFacts DEF SaysOnly, Conversations

(* A text with only some of the lines it may have.                         *)
LEMMA NarrowText ==
  ASSUME NEW S, NEW R, NEW wording \in Seq(S), ToSet(wording) \subseteq R
  PROVE  wording \in Seq(R)
BY FunctionIsASequence DEF ToSet

(* Contents narrow when each of their texts does.                          *)
LEMMA NarrowContent ==
  ASSUME NEW S, NEW R, NEW c \in Optional(Seq(Saying(S))),
         c # Unset => \A j \in DOMAIN c : IsText(c[j]) => ToSet(c[j].body) \subseteq R
  PROVE  c \in Optional(Seq(Saying(R)))
BY NarrowText, FunctionIsASequence DEF Optional, Saying, IsText

(* A guardrail that matches no message leaves none of its lines.           *)
LEMMA UnmatchedSays ==
  ASSUME NEW ms, NEW S, SaysOnly(ms, S), NEW g, \A i \in DOMAIN ms : ~Matches(g, ms[i])
  PROVE  SaysOnly(ms, S \ g.pattern)
<1> SUFFICES ASSUME NEW i \in DOMAIN ms PROVE ms[i].content \in Optional(Seq(Saying(S \ g.pattern)))
  BY DEF SaysOnly
<1> DEFINE c == ms[i].content
<1>1. c \in Optional(Seq(Saying(S)))
  BY DEF SaysOnly
<1>2. ASSUME c # Unset, NEW j \in DOMAIN c, IsText(c[j]) PROVE ToSet(c[j].body) \subseteq S \ g.pattern
  BY <1>1, <1>2 DEF Optional, Saying, IsText, Matches, ToSet
<1> HIDE DEF c
<1>3. c \in Optional(Seq(Saying(S \ g.pattern)))
  BY <1>1, <1>2, NarrowContent
<1> QED  BY <1>3 DEF c

(* A redaction leaves its replacement in the place of its lines.           *)
LEMMA RedactSays ==
  ASSUME NEW ms \in Conversations, NEW S \in SUBSET Lines, SaysOnly(ms, S), NEW g \in Guardrail,
         g.action # "block"
  PROVE  SaysOnly(Redact(ms, g), (S \ g.pattern) \cup {g.replacement})
<1> DEFINE change == [l \in Lines |-> IF l \in g.pattern THEN g.replacement ELSE l]
           R == (S \ g.pattern) \cup {g.replacement}
           ns == Redact(ms, g)
<1>1. \A l \in S : change[l] \in R
  OBVIOUS
<1>2. ns = [i \in DOMAIN ms |-> IF ms[i].content = Unset THEN ms[i]
                                ELSE [ms[i] EXCEPT !.content = MapText(@, change)]]
  BY DEF Redact
<1> HIDE DEF change, R, ns
<1>3. ASSUME NEW i \in DOMAIN ms PROVE ns[i].content \in Optional(Seq(Saying(R)))
  BY <1>2, <1>1, MapTextSays DEF Conversations, Optional, SaysOnly, ChatMessage
<1>4. DOMAIN ns = DOMAIN ms
  BY <1>2
<1> QED  BY <1>3, <1>4 DEF SaysOnly, R, ns

(* What a guardrail sees is what those before it have made.                *)
LEMMA PrefixRedacted ==
  ASSUME NEW ms, NEW gs \in Seq(Guardrail), NEW f, Redacts(f, ms, gs, Len(gs)), NEW k \in 0..Len(gs)
  PROVE  Redacted(ms, SubSeq(gs, 1, k)) = f[k]
<1> DEFINE hs == SubSeq(gs, 1, k)
<1>1. Len(gs) \in Nat /\ k \in Nat /\ k <= Len(gs)
  OBVIOUS
<1>2. Len(hs) = k /\ \A i \in 1..k : hs[i] = gs[i]
  BY <1>1
<1> HIDE DEF hs
<1>3. PICK h : Redacts(h, ms, hs, k) /\ Redacted(ms, hs) = h[k]
  BY <1>1, <1>2, RedactedBy
<1> DEFINE T == { j \in Nat : j <= k => h[j] = f[j] }
<1>4. \A j \in 0..k : h[j] = IF j = 0 THEN ms ELSE Redact(h[j - 1], hs[j])
  BY <1>3, RedactsAt
<1>5. \A j \in 0..Len(gs) : f[j] = IF j = 0 THEN ms ELSE Redact(f[j - 1], gs[j])
  BY RedactsAt
<1>6. 0 \in T
  BY <1>1, <1>4, <1>5
<1>7. ASSUME NEW j \in Nat, j \in T PROVE j + 1 \in T
  <2> SUFFICES ASSUME j + 1 <= k PROVE h[j + 1] = f[j + 1]
    OBVIOUS
  <2>1. j + 1 \in 0..k /\ j + 1 \in 0..Len(gs) /\ j + 1 # 0 /\ (j + 1) - 1 = j /\ j + 1 \in 1..k
    BY <1>1
  <2>2. h[j] = f[j]
    BY <1>1, <1>7
  <2>3. h[j + 1] = Redact(h[j], hs[j + 1])
    BY <1>4, <2>1
  <2>4. f[j + 1] = Redact(f[j], gs[j + 1])
    BY <1>5, <2>1
  <2> QED  BY <1>2, <2>1, <2>2, <2>3, <2>4
<1> HIDE DEF T
<1>8. k \in T
  BY <1>1, <1>6, <1>7, Inductive
<1> QED  BY <1>3, <1>8 DEF T, hs

(* The lines that none of the first k guardrails match.                    *)
Clean(gs, k) == { l \in Lines : \A g \in 1..k : l \notin gs[g].pattern }

(* What a redaction puts in is matched by no guardrail that comes no later. *)
CleanlyReplaced(gs) ==
  \A h \in DOMAIN gs : gs[h].action = "redact" =>
    \A g \in 1..h : gs[h].replacement \notin gs[g].pattern

LEMMA RedactingScreens ==
  ASSUME NEW ms \in Conversations, NEW gs \in Seq(Guardrail), CleanlyReplaced(gs),
         ~GuardrailBlocks(ms, gs)
  PROVE  SaysOnly(Redacted(ms, gs), Clean(gs, Len(gs)))
<1>1. Len(gs) \in Nat /\ DOMAIN gs = 1..Len(gs) /\ \A k \in 1..Len(gs) : gs[k] \in Guardrail
  OBVIOUS
<1>2. PICK f : Redacts(f, ms, gs, Len(gs)) /\ Redacted(ms, gs) = f[Len(gs)]
  BY <1>1, RedactedBy
<1>3. \A j \in 0..Len(gs) : f[j] = IF j = 0 THEN ms ELSE Redact(f[j - 1], gs[j])
  BY <1>2, RedactsAt
<1> DEFINE T == { k \in Nat : k <= Len(gs) => f[k] \in Conversations /\ SaysOnly(f[k], Clean(gs, k)) }
<1>4. 0 \in T
  <2>1. f[0] = ms
    BY <1>1, <1>3
  <2>2. Clean(gs, 0) = Lines
    BY DEF Clean
  <2> QED  BY <2>1, <2>2, AllAreSaying
<1>5. ASSUME NEW k \in Nat, k \in T PROVE k + 1 \in T
  <2> SUFFICES ASSUME k + 1 <= Len(gs)
               PROVE  f[k + 1] \in Conversations /\ SaysOnly(f[k + 1], Clean(gs, k + 1))
    OBVIOUS
  <2> DEFINE g == gs[k + 1]
             S == Clean(gs, k)
  <2>1. k + 1 \in 1..Len(gs) /\ k + 1 \in 0..Len(gs) /\ k + 1 # 0 /\ (k + 1) - 1 = k
    BY <1>1
  <2>2. f[k] \in Conversations /\ SaysOnly(f[k], S) /\ S \in SUBSET Lines
    BY <1>1, <1>5 DEF Clean
  <2>3. f[k + 1] = Redact(f[k], g) /\ g \in Guardrail
    BY <1>1, <1>3, <2>1
  <2>4. f[k + 1] \in Conversations
    BY <2>2, <2>3, RedactType
  <2>5. \A l \in S : l \notin g.pattern => l \in Clean(gs, k + 1)
    BY DEF Clean
  <2>6. CASE g.action = "block"
    <3>1. f[k + 1] = f[k]
      BY <2>3, <2>6 DEF Redact
    <3>2. Redacted(ms, SubSeq(gs, 1, k)) = f[k]
      BY <1>1, <1>2, PrefixRedacted
    <3>3. \A i \in DOMAIN f[k] : ~Matches(g, f[k][i])
      BY <1>1, <2>1, <2>6, <3>2 DEF GuardrailBlocks
    <3> HIDE DEF g, S
    <3>4. SaysOnly(f[k], S \ g.pattern)
      BY <2>2, <3>3, UnmatchedSays
    <3>5. S \ g.pattern \subseteq Clean(gs, k + 1)
      BY <2>5
    <3> QED  BY <2>4, <3>1, <3>4, <3>5, SayingMore
  <2>7. CASE g.action # "block"
    <3>1. g.action = "redact" /\ g.replacement \in Lines
      BY <2>3, <2>7 DEF Guardrail
    <3>2. g.replacement \in Clean(gs, k + 1)
      BY <1>1, <2>1, <3>1 DEF Clean, CleanlyReplaced
    <3> HIDE DEF g, S
    <3>3. SaysOnly(f[k + 1], (S \ g.pattern) \cup {g.replacement})
      BY <2>2, <2>3, <2>7, RedactSays
    <3>4. (S \ g.pattern) \cup {g.replacement} \subseteq Clean(gs, k + 1)
      BY <2>5, <3>2
    <3> QED  BY <2>4, <3>3, <3>4, SayingMore
  <2> QED  BY <2>6, <2>7
<1> HIDE DEF T
<1>6. Len(gs) \in T
  BY <1>1, <1>4, <1>5, Inductive
<1> QED  BY <1>2, <1>6 DEF T

(* Moderation is shown every line of every text.                           *)
LEMMA PlainTextType ==
  ASSUME NEW L, NEW c \in Seq(Saying(L))
  PROVE  /\ PlainText(c) \in Seq(L)
         /\ \A j \in DOMAIN c : IsText(c[j]) => ToSet(c[j].body) \subseteq ToSet(PlainText(c))
<1> DEFINE I == { j \in DOMAIN c : IsText(c[j]) }
           texts == Picked(c, I)
           bodies == [i \in DOMAIN texts |-> texts[i].body]
<1>1. PlainText(c) = FlattenSeq(bodies)
  BY DEF PlainText, Selected
<1>2. \A j \in I : j \in DOMAIN c /\ IsText(c[j])
  OBVIOUS
<1>3. \A j \in DOMAIN c : IsText(c[j]) => j \in I
  OBVIOUS
<1> HIDE DEF I
<1>4. texts \in Seq(Saying(L)) /\ \A x : x \in ToSet(texts) <=> \E j \in DOMAIN c : j \in I /\ x = c[j]
  BY PickedFacts
<1> HIDE DEF texts
<1>5. DOMAIN texts = 1..Len(texts) /\ Len(texts) \in Nat
  BY <1>4
<1>6. ASSUME NEW i \in DOMAIN texts PROVE texts[i].body \in Seq(L)
  <2>1. PICK j \in I : texts[i] = c[j]
    BY <1>4 DEF ToSet
  <2>2. IsText(texts[i]) /\ texts[i] \in Saying(L)
    BY <1>2, <2>1
  <2> QED  BY <2>2 DEF Saying, IsText
<1>7. bodies \in Seq(Seq(L))
  BY <1>5, <1>6
<1>8. DOMAIN bodies = DOMAIN texts /\ \A i \in DOMAIN texts : bodies[i] = texts[i].body
  OBVIOUS
<1> HIDE DEF bodies
<1>9. FlattenSeq(bodies) \in Seq(L)
  BY <1>7, FlattenType
<1>10. ASSUME NEW j \in DOMAIN c, IsText(c[j]), NEW x \in ToSet(c[j].body)
       PROVE  x \in ToSet(FlattenSeq(bodies))
  <2>1. c[j] \in ToSet(texts)
    BY <1>3, <1>4, <1>10
  <2>2. PICK i \in DOMAIN texts : texts[i] = c[j]
    BY <1>5, <2>1 DEF ToSet
  <2>3. x \in ToSet(bodies[i]) /\ i \in DOMAIN bodies
    BY <1>8, <1>10, <2>2
  <2> QED  BY <1>7, <2>3, FlattenElements
<1> QED  BY <1>1, <1>9, <1>10

LEMMA JudgedSays ==
  ASSUME NEW ms \in Conversations
  PROVE  CollectedText(ms) \in Text /\ SaysOnly(ms, ToSet(CollectedText(ms)))
<1> DEFINE texts == [i \in DOMAIN ms |-> TextOf(ms[i].content)]
<1>1. CollectedText(ms) = FlattenSeq(texts)
  BY DEF CollectedText
<1>2. DOMAIN ms = 1..Len(ms) /\ Len(ms) \in Nat /\ \A i \in DOMAIN ms : ms[i].content \in Optional(Seq(Saying(Lines)))
  BY AllAreSaying DEF SaysOnly, Conversations
<1>3. ASSUME NEW i \in DOMAIN ms
      PROVE  /\ TextOf(ms[i].content) \in Seq(Lines)
             /\ ms[i].content # Unset => \A j \in DOMAIN ms[i].content : IsText(ms[i].content[j]) =>
                  ToSet(ms[i].content[j].body) \subseteq ToSet(TextOf(ms[i].content))
  BY <1>2, PlainTextType DEF TextOf, Optional
<1>4. texts \in Seq(Seq(Lines)) /\ DOMAIN texts = DOMAIN ms
  BY <1>2, <1>3
<1>5. \A i \in DOMAIN ms : texts[i] = TextOf(ms[i].content)
  OBVIOUS
<1> HIDE DEF texts
<1> DEFINE shown == FlattenSeq(texts)
<1>6. shown \in Seq(Lines)
  BY <1>4, FlattenType
<1>7. ASSUME NEW i \in DOMAIN ms PROVE ToSet(TextOf(ms[i].content)) \subseteq ToSet(shown)
  BY <1>4, <1>5, FlattenElements
<1> HIDE DEF shown
<1>8. ASSUME NEW i \in DOMAIN ms PROVE ms[i].content \in Optional(Seq(Saying(ToSet(shown))))
  <2>1. /\ ms[i].content # Unset => \A j \in DOMAIN ms[i].content : IsText(ms[i].content[j]) =>
              ToSet(ms[i].content[j].body) \subseteq ToSet(shown)
        /\ ms[i].content \in Optional(Seq(Saying(Lines)))
    BY <1>2, <1>3, <1>7
  <2> QED  BY <2>1, NarrowContent
<1> QED  BY <1>1, <1>6, <1>8 DEF SaysOnly, shown, Text

(* The transforms made for a candidate add only markers.                   *)
WithMarkers(L) == L \cup {RepeatMarker, OmittedMarker}

LEMMA CompactedSays ==
  ASSUME NEW r \in ChatRequest, NEW L, SaysOnly(r.messages, L)
  PROVE  SaysOnly(Compacted(r).messages, WithMarkers(L))
<1> DEFINE S == WithMarkers(L)
           ms == r.messages
           ns == Compacted(r).messages
<1>1. L \subseteq S /\ {RepeatMarker, OmittedMarker} \subseteq S
  BY DEF WithMarkers
<1> HIDE DEF S
<1>2. SaysOnly(ms, S)
  BY <1>1, SayingMore
<1>3. DOMAIN ns = DOMAIN ms
  BY CompactedType
<1>4. ASSUME NEW i \in DOMAIN ms, ns[i] # ms[i]
      PROVE  ms[i].content # Unset /\ ns[i] = [ms[i] EXCEPT !.content = Shortened(ms[i].content)]
             /\ ms[i] \in ChatMessage
  <2>1. "rtk" \in r.transforms
    BY <1>4 DEF Compacted
  <2>2. Compacted(r) = [r EXCEPT !.messages = [k \in DOMAIN ms |->
                          IF ms[k].role # "tool" \/ ms[k].content = Unset THEN ms[k]
                          ELSE [ms[k] EXCEPT !.content = Shortened(ms[k].content)]]]
    BY <2>1 DEF Compacted
  <2>3. ns = [k \in DOMAIN ms |-> IF ms[k].role # "tool" \/ ms[k].content = Unset THEN ms[k]
                                  ELSE [ms[k] EXCEPT !.content = Shortened(ms[k].content)]]
    BY <2>2 DEF ChatRequest
  <2>4. ms[i] \in ChatMessage
    BY RequestFacts DEF Conversations
  <2> HIDE DEF ms, ns
  <2> QED  BY <1>4, <2>3, <2>4
<1>5. ASSUME NEW i \in DOMAIN ms PROVE ns[i].content \in Optional(Seq(Saying(S)))
  <2>1. ms[i].content \in Optional(Seq(Saying(S)))
    BY <1>2 DEF SaysOnly
  <2>2. CASE ns[i] # ms[i]
    <3>1. ms[i].content \in Seq(Saying(S)) /\ ns[i].content = Shortened(ms[i].content)
      BY <1>4, <2>1, <2>2 DEF Optional, ChatMessage
    <3> QED  BY <1>1, <3>1, ShortenedSays DEF Optional
  <2> QED  BY <2>1, <2>2
<1> QED  BY <1>3, <1>5 DEF SaysOnly, S

LEMMA PreparedSays ==
  ASSUME NEW c, req \in ChatRequest, by_id \in Traces, NEW L, SaysOnly(req.messages, L)
  PROVE  SaysOnly(Prepared(c).messages, WithMarkers(L))
<1> DEFINE ms == Replayed(req.messages, by_id)
           base == [req EXCEPT !.messages = ms]
           short == Compacted(base)
<1>1. ms \in Conversations /\ SaysOnly(ms, L)
  BY RequestFacts, ReplayedType DEF ReplayedOnly, SaysOnly
<1> HIDE DEF ms
<1>2. base \in ChatRequest /\ base.messages = ms
  BY <1>1, MessagesChange
<1> HIDE DEF base
<1>3. SaysOnly(base.messages, L)
  BY <1>1, <1>2
<1>4. short \in ChatRequest
  BY <1>2, CompactedType
<1>5. SaysOnly(short.messages, WithMarkers(L))
  BY <1>2, <1>3, CompactedSays, Zenon
<1> HIDE DEF short
<1>6. ToSet(Truncated(short, c.context_length).messages) \subseteq ToSet(short.messages)
  BY <1>4, TruncatedType, Zenon
<1>7. Prepared(c) = Truncated(short, c.context_length)
  BY DEF Prepared, short, base, ms
<1> QED  BY <1>5, <1>6, <1>7 DEF SaysOnly, ToSet

(* What is read on the wire of texts with only lines of L.                 *)
MediaKinds == {"image_url", "file", "input_audio"}
SayingAtoms(L) == ({"text"} \X L) \cup (MediaKinds \X Data) \cup ({"call"} \X Functions \X Text)

(* Blocks made of such texts, with results for anything in T.              *)
SayingBlocks(L, T) ==
  [type : {"text"}, tag : {Unset}, body : Seq(L)] \cup
  [type : {"image", "document"}, tag : {"base64", "url"}, body : Data] \cup
  [type : {"inlineData", "fileData"}, tag : MediaKinds, body : Data] \cup
  [type : {"tool_use"}, tag : CallIds \X Functions, body : Text] \cup
  [type : {"functionCall"}, tag : Functions, body : Text] \cup
  [type : {"tool_result", "functionResponse"}, tag : T, body : Seq(L)]

LEMMA TextAtomsSay ==
  ASSUME NEW L, NEW lines \in Seq(L)
  PROVE  TextAtoms(lines) \in Seq(SayingAtoms(L))
BY FunctionIsASequence DEF SayingAtoms, TextAtoms

LEMMA InputType == ASSUME NEW arguments \in Text PROVE Input(arguments) \in Text
BY DEF Input, Text

LEMMA BlockAtomsSay ==
  ASSUME NEW L, NEW T, NEW b \in SayingBlocks(L, T)
  PROVE  IF IsResult(b) THEN b.body \in Seq(L) ELSE BlockAtoms(b) \in Seq(SayingAtoms(L))
<1>1. CASE b \in [type : {"text"}, tag : {Unset}, body : Seq(L)]
  BY <1>1, TextAtomsSay DEF BlockAtoms, IsResult
<1>2. CASE b \in [type : {"image", "document"}, tag : {"base64", "url"}, body : Data]
  BY <1>2 DEF BlockAtoms, SayingAtoms, MediaKinds, IsResult
<1>3. CASE b \in [type : {"inlineData", "fileData"}, tag : MediaKinds, body : Data]
  BY <1>3 DEF BlockAtoms, SayingAtoms, IsResult
<1>4. CASE b \in [type : {"tool_use"}, tag : CallIds \X Functions, body : Text]
  BY <1>4 DEF BlockAtoms, SayingAtoms, IsResult
<1>5. CASE b \in [type : {"functionCall"}, tag : Functions, body : Text]
  BY <1>5 DEF BlockAtoms, SayingAtoms, IsResult
<1>6. CASE b \in [type : {"tool_result", "functionResponse"}, tag : T, body : Seq(L)]
  BY <1>6 DEF IsResult
<1> QED  BY <1>1, <1>2, <1>3, <1>4, <1>5, <1>6 DEF SayingBlocks

LEMMA MessageAtomsSay ==
  ASSUME NEW L, NEW m \in ChatMessage, m.content \in Optional(Seq(Saying(L)))
  PROVE  MessageAtoms(m) \in Seq(SayingAtoms(L))
<1> DEFINE A == SayingAtoms(L)
           calls == [i \in DOMAIN m.tool_calls |->
                       <<"call", m.tool_calls[i].name, Input(m.tool_calls[i].arguments)>>]
           parts == [i \in DOMAIN m.content |-> PartAtoms(m.content[i])]
<1>1. calls \in Seq(A)
  <2>1. m.tool_calls \in Seq(ToolCall)
    BY MessageFacts
  <2>2. ASSUME NEW i \in DOMAIN m.tool_calls
        PROVE  m.tool_calls[i].name \in Functions /\ Input(m.tool_calls[i].arguments) \in Text
    <3>1. m.tool_calls[i] \in ToolCall
      BY <2>1
    <3>2. m.tool_calls[i].name \in Functions /\ m.tool_calls[i].arguments \in Text
      BY <3>1 DEF ToolCall
    <3> QED  BY <3>2, InputType
  <2>3. \A i \in DOMAIN m.tool_calls :
          <<"call", m.tool_calls[i].name, Input(m.tool_calls[i].arguments)>> \in A
    BY <2>2 DEF SayingAtoms
  <2>4. Len(m.tool_calls) \in Nat /\ DOMAIN m.tool_calls = 1..Len(m.tool_calls)
    BY <2>1
  <2>5. calls = [i \in 1..Len(m.tool_calls) |-> calls[i]] /\ \A i \in 1..Len(m.tool_calls) : calls[i] \in A
    BY <2>3, <2>4
  <2> HIDE DEF A, calls
  <2> QED  BY <2>4, <2>5, FunctionIsASequence
<1>2. CASE m.content = Unset
  BY <1>1, <1>2 DEF MessageAtoms
<1>3. CASE m.content # Unset
  <2>1. m.content \in Seq(Saying(L))
    BY <1>3 DEF Optional
  <2>2. ASSUME NEW i \in DOMAIN m.content PROVE PartAtoms(m.content[i]) \in Seq(A)
    <3> DEFINE p == m.content[i]
    <3>1. p \in Saying(L)
      BY <2>1
    <3> HIDE DEF p
    <3>2. CASE IsText(p)
      BY <3>1, <3>2, TextAtomsSay DEF Saying, IsText, PartAtoms, p
    <3>3. CASE ~IsText(p)
      BY <3>1, <3>3 DEF Saying, IsText, MediaKinds, SayingAtoms, PartAtoms, p
    <3> QED  BY <3>2, <3>3
  <2> HIDE DEF A
  <2>3. parts \in Seq(Seq(A))
    BY <2>1, <2>2
  <2>4. MessageAtoms(m) = FlattenSeq(parts) \o calls
    BY <1>3 DEF MessageAtoms
  <2> HIDE DEF parts, calls
  <2>5. FlattenSeq(parts) \in Seq(A)
    BY <2>3, FlattenType
  <2>6. FlattenSeq(parts) \o calls \in Seq(A)
    BY <1>1, <2>5
  <2> QED  BY <2>4, <2>6 DEF A
<1> QED  BY <1>2, <1>3

(* The blocks of a turn, whichever adapter makes them.                     *)
LEMMA TextOfType ==
  ASSUME NEW L, NEW c \in Optional(Seq(Saying(L)))
  PROVE  TextOf(c) \in Seq(L)
BY PlainTextType DEF TextOf, Optional

LEMMA AtLeastOneSays ==
  ASSUME NEW L, NEW T, NEW blocks \in Seq(SayingBlocks(L, T))
  PROVE  AtLeastOne(blocks) \in Seq(SayingBlocks(L, T))
<1>1. Block("text", Unset, <<>>) \in SayingBlocks(L, T)
  BY DEF Block, SayingBlocks
<1> HIDE DEF SayingBlocks
<1> QED  BY <1>1 DEF AtLeastOne

LEMMA SpokenSays ==
  ASSUME NEW L, NEW T, NEW m \in ChatMessage, m.content \in Optional(Seq(Saying(L))), NEW calls,
         calls = [i \in DOMAIN m.tool_calls |-> calls[i]],
         \A i \in DOMAIN m.tool_calls : calls[i] \in SayingBlocks(L, T)
  PROVE  AtLeastOne(TextBlocks(TextOf(m.content)) \o calls) \in Seq(SayingBlocks(L, T))
<1> DEFINE S == SayingBlocks(L, T)
<1>1. TextOf(m.content) \in Seq(L)
  BY TextOfType
<1>2. Block("text", Unset, TextOf(m.content)) \in S
  BY <1>1 DEF Block, SayingBlocks
<1>3. m.tool_calls \in Seq(ToolCall)
  BY MessageFacts
<1> HIDE DEF S
<1>4. TextBlocks(TextOf(m.content)) \in Seq(S)
  BY <1>2 DEF TextBlocks
<1>5. calls \in Seq(S)
  <2>1. Len(m.tool_calls) \in Nat /\ DOMAIN m.tool_calls = 1..Len(m.tool_calls)
    BY <1>3
  <2>2. calls = [i \in 1..Len(m.tool_calls) |-> calls[i]] /\ \A i \in 1..Len(m.tool_calls) : calls[i] \in S
    BY <2>1, Zenon DEF S
  <2> QED  BY <2>1, <2>2, FunctionIsASequence
<1>6. TextBlocks(TextOf(m.content)) \o calls \in Seq(S)
  BY <1>4, <1>5
<1> QED  BY <1>6, AtLeastOneSays DEF S

LEMMA PointwiseType ==
  ASSUME NEW S, NEW R, NEW s \in Seq(S), NEW d, d = [j \in DOMAIN s |-> d[j]],
         \A j \in DOMAIN s : d[j] \in R
  PROVE  d \in Seq(R) /\ DOMAIN d = DOMAIN s
<1>1. Len(s) \in Nat /\ DOMAIN s = 1..Len(s)
  OBVIOUS
<1>2. d = [j \in 1..Len(s) |-> d[j]] /\ \A j \in 1..Len(s) : d[j] \in R
  BY <1>1, Zenon
<1> QED  BY <1>1, <1>2, FunctionIsASequence

LEMMA PickedMembers ==
  ASSUME NEW S, NEW s \in Seq(S), NEW I
  PROVE  /\ Picked(s, I) \in Seq(S)
         /\ \A k \in DOMAIN Picked(s, I) : \E i \in DOMAIN s : i \in I /\ Picked(s, I)[k] = s[i]
<1> DEFINE p == Picked(s, I)
<1>1. p \in Seq(S) /\ \A x : x \in ToSet(p) <=> \E i \in DOMAIN s : i \in I /\ x = s[i]
  BY PickedFacts
<1> HIDE DEF p
<1>2. \A k \in DOMAIN p : p[k] \in ToSet(p)
  BY <1>1 DEF ToSet
<1> QED  BY <1>1, <1>2 DEF p

(* The blocks the adapters make of a turn.                                 *)
LEMMA AnthropicBlocksSay ==
  ASSUME NEW L, NEW m \in ChatMessage, IsTurn(m), m.content \in Optional(Seq(Saying(L))),
         m.role = "user" /\ m.content # Unset =>
           \A j \in DOMAIN m.content : m.content[j].kind # "input_audio"
  PROVE  AnthropicBlocks(m) \in Seq(SayingBlocks(L, Optional(CallIds)))
<1> DEFINE S == SayingBlocks(L, Optional(CallIds))
<1>1. /\ m.role \in {"user", "assistant", "tool"} /\ m.tool_calls \in Seq(ToolCall)
      /\ m.tool_call_id \in Optional(CallIds)
  BY MessageFacts DEF IsTurn, Role
<1>2. CASE m.role = "tool"
  BY <1>1, TextOfType, <1>2 DEF Block, SayingBlocks, AnthropicBlocks, S
<1>3. CASE m.role = "user" /\ m.content = Unset
  <2>1. <<>> \in Seq(S)
    OBVIOUS
  <2> QED  BY <1>3, <2>1, AtLeastOneSays DEF AnthropicBlocks
<1>4. CASE m.role = "user" /\ m.content # Unset
  <2> DEFINE blocks == [j \in DOMAIN m.content |-> AnthropicBlock(m.content[j])]
  <2>1. m.content \in Seq(Saying(L))
    BY <1>4 DEF Optional
  <2>2. ASSUME NEW j \in DOMAIN m.content PROVE AnthropicBlock(m.content[j]) \in S
    BY <1>4, <2>1 DEF Saying, AnthropicBlock, Block, SayingBlocks, Source
  <2>3. blocks = [j \in DOMAIN m.content |-> blocks[j]] /\ \A j \in DOMAIN m.content : blocks[j] \in S
    BY <2>2
  <2>4. AnthropicBlocks(m) = blocks
    BY <1>4 DEF AnthropicBlocks
  <2> HIDE DEF S, blocks
  <2>5. blocks \in Seq(S)
    BY <2>1, <2>3, PointwiseType
  <2> QED  BY <2>4, <2>5 DEF S
<1>5. CASE m.role = "assistant"
  <2> DEFINE calls == [i \in DOMAIN m.tool_calls |->
                         Block("tool_use", <<m.tool_calls[i].id, m.tool_calls[i].name>>,
                               Input(m.tool_calls[i].arguments))]
  <2>1. ASSUME NEW i \in DOMAIN m.tool_calls PROVE calls[i] \in S
    <3>1. m.tool_calls[i] \in ToolCall
      BY <1>1
    <3>2. /\ m.tool_calls[i].id \in CallIds /\ m.tool_calls[i].name \in Functions
          /\ Input(m.tool_calls[i].arguments) \in Text
      BY <3>1, InputType DEF ToolCall
    <3> QED  BY <3>2 DEF Block, SayingBlocks
  <2>2. calls = [i \in DOMAIN m.tool_calls |-> calls[i]]
    OBVIOUS
  <2>3. AnthropicBlocks(m) = AtLeastOne(TextBlocks(TextOf(m.content)) \o calls)
    BY <1>5 DEF AnthropicBlocks
  <2> HIDE DEF calls
  <2> QED  BY <2>1, <2>2, <2>3, SpokenSays
<1> QED  BY <1>1, <1>2, <1>3, <1>4, <1>5

LEMMA GeminiPartsSay ==
  ASSUME NEW L, NEW T, NEW ms, NEW i, ms[i] \in ChatMessage, IsTurn(ms[i]),
         ms[i].content \in Optional(Seq(Saying(L))), CallName(ms, i, ms[i].tool_call_id) \in T
  PROVE  GeminiParts(ms, i) \in Seq(SayingBlocks(L, T))
<1> DEFINE S == SayingBlocks(L, T)
           m == ms[i]
           name == CallName(ms, i, m.tool_call_id)
<1>1. m.role \in {"user", "assistant", "tool"} /\ m.tool_calls \in Seq(ToolCall)
  BY MessageFacts DEF IsTurn, Role
<1>2. CASE m.role = "tool"
  BY <1>2, TextOfType DEF GeminiParts, Block, SayingBlocks, name, S
<1>3. CASE m.role = "user" /\ m.content = Unset
  <2>1. <<>> \in Seq(S)
    OBVIOUS
  <2>2. GeminiParts(ms, i) = AtLeastOne(<<>>)
    BY <1>3 DEF GeminiParts
  <2> QED  BY <2>1, <2>2, AtLeastOneSays
<1>4. CASE m.role = "user" /\ m.content # Unset
  <2> DEFINE blocks == [j \in DOMAIN m.content |-> GeminiPart(m.content[j])]
  <2>1. m.content \in Seq(Saying(L))
    BY <1>4 DEF Optional
  <2>2. ASSUME NEW j \in DOMAIN m.content PROVE GeminiPart(m.content[j]) \in S
    BY <2>1 DEF Saying, GeminiPart, Block, SayingBlocks, MediaKinds
  <2>3. blocks = [j \in DOMAIN m.content |-> blocks[j]] /\ \A j \in DOMAIN m.content : blocks[j] \in S
    BY <2>2
  <2>4. GeminiParts(ms, i) = blocks
    BY <1>4 DEF GeminiParts
  <2> HIDE DEF S, blocks
  <2>5. blocks \in Seq(S)
    BY <2>1, <2>3, PointwiseType
  <2> QED  BY <2>4, <2>5 DEF S
<1>5. CASE m.role = "assistant"
  <2> DEFINE calls == [j \in DOMAIN m.tool_calls |->
                         Block("functionCall", m.tool_calls[j].name, Input(m.tool_calls[j].arguments))]
  <2>1. ASSUME NEW j \in DOMAIN m.tool_calls PROVE calls[j] \in S
    <3>1. m.tool_calls[j] \in ToolCall
      BY <1>1
    <3>2. m.tool_calls[j].name \in Functions /\ Input(m.tool_calls[j].arguments) \in Text
      BY <3>1, InputType DEF ToolCall
    <3> QED  BY <3>2 DEF Block, SayingBlocks
  <2>2. calls = [j \in DOMAIN m.tool_calls |-> calls[j]]
    OBVIOUS
  <2>3. GeminiParts(ms, i) = AtLeastOne(TextBlocks(TextOf(m.content)) \o calls)
    BY <1>5 DEF GeminiParts
  <2> HIDE DEF calls
  <2> QED  BY <2>1, <2>2, <2>3, SpokenSays
<1> QED  BY <1>1, <1>2, <1>3, <1>4, <1>5

(* A turn is a message, and says what the message says.                    *)
LEMMA TurnsAreMessages ==
  ASSUME NEW L, NEW ms \in Conversations, SaysOnly(ms, L)
  PROVE  LET turns == Selected(ms, IsTurn) IN
         /\ turns \in Conversations
         /\ \A i \in DOMAIN turns :
              /\ IsTurn(turns[i]) /\ turns[i] \in ChatMessage
              /\ turns[i].content \in Optional(Seq(Saying(L)))
              /\ \E j \in DOMAIN ms : turns[i] = ms[j]
<1> DEFINE I == { i \in DOMAIN ms : IsTurn(ms[i]) }
           turns == Picked(ms, I)
<1>1. Selected(ms, IsTurn) = turns
  BY DEF Selected
<1>2. \A i \in I : IsTurn(ms[i])
  OBVIOUS
<1>3. ms \in Seq(ChatMessage)
  BY DEF Conversations
<1> HIDE DEF I
<1>4. /\ turns \in Seq(ChatMessage)
      /\ \A k \in DOMAIN turns : \E i \in DOMAIN ms : i \in I /\ turns[k] = ms[i]
  BY <1>3, PickedMembers
<1> HIDE DEF turns
<1> QED  BY <1>1, <1>2, <1>3, <1>4 DEF SaysOnly, Conversations

Turns(B) == [role : {"user", "assistant", "model"}, blocks : Seq(B), cached : BOOLEAN]

LEMMA AnthropicTurnsSay ==
  ASSUME NEW L, NEW r \in ChatRequest, SaysOnly(r.messages, L), ~AnthropicRefuses(r)
  PROVE  AnthropicTurns(r.messages) \in Seq(Turns(SayingBlocks(L, Optional(CallIds))))
<1> DEFINE ms == r.messages
           S == SayingBlocks(L, Optional(CallIds))
           turns == Selected(ms, IsTurn)
           w == AnthropicTurns(ms)
<1>1. ms \in Conversations
  BY RequestFacts
<1>2. /\ turns \in Conversations
      /\ \A i \in DOMAIN turns :
           /\ IsTurn(turns[i]) /\ turns[i] \in ChatMessage
           /\ turns[i].content \in Optional(Seq(Saying(L)))
           /\ \E j \in DOMAIN ms : turns[i] = ms[j]
  BY <1>1, TurnsAreMessages
<1>3. w = [i \in DOMAIN turns |->
             [role |-> IF turns[i].role = "assistant" THEN "assistant" ELSE "user",
              blocks |-> AnthropicBlocks(turns[i]),
              cached |-> turns[i].cache_control /\ AnthropicBlocks(turns[i]) # <<>>]]
  BY DEF AnthropicTurns
<1> HIDE DEF turns, w
<1>4. ASSUME NEW i \in DOMAIN turns PROVE w[i] \in Turns(S)
  BY <1>2, AnthropicBlocksSay, <1>3 DEF AnthropicRefuses, Turns
<1> HIDE DEF S
<1>5. w = [i \in DOMAIN turns |-> w[i]]
  BY <1>3
<1>6. w \in Seq(Turns(S))
  BY <1>2, <1>4, <1>5, PointwiseType DEF Conversations
<1> QED  BY <1>6 DEF w, S

LEMMA GeminiContentsSay ==
  ASSUME NEW L, NEW r \in ChatRequest, SaysOnly(r.messages, L)
  PROVE  \E T : GeminiContents(r.messages) \in Seq(Turns(SayingBlocks(L, T)))
<1> DEFINE ms == r.messages
           turns == Selected(ms, IsTurn)
           T == { CallName(turns, i, turns[i].tool_call_id) : i \in DOMAIN turns }
           S == SayingBlocks(L, T)
           w == GeminiContents(ms)
<1>1. ms \in Conversations
  BY RequestFacts
<1>2. /\ turns \in Conversations
      /\ \A i \in DOMAIN turns :
           /\ IsTurn(turns[i]) /\ turns[i] \in ChatMessage
           /\ turns[i].content \in Optional(Seq(Saying(L)))
  BY <1>1, TurnsAreMessages
<1>3. w = [i \in DOMAIN turns |-> [role |-> IF turns[i].role = "assistant" THEN "model" ELSE "user",
                                   blocks |-> GeminiParts(turns, i), cached |-> FALSE]]
  BY DEF GeminiContents
<1> HIDE DEF turns, w
<1>4. \A i \in DOMAIN turns : CallName(turns, i, turns[i].tool_call_id) \in T
  OBVIOUS
<1> HIDE DEF T
<1>5. ASSUME NEW i \in DOMAIN turns PROVE w[i] \in Turns(S)
  <2>1. GeminiParts(turns, i) \in Seq(S)
    BY <1>2, <1>4, GeminiPartsSay
  <2> HIDE DEF S
  <2> QED  BY <1>3, <2>1 DEF Turns
<1> HIDE DEF S
<1>6. w = [i \in DOMAIN turns |-> w[i]]
  BY <1>3
<1>7. w \in Seq(Turns(S))
  BY <1>2, <1>5, <1>6, PointwiseType DEF Conversations
<1> QED  BY <1>7 DEF w, S

LEMMA SystemBlocksSay ==
  ASSUME NEW L, NEW ms \in Conversations, SaysOnly(ms, L)
  PROVE  SystemBlocks(ms) \in Seq([body : Seq(L), cached : BOOLEAN])
<1> DEFINE I == { i \in DOMAIN ms : IsSystem(ms[i]) /\ ms[i].content # Unset }
           present == Picked(ms, I)
           w == SystemBlocks(ms)
<1>1. w = [i \in DOMAIN present |->
             [body |-> PlainText(present[i].content), cached |-> present[i].cache_control]]
  BY DEF SystemBlocks, Selected
<1>2. \A i \in I : ms[i].content # Unset
  OBVIOUS
<1>3. ms \in Seq(ChatMessage)
  BY DEF Conversations
<1> HIDE DEF I
<1>4. /\ present \in Seq(ChatMessage)
      /\ \A k \in DOMAIN present : \E i \in DOMAIN ms : i \in I /\ present[k] = ms[i]
  BY <1>3, PickedMembers
<1> HIDE DEF present, w
<1>5. ASSUME NEW k \in DOMAIN present PROVE w[k] \in [body : Seq(L), cached : BOOLEAN]
  <2>1. present[k].content \in Seq(Saying(L)) /\ present[k].cache_control \in BOOLEAN
    <3>1. PICK i \in DOMAIN ms : i \in I /\ present[k] = ms[i]
      BY <1>4
    <3>2. ms[i] \in ChatMessage /\ ms[i].content \in Optional(Seq(Saying(L))) /\ ms[i].content # Unset
      BY <1>2, <1>3, <3>1 DEF SaysOnly
    <3> QED  BY <3>1, <3>2, MessageFacts DEF Optional
  <2>2. PlainText(present[k].content) \in Seq(L)
    BY <2>1, PlainTextType
  <2> QED  BY <1>1, <2>1, <2>2
<1>6. w = [k \in DOMAIN present |-> w[k]]
  BY <1>1
<1> DEFINE R == [body : Seq(L), cached : BOOLEAN]
<1>7. \A k \in DOMAIN present : w[k] \in R
  BY <1>5
<1> HIDE DEF R
<1>8. w \in Seq(R)
  BY <1>4, <1>6, <1>7, PointwiseType
<1> QED  BY <1>8 DEF w, R

(* What is heard of a wire request whose texts have only lines of L.       *)
LEMMA FlattenPointwise ==
  ASSUME NEW S, NEW R, NEW s \in Seq(S), NEW d, d = [j \in DOMAIN s |-> d[j]],
         \A j \in DOMAIN s : d[j] \in Seq(R)
  PROVE  FlattenSeq(d) \in Seq(R)
BY PointwiseType, FlattenType

LEMMA BlocksOfSay ==
  ASSUME NEW B, Wire.turns \in Seq(Turns(B)), NEW roles
  PROVE  BlocksOf(roles) \in Seq(B)
<1> DEFINE all == Wire.turns
           turns == Picked(all, { i \in DOMAIN all : all[i].role \in roles })
           blocks == [i \in DOMAIN turns |-> turns[i].blocks]
<1>1. BlocksOf(roles) = FlattenSeq(blocks)
  BY DEF BlocksOf, Selected
<1>2. all \in Seq(Turns(B))
  OBVIOUS
<1> HIDE DEF all
<1>3. turns \in Seq(Turns(B))
  BY <1>2, PickedMembers
<1> HIDE DEF turns
<1>4. \A i \in DOMAIN turns : turns[i].blocks \in Seq(B)
  <2>1. \A i \in DOMAIN turns : turns[i] \in Turns(B)
    BY <1>3
  <2> QED  BY <2>1 DEF Turns
<1>5. blocks = [i \in DOMAIN turns |-> blocks[i]] /\ \A i \in DOMAIN turns : blocks[i] \in Seq(B)
  BY <1>4
<1> HIDE DEF blocks
<1>6. FlattenSeq(blocks) \in Seq(B)
  BY <1>3, <1>5, FlattenPointwise
<1> QED  BY <1>1, <1>6

LEMMA TurnsAreHeard ==
  ASSUME NEW L, NEW T, sent.kind # "openai", Wire.turns \in Seq(Turns(SayingBlocks(L, T))),
         Wire.system \in Seq([body : Seq(L), cached : BOOLEAN])
  PROVE  /\ \A role \in {"system", "user", "assistant"} : Heard(role) \in Seq(SayingAtoms(L))
         /\ \A n \in DOMAIN HeardResults : HeardResults[n].body \in Seq(L)
<1> DEFINE B == SayingBlocks(L, T)
<1>1. Heard("system") \in Seq(SayingAtoms(L))
  <2> DEFINE all == Wire.system
             atoms == [i \in DOMAIN all |-> TextAtoms(all[i].body)]
  <2>1. Heard("system") = FlattenSeq(atoms)
    BY DEF Heard
  <2> DEFINE R == [body : Seq(L), cached : BOOLEAN]
  <2>2. all \in Seq(R) /\ \A i \in DOMAIN all : all[i].body \in Seq(L)
    <3>1. all \in Seq(R)
      OBVIOUS
    <3> HIDE DEF all, R
    <3>2. \A i \in DOMAIN all : all[i] \in R
      BY <3>1
    <3> QED  BY <3>1, <3>2 DEF R
  <2> HIDE DEF all, R
  <2>3. atoms = [i \in DOMAIN all |-> atoms[i]] /\ \A i \in DOMAIN all : atoms[i] \in Seq(SayingAtoms(L))
    BY <2>2, TextAtomsSay
  <2> HIDE DEF atoms
  <2>4. FlattenSeq(atoms) \in Seq(SayingAtoms(L))
    BY <2>2, <2>3, FlattenPointwise
  <2> QED  BY <2>1, <2>4
<1>2. ASSUME NEW role \in {"user", "assistant"} PROVE Heard(role) \in Seq(SayingAtoms(L))
  <2> DEFINE all == BlocksOf(IF role = "user" THEN {"user"} ELSE {"assistant", "model"})
             I == { i \in DOMAIN all : ~IsResult(all[i]) }
             blocks == Picked(all, I)
             atoms == [i \in DOMAIN blocks |-> BlockAtoms(blocks[i])]
  <2>1. Heard(role) = FlattenSeq(atoms)
    BY DEF Heard, Selected
  <2>2. all \in Seq(B) /\ \A i \in I : ~IsResult(all[i])
    BY BlocksOfSay
  <2> HIDE DEF all, B, I
  <2>3. /\ blocks \in Seq(B)
        /\ \A k \in DOMAIN blocks : \E i \in DOMAIN all : i \in I /\ blocks[k] = all[i]
    BY <2>2, PickedMembers
  <2> HIDE DEF blocks
  <2>4. \A i \in DOMAIN blocks : ~IsResult(blocks[i]) /\ blocks[i] \in B
    BY <2>2, <2>3
  <2>5. \A i \in DOMAIN blocks : BlockAtoms(blocks[i]) \in Seq(SayingAtoms(L))
    BY <2>4, BlockAtomsSay DEF B
  <2>6. atoms = [i \in DOMAIN blocks |-> atoms[i]] /\ \A i \in DOMAIN blocks : atoms[i] \in Seq(SayingAtoms(L))
    BY <2>5
  <2> HIDE DEF atoms
  <2>7. FlattenSeq(atoms) \in Seq(SayingAtoms(L))
    BY <2>3, <2>6, FlattenPointwise
  <2> QED  BY <2>1, <2>7
<1>3. ASSUME NEW n \in DOMAIN HeardResults PROVE HeardResults[n].body \in Seq(L)
  BY BlocksOfSay, PickedMembers, BlockAtomsSay DEF HeardResults, Selected, B
<1> QED  BY <1>1, <1>2, <1>3

LEMMA MessagesAreHeard ==
  ASSUME NEW L, sent.kind = "openai", Wire.messages \in Conversations, SaysOnly(Wire.messages, L)
  PROVE  /\ \A role \in {"system", "user", "assistant"} : Heard(role) \in Seq(SayingAtoms(L))
         /\ \A n \in DOMAIN HeardResults : HeardResults[n].body \in Seq(L)
<1>1. ASSUME NEW role
      PROVE  /\ Messages(role) \in Seq(ChatMessage)
             /\ \A k \in DOMAIN Messages(role) : Messages(role)[k].content \in Optional(Seq(Saying(L)))
  BY PickedMembers DEF Messages, Selected, Conversations, SaysOnly
<1>2. ASSUME NEW role \in {"system", "user", "assistant"} PROVE Heard(role) \in Seq(SayingAtoms(L))
  BY <1>1, MessageAtomsSay, FlattenPointwise DEF Heard
<1>3. ASSUME NEW n \in DOMAIN HeardResults PROVE HeardResults[n].body \in Seq(L)
  BY <1>1, TextOfType DEF HeardResults
<1> QED  BY <1>2, <1>3

LEMMA HeardSays ==
  ASSUME NEW L, sent.kind \in ProviderKind, sent.req \in ChatRequest, SaysOnly(sent.req.messages, L),
         ~Refuses(sent.kind, sent.req)
  PROVE  /\ \A role \in {"system", "user", "assistant"} : Heard(role) \in Seq(SayingAtoms(L))
         /\ \A n \in DOMAIN HeardResults : HeardResults[n].body \in Seq(L)
<1> DEFINE ms == sent.req.messages
<1>1. ms \in Conversations
  BY RequestFacts
<1>2. CASE sent.kind = "anthropic"
  BY <1>2, AnthropicTurnsSay, <1>1, SystemBlocksSay, TurnsAreHeard DEF Wire, WireRequest,
     AnthropicRequest, Refuses
<1>3. CASE sent.kind = "gemini"
  <2>1. Wire.turns = GeminiContents(ms) /\ Wire.system = Uncached(SystemBlocks(ms))
    BY <1>3 DEF Wire, WireRequest, GeminiRequest
  <2>2. PICK T : GeminiContents(ms) \in Seq(Turns(SayingBlocks(L, T)))
    BY GeminiContentsSay
  <2> DEFINE S == SystemBlocks(ms)
             d == Uncached(S)
  <2>3. S \in Seq([body : Seq(L), cached : BOOLEAN])
    BY <1>1, SystemBlocksSay
  <2>4. d = [i \in DOMAIN S |-> [S[i] EXCEPT !.cached = FALSE]]
    BY DEF Uncached
  <2> DEFINE R == [body : Seq(L), cached : BOOLEAN]
  <2>5. \A x \in R : [x EXCEPT !.cached = FALSE] \in R
    OBVIOUS
  <2> HIDE DEF S, d, R
  <2>6. d \in Seq(R)
    <3>1. S \in Seq(R) /\ d = [i \in DOMAIN S |-> d[i]]
      BY <2>3, <2>4 DEF R
    <3>2. \A i \in DOMAIN S : d[i] \in R
      BY <2>4, <2>5, <3>1
    <3> QED  BY <3>1, <3>2, PointwiseType
  <2>7. Wire.system \in Seq([body : Seq(L), cached : BOOLEAN])
        /\ Wire.turns \in Seq(Turns(SayingBlocks(L, T)))
    BY <2>1, <2>2, <2>6 DEF d, S, R
  <2> QED  BY <1>3, <2>7, TurnsAreHeard
<1>4. CASE sent.kind = "openai"
  <2> DEFINE d == Wire.messages
  <2>1. d = [i \in DOMAIN ms |-> [ms[i] EXCEPT !.cache_control = FALSE]]
    BY <1>4 DEF Wire, WireRequest, OpenAiRequest
  <2>2. SaysOnly(ms, L)
    OBVIOUS
  <2> HIDE DEF d, ms
  <2>3. ASSUME NEW i \in DOMAIN ms PROVE d[i] \in ChatMessage /\ d[i].content = ms[i].content
    <3>1. ms[i] \in ChatMessage
      BY <1>1 DEF Conversations
    <3> QED  BY <2>1, <3>1 DEF ChatMessage
  <2>4. d = [i \in DOMAIN ms |-> d[i]]
    BY <2>1
  <2>5. d \in Conversations /\ DOMAIN d = DOMAIN ms
    BY <1>1, <2>3, <2>4, PointwiseMessages
  <2>6. SaysOnly(d, L)
    BY <2>2, <2>3, <2>5 DEF SaysOnly
  <2> QED  BY <1>4, <2>5, <2>6, MessagesAreHeard DEF d
<1> QED  BY <1>2, <1>3, <1>4 DEF ProviderKind

(* What the stages let through stays so for every candidate.               *)
Screenable == CleanlyReplaced(config.guardrails)
CleanLines == Clean(config.guardrails, Len(config.guardrails))

ScreenedInv ==
  /\ phase \in {"preset", "search", "guardrails", "moderation"} => judged = Unset
  /\ phase \in {"moderation", "budget", "dispatch", "asked"} /\ door = "http" /\ Screenable =>
       SaysOnly(req.messages, CleanLines)
  /\ phase \in {"budget", "dispatch", "asked"} /\ judged # Unset =>
       SaysOnly(req.messages, ToSet(judged))
  /\ phase = "asked" =>
       /\ ~Refuses(sent.kind, sent.req)
       /\ \A L : SaysOnly(req.messages, L) => SaysOnly(sent.req.messages, WithMarkers(L))

LEMMA StagesKeepScreened ==
  ASSUME ScreenedInv, OwnInv, StreamInv,
         apply_preset \/ apply_web_search \/ apply_guardrails \/ apply_moderation \/ check_client_budget
  PROVE  ScreenedInv'
<1>1. config' = config /\ door' = door /\ phase' # "asked"
  BY StagesFollow DEF apply_preset, apply_web_search, apply_guardrails, apply_moderation,
                      check_client_budget, Unstaged
<1>2. CleanLines' = CleanLines /\ Screenable' = Screenable
  BY <1>1 DEF CleanLines, Screenable
<1>3. /\ phase # "idle" => req \in ChatRequest
      /\ config.guardrails \in Seq(Guardrail)
  BY ConfigAssumption DEF OwnInv, StreamInv, IsConfig
<1>4. CASE apply_preset \/ apply_web_search
  BY <1>1, <1>4, StagesFollow DEF apply_preset, apply_web_search, ScreenedInv
<1>5. CASE apply_guardrails
  <2>1. phase = "guardrails" /\ judged' = judged /\ phase' \in {"moderation", "refused"}
    BY <1>5, StagesFollow DEF apply_guardrails
  <2>2. ASSUME phase' = "moderation", Screenable PROVE SaysOnly(req'.messages, CleanLines)
    <3>1. ~GuardrailBlocks(req.messages, config.guardrails)
          /\ req' = [req EXCEPT !.messages = Redacted(@, config.guardrails)]
      BY <1>5, <2>2, StagesFollow DEF apply_guardrails
    <3>2. req \in ChatRequest /\ req.messages \in Conversations
      BY <1>3, <2>1, RequestFacts
    <3>3. SaysOnly(Redacted(req.messages, config.guardrails), CleanLines)
      BY <1>3, <2>2, <3>1, <3>2, RedactingScreens DEF Screenable, CleanLines
    <3>4. req'.messages = Redacted(req.messages, config.guardrails)
      BY <3>1, <3>2 DEF ChatRequest
    <3> QED  BY <3>3, <3>4
  <2> QED  BY <1>1, <1>2, <2>1, <2>2 DEF ScreenedInv
<1>6. CASE apply_moderation
  BY <1>6, StagesFollow, <1>3, RequestFacts, JudgedSays, <1>1, <1>2 DEF apply_moderation,
     ScreenedInv
<1>7. CASE check_client_budget
  BY <1>7, StagesFollow, <1>1, <1>2 DEF check_client_budget, ScreenedInv
<1> QED  BY <1>4, <1>5, <1>6, <1>7

LEMMA CandidatesKeepScreened ==
  ASSUME ScreenedInv, OwnInv, StreamInv, Ask \/ CandidateFails \/ NoneLeft
  PROVE  ScreenedInv'
<1>1. /\ phase \in {"dispatch", "asked"} /\ phase' \in {"dispatch", "asked", "refused"}
      /\ config' = config /\ door' = door /\ req' = req /\ judged' = judged
  BY DEF Ask, CandidateFails, NoneLeft, Undispatched
<1>2. CleanLines' = CleanLines /\ Screenable' = Screenable
  BY <1>1 DEF CleanLines, Screenable
<1>3. ASSUME phase' = "asked"
      PROVE  /\ ~Refuses(sent'.kind, sent'.req)
             /\ \A L : SaysOnly(req.messages, L) => SaysOnly(sent'.req.messages, WithMarkers(L))
  <2> DEFINE c == Chain[candidate]
             r == Prepared(c)
  <2>1. phase = "dispatch" /\ ~Refuses(c.kind, r) /\ sent'.kind = c.kind /\ sent'.req = r
    BY <1>3 DEF Ask, CandidateFails, NoneLeft
  <2>2. req \in ChatRequest /\ by_id \in Traces
    BY <2>1 DEF OwnInv
  <2>3. \A L : SaysOnly(req.messages, L) => SaysOnly(r.messages, WithMarkers(L))
    BY <2>2, PreparedSays
  <2> QED  BY <2>1, <2>3
<1> QED  BY <1>1, <1>2, <1>3 DEF ScreenedInv

LEMMA PipelineKeepsScreened ==
  ASSUME ScreenedInv, OwnInv, AnswersInv, PipelineNext
  PROVE  ScreenedInv'
<1>1. ASSUME NEW request, NEW by, NEW stage, Receive(request, by, stage),
             stage = "preset" \/ stage = "refused" \/ (stage = "dispatch" /\ by = "tool")
      PROVE  ScreenedInv'
  BY <1>1 DEF Receive, ScreenedInv
<1>2. ASSUME Open PROVE ScreenedInv'
  BY <1>1, <1>2, StagesFollow DEF Open, Arrival
<1>3. ASSUME OpenTool PROVE ScreenedInv'
  BY <1>1, <1>3 DEF OpenTool
<1>4. ASSUME NEW keep \in BOOLEAN, FollowUp(keep) PROVE ScreenedInv'
  <2>1. \E request : Receive(request, "http", IF request.messages = <<>> THEN "refused" ELSE Stages[1])
    BY <1>4, Zenon DEF FollowUp, Arrival
  <2> QED  BY <1>1, <2>1, StagesFollow
<1>5. ASSUME phase' \in {"remember", "answered", "streaming"} PROVE ScreenedInv'
  BY <1>5 DEF ScreenedInv
<1>6. ASSUME (\E a \in Answerable : AnswerWhole(a) \/ OpenStream(a))
             \/ Remember \/ Reply \/ NextEvent \/ GarbledEvent \/ EndStream
      PROVE  ScreenedInv'
  BY <1>5, <1>6 DEF AnswerWhole, OpenStream, Remember, Reply, NextEvent, GarbledEvent, EndStream
<1>7. StreamInv
  BY DEF AnswersInv
<1> QED  BY <1>2, <1>3, <1>4, <1>6, <1>7, StagesKeepScreened, CandidatesKeepScreened DEF PipelineNext

LEMMA UnchangedScreened == ScreenedInv /\ UNCHANGED pipeline_vars => ScreenedInv'
BY DEF ScreenedInv, Screenable, CleanLines, pipeline_vars, turn_vars

(* What the gateway itself puts into a text, a redaction's replacement or a *)
(* compaction's marker, is matched by no guardrail that has run by then.   *)
GuardrailsAgree ==
  \A c \in Configs :
    /\ CleanlyReplaced(c.guardrails)
    /\ \A g \in DOMAIN c.guardrails : {RepeatMarker, OmittedMarker} \cap c.guardrails[g].pattern = {}

LEMMA ScreenedInvImplies ==
  ASSUME GuardrailsAgree, ScreenedInv, OwnInv, StreamInv
  PROVE  NothingUnscreenedIsSent
<1> SUFFICES ASSUME phase = "asked", door = "http" PROVE NothingUnscreenedIsSent
  BY DEF NothingUnscreenedIsSent
<1> DEFINE Uttered(role) == { Heard(role)[n][2] :
                              n \in { i \in DOMAIN Heard(role) : Heard(role)[i][1] = "text" } }
           lines == UNION ({ Uttered(role) : role \in {"system", "user", "assistant"} }
                             \cup { ToSet(HeardResults[n].body) : n \in DOMAIN HeardResults })
<1>1. ASSUME NEW L, SaysOnly(req.messages, L) PROVE lines \subseteq WithMarkers(L)
  <2> DEFINE S == WithMarkers(L)
  <2>1. /\ sent.kind \in ProviderKind /\ sent.req \in ChatRequest /\ ~Refuses(sent.kind, sent.req)
        /\ SaysOnly(sent.req.messages, S)
    BY <1>1 DEF ScreenedInv, StreamInv, OwnInv
  <2> HIDE DEF S
  <2>2. /\ \A role \in {"system", "user", "assistant"} : Heard(role) \in Seq(SayingAtoms(S))
        /\ \A n \in DOMAIN HeardResults : HeardResults[n].body \in Seq(S)
    BY <2>1, HeardSays
  <2>3. \A n \in DOMAIN HeardResults : ToSet(HeardResults[n].body) \subseteq S
    BY <2>2 DEF ToSet
  <2>4. ASSUME NEW role \in {"system", "user", "assistant"} PROVE Uttered(role) \subseteq S
    <3> SUFFICES ASSUME NEW n \in DOMAIN Heard(role), Heard(role)[n][1] = "text"
                 PROVE  Heard(role)[n][2] \in S
      OBVIOUS
    <3>1. Heard(role)[n] \in SayingAtoms(S)
      BY <2>2
    <3> QED  BY <3>1 DEF SayingAtoms, MediaKinds
  <2> QED  BY <2>3, <2>4 DEF S
<1>2. config \in Configs /\ DOMAIN config.guardrails = 1..Len(config.guardrails)
  BY ConfigAssumption DEF StreamInv, IsConfig
<1>3. ASSUME NEW g \in DOMAIN config.guardrails PROVE lines \cap config.guardrails[g].pattern = {}
  <2>1. SaysOnly(req.messages, CleanLines)
    BY <1>2 DEF ScreenedInv, GuardrailsAgree, Screenable
  <2>2. lines \subseteq WithMarkers(CleanLines)
    BY <1>1, <2>1
  <2>3. \A l \in WithMarkers(CleanLines) : l \notin config.guardrails[g].pattern
    BY <1>2 DEF WithMarkers, CleanLines, Clean, GuardrailsAgree
  <2> HIDE DEF lines
  <2> QED  BY <2>2, <2>3
<1>4. judged # Unset => lines \subseteq WithMarkers(ToSet(judged))
  BY <1>1 DEF ScreenedInv
<1>5. judged # Unset => lines \ {RepeatMarker, OmittedMarker} \subseteq ToSet(judged)
  BY <1>4 DEF WithMarkers
<1> QED  BY <1>3, <1>5 DEF NothingUnscreenedIsSent

LEMMA ScreenedAlways == CallsSpec => [](CallsInv /\ OwnInv /\ ScreenedInv)
<1> DEFINE Inv == CallsInv /\ OwnInv /\ ScreenedInv
<1>1. CallsInit => Inv
  BY CallsStart, OwnStarts DEF PipelineInit, ScreenedInv, CallsInit
<1>2. Inv /\ [CallsNext]_all_vars => Inv'
  BY CallsGoOn, UnchangedCalls, CallsLeaveThePipeline, PipelineKeepsOwn, UnchangedOwn,
     PipelineKeepsScreened, UnchangedScreened DEF all_vars, CallsInv
<1> QED  BY <1>1, <1>2, PTL DEF CallsSpec

(* Where the guardrails agree with one another, no line that one of them   *)
(* matches reaches a provider, through any stage, transform, candidate or  *)
(* adapter; and none that moderation was not shown.                        *)
THEOREM NothingStaysUnscreened ==
  ASSUME GuardrailsAgree
  PROVE  CallsSpec => []NothingUnscreenedIsSent
<1>1. CallsInv /\ OwnInv /\ ScreenedInv => NothingUnscreenedIsSent
  BY ScreenedInvImplies DEF CallsInv, AnswersInv
<1> QED  BY <1>1, ScreenedAlways, PTL

-----------------------------------------------------------------------------
(* What the adapters leave of a conversation.                              *)
CallAtoms(m) ==
  [i \in DOMAIN m.tool_calls |->
     <<"call", m.tool_calls[i].name, Input(m.tool_calls[i].arguments)>>]

PartsAtoms(content) ==
  IF content = Unset THEN <<>>
  ELSE FlattenSeq([i \in DOMAIN content |-> PartAtoms(content[i])])

(* The adapters for Anthropic and Gemini leave calls only to the assistant *)
(* and attachments only to the user; an OpenAI-compatible provider gets    *)
(* the message.                                                            *)
LeftOf(m) ==
  CASE m.role = "user" -> PartsAtoms(m.content)
    [] m.role = "assistant" -> TextAtoms(TextOf(m.content)) \o CallAtoms(m)
    [] OTHER -> TextAtoms(TextOf(m.content))

SpokenTo(kind, m) == IF kind = "openai" THEN MessageAtoms(m) ELSE LeftOf(m)

InRole(kind, role) == [m \in ChatMessage |-> IF m.role = role THEN SpokenTo(kind, m) ELSE <<>>]

Atoms == SayingAtoms(Lines)

(* A sequence is made of its elements.                                     *)
LEMMA FlattenSingletons ==
  ASSUME NEW S, NEW s \in Seq(S)
  PROVE  FlattenSeq([i \in DOMAIN s |-> <<s[i]>>]) = s
BY PickedIsFlattened, PickedAll DEF Chosen

(* Some elements of a sequence, each seen through f.                       *)
LEMMA ThroughOfPicked ==
  ASSUME NEW S, NEW f, NEW s \in Seq(S), NEW I
  PROVE  Through(Picked(s, I), f) = FlattenSeq([i \in DOMAIN s |-> IF i \in I THEN <<f[s[i]]>> ELSE <<>>])
<1>1. Through(Picked(s, I), f) = Picked(Through(s, f), I)
  BY ThroughPicked
<1>2. Chosen(Through(s, f), I) = [i \in DOMAIN s |-> IF i \in I THEN <<f[s[i]]>> ELSE <<>>]
  BY DEF Chosen, Through
<1> QED  BY <1>1, <1>2, PickedIsFlattened

(* Leaving out what says nothing leaves out nothing.                       *)
LEMMA GatheredFiltered ==
  ASSUME NEW S, NEW R, NEW g \in [S -> Seq(R)], NEW s \in Seq(S), NEW I,
         \A i \in DOMAIN s : i \notin I => g[s[i]] = <<>>
  PROVE  Gathered(Picked(s, I), g) = Gathered(s, g)
<1>1. Partly(s, I, g) = [i \in DOMAIN s |-> g[s[i]]]
  BY DEF Partly
<1>2. Gathered(Picked(s, I), g) = FlattenSeq(Partly(s, I, g))
  BY GatheredPicked
<1> QED  BY <1>1, <1>2 DEF Gathered

(* What g makes of the blocks of the turns of some roles.                  *)
LEMMA TurnsGathered ==
  ASSUME NEW B, NEW R, NEW g \in [B -> Seq(R)], NEW turns \in Seq(Turns(B)), Wire.turns = turns, NEW roles
  PROVE  Gathered(BlocksOf(roles), g) =
           FlattenSeq([i \in DOMAIN turns |->
                         IF turns[i].role \in roles THEN Gathered(turns[i].blocks, g) ELSE <<>>])
<1> DEFINE I == { i \in DOMAIN turns : turns[i].role \in roles }
           p == Picked(turns, I)
           blocks == [i \in DOMAIN p |-> p[i].blocks]
           h == [x \in Seq(B) |-> Gathered(x, g)]
           f == [t \in Turns(B) |-> Gathered(t.blocks, g)]
<1>1. BlocksOf(roles) = FlattenSeq(blocks)
  BY DEF BlocksOf, Selected
<1>2. p \in Seq(Turns(B))
  BY PickedMembers
<1>3. f \in [Turns(B) -> Seq(R)]
  BY GatheredFacts DEF Turns
<1>4. \A i \in DOMAIN turns : f[turns[i]] = Gathered(turns[i].blocks, g)
  OBVIOUS
<1>5. Partly(turns, I, f) = [i \in DOMAIN turns |->
                               IF turns[i].role \in roles THEN Gathered(turns[i].blocks, g) ELSE <<>>]
  BY <1>4 DEF Partly
<1> HIDE DEF p, I
<1>6. \A i \in DOMAIN p : p[i].blocks \in Seq(B) /\ p[i] \in Turns(B)
  <2>1. \A i \in DOMAIN p : p[i] \in Turns(B)
    BY <1>2
  <2> QED  BY <2>1 DEF Turns
<1>7. blocks \in Seq(Seq(B))
  <2>1. blocks = [i \in DOMAIN p |-> blocks[i]] /\ \A i \in DOMAIN p : blocks[i] \in Seq(B)
    BY <1>6
  <2> DEFINE SB == Seq(B)
  <2>2. \A i \in DOMAIN p : blocks[i] \in SB
    BY <2>1
  <2> HIDE DEF blocks, SB
  <2>3. blocks \in Seq(SB)
    BY <1>2, <2>1, <2>2, PointwiseType
  <2> QED  BY <2>3 DEF SB
<1>8. Gathered(FlattenSeq(blocks), g) = Gathered(blocks, h)
  BY <1>7, GatheredFlatten
<1>9. Gathered(blocks, h) = Gathered(p, f)
  BY <1>6 DEF Gathered
<1>10. Gathered(p, f) = FlattenSeq(Partly(turns, I, f))
  BY <1>3, GatheredPicked DEF p
<1> QED  BY <1>1, <1>5, <1>8, <1>9, <1>10

(* What blocks say, and what f makes of the tool results among them.       *)
Speaking(B) == [b \in B |-> IF IsResult(b) THEN <<>> ELSE BlockAtoms(b)]
OfResults(B, f) == [b \in B |-> IF IsResult(b) THEN <<f[b]>> ELSE <<>>]

LEMMA SpeakingType ==
  ASSUME NEW T
  PROVE  Speaking(SayingBlocks(Lines, T)) \in [SayingBlocks(Lines, T) -> Seq(Atoms)]
BY BlockAtomsSay DEF Atoms, Speaking

LEMMA OfResultsType ==
  ASSUME NEW B, NEW V, NEW f \in [B -> V]
  PROVE  OfResults(B, f) \in [B -> Seq(V)]
BY DEF OfResults

(* The tool results among blocks.                                          *)
ResultsIn(blocks) == Selected(blocks, IsResult)

LEMMA ResultsGathered ==
  ASSUME NEW B, NEW V, NEW f \in [B -> V], NEW s \in Seq(B)
  PROVE  Through(ResultsIn(s), f) = Gathered(s, OfResults(B, f))
<1> DEFINE I == { i \in DOMAIN s : IsResult(s[i]) }
<1>1. ResultsIn(s) = Picked(s, I)
  BY DEF ResultsIn, Selected
<1>2. \A i \in DOMAIN s : s[i] \in B /\ (i \in I <=> IsResult(s[i]))
  OBVIOUS
<1> HIDE DEF I
<1>3. [i \in DOMAIN s |-> IF i \in I THEN <<f[s[i]]>> ELSE <<>>] = [i \in DOMAIN s |-> OfResults(B, f)[s[i]]]
  BY <1>2 DEF OfResults
<1>4. Through(Picked(s, I), f) = FlattenSeq([i \in DOMAIN s |-> IF i \in I THEN <<f[s[i]]>> ELSE <<>>])
  BY ThroughOfPicked
<1> QED  BY <1>1, <1>3, <1>4 DEF Gathered

(* The blocks of a user's content say what its parts say.                  *)
LEMMA PartsSpeak ==
  ASSUME NEW T, NEW content \in Seq(Saying(Lines)), content # Unset,
         NEW blocks, blocks = [j \in DOMAIN content |-> blocks[j]],
         \A j \in DOMAIN content :
           ~IsResult(blocks[j]) /\ blocks[j] \in SayingBlocks(Lines, T)
           /\ BlockAtoms(blocks[j]) = PartAtoms(content[j])
  PROVE  Gathered(blocks, Speaking(SayingBlocks(Lines, T))) = PartsAtoms(content)
BY DEF Speaking, Gathered, PartsAtoms

NoResults(T) == { b \in SayingBlocks(Lines, T) : ~IsResult(b) }

(* The blocks of the assistant say its text and its calls.                 *)
LEMMA TurnSpeaks ==
  ASSUME NEW T, NEW m \in ChatMessage, NEW calls, calls = [i \in DOMAIN m.tool_calls |-> calls[i]],
         \A i \in DOMAIN m.tool_calls :
           ~IsResult(calls[i]) /\ calls[i] \in SayingBlocks(Lines, T)
           /\ BlockAtoms(calls[i]) = <<CallAtoms(m)[i]>>
  PROVE  LET blocks == AtLeastOne(TextBlocks(TextOf(m.content)) \o calls) IN
         /\ blocks \in Seq(NoResults(T))
         /\ Gathered(blocks, Speaking(SayingBlocks(Lines, T)))
              = TextAtoms(TextOf(m.content)) \o CallAtoms(m)
<1> DEFINE B == SayingBlocks(Lines, T)
           g == Speaking(B)
           wording == TextOf(m.content)
           b == Block("text", Unset, wording)
           none == Block("text", Unset, <<>>)
           C == CallAtoms(m)
           N == NoResults(T)
<1>1. wording \in Seq(Lines)
  BY PartsAreSaying, MessageFacts, TextOfType
<1>2. none \in B /\ ~IsResult(none) /\ BlockAtoms(none) = <<>>
  BY DEF Block, SayingBlocks, IsResult, BlockAtoms, TextAtoms
<1>3. b \in B /\ ~IsResult(b) /\ BlockAtoms(b) = TextAtoms(wording)
  BY <1>1 DEF Block, SayingBlocks, IsResult, BlockAtoms
<1>4. m.tool_calls \in Seq(ToolCall)
  BY MessageFacts
<1>4a. AtLeastOne(TextBlocks(wording) \o calls) \in Seq(N)
  <2>1. /\ b \in N /\ none \in N
        /\ \A i \in DOMAIN m.tool_calls : calls[i] \in N
    BY <1>2, <1>3 DEF NoResults
  <2>2. none = Block("text", Unset, <<>>) /\ b = Block("text", Unset, wording)
    OBVIOUS
  <2> HIDE DEF N, b, none, wording
  <2>3. calls \in Seq(N)
    BY <1>4, <2>1, PointwiseType
  <2> QED  BY <2>1, <2>2, <2>3 DEF AtLeastOne, TextBlocks
<1> HIDE DEF B, wording, b, none
<1>5. g \in [B -> Seq(Atoms)]
  BY SpeakingType DEF B
<1>6. g[b] = TextAtoms(wording) /\ g[none] = <<>>
  BY <1>2, <1>3 DEF Speaking
<1>7. \A i \in DOMAIN m.tool_calls : calls[i] \in B /\ g[calls[i]] = <<C[i]>>
  BY DEF Speaking, B
<1>8. calls \in Seq(B) /\ DOMAIN calls = DOMAIN C
  BY <1>4, <1>7, PointwiseType DEF CallAtoms
<1> HIDE DEF g
<1>9. C \in Seq({ C[i] : i \in DOMAIN m.tool_calls })
  BY <1>4, PointwiseType DEF CallAtoms
<1>10. Gathered(calls, g) = C
  <2>1. [i \in DOMAIN calls |-> g[calls[i]]] = [i \in DOMAIN C |-> <<C[i]>>]
    BY <1>7, <1>8 DEF CallAtoms
  <2> QED  BY <1>9, <2>1, FlattenSingletons DEF Gathered
<1>11. TextBlocks(wording) \in Seq(B) /\ Gathered(TextBlocks(wording), g) = TextAtoms(wording)
  <2>1. CASE wording = <<>>
    BY <2>1, GatheredEmpty DEF TextBlocks, TextAtoms
  <2>2. CASE wording # <<>>
    BY <2>2, <1>3, <1>5, <1>6, GatheredOne DEF TextBlocks, b
  <2> QED  BY <2>1, <2>2
<1> DEFINE all == TextBlocks(wording) \o calls
<1>12. Gathered(all, g) = TextAtoms(wording) \o C
  <2>1. Gathered(TextBlocks(wording) \o calls, g) = Gathered(TextBlocks(wording), g) \o Gathered(calls, g)
    <3>1. g \in [B -> Seq(Atoms)] /\ TextBlocks(wording) \in Seq(B) /\ calls \in Seq(B)
      BY <1>5, <1>8, <1>11
    <3> HIDE DEF N, C
    <3>2. \A s, t \in Seq(B) : Gathered(s \o t, g) = Gathered(s, g) \o Gathered(t, g)
      BY <3>1, GatheredConcat
    <3> QED  BY <3>1, <3>2
  <2> QED  BY <2>1, <1>10, <1>11
<1>13. Gathered(AtLeastOne(all), g) = Gathered(all, g)
  <2> HIDE DEF all
  <2>1. CASE all = <<>>
    BY <2>1, <1>2, <1>5, <1>6, GatheredOne, GatheredEmpty DEF AtLeastOne, none
  <2>2. CASE all # <<>>
    BY <2>2 DEF AtLeastOne
  <2> QED  BY <2>1, <2>2
<1> QED  BY <1>4a, <1>12, <1>13 DEF g, B, wording

(* The blocks bs of a message say what is left of it; a tool's are one     *)
(* result.                                                                 *)
Renders(bs, m, b, T) ==
  /\ m.role # "tool" =>
       bs \in Seq(NoResults(T)) /\ Gathered(bs, Speaking(SayingBlocks(Lines, T))) = LeftOf(m)
  /\ m.role = "tool" => bs = <<b>> /\ IsResult(b) /\ b \in SayingBlocks(Lines, T)

LEMMA RenderedTurn ==
  ASSUME NEW bs, NEW m, NEW b, NEW T, NEW f,
         Renders(bs, m, b, T)
  PROVE  /\ Gathered(bs, Speaking(SayingBlocks(Lines, T))) = IF m.role = "tool" THEN <<>> ELSE LeftOf(m)
         /\ Gathered(bs, OfResults(SayingBlocks(Lines, T), f)) = IF m.role = "tool" THEN <<f[b]>> ELSE <<>>
<1> DEFINE B == SayingBlocks(Lines, T)
           g == Speaking(B)
           h == OfResults(B, f)
<1>1. g \in [B -> Seq(Atoms)] /\ \A x \in B : IsResult(x) => g[x] = <<>>
  BY SpeakingType DEF Speaking
<1>2. h \in [B -> Seq({ f[x] : x \in B })] /\ \A x \in B : h[x] = IF IsResult(x) THEN <<f[x]>> ELSE <<>>
  <2> DEFINE R == { f[x] : x \in B }
  <2>1. \A x \in B : f[x] \in R
    OBVIOUS
  <2> HIDE DEF R, B
  <2>2. \A x \in B : (IF IsResult(x) THEN <<f[x]>> ELSE <<>>) \in Seq(R)
    BY <2>1
  <2> QED  BY <2>2 DEF OfResults, R
<1>3. \A x \in NoResults(T) : x \in B /\ ~IsResult(x)
  BY DEF NoResults
<1>4. Renders(bs, m, b, T)
  OBVIOUS
<1>5. CASE m.role = "tool"
  <2>1. bs = <<b>> /\ IsResult(b) /\ b \in B
    BY <1>4, <1>5 DEF Renders
  <2> HIDE DEF B, g, h
  <2>2. Gathered(<<b>>, g) = g[b] /\ Gathered(<<b>>, h) = h[b]
    <3>1. \A x \in B : Gathered(<<x>>, g) = g[x]
      BY <1>1, GatheredOne
    <3>2. \A x \in B : Gathered(<<x>>, h) = h[x]
      BY <1>2, GatheredOne
    <3> QED  BY <2>1, <3>1, <3>2
  <2> QED  BY <1>1, <1>2, <1>5, <2>1, <2>2 DEF B, g, h
<1>6. CASE m.role # "tool"
  BY <1>4, <1>6, <1>2, <1>3, GatheredNothing DEF Renders, g, h
<1> QED  BY <1>5, <1>6

(* The turns w hold the messages.                                          *)
RendersAll(w, turns, b, T) ==
  /\ w \in Seq(Turns(SayingBlocks(Lines, T))) /\ DOMAIN w = DOMAIN turns
  /\ \A i \in DOMAIN w :
       /\ turns[i] \in ChatMessage /\ turns[i].role \in {"user", "assistant", "tool"}
       /\ w[i].role \in {"assistant", "model"} <=> turns[i].role = "assistant"
       /\ Renders(w[i].blocks, turns[i], b[i], T)

LEMMA RenderedTurns ==
  ASSUME NEW T, NEW turns, NEW w, NEW b, RendersAll(w, turns, b, T), NEW i \in DOMAIN w, NEW f
  PROVE  /\ Gathered(w[i].blocks, Speaking(SayingBlocks(Lines, T)))
              = IF turns[i].role = "tool" THEN <<>> ELSE LeftOf(turns[i])
         /\ Gathered(w[i].blocks, OfResults(SayingBlocks(Lines, T), f))
              = IF turns[i].role = "tool" THEN <<f[b[i]]>> ELSE <<>>
BY RenderedTurn DEF RendersAll

LEMMA PartRendered ==
  ASSUME NEW T, NEW p \in Saying(Lines)
  PROVE  /\ p.kind # "input_audio" => AnthropicBlock(p) \in NoResults(T) /\ BlockAtoms(AnthropicBlock(p)) = PartAtoms(p)
         /\ GeminiPart(p) \in NoResults(T) /\ BlockAtoms(GeminiPart(p)) = PartAtoms(p)
<1>1. CASE p.kind = "text"
  <2>1. p.body \in Seq(Lines)
    BY <1>1 DEF Saying
  <2>2. AnthropicBlock(p) = Block("text", Unset, p.body) /\ GeminiPart(p) = Block("text", Unset, p.body)
    BY <1>1 DEF AnthropicBlock, GeminiPart
  <2>3. Block("text", Unset, p.body) \in NoResults(T)
    BY <2>1 DEF Block, NoResults, SayingBlocks, IsResult
  <2>4. BlockAtoms(Block("text", Unset, p.body)) = PartAtoms(p)
    BY <1>1 DEF Block, BlockAtoms, PartAtoms, IsText
  <2> QED  BY <2>2, <2>3, <2>4
<1>2. CASE p.kind # "text"
  <2>1. p.kind \in MediaKinds /\ p.body \in Data
    BY <1>2 DEF Saying, MediaKinds
  <2>2. PartAtoms(p) = <<<<p.kind, p.body>>>>
    BY <1>2 DEF PartAtoms, IsText
  <2>3. p.kind # "input_audio" => AnthropicBlock(p) \in NoResults(T) /\ BlockAtoms(AnthropicBlock(p)) = PartAtoms(p)
    BY <1>2, <2>1, <2>2 DEF MediaKinds, AnthropicBlock, Block, Source, NoResults, SayingBlocks, IsResult, BlockAtoms
  <2>4. GeminiPart(p) \in NoResults(T) /\ BlockAtoms(GeminiPart(p)) = PartAtoms(p)
    BY <1>2, <2>1, <2>2 DEF MediaKinds, GeminiPart, Block, NoResults, SayingBlocks, IsResult, BlockAtoms
  <2> QED  BY <2>3, <2>4
<1> QED  BY <1>1, <1>2

LEMMA UserRendered ==
  ASSUME NEW T, NEW m \in ChatMessage, m.role = "user", NEW b, NEW bs,
         IF m.content = Unset THEN bs = AtLeastOne(<<>>)
         ELSE /\ bs = [j \in DOMAIN m.content |-> bs[j]]
              /\ \A j \in DOMAIN m.content :
                   bs[j] \in NoResults(T) /\ BlockAtoms(bs[j]) = PartAtoms(m.content[j])
  PROVE  Renders(bs, m, b, T)
<1>1. CASE m.content = Unset
  <2> DEFINE none == Block("text", Unset, <<>>)
             g == Speaking(SayingBlocks(Lines, T))
  <2>1. bs = <<none>>
    BY <1>1 DEF AtLeastOne
  <2>2. none \in NoResults(T) /\ none \in SayingBlocks(Lines, T) /\ g[none] = <<>>
    BY DEF Block, SayingBlocks, NoResults, IsResult, Speaking, BlockAtoms, TextAtoms
  <2> HIDE DEF none, g
  <2>3. Gathered(<<none>>, g) = <<>>
    BY <2>2, SpeakingType, GatheredOne DEF g
  <2>4. LeftOf(m) = <<>>
    BY <1>1 DEF LeftOf, PartsAtoms
  <2> QED  BY <2>1, <2>2, <2>3, <2>4 DEF Renders, g
<1>2. CASE m.content # Unset
  BY <1>2, MessageFacts, PartsAreSaying, PointwiseType, PartsSpeak DEF Optional, NoResults, Renders,
     LeftOf
<1> QED  BY <1>1, <1>2

LEMMA AssistantRendered ==
  ASSUME NEW T, NEW m \in ChatMessage, m.role = "assistant", NEW b, NEW bs, NEW calls,
         bs = AtLeastOne(TextBlocks(TextOf(m.content)) \o calls),
         calls = [i \in DOMAIN m.tool_calls |-> calls[i]],
         \A i \in DOMAIN m.tool_calls :
           ~IsResult(calls[i]) /\ calls[i] \in SayingBlocks(Lines, T)
           /\ BlockAtoms(calls[i]) = <<CallAtoms(m)[i]>>
  PROVE  Renders(bs, m, b, T)
BY TurnSpeaks DEF Renders, LeftOf

LEMMA CallParts ==
  ASSUME NEW m \in ChatMessage, NEW i \in DOMAIN m.tool_calls
  PROVE  /\ m.tool_calls[i].id \in CallIds /\ m.tool_calls[i].name \in Functions
         /\ Input(m.tool_calls[i].arguments) \in Text
<1>1. m.tool_calls[i] \in ToolCall
  BY MessageFacts
<1>2. m.tool_calls[i].id \in CallIds /\ m.tool_calls[i].name \in Functions /\ m.tool_calls[i].arguments \in Text
  BY <1>1 DEF ToolCall
<1> QED  BY <1>2, InputType

(* Each adapter renders each turn, but for what it refuses.                *)
LEMMA AnthropicRenders ==
  ASSUME NEW m \in ChatMessage, IsTurn(m),
         m.role = "user" /\ m.content # Unset =>
           \A j \in DOMAIN m.content : m.content[j].kind # "input_audio"
  PROVE  Renders(AnthropicBlocks(m), m, Block("tool_result", m.tool_call_id, TextOf(m.content)),
                 Optional(CallIds))
<1> DEFINE T == Optional(CallIds)
           b == Block("tool_result", m.tool_call_id, TextOf(m.content))
           bs == AnthropicBlocks(m)
<1>1. /\ m.role \in {"user", "assistant", "tool"} /\ m.tool_call_id \in Optional(CallIds)
      /\ m.content \in Optional(Seq(Saying(Lines)))
  BY MessageFacts, PartsAreSaying DEF IsTurn, Role
<1>2. CASE m.role = "tool"
  BY <1>2, <1>1, TextOfType DEF AnthropicBlocks, Block, IsResult, SayingBlocks, Renders
<1>3. CASE m.role = "user"
  BY <1>3, <1>1, PartRendered, UserRendered DEF AnthropicBlocks, Optional, bs, b
<1>4. CASE m.role = "assistant"
  <2> DEFINE calls == [i \in DOMAIN m.tool_calls |->
                         Block("tool_use", <<m.tool_calls[i].id, m.tool_calls[i].name>>,
                               Input(m.tool_calls[i].arguments))]
  <2>1. ASSUME NEW i \in DOMAIN m.tool_calls
        PROVE  /\ ~IsResult(calls[i]) /\ calls[i] \in SayingBlocks(Lines, T)
               /\ BlockAtoms(calls[i]) = <<CallAtoms(m)[i]>>
    <3>1. /\ m.tool_calls[i].id \in CallIds /\ m.tool_calls[i].name \in Functions
          /\ Input(m.tool_calls[i].arguments) \in Text
      BY CallParts
    <3> QED  BY <3>1 DEF Block, SayingBlocks, IsResult, BlockAtoms, CallAtoms
  <2>2. calls = [i \in DOMAIN m.tool_calls |-> calls[i]]
    OBVIOUS
  <2>3. bs = AtLeastOne(TextBlocks(TextOf(m.content)) \o calls)
    BY <1>4 DEF AnthropicBlocks
  <2> HIDE DEF calls, bs
  <2> QED  BY <1>4, <2>1, <2>2, <2>3, AssistantRendered DEF bs
<1> QED  BY <1>1, <1>2, <1>3, <1>4

LEMMA GeminiRenders ==
  ASSUME NEW T, NEW ms, NEW n, ms[n] \in ChatMessage, IsTurn(ms[n]),
         CallName(ms, n, ms[n].tool_call_id) \in T
  PROVE  Renders(GeminiParts(ms, n), ms[n],
                 Block("functionResponse", CallName(ms, n, ms[n].tool_call_id), TextOf(ms[n].content)), T)
<1> DEFINE m == ms[n]
           b == Block("functionResponse", CallName(ms, n, m.tool_call_id), TextOf(m.content))
           bs == GeminiParts(ms, n)
<1>1. m.role \in {"user", "assistant", "tool"} /\ m.content \in Optional(Seq(Saying(Lines)))
  BY MessageFacts, PartsAreSaying DEF IsTurn, Role
<1>2. CASE m.role = "tool"
  BY <1>2, <1>1, TextOfType DEF GeminiParts, Block, IsResult, SayingBlocks, Renders
<1>3. CASE m.role = "user"
  <2>1. IF m.content = Unset THEN bs = AtLeastOne(<<>>)
        ELSE bs = [j \in DOMAIN m.content |-> GeminiPart(m.content[j])]
    BY <1>3 DEF GeminiParts
  <2>2. ASSUME m.content # Unset, NEW j \in DOMAIN m.content
        PROVE  /\ GeminiPart(m.content[j]) \in NoResults(T)
               /\ BlockAtoms(GeminiPart(m.content[j])) = PartAtoms(m.content[j])
    BY <1>1, <2>2, PartRendered DEF Optional
  <2> HIDE DEF bs, b
  <2> QED  BY <1>3, <2>1, <2>2, UserRendered DEF bs, b
<1>4. CASE m.role = "assistant"
  <2> DEFINE calls == [i \in DOMAIN m.tool_calls |->
                         Block("functionCall", m.tool_calls[i].name, Input(m.tool_calls[i].arguments))]
  <2>1. ASSUME NEW i \in DOMAIN m.tool_calls
        PROVE  /\ ~IsResult(calls[i]) /\ calls[i] \in SayingBlocks(Lines, T)
               /\ BlockAtoms(calls[i]) = <<CallAtoms(m)[i]>>
    <3>1. /\ m.tool_calls[i].id \in CallIds /\ m.tool_calls[i].name \in Functions
          /\ Input(m.tool_calls[i].arguments) \in Text
      BY CallParts
    <3> QED  BY <3>1 DEF Block, SayingBlocks, IsResult, BlockAtoms, CallAtoms
  <2>2. calls = [i \in DOMAIN m.tool_calls |-> calls[i]]
    OBVIOUS
  <2>3. bs = AtLeastOne(TextBlocks(TextOf(m.content)) \o calls)
    BY <1>4 DEF GeminiParts
  <2> HIDE DEF calls, bs
  <2> QED  BY <1>4, <2>1, <2>2, <2>3, AssistantRendered DEF bs
<1> QED  BY <1>1, <1>2, <1>3, <1>4

(* What is left of a message is atoms.                                     *)
LEMMA InRoleType ==
  ASSUME NEW kind, NEW role
  PROVE  InRole(kind, role) \in [ChatMessage -> Seq(Atoms)]
<1>1. ASSUME NEW m \in ChatMessage PROVE SpokenTo(kind, m) \in Seq(Atoms)
  <2>1. m.content \in Optional(Seq(Saying(Lines))) /\ m.tool_calls \in Seq(ToolCall)
    BY MessageFacts, PartsAreSaying
  <2>2. MessageAtoms(m) \in Seq(Atoms)
    BY <2>1, MessageAtomsSay DEF Atoms
  <2>3. TextAtoms(TextOf(m.content)) \in Seq(Atoms)
    BY <2>1, TextOfType, TextAtomsSay DEF Atoms
  <2>4. CallAtoms(m) \in Seq(Atoms)
    BY CallParts, <2>1, PointwiseType DEF CallAtoms, Atoms, SayingAtoms
  <2>5. PartsAtoms(m.content) \in Seq(Atoms)
    <3>1. CASE m.content = Unset
      BY <3>1 DEF PartsAtoms
    <3>2. CASE m.content # Unset
      <4> DEFINE parts == [i \in DOMAIN m.content |-> PartAtoms(m.content[i])]
      <4>1. m.content \in Seq(Saying(Lines))
        BY <2>1, <3>2 DEF Optional
      <4>2. \A p \in Saying(Lines) : PartAtoms(p) \in Seq(Atoms)
        BY TextAtomsSay DEF Saying, PartAtoms, IsText, Atoms, MediaKinds, SayingAtoms
      <4>3. parts = [i \in DOMAIN m.content |-> parts[i]] /\ \A i \in DOMAIN m.content : parts[i] \in Seq(Atoms)
        BY <4>1, <4>2
      <4> HIDE DEF parts
      <4>4. FlattenSeq(parts) \in Seq(Atoms)
        BY <4>1, <4>3, FlattenPointwise
      <4> QED  BY <3>2, <4>4 DEF PartsAtoms, parts
    <3> QED  BY <3>1, <3>2
  <2> HIDE DEF Atoms
  <2>6. TextAtoms(TextOf(m.content)) \o CallAtoms(m) \in Seq(Atoms)
    BY <2>3, <2>4
  <2> QED  BY <2>2, <2>3, <2>5, <2>6 DEF SpokenTo, LeftOf
<1>2. <<>> \in Seq(Atoms)
  OBVIOUS
<1> HIDE DEF Atoms, SpokenTo
<1> QED  BY <1>1, <1>2 DEF InRole

(* The tool results of a conversation, each as f has it.                   *)
ToolAnswers(f) == [m \in ChatMessage |-> IF m.role = "tool" THEN <<f[m]>> ELSE <<>>]

(* The turns of a conversation are its messages but the system's.          *)
TurnsOf(messages) == Selected(messages, IsTurn)

(* The turns of a conversation hold all that is not the system's.          *)
LEMMA GatheredFromTurns ==
  ASSUME NEW ms \in Conversations, NEW R, NEW g \in [ChatMessage -> Seq(R)],
         \A m \in ChatMessage : m.role = "system" => g[m] = <<>>
  PROVE  Gathered(TurnsOf(ms), g) = Gathered(ms, g)
<1> DEFINE I == { i \in DOMAIN ms : IsTurn(ms[i]) }
<1>1. TurnsOf(ms) = Picked(ms, I)
  BY DEF TurnsOf, Selected
<1>2. ms \in Seq(ChatMessage)
  BY DEF Conversations
<1>3. \A i \in DOMAIN ms : i \notin I => g[ms[i]] = <<>>
  BY <1>2 DEF IsTurn
<1> HIDE DEF I
<1> QED  BY <1>1, <1>2, <1>3, GatheredFiltered

(* The turns w that render messages say what these say, and answer what    *)
(* these answer.                                                           *)
LEMMA TurnsSpeak ==
  ASSUME sent.kind # "openai", NEW T, NEW turns, NEW w, NEW b, Wire.turns = w,
         RendersAll(w, turns, b, T),
         NEW role \in {"user", "assistant"}
  PROVE  Heard(role) = Gathered(turns, InRole(sent.kind, role))
<1> DEFINE B == SayingBlocks(Lines, T)
           g == Speaking(B)
           h == InRole(sent.kind, role)
           roles == IF role = "user" THEN {"user"} ELSE {"assistant", "model"}
           all == BlocksOf(roles)
           I == { i \in DOMAIN all : ~IsResult(all[i]) }
           blocks == Picked(all, I)
<1>1. Heard(role) = FlattenSeq([i \in DOMAIN blocks |-> BlockAtoms(blocks[i])])
  BY DEF Heard, Selected
<1>2. all \in Seq(B)
  BY BlocksOfSay DEF RendersAll
<1>3. g \in [B -> Seq(Atoms)]
  BY SpeakingType
<1>4. /\ \A x \in B : g[x] = IF IsResult(x) THEN <<>> ELSE BlockAtoms(x)
      /\ \A i \in DOMAIN all : i \in I <=> ~IsResult(all[i])
  BY DEF Speaking
<1>6. \A i \in DOMAIN w : w[i] \in Turns(B)
  BY DEF RendersAll
<1>7. \A i \in DOMAIN w : w[i].role \in {"user", "assistant", "model"}
  BY <1>6 DEF Turns
<1> HIDE DEF I, all, g, B
<1>8. Heard(role) = Gathered(all, g)
  <2>1. /\ blocks \in Seq(B)
        /\ \A k \in DOMAIN blocks : \E i \in DOMAIN all : i \in I /\ blocks[k] = all[i]
    BY <1>2, PickedMembers
  <2> HIDE DEF blocks
  <2>2. \A k \in DOMAIN blocks : g[blocks[k]] = BlockAtoms(blocks[k])
    BY <1>2, <1>4, <2>1
  <2>3. Heard(role) = Gathered(blocks, g)
    BY <1>1, <2>2 DEF Gathered
  <2>4. \A i \in DOMAIN all : i \notin I => g[all[i]] = <<>>
    BY <1>2, <1>4
  <2>5. Gathered(Picked(all, I), g) = Gathered(all, g)
    BY <1>2, <1>3, <2>4, GatheredFiltered
  <2> QED  BY <2>3, <2>5 DEF blocks
<1>9. Gathered(all, g) = FlattenSeq([i \in DOMAIN w |->
                                       IF w[i].role \in roles THEN Gathered(w[i].blocks, g) ELSE <<>>])
  BY <1>3, TurnsGathered DEF B, RendersAll, all
<1>10. ASSUME NEW i \in DOMAIN w
       PROVE  h[turns[i]] = IF w[i].role \in roles THEN Gathered(w[i].blocks, g) ELSE <<>>
  <2>0. w[i].role \in {"assistant", "model"} <=> turns[i].role = "assistant"
    BY DEF RendersAll
  <2>1. Gathered(w[i].blocks, g) = IF turns[i].role = "tool" THEN <<>> ELSE LeftOf(turns[i])
    BY RenderedTurns, ZenonT(40) DEF g, B
  <2>2. turns[i] \in ChatMessage /\ turns[i].role \in {"user", "assistant", "tool"}
    BY DEF RendersAll
  <2>3. h[turns[i]] = IF turns[i].role = role THEN LeftOf(turns[i]) ELSE <<>>
    BY <2>2 DEF InRole, SpokenTo
  <2> HIDE DEF h
  <2> QED  BY <1>7, <2>0, <2>1, <2>2, <2>3
<1>11. Gathered(turns, h) = Gathered(all, g)
  BY <1>9, <1>10 DEF Gathered, RendersAll
<1> QED  BY <1>8, <1>11

LEMMA TurnsAnswer ==
  ASSUME sent.kind # "openai", NEW T, NEW turns, NEW w, NEW b, Wire.turns = w,
         RendersAll(w, turns, b, T),
         NEW V, NEW f \in [SayingBlocks(Lines, T) -> V], NEW h \in [ChatMessage -> V],
         \A i \in DOMAIN w : turns[i].role = "tool" => f[b[i]] = h[turns[i]]
  PROVE  Through(ResultsIn(BlocksOf({"user"})), f) = Gathered(turns, ToolAnswers(h))
<1> DEFINE B == SayingBlocks(Lines, T)
           g == OfResults(B, f)
           roles == {"user"}
           all == BlocksOf(roles)
<1>1. all \in Seq(B)
  BY BlocksOfSay DEF RendersAll
<1>2. g \in [B -> Seq(V)]
  BY OfResultsType
<1>4. \A i \in DOMAIN w : w[i] \in Turns(B)
  BY DEF RendersAll
<1>5. \A i \in DOMAIN w : w[i].role \in {"user", "assistant", "model"}
  BY <1>4 DEF Turns
<1>6. Through(ResultsIn(all), f) = Gathered(all, g)
  BY <1>1, ResultsGathered DEF g
<1>7. Gathered(all, g) = FlattenSeq([i \in DOMAIN w |->
                                       IF w[i].role \in roles THEN Gathered(w[i].blocks, g) ELSE <<>>])
  <2>1. w \in Seq(Turns(B)) /\ Wire.turns = w
    BY DEF RendersAll
  <2> HIDE DEF g, roles, B
  <2> QED  BY <1>1, <1>2, <2>1, TurnsGathered
<1>8. ASSUME NEW i \in DOMAIN w
      PROVE  ToolAnswers(h)[turns[i]] = IF w[i].role \in roles THEN Gathered(w[i].blocks, g) ELSE <<>>
  <2>0. Gathered(w[i].blocks, OfResults(SayingBlocks(Lines, T), f))
          = IF turns[i].role = "tool" THEN <<f[b[i]]>> ELSE <<>>
    BY RenderedTurns
  <2>1. Gathered(w[i].blocks, g) = IF turns[i].role = "tool" THEN <<f[b[i]]>> ELSE <<>>
    BY <2>0
  <2>2. turns[i] \in ChatMessage /\ turns[i].role \in {"user", "assistant", "tool"}
    BY DEF RendersAll
  <2>3. ToolAnswers(h)[turns[i]] = IF turns[i].role = "tool" THEN <<h[turns[i]]>> ELSE <<>>
    BY <2>2 DEF ToolAnswers
  <2>4. /\ w[i].role \in {"assistant", "model"} <=> turns[i].role = "assistant"
        /\ turns[i].role = "tool" => f[b[i]] = h[turns[i]]
    BY DEF RendersAll
  <2> HIDE DEF g
  <2> QED  BY <1>5, <2>1, <2>2, <2>3, <2>4
<1>9. Gathered(turns, ToolAnswers(h)) = Gathered(all, g)
  BY <1>7, <1>8 DEF Gathered, RendersAll
<1> QED  BY <1>6, <1>9

(* The system's texts reach an adapter apart from the turns.               *)
LEMMA SystemSpeaks ==
  ASSUME sent.kind # "openai", NEW ms \in Conversations,
         Wire.system = SystemBlocks(ms) \/ Wire.system = Uncached(SystemBlocks(ms))
  PROVE  Heard("system") = Gathered(ms, InRole(sent.kind, "system"))
<1> DEFINE I == { i \in DOMAIN ms : IsSystem(ms[i]) /\ ms[i].content # Unset }
           present == Picked(ms, I)
           blocks == SystemBlocks(ms)
           said == [m \in ChatMessage |-> TextAtoms(TextOf(m.content))]
           h == InRole(sent.kind, "system")
<1>1. blocks = [i \in DOMAIN present |->
                  [body |-> PlainText(present[i].content), cached |-> present[i].cache_control]]
  BY DEF SystemBlocks, Selected
<1>2. ms \in Seq(ChatMessage) /\ \A i \in I : ms[i].content # Unset
  BY DEF Conversations
<1>3. \A i \in DOMAIN ms : i \in I <=> ms[i].role = "system" /\ ms[i].content # Unset
  BY DEF IsSystem
<1>4. said \in [ChatMessage -> Seq(Atoms)]
  BY MessageFacts, PartsAreSaying, TextOfType, TextAtomsSay DEF Atoms
<1>5. \A m \in ChatMessage : said[m] = TextAtoms(TextOf(m.content))
  OBVIOUS
<1>6. \A m \in ChatMessage : h[m] = IF m.role = "system" THEN TextAtoms(TextOf(m.content)) ELSE <<>>
  BY DEF InRole, SpokenTo, LeftOf
<1> HIDE DEF I, said, h
<1>7. /\ present \in Seq(ChatMessage)
      /\ \A k \in DOMAIN present : \E i \in DOMAIN ms : i \in I /\ present[k] = ms[i]
  BY <1>2, PickedMembers
<1> HIDE DEF present
<1>8. \A k \in DOMAIN present : said[present[k]] = TextAtoms(PlainText(present[k].content))
  BY <1>2, <1>5, <1>7 DEF TextOf
<1> HIDE DEF blocks
<1>9. /\ DOMAIN Wire.system = DOMAIN present
      /\ \A k \in DOMAIN present : Wire.system[k].body = PlainText(present[k].content)
  BY <1>1 DEF Uncached, blocks
<1>10. Heard("system") = Gathered(present, said)
  BY <1>8, <1>9 DEF Heard, Gathered
<1>11. Gathered(present, said) = FlattenSeq(Partly(ms, I, said))
  BY <1>2, <1>4, GatheredPicked DEF present
<1>12. TextAtoms(TextOf(Unset)) = <<>>
  BY DEF TextAtoms, TextOf
<1>13. Partly(ms, I, said) = [i \in DOMAIN ms |-> h[ms[i]]]
  BY <1>2, <1>3, <1>5, <1>6, <1>12 DEF Partly
<1> QED  BY <1>10, <1>11, <1>13 DEF Gathered, h

(* A tool's message as a result: the call it answers, and its text.        *)
AsResult == [m \in ChatMessage |-> [to |-> m.tool_call_id, body |-> TextOf(m.content)]]

(* A request to an OpenAI-compatible provider holds the messages.          *)
LEMMA MessagesSpeak ==
  ASSUME sent.kind = "openai", NEW ms \in Conversations,
         Wire.messages = [i \in DOMAIN ms |-> [ms[i] EXCEPT !.cache_control = FALSE]]
  PROVE  /\ \A role : Heard(role) = Gathered(ms, InRole("openai", role))
         /\ HeardResults = Gathered(ms, ToolAnswers(AsResult))
<1> DEFINE d == Wire.messages
           said == [m \in ChatMessage |-> MessageAtoms(m)]
<1>1. ms \in Seq(ChatMessage) /\ d = [i \in DOMAIN ms |-> [ms[i] EXCEPT !.cache_control = FALSE]]
  BY DEF Conversations
<1> HIDE DEF d
<1>2. ASSUME NEW i \in DOMAIN ms
      PROVE  /\ d[i] \in ChatMessage /\ d[i].role = ms[i].role /\ d[i].content = ms[i].content
             /\ d[i].tool_calls = ms[i].tool_calls /\ d[i].tool_call_id = ms[i].tool_call_id
  <2>1. ms[i] \in ChatMessage
    BY <1>1
  <2> QED  BY <1>1, <2>1 DEF ChatMessage
<1>3. d = [i \in DOMAIN ms |-> d[i]]
  BY <1>1
<1>4. d \in Seq(ChatMessage) /\ DOMAIN d = DOMAIN ms
  BY <1>1, <1>2, <1>3, PointwiseType
<1>5. said \in [ChatMessage -> Seq(Atoms)]
  BY MessageFacts, PartsAreSaying, MessageAtomsSay DEF Atoms
<1>6. \A m \in ChatMessage : said[m] = MessageAtoms(m)
  OBVIOUS
<1>7. \A i \in DOMAIN ms : MessageAtoms(d[i]) = MessageAtoms(ms[i])
  BY <1>2 DEF MessageAtoms
<1> HIDE DEF said
<1>8. ASSUME NEW role
      PROVE  Heard(role) = Gathered(ms, InRole("openai", role))
  <2> DEFINE I == { i \in DOMAIN d : d[i].role = role }
             p == Picked(d, I)
  <2>1. Messages(role) = p
    BY DEF Messages, Selected, d
  <2>2. \A i \in DOMAIN d : i \in I <=> d[i].role = role
    OBVIOUS
  <2>3. Heard(role) = FlattenSeq([k \in DOMAIN p |-> MessageAtoms(p[k])])
    BY <2>1 DEF Heard
  <2> HIDE DEF I
  <2>4. p \in Seq(ChatMessage)
    BY <1>4, PickedMembers
  <2>5. Gathered(p, said) = FlattenSeq(Partly(d, I, said))
    BY <1>4, <1>5, GatheredPicked
  <2> HIDE DEF p
  <2>6. \A k \in DOMAIN p : said[p[k]] = MessageAtoms(p[k])
    BY <1>6, <2>4
  <2>7. Heard(role) = Gathered(p, said)
    BY <2>3, <2>6 DEF Gathered
  <2>8. ASSUME NEW i \in DOMAIN ms
        PROVE  Partly(d, I, said)[i] = InRole("openai", role)[ms[i]]
    BY <1>1, <1>2, <1>4, <1>6, <1>7, <2>2 DEF Partly, InRole, SpokenTo
  <2>9. Partly(d, I, said) = [i \in DOMAIN ms |-> InRole("openai", role)[ms[i]]]
    BY <1>4, <2>8 DEF Partly
  <2> QED  BY <2>5, <2>7, <2>9 DEF Gathered
<1>9. HeardResults = Gathered(ms, ToolAnswers(AsResult))
  <2> DEFINE I == { i \in DOMAIN d : d[i].role = "tool" }
             p == Picked(d, I)
  <2>1. Messages("tool") = p
    BY DEF Messages, Selected, d
  <2>2. \A i \in DOMAIN d : i \in I <=> d[i].role = "tool"
    OBVIOUS
  <2> HIDE DEF I
  <2>3. Through(Picked(d, I), AsResult) = FlattenSeq([i \in DOMAIN d |-> IF i \in I THEN <<AsResult[d[i]]>> ELSE <<>>])
    <3>1. d \in Seq(ChatMessage)
      BY <1>4
    <3> HIDE DEF p
    <3> QED  BY <3>1, ThroughOfPicked
  <2>4. p \in Seq(ChatMessage)
    BY <1>4, PickedMembers
  <2> HIDE DEF p
  <2>5. \A k \in DOMAIN p : AsResult[p[k]] = [to |-> p[k].tool_call_id, body |-> TextOf(p[k].content)]
    BY <2>4 DEF AsResult
  <2>6. HeardResults = Through(p, AsResult)
    BY <2>1, <2>5 DEF HeardResults, Through
  <2>7. ASSUME NEW i \in DOMAIN ms
        PROVE  (IF i \in I THEN <<AsResult[d[i]]>> ELSE <<>>) = ToolAnswers(AsResult)[ms[i]]
    <3>1. ms[i] \in ChatMessage /\ d[i] \in ChatMessage /\ i \in DOMAIN d
      BY <1>1, <1>2, <1>4
    <3>2. AsResult[d[i]] = AsResult[ms[i]] /\ d[i].role = ms[i].role
      BY <1>2, <3>1 DEF AsResult
    <3> QED  BY <2>2, <3>1, <3>2 DEF ToolAnswers
  <2>8. [i \in DOMAIN d |-> IF i \in I THEN <<AsResult[d[i]]>> ELSE <<>>] = [i \in DOMAIN ms |-> ToolAnswers(AsResult)[ms[i]]]
    BY <1>4, <2>7
  <2> QED  BY <2>3, <2>6, <2>8 DEF Gathered, p
<1> QED  BY <1>8, <1>9

LEMMA TurnFacts ==
  ASSUME NEW ms \in Conversations
  PROVE  /\ TurnsOf(ms) \in Conversations
         /\ \A i \in DOMAIN TurnsOf(ms) :
              /\ TurnsOf(ms)[i] \in ChatMessage /\ IsTurn(TurnsOf(ms)[i])
              /\ TurnsOf(ms)[i].role \in {"user", "assistant", "tool"}
              /\ \E j \in DOMAIN ms : TurnsOf(ms)[i] = ms[j]
<1> DEFINE I == { i \in DOMAIN ms : IsTurn(ms[i]) }
           turns == Picked(ms, I)
<1>1. TurnsOf(ms) = turns
  BY DEF TurnsOf, Selected
<1>2. ms \in Seq(ChatMessage) /\ \A i \in I : IsTurn(ms[i])
  BY DEF Conversations
<1>3. \A m \in ChatMessage : IsTurn(m) => m.role \in {"user", "assistant", "tool"}
  BY MessageFacts DEF IsTurn, Role
<1> HIDE DEF I, IsTurn
<1>4. /\ turns \in Seq(ChatMessage)
      /\ \A k \in DOMAIN turns : \E i \in DOMAIN ms : i \in I /\ turns[k] = ms[i]
  BY <1>2, PickedMembers
<1> HIDE DEF turns
<1> QED  BY <1>1, <1>2, <1>3, <1>4 DEF Conversations

LEMMA AnthropicRendersAll ==
  ASSUME NEW r \in ChatRequest, ~AnthropicRefuses(r), NEW turns, turns = TurnsOf(r.messages)
  PROVE  RendersAll(AnthropicTurns(r.messages), turns,
                    [i \in DOMAIN turns |->
                       Block("tool_result", turns[i].tool_call_id, TextOf(turns[i].content))],
                    Optional(CallIds))
<1> DEFINE ms == r.messages
           w == AnthropicTurns(ms)
           b == [i \in DOMAIN turns |->
                   Block("tool_result", turns[i].tool_call_id, TextOf(turns[i].content))]
<1>1. ms \in Conversations
  BY RequestFacts
<1>2. w \in Seq(Turns(SayingBlocks(Lines, Optional(CallIds))))
  BY <1>1, AllAreSaying, AnthropicTurnsSay
<1>3. w = [i \in DOMAIN turns |->
             [role |-> IF turns[i].role = "assistant" THEN "assistant" ELSE "user",
              blocks |-> AnthropicBlocks(turns[i]),
              cached |-> turns[i].cache_control /\ AnthropicBlocks(turns[i]) # <<>>]]
  BY DEF AnthropicTurns, TurnsOf
<1>4. /\ turns \in Conversations
      /\ \A i \in DOMAIN turns :
           /\ turns[i] \in ChatMessage /\ IsTurn(turns[i])
           /\ turns[i].role \in {"user", "assistant", "tool"}
           /\ \E j \in DOMAIN ms : turns[i] = ms[j]
  BY <1>1, TurnFacts
<1>5. \A j \in DOMAIN ms : ms[j].role = "user" /\ ms[j].content # Unset =>
        \A k \in DOMAIN ms[j].content : ms[j].content[k].kind # "input_audio"
  BY DEF AnthropicRefuses
<1> HIDE DEF w, ms
<1>6. ASSUME NEW i \in DOMAIN turns
      PROVE  Renders(AnthropicBlocks(turns[i]), turns[i], b[i], Optional(CallIds))
  BY <1>4, <1>5, AnthropicRenders
<1>7. \A i \in DOMAIN w :
        /\ turns[i] \in ChatMessage /\ turns[i].role \in {"user", "assistant", "tool"}
        /\ w[i].role \in {"assistant", "model"} <=> turns[i].role = "assistant"
        /\ w[i].blocks = AnthropicBlocks(turns[i])
  BY <1>3, <1>4
<1> HIDE DEF b
<1>8. RendersAll(w, turns, b, Optional(CallIds))
  BY <1>2, <1>3, <1>6, <1>7 DEF RendersAll, w
<1> QED  BY <1>8 DEF w, ms, b

LEMMA GeminiRendersAll ==
  ASSUME NEW r \in ChatRequest, NEW turns, turns = TurnsOf(r.messages)
  PROVE  \E T : RendersAll(GeminiContents(r.messages), turns,
                  [i \in DOMAIN turns |->
                     Block("functionResponse", CallName(turns, i, turns[i].tool_call_id),
                           TextOf(turns[i].content))],
                  T)
<1> DEFINE ms == r.messages
           w == GeminiContents(ms)
           T == { CallName(turns, i, turns[i].tool_call_id) : i \in DOMAIN turns }
           b == [i \in DOMAIN turns |->
                   Block("functionResponse", CallName(turns, i, turns[i].tool_call_id),
                         TextOf(turns[i].content))]
           B == SayingBlocks(Lines, T)
<1>1. ms \in Conversations
  BY RequestFacts
<1>2. w = [i \in DOMAIN turns |-> [role |-> IF turns[i].role = "assistant" THEN "model" ELSE "user",
                                   blocks |-> GeminiParts(turns, i), cached |-> FALSE]]
  BY DEF GeminiContents, TurnsOf
<1>3. /\ turns \in Conversations
      /\ \A i \in DOMAIN turns :
           /\ turns[i] \in ChatMessage /\ IsTurn(turns[i])
           /\ turns[i].role \in {"user", "assistant", "tool"}
  BY <1>1, TurnFacts
<1>4. \A i \in DOMAIN turns : CallName(turns, i, turns[i].tool_call_id) \in T
  OBVIOUS
<1> HIDE DEF w, ms, T
<1>5. ASSUME NEW i \in DOMAIN turns
      PROVE  Renders(GeminiParts(turns, i), turns[i], b[i], T) /\ GeminiParts(turns, i) \in Seq(B)
  BY <1>3, <1>4, MessageFacts, PartsAreSaying, GeminiPartsSay, GeminiRenders
<1> HIDE DEF B, b
<1>6. ASSUME NEW i \in DOMAIN turns PROVE w[i] \in Turns(B)
  BY <1>2, <1>5 DEF Turns
<1>7. w = [i \in DOMAIN turns |-> w[i]]
  BY <1>2
<1>8. w \in Seq(Turns(B)) /\ DOMAIN w = DOMAIN turns
  BY <1>3, <1>6, <1>7, PointwiseType DEF Conversations
<1>9. RendersAll(w, turns, b, T)
  BY <1>2, <1>3, <1>5, <1>8 DEF RendersAll, B
<1> QED  BY <1>9 DEF w, ms, b

(* A tool's message as its text alone.                                     *)
AsText == [m \in ChatMessage |-> TextOf(m.content)]

(* What the provider hears of the request it is sent: by each role, in     *)
(* order, all that its messages say and its adapter lets the role say; and *)
(* the answer of each tool message.  Only Gemini has no call ids.          *)
AllIsConveyed ==
  LET messages == sent.req.messages
  IN /\ \A role \in {"system", "user", "assistant"} :
          Heard(role) = Gathered(messages, InRole(sent.kind, role))
     /\ IF sent.kind = "gemini"
        THEN [n \in DOMAIN HeardResults |-> HeardResults[n].body] = Gathered(messages, ToolAnswers(AsText))
        ELSE HeardResults = Gathered(messages, ToolAnswers(AsResult))

LEMMA TurnsConvey ==
  ASSUME sent.kind # "openai", NEW T, NEW ms \in Conversations, ms = sent.req.messages,
         NEW w, Wire.turns = w, NEW turns, turns = TurnsOf(ms), NEW b, RendersAll(w, turns, b, T),
         \A i \in DOMAIN turns : b[i].body = TextOf(turns[i].content),
         sent.kind = "gemini" \/ \A i \in DOMAIN turns : b[i].tag = turns[i].tool_call_id,
         Wire.system = SystemBlocks(ms) \/ Wire.system = Uncached(SystemBlocks(ms))
  PROVE  AllIsConveyed
<1> DEFINE B == SayingBlocks(Lines, T)
           all == BlocksOf({"user"})
           blocks == ResultsIn(all)
<1>1. HeardResults = [i \in DOMAIN blocks |-> [to |-> blocks[i].tag, body |-> blocks[i].body]]
  BY DEF HeardResults, ResultsIn
<1>2. blocks \in Seq(B)
  BY BlocksOfSay, PickedMembers DEF RendersAll, ResultsIn, Selected
<1>3. ASSUME NEW role \in {"user", "assistant"}
      PROVE  Heard(role) = Gathered(ms, InRole(sent.kind, role))
  <2>1. Heard(role) = Gathered(turns, InRole(sent.kind, role))
    BY TurnsSpeak
  <2>2. \A m \in ChatMessage : m.role = "system" => InRole(sent.kind, role)[m] = <<>>
    BY DEF InRole
  <2>3. InRole(sent.kind, role) \in [ChatMessage -> Seq(Atoms)]
    BY InRoleType
  <2>4. Gathered(TurnsOf(ms), InRole(sent.kind, role)) = Gathered(ms, InRole(sent.kind, role))
    BY <2>2, <2>3, GatheredFromTurns
  <2> QED  BY <2>1, <2>4
<1>4. Heard("system") = Gathered(ms, InRole(sent.kind, "system"))
  BY SystemSpeaks
<1>5. ASSUME NEW V, NEW f \in [B -> V], NEW h \in [ChatMessage -> V],
             \A i \in DOMAIN turns : turns[i].role = "tool" => f[b[i]] = h[turns[i]]
      PROVE  Through(blocks, f) = Gathered(ms, ToolAnswers(h))
  <2>1. \A i \in DOMAIN w : turns[i].role = "tool" => f[b[i]] = h[turns[i]]
    BY <1>5 DEF RendersAll
  <2>2. Through(blocks, f) = Gathered(turns, ToolAnswers(h))
    BY <2>1, TurnsAnswer
  <2>3. /\ ToolAnswers(h) \in [ChatMessage -> Seq(V)]
        /\ \A m \in ChatMessage : m.role = "system" => ToolAnswers(h)[m] = <<>>
    BY DEF ToolAnswers
  <2>4. Gathered(TurnsOf(ms), ToolAnswers(h)) = Gathered(ms, ToolAnswers(h))
    BY <2>3, GatheredFromTurns
  <2> QED  BY <2>2, <2>4
<1>6. \A i \in DOMAIN turns : turns[i] \in ChatMessage /\ (turns[i].role = "tool" => b[i] \in B)
  BY DEF RendersAll, Renders
<1>7. CASE sent.kind = "gemini"
  <2> DEFINE f == [x \in B |-> x.body]
             V == { x.body : x \in B } \cup { TextOf(m.content) : m \in ChatMessage }
  <2>1. f \in [B -> V] /\ AsText \in [ChatMessage -> V]
    BY DEF AsText
  <2>2. \A i \in DOMAIN turns : turns[i].role = "tool" => f[b[i]] = AsText[turns[i]]
    BY <1>6 DEF AsText
  <2>3. \A i \in DOMAIN blocks : blocks[i] \in B
    BY <1>2
  <2>4. [n \in DOMAIN HeardResults |-> HeardResults[n].body] = Through(blocks, f)
    BY <1>1, <2>3 DEF Through
  <2> HIDE DEF f, V, B, blocks
  <2>5. Through(blocks, f) = Gathered(ms, ToolAnswers(AsText))
    BY <1>5, <2>1, <2>2
  <2> QED  BY <1>3, <1>4, <1>7, <2>4, <2>5 DEF AllIsConveyed
<1>8. CASE sent.kind # "gemini"
  <2> DEFINE f == [x \in B |-> [to |-> x.tag, body |-> x.body]]
             V == { [to |-> x.tag, body |-> x.body] : x \in B } \cup { AsResult[m] : m \in ChatMessage }
  <2>1. f \in [B -> V] /\ AsResult \in [ChatMessage -> V]
    BY DEF AsResult
  <2>2. \A i \in DOMAIN turns : turns[i].role = "tool" => f[b[i]] = AsResult[turns[i]]
    BY <1>6, <1>8 DEF AsResult
  <2>3. \A i \in DOMAIN blocks : blocks[i] \in B
    BY <1>2
  <2>4. HeardResults = Through(blocks, f)
    BY <1>1, <2>3 DEF Through
  <2> HIDE DEF f, V, B, blocks
  <2>5. Through(blocks, f) = Gathered(ms, ToolAnswers(AsResult))
    BY <1>5, <2>1, <2>2
  <2> QED  BY <1>3, <1>4, <1>8, <2>4, <2>5 DEF AllIsConveyed
<1> QED  BY <1>7, <1>8

LEMMA RequestsAreConveyed ==
  ASSUME sent.kind \in ProviderKind, sent.req \in ChatRequest, ~Refuses(sent.kind, sent.req)
  PROVE  AllIsConveyed
<1> DEFINE r == sent.req
           ms == r.messages
           turns == TurnsOf(ms)
<1>1. ms \in Conversations
  BY RequestFacts
<1>2. CASE sent.kind = "anthropic"
  <2> DEFINE b == [i \in DOMAIN turns |->
                     Block("tool_result", turns[i].tool_call_id, TextOf(turns[i].content))]
  <2>1. Wire.turns = AnthropicTurns(ms) /\ Wire.system = SystemBlocks(ms) /\ ~AnthropicRefuses(r)
    BY <1>2 DEF Wire, WireRequest, AnthropicRequest, Refuses
  <2>2. RendersAll(AnthropicTurns(ms), turns, b, Optional(CallIds))
    BY <2>1, AnthropicRendersAll
  <2>3. \A i \in DOMAIN turns : b[i].body = TextOf(turns[i].content) /\ b[i].tag = turns[i].tool_call_id
    BY DEF Block
  <2> HIDE DEF b, turns
  <2> QED  BY <1>1, <1>2, <2>1, <2>2, <2>3, TurnsConvey DEF turns
<1>3. CASE sent.kind = "gemini"
  <2> DEFINE b == [i \in DOMAIN turns |->
                     Block("functionResponse", CallName(turns, i, turns[i].tool_call_id),
                           TextOf(turns[i].content))]
  <2>1. Wire.turns = GeminiContents(ms) /\ Wire.system = Uncached(SystemBlocks(ms))
    BY <1>3 DEF Wire, WireRequest, GeminiRequest
  <2>2. PICK T : RendersAll(GeminiContents(ms), turns, b, T)
    BY GeminiRendersAll
  <2>3. \A i \in DOMAIN turns : b[i].body = TextOf(turns[i].content)
    BY DEF Block
  <2> HIDE DEF b, turns
  <2> QED  BY <1>1, <1>3, <2>1, <2>2, <2>3, TurnsConvey DEF turns
<1>4. CASE sent.kind = "openai"
  <2>1. Wire.messages = [i \in DOMAIN ms |-> [ms[i] EXCEPT !.cache_control = FALSE]]
    BY <1>4 DEF Wire, WireRequest, OpenAiRequest
  <2>2. /\ \A role : Heard(role) = Gathered(ms, InRole("openai", role))
        /\ HeardResults = Gathered(ms, ToolAnswers(AsResult))
    <3> HIDE DEF ms
    <3> QED  BY <1>1, <1>4, <2>1, MessagesSpeak
  <2> QED  BY <1>4, <2>2 DEF AllIsConveyed
<1> QED  BY <1>2, <1>3, <1>4 DEF ProviderKind

LEMMA SentIsSendable ==
  ASSUME CallsInv, OwnInv, ScreenedInv, phase = "asked"
  PROVE  sent.kind \in ProviderKind /\ sent.req \in ChatRequest /\ ~Refuses(sent.kind, sent.req)
BY DEF CallsInv, AnswersInv, StreamInv, OwnInv, ScreenedInv

LEMMA ThinkingHasRoom ==
  ASSUME sent.req \in ChatRequest
  PROVE  ThinkingFits
<1> DEFINE r == sent.req
           budget == ThinkingBudget(r.reasoning, r.max_tokens)
           ceiling == IF r.max_tokens = Unset THEN DefaultMaxTokens ELSE r.max_tokens
<1> SUFFICES ASSUME sent.kind = "anthropic", Wire.thinking # Unset
             PROVE  /\ Wire.thinking >= MinThinkingBudget
                    /\ Wire.max_tokens > Wire.thinking
                    /\ r.max_tokens # Unset => Wire.max_tokens >= r.max_tokens
  BY DEF ThinkingFits
<1>1. /\ Wire.thinking = AnthropicThinking(r)
      /\ Wire.max_tokens = IF Wire.thinking # Unset /\ ceiling <= Wire.thinking
                           THEN Wire.thinking + DefaultMaxTokens ELSE ceiling
  BY DEF Wire, WireRequest, AnthropicRequest, AnthropicMaxTokens
<1>2. /\ r.reasoning # Unset
      /\ Wire.thinking = IF budget < MinThinkingBudget THEN MinThinkingBudget ELSE budget
  BY <1>1 DEF AnthropicThinking
<1>3. r.reasoning \in ReasoningConfig /\ r.max_tokens \in Optional(Nat)
  BY <1>2 DEF ChatRequest, Optional
<1>4. budget \in Nat
  BY <1>3, BudgetType
<1>5. MinThinkingBudget \in Nat /\ DefaultMaxTokens \in Nat \ {0}
  BY BudgetAssumption
<1>6. ceiling \in Nat /\ (r.max_tokens # Unset => ceiling = r.max_tokens)
  BY <1>3, <1>5 DEF Optional
<1>7. Wire.thinking \in Nat /\ Wire.thinking >= MinThinkingBudget
  <2> HIDE DEF budget
  <2> QED  BY <1>2, <1>4, <1>5
<1>8. Wire.max_tokens > Wire.thinking /\ Wire.max_tokens >= ceiling
  <2> HIDE DEF ceiling
  <2> QED  BY <1>1, <1>5, <1>6, <1>7
<1> QED  BY <1>6, <1>7, <1>8

(* Whatever the adapter, a provider hears of the request sent to it every  *)
(* line, attachment and call, by its speaker and in order, and every tool  *)
(* result, and nothing else: no adapter drops, doubles or reorders any.    *)
THEOREM AdaptersLoseNothing == CallsSpec => [](phase = "asked" => AllIsConveyed)
<1>1. CallsInv /\ OwnInv /\ ScreenedInv => (phase = "asked" => AllIsConveyed)
  BY SentIsSendable, RequestsAreConveyed
<1> QED  BY <1>1, ScreenedAlways, PTL

(* An Anthropic request always has room for its thinking, for an answer    *)
(* after it, and for what the caller asked for.                            *)
THEOREM ThinkingAlwaysFits == CallsSpec => [](phase = "asked" => ThinkingFits)
<1>1. CallsInv /\ OwnInv /\ ScreenedInv => (phase = "asked" => ThinkingFits)
  BY SentIsSendable, ThinkingHasRoom
<1> QED  BY <1>1, ScreenedAlways, PTL
=============================================================================
