---------------------------- MODULE CachedDispatch --------------------------
(***************************************************************************)
(* Router::dispatch_traced in front of the response cache, in the mode the *)
(* configuration chose: "exact" looks up the hash of the whole request,    *)
(* "semantic" embeds the message text by a provider call, before the       *)
(* lookup and again before the insert, and compares it within the scope of *)
(* the other fields.  Each request is a task; a cache is locked for one    *)
(* lookup or one insert, never across a provider call.                     *)
(***************************************************************************)
EXTENDS Integers, SequencesExt

CONSTANTS
  Requests,    (* Concurrent requests.                                     *)
  Scopes,      (* Everything in a request but its messages.                *)
  Texts,       (* The texts of its messages, with their roles.             *)
  Attachments, (* Their other parts: images, audio, files, tool calls.     *)
  Asks,        (* What clients ask.                                        *)
  Embedding,   (* The vector the embedding model makes of a text.          *)
  Threshold,   (* [cache].similarity_threshold, in percent.                *)
  MaxEntries,  (* [cache].max_entries, at least 1.                         *)
  TTL,         (* [cache].ttl_secs.                                        *)
  MaxAnswers,  (* Bound on the answers providers give.                     *)
  MaxTime,     (* Bound on the clock.                                      *)
  None         (* No entry, no request, no answer.                         *)

ASSUME CacheAssumption ==
  /\ MaxEntries \in Nat \ {0} /\ TTL \in Nat /\ Threshold \in Int
  /\ Asks \subseteq [scope : Scopes, text : Texts, attachment : Attachments]
  /\ Embedding \in [Texts -> Seq(Int)]
ASSUME BoundAssumption == MaxAnswers \in Nat /\ MaxTime \in Nat

-----------------------------------------------------------------------------
(* The exact key hashes the whole request.  The semantic cache splits it:  *)
(* the scope is compared exactly, the text of the messages is embedded,    *)
(* and their attachments are dropped.                                      *)
key_for(k) == <<k.scope, k.text, k.attachment>>
scope_key_for(k) == k.scope
request_text_for_embedding(k) == k.text

Keys == {key_for(k) : k \in Asks}

DotProduct(a, b) ==
  LET sum[i \in 0..Len(a)] == IF i = 0 THEN 0 ELSE sum[i - 1] + a[i] * b[i]
  IN sum[Len(a)]
Squared(n) == IF n < 0 THEN -(n * n) ELSE n * n   \* with its sign

(* The cosine of two embeddings, as the fraction that is its square with   *)
(* its sign; of embeddings that do not compare, nothing.                   *)
cosine_similarity(a, b) ==
  LET norms == DotProduct(a, a) * DotProduct(b, b)
  IN IF Len(a) # Len(b) \/ norms = 0 THEN <<0, 1>>
     ELSE <<Squared(DotProduct(a, b)), norms>>

AtMost(p, q) == p[1] * q[2] <= q[1] * p[2]

Similarity(t, u) == cosine_similarity(Embedding[t], Embedding[u])
SimilarEnough(t, u) == AtMost(<<Squared(Threshold), 10000>>, Similarity(t, u))

-----------------------------------------------------------------------------
Answers == 1..MaxAnswers
Entry == [inserted_at : 0..MaxTime, answer : Answers]
SemanticEntry ==
  [scope : Scopes, embedding : Texts, answer : Answers, inserted_at : 0..MaxTime]
Hits == [answer : Answers, ask : Asks, live : SUBSET Answers, at : 0..MaxTime]

VARIABLES
  mode,        (* [cache].mode.                                            *)
  now,
  order,       (* ResponseCache.order.                                     *)
  entries,     (* ResponseCache.entries: an Entry or None for every key.   *)
  vectors,     (* SemanticCache.entries, oldest first.                     *)
  pc,          (* Where a request is.                                      *)
  ask,         (* What it asks, or None.                                   *)
  resp,        (* The answer it holds, or None.                            *)
  answers,     (* How many answers providers gave; they are numbered.      *)
  asked,       (* History: what each answer was given for,                 *)
  stored_at,   (*   when it was stored,                                    *)
  hit          (*   and what the last step returned, if it was a hit.      *)

exact == <<order, entries>>
vars == <<mode, now, order, entries, vectors, pc, ask, resp, answers, asked,
          stored_at, hit>>

CacheMode == {"exact", "semantic"}
Phases == {"idle", "embedding", "dispatching", "storing"}
Cached == {k \in Keys : entries[k] # None}

TypeOK ==
  /\ mode \in CacheMode
  /\ now \in 0..MaxTime
  /\ order \in Seq(Keys) /\ Len(order) <= MaxEntries
  /\ entries \in [Keys -> Entry \cup {None}]
  /\ vectors \in Seq(SemanticEntry) /\ Len(vectors) <= MaxEntries
  /\ pc \in [Requests -> Phases]
  /\ ask \in [Requests -> Asks \cup {None}]
  /\ resp \in [Requests -> Answers \cup {None}]
  /\ answers \in 0..MaxAnswers
  /\ asked \in [Answers -> Asks \cup {None}]
  /\ stored_at \in [Answers -> 0..MaxTime]
  /\ hit \in Hits \cup {None}

Init ==
  /\ mode \in CacheMode
  /\ now = 0
  /\ order = <<>>
  /\ entries = [k \in Keys |-> None]
  /\ vectors = <<>>
  /\ pc = [r \in Requests |-> "idle"]
  /\ ask = [r \in Requests |-> None]
  /\ resp = [r \in Requests |-> None]
  /\ answers = 0
  /\ asked = [a \in Answers |-> None]
  /\ stored_at = [a \in Answers |-> 0]
  /\ hit = None

-----------------------------------------------------------------------------
(* The request ends, with an answer or without.                            *)
Ends(r) ==
  /\ pc' = [pc EXCEPT ![r] = "idle"]
  /\ ask' = [ask EXCEPT ![r] = None]
  /\ resp' = [resp EXCEPT ![r] = None]

Expired(k) == now - entries[k].inserted_at > TTL

(* ResponseCache::get finds a live entry.                                  *)
ExactHit(r, k) ==
  /\ mode = "exact" /\ pc[r] = "idle"
  /\ key_for(k) \in Cached /\ ~Expired(key_for(k))
  /\ hit' = [answer |-> entries[key_for(k)].answer, ask |-> k, live |-> {}, at |-> now]
  /\ UNCHANGED <<mode, now, exact, vectors, pc, ask, resp, answers, asked, stored_at>>

(* No entry, or an expired one: it leaves the map, but not the queue.      *)
ExactMiss(r, k) ==
  /\ mode = "exact" /\ pc[r] = "idle"
  /\ key_for(k) \in Cached => Expired(key_for(k))
  /\ entries' = [entries EXCEPT ![key_for(k)] = None]
  /\ pc' = [pc EXCEPT ![r] = "dispatching"]
  /\ ask' = [ask EXCEPT ![r] = k]
  /\ hit' = None
  /\ UNCHANGED <<mode, now, order, vectors, resp, answers, asked, stored_at>>

-----------------------------------------------------------------------------
scope(r) == scope_key_for(ask[r])
text(r) == request_text_for_embedding(ask[r])

(* semantic_cache_get sends the text to be embedded.                       *)
Embed(r, k) ==
  /\ mode = "semantic" /\ pc[r] = "idle"
  /\ pc' = [pc EXCEPT ![r] = "embedding"]
  /\ ask' = [ask EXCEPT ![r] = k]
  /\ hit' = None
  /\ UNCHANGED <<mode, now, exact, vectors, resp, answers, asked, stored_at>>

(* The sweep at the start of a lookup.                                     *)
Swept ==
  FlattenSeq([i \in DOMAIN vectors |->
    IF now - vectors[i].inserted_at <= TTL THEN <<vectors[i]>> ELSE <<>>])

(* The entry the lookup returns: in scope, similar enough, none more       *)
(* similar, and the newest of the equally similar.                         *)
Candidates(r) ==
  {i \in 1..Len(Swept) : /\ Swept[i].scope = scope(r)
                         /\ SimilarEnough(Swept[i].embedding, text(r))}

FirstMatch(r) ==   \* slip: the first candidate instead of the best
  CHOOSE i \in Candidates(r) : \A j \in Candidates(r) : i <= j

BestMatch(r) ==
  LET sim(i) == Similarity(Swept[i].embedding, text(r))
  IN CHOOSE i \in Candidates(r) : \A j \in Candidates(r) :
       AtMost(sim(j), sim(i)) /\ (AtMost(sim(i), sim(j)) => j <= i)

SemanticHit(r) ==
  /\ pc[r] = "embedding"
  /\ Candidates(r) # {}
  /\ vectors' = Swept
  /\ hit' = [answer |-> Swept[BestMatch(r)].answer, ask |-> ask[r],
             live |-> {Swept[i].answer : i \in 1..Len(Swept)}, at |-> now]
  /\ Ends(r)
  /\ UNCHANGED <<mode, now, exact, answers, asked, stored_at>>

SemanticMiss(r) ==
  /\ pc[r] = "embedding"
  /\ Candidates(r) = {}
  /\ vectors' = Swept
  /\ pc' = [pc EXCEPT ![r] = "dispatching"]
  /\ hit' = None
  /\ UNCHANGED <<mode, now, exact, ask, resp, answers, asked, stored_at>>

(* The embedding call fails: no lookup.                                    *)
SkipLookup(r) ==
  /\ pc[r] = "embedding"
  /\ pc' = [pc EXCEPT ![r] = "dispatching"]
  /\ hit' = None
  /\ UNCHANGED <<mode, now, exact, vectors, ask, resp, answers, asked, stored_at>>

-----------------------------------------------------------------------------
(* dispatch_uncached returns an answer, or an error, or is dropped with    *)
(* its connection.                                                         *)
ProviderAnswers(r) ==
  /\ pc[r] = "dispatching"
  /\ answers < MaxAnswers
  /\ answers' = answers + 1
  /\ asked' = [asked EXCEPT ![answers'] = ask[r]]
  /\ resp' = [resp EXCEPT ![r] = answers']
  /\ pc' = [pc EXCEPT ![r] = "storing"]
  /\ hit' = None
  /\ UNCHANGED <<mode, now, exact, vectors, ask, stored_at>>

ProviderFails(r) ==
  /\ pc[r] = "dispatching"
  /\ Ends(r)
  /\ hit' = None
  /\ UNCHANGED <<mode, now, exact, vectors, answers, asked, stored_at>>

-----------------------------------------------------------------------------
(* What a pop makes of a queue that has just grown, and the key that the   *)
(* exact cache then forgets.                                               *)
TrimmedLate(q) == IF Len(q) > MaxEntries + 1 THEN Tail(q) ELSE q   \* slip

Trimmed(q) == IF Len(q) > MaxEntries THEN Tail(q) ELSE q

ForgottenNone(q) == {}   \* slip: the pop leaves the map alone

Forgotten(q) == IF Len(q) > MaxEntries THEN {Head(q)} ELSE {}

(* ResponseCache::insert.                                                  *)
ExactStore(r) ==
  /\ mode = "exact" /\ pc[r] = "storing"
  /\ LET k == key_for(ask[r])
         entry == [inserted_at |-> now, answer |-> resp[r]]
         pushed == IF k \in Cached THEN order ELSE Append(order, k)
     IN /\ order' = Trimmed(pushed)
        /\ entries' = [j \in Keys |-> IF j = k THEN entry
                                      ELSE IF j \in Forgotten(pushed) THEN None
                                      ELSE entries[j]]
  /\ stored_at' = [stored_at EXCEPT ![resp[r]] = now]
  /\ Ends(r)
  /\ hit' = None
  /\ UNCHANGED <<mode, now, vectors, answers, asked>>

(* SemanticCache::insert, after the second embedding call.  The same text  *)
(* may be stored twice: nothing looks for it first.                        *)
SemanticStore(r) ==
  /\ mode = "semantic" /\ pc[r] = "storing"
  /\ vectors' = Trimmed(Append(vectors, [scope |-> scope(r), embedding |-> text(r),
                                         answer |-> resp[r], inserted_at |-> now]))
  /\ stored_at' = [stored_at EXCEPT ![resp[r]] = now]
  /\ Ends(r)
  /\ hit' = None
  /\ UNCHANGED <<mode, now, exact, answers, asked>>

(* The second embedding call fails: no insert.                             *)
SkipStore(r) ==
  /\ mode = "semantic" /\ pc[r] = "storing"
  /\ Ends(r)
  /\ hit' = None
  /\ UNCHANGED <<mode, now, exact, vectors, answers, asked, stored_at>>

Tick ==
  /\ now < MaxTime
  /\ now' = now + 1
  /\ hit' = None
  /\ UNCHANGED <<mode, exact, vectors, pc, ask, resp, answers, asked, stored_at>>

Next ==
  \/ \E r \in Requests :
       \/ \E k \in Asks : ExactHit(r, k) \/ ExactMiss(r, k) \/ Embed(r, k)
       \/ SemanticHit(r) \/ SemanticMiss(r) \/ SkipLookup(r)
       \/ ProviderAnswers(r) \/ ProviderFails(r)
       \/ ExactStore(r) \/ SemanticStore(r) \/ SkipStore(r)
  \/ Tick

Spec == Init /\ [][Next]_vars

-----------------------------------------------------------------------------
(* ResponseCache: every entry of the map is still in the queue, which is   *)
(* what bounds the map: an entry that no queued key names would never be   *)
(* evicted.                                                                *)
MapWithinQueue == Cached \subseteq ToSet(order)

(* A hit is no older than the TTL, also when the lookups and inserts of    *)
(* concurrent requests overtake each other.  In the exact cache it is a    *)
(* provider's answer to the very same request; in the semantic cache to a  *)
(* request of the same scope whose text is similar enough, and no answer   *)
(* live in the cache was a better match (dispatch_traced's lookups).  What *)
(* else the messages carry plays no part in it.                            *)
HitsAreBestMatches ==
  hit # None =>
    /\ hit.at - stored_at[hit.answer] <= TTL
    /\ IF mode = "exact" THEN asked[hit.answer] = hit.ask
       ELSE LET sim(a) == Similarity(asked[a].text, hit.ask.text)
            IN /\ asked[hit.answer].scope = hit.ask.scope
               /\ SimilarEnough(asked[hit.answer].text, hit.ask.text)
               /\ \A a \in hit.live :
                    asked[a].scope = hit.ask.scope => AtMost(sim(a), sim(hit.answer))
=============================================================================
