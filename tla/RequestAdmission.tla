-------------------------- MODULE RequestAdmission --------------------------
(***************************************************************************)
(* What a request passes before its handler's own work: the concurrency    *)
(* cap, check_auth, resolve_client_identity and the rate limit, while keys *)
(* rotate at the JWT provider and an admin changes or deletes the client.  *)
(*                                                                         *)
(* There is one client, whose bucket is RateLimiter's; the buckets of      *)
(* source IPs answer as they like.  A token is the shared key, the         *)
(* client's own, or a JWT whose claim names the client; a JWT is known by  *)
(* the id of the key that signed it.  The JWKS cache is read and written   *)
(* under its lock, and nothing is locked while a document is fetched.      *)
(***************************************************************************)
EXTENDS RateLimiter, FiniteSets

CONSTANTS
  Handlers,     (* Requests that can be under way at once.                 *)
  Permits,      (* server.max_concurrent_requests.                         *)
  Kids,         (* Ids of signing keys.                                    *)
  Ttl,          (* jwks_cache_secs.                                        *)
  ConfiguredRpm,(* The client's requests_per_minute at startup.            *)
  MaxFetch,     (* Premise: a document is stored within this time.         *)
  MaxRequests,  (* Bound on the requests made.                             *)
  MaxChanges    (* Bound on rotations and admin calls.                     *)

ASSUME AdmissionAssumption ==
  /\ Permits \in Nat /\ Ttl \in Nat /\ MaxFetch \in Nat
  /\ MaxRequests \in Nat /\ MaxChanges \in Nat
  /\ IsFiniteSet(Handlers) /\ ConfiguredRpm \in Limits /\ None \notin Limits
  /\ {"shared", "client"} \cap Kids = {}

(* A missing token is like a shared key that the server does not have.     *)
Tokens == {"shared", "client"} \cup Kids

VARIABLES
  configured,    (* Which of "shared" and "jwt" the server has.            *)
  permits,       (* Permits left in the semaphore.                         *)
  handler,       (* The request each handler serves.                       *)
  jwks,          (* JwtVerifier's cache: a document, or None.              *)
  client_rpm,    (* The client's entry in AppState.clients, or None.       *)
  key_held,      (* Is the client's key in AppState.client_keys?           *)
  published,     (* The keys in the provider's document.                   *)
  withdrawn,     (* History: when a key was last withdrawn.                *)
  requests,      (* Requests made so far.                                  *)
  changes        (* Rotations and admin calls so far.                      *)

server == <<configured, permits, handler, jwks>>
others == <<client_rpm, key_held, published, withdrawn, changes>>
admission_vars == <<vars, server, others, requests>>

(* step: which of the two verifications is under way.  disturbed: since    *)
(* the request arrived, something took away what its token stands for, or  *)
(* kept it from being verified.  stale: for how long the key that let it   *)
(* in had been withdrawn.                                                  *)
Request == [at : {"idle", "check", "fetch", "store", "limit", "serve", "refused", "limited"},
            step : {"auth", "identity"}, token : Tokens, document : SUBSET Kids,
            taken : Nat, client : BOOLEAN, metered : BOOLEAN,
            disturbed : BOOLEAN, stale : Nat]

Idle == [at |-> "idle", step |-> "auth", token |-> "shared", document |-> {}, taken |-> 0,
         client |-> FALSE, metered |-> FALSE, disturbed |-> FALSE, stale |-> 0]

Document == [at : Nat, kids : SUBSET Kids]

TypeOKAdmission ==
  /\ TypeOK
  /\ configured \subseteq {"shared", "jwt"}
  /\ permits \in Nat
  /\ handler \in [Handlers -> Request]
  /\ jwks \in Document \cup {None}
  /\ client_rpm \in Limits \cup {None} /\ key_held \in BOOLEAN
  /\ published \subseteq Kids
  /\ withdrawn \in [Kids -> Nat] /\ \A k \in Kids : withdrawn[k] <= now
  /\ requests \in Nat /\ changes \in Nat

AdmissionInit ==
  /\ Init
  /\ configured \in SUBSET {"shared", "jwt"}
  /\ permits = Permits
  /\ handler = [h \in Handlers |-> Idle]
  /\ jwks = None
  /\ client_rpm = ConfiguredRpm /\ key_held \in BOOLEAN
  /\ published \in SUBSET Kids
  /\ withdrawn = [k \in Kids |-> 0]
  /\ requests = 0 /\ changes = 0

Underway(h) == handler[h].at # "idle"

Moves(h, request) == handler' = [handler EXCEPT ![h] = request]

(* Does something keep the server from recognizing the token?              *)
Unsupported(token) ==
  IF token \in Kids THEN token \notin published \/ client_rpm = None
  ELSE token = "client" => ~key_held \/ client_rpm = None

-----------------------------------------------------------------------------
(* concurrency_limit: a permit, or 503 at once.                            *)
Arrive(h, token) ==
  /\ ~Underway(h) /\ permits > 0 /\ requests < MaxRequests
  /\ requests' = requests + 1
  /\ permits' = permits - 1
  /\ Moves(h, [Idle EXCEPT !.at = "check", !.token = token,
                           !.disturbed = Unsupported(token)])
  /\ UNCHANGED <<vars, configured, jwks, others>>

Shed ==
  /\ permits = 0 /\ requests < MaxRequests
  /\ requests' = requests + 1
  /\ UNCHANGED <<vars, server, others>>

(* The response is there, if only the head of a stream's; or the caller    *)
(* has gone and the handler's future is dropped.                           *)
ReleaseAnswered(h) ==   \* slip: a dropped handler keeps its permit
  permits + (IF handler[h].at \in {"serve", "refused", "limited"} THEN 1 ELSE 0)

Release(h) == permits + 1

Leave(h) ==
  /\ Underway(h)
  /\ permits' = Release(h)
  /\ Moves(h, Idle)
  /\ UNCHANGED <<vars, configured, jwks, others, requests>>

-----------------------------------------------------------------------------
(* JwtVerifier::jwks_key.                                                  *)

CachedWhateverAge(kid) ==   \* slip: the age of the document is not looked at
  jwks # None /\ kid \in jwks.kids

Cached(kid) ==
  jwks # None /\ now - jwks.at < Ttl /\ kid \in jwks.kids

(* How long the key of an accepted token had been gone.                    *)
Staleness(kid) == IF kid \in published THEN 0 ELSE now - withdrawn[kid]

Verified(h) ==
  IF handler[h].step = "auth"
  THEN [handler[h] EXCEPT !.at = "check", !.step = "identity", !.document = {}, !.taken = 0,
                          !.stale = Staleness(handler[h].token)]
  ELSE [handler[h] EXCEPT !.at = "limit", !.client = client_rpm # None,
                          !.document = {}, !.taken = 0]

NotVerified(h) ==
  [handler[h] EXCEPT !.at = IF handler[h].step = "auth" THEN "refused" ELSE "limit",
                     !.document = {}, !.taken = 0]

(* A key that is cached saves the fetch; the token itself may have expired.*)
LookUp(h) ==
  IF Cached(handler[h].token)
  THEN Moves(h, Verified(h)) \/ Moves(h, [NotVerified(h) EXCEPT !.disturbed = TRUE])
  ELSE Moves(h, [handler[h] EXCEPT !.at = "fetch"])

FetchFails(h) ==
  /\ handler[h].at = "fetch"
  /\ Moves(h, [NotVerified(h) EXCEPT !.disturbed = TRUE])
  /\ UNCHANGED <<vars, configured, permits, jwks, others, requests>>

FetchAnswers(h) ==
  /\ handler[h].at = "fetch"
  /\ Moves(h, [handler[h] EXCEPT !.at = "store", !.document = published, !.taken = now])
  /\ UNCHANGED <<vars, configured, permits, jwks, others, requests>>

(* The document replaces the cached one, whichever is newer; the key is    *)
(* the fetched document's.                                                 *)
Store(h) ==
  /\ handler[h].at = "store"
  /\ jwks' = [at |-> now, kids |-> handler[h].document]
  /\ Moves(h, IF handler[h].token \in handler[h].document THEN Verified(h)
              ELSE NotVerified(h))
  /\ UNCHANGED <<vars, configured, permits, others, requests>>

-----------------------------------------------------------------------------
NoAuthConfigured == configured = {} /\ ~key_held

check_auth(h) ==
  /\ handler[h].at = "check" /\ handler[h].step = "auth"
  /\ LET token == handler[h].token
         known == \/ token = "shared" /\ "shared" \in configured
                  \/ token = "client" /\ key_held
     IN IF NoAuthConfigured \/ known
        THEN Moves(h, [handler[h] EXCEPT !.step = "identity"])
        ELSE IF token \in Kids /\ "jwt" \in configured THEN LookUp(h)
        ELSE Moves(h, [handler[h] EXCEPT !.at = "refused"])
  /\ UNCHANGED <<vars, configured, permits, jwks, others, requests>>

IdentityByKeyOnly(h) ==   \* slip: the claim of a JWT is not looked at
  /\ handler[h].at = "check" /\ handler[h].step = "identity"
  /\ Moves(h, [handler[h] EXCEPT !.at = "limit",
                                 !.client = handler[h].token = "client" /\ key_held])
  /\ UNCHANGED <<vars, configured, permits, jwks, others, requests>>

resolve_client_identity(h) ==
  /\ handler[h].at = "check" /\ handler[h].step = "identity"
  /\ IF handler[h].token \in Kids /\ "jwt" \in configured THEN LookUp(h)
     ELSE Moves(h, [handler[h] EXCEPT !.at = "limit",
                                      !.client = handler[h].token = "client" /\ key_held])
  /\ UNCHANGED <<vars, configured, permits, jwks, others, requests>>

(* resolve_rate_limit and RateLimiter::check.  Who is no listed client     *)
(* meets the bucket of its address, or none.                               *)
ClientLimit(h) ==
  /\ handler[h].at = "limit" /\ handler[h].client /\ client_rpm # None
  /\ \/ /\ Grant(client_rpm)
        /\ Moves(h, [handler[h] EXCEPT !.at = "serve", !.metered = TRUE])
     \/ Refuse(client_rpm) /\ Moves(h, [handler[h] EXCEPT !.at = "limited"])
  /\ UNCHANGED <<configured, permits, jwks, others, requests>>

AddressLimit(h) ==
  /\ handler[h].at = "limit" /\ (~handler[h].client \/ client_rpm = None)
  /\ \E at \in {"serve", "limited"} : Moves(h, [handler[h] EXCEPT !.at = at])
  /\ UNCHANGED <<vars, configured, permits, jwks, others, requests>>

-----------------------------------------------------------------------------
(* The rest of the world.  A request under way with a token that loses its *)
(* meaning is disturbed.                                                   *)

Disturb(tokens) ==
  handler' = [h \in Handlers |->
                IF Underway(h) /\ handler[h].token \in tokens
                THEN [handler[h] EXCEPT !.disturbed = TRUE] ELSE handler[h]]

Change == changes < MaxChanges /\ changes' = changes + 1

Publish(kid) ==
  /\ Change /\ kid \notin published
  /\ published' = published \cup {kid}
  /\ UNCHANGED <<vars, server, client_rpm, key_held, withdrawn, requests>>

Withdraw(kid) ==
  /\ Change /\ kid \in published
  /\ published' = published \ {kid}
  /\ withdrawn' = [withdrawn EXCEPT ![kid] = now]
  /\ Disturb({kid})
  /\ UNCHANGED <<vars, configured, permits, jwks, client_rpm, key_held, requests>>

(* admin_update_client, and admin_delete_client's two critical sections.   *)
UpdateClient ==
  /\ Change /\ client_rpm # None
  /\ client_rpm' \in Limits
  /\ UNCHANGED <<vars, server, key_held, published, withdrawn, requests>>

DeleteClient ==
  /\ Change /\ client_rpm # None
  /\ client_rpm' = None
  /\ Disturb({"client"} \cup Kids)
  /\ UNCHANGED <<vars, configured, permits, jwks, key_held, published, withdrawn, requests>>

RevokeKey ==
  /\ client_rpm = None /\ key_held
  /\ key_held' = FALSE
  /\ UNCHANGED <<vars, server, client_rpm, published, withdrawn, changes, requests>>

(* Time passes, but no document is held back for longer than MaxFetch.      *)
Pass ==
  /\ Tick
  /\ \A h \in Handlers : handler[h].at = "store" => now - handler[h].taken < MaxFetch
  /\ UNCHANGED <<server, others, requests>>

Watch == Observe /\ UNCHANGED <<server, others, requests>>

AdmissionNext ==
  \/ \E h \in Handlers :
       \/ \E token \in Tokens : Arrive(h, token)
       \/ Leave(h) \/ check_auth(h) \/ resolve_client_identity(h)
       \/ FetchFails(h) \/ FetchAnswers(h) \/ Store(h)
       \/ ClientLimit(h) \/ AddressLimit(h)
  \/ Shed
  \/ \E kid \in Kids : Publish(kid) \/ Withdraw(kid)
  \/ UpdateClient \/ DeleteClient \/ RevokeKey
  \/ Pass \/ Watch

AdmissionSpec == AdmissionInit /\ [][AdmissionNext]_admission_vars

-----------------------------------------------------------------------------
(* However requests end, by an answer, a refusal at any stage or a caller  *)
(* that hangs up, the permits left are those that no request holds: the    *)
(* cap is never exceeded and never shrinks.                                *)
PermitsBalance ==
  permits + Cardinality({ h \in Handlers : Underway(h) }) = Permits

(* Authentication follows the provider's keys, although documents are      *)
(* cached and a refresh may store an older one over a newer.  A withdrawn  *)
(* key lets nobody in for longer than the cache's time and one fetch; and  *)
(* a token is refused only if its key was not published all the while, it  *)
(* expired, or no document could be had: a rotation is seen at once.       *)
KeysFollowProvider ==
  \A h \in Handlers :
    /\ handler[h].stale < Ttl + MaxFetch \/ handler[h].stale <= MaxFetch
    /\ handler[h].at = "refused" /\ handler[h].token \in Kids /\ "jwt" \in configured =>
         handler[h].disturbed

(* A request that shows the client's key, or a token whose claim names it, *)
(* runs on the client's own rate limit and identity, unless the client, the *)
(* key or the means to verify the token went away while it was under way.  *)
ClientsAreMetered ==
  \A h \in Handlers :
    handler[h].at = "serve"
    /\ (handler[h].token = "client" \/ (handler[h].token \in Kids /\ "jwt" \in configured)) =>
         handler[h].metered \/ handler[h].disturbed
=============================================================================
