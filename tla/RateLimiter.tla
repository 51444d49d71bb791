----------------------------- MODULE RateLimiter ----------------------------
(***************************************************************************)
(* One token bucket of rp_core's RateLimiter: an inbound client's or IP's, *)
(* or an outbound provider's.  Buckets are independent (one per key), and  *)
(* each check runs under the write lock of the whole map, so a check is    *)
(* one step.                                                               *)
(*                                                                         *)
(* The clock counts Minute ticks to the minute (60 in the code's seconds), *)
(* and tokens are counted in units of 1/Minute token, so that one tick     *)
(* refills exactly `capacity` units and no fraction is lost.               *)
(***************************************************************************)
EXTENDS Integers

CONSTANTS
  Minute,    (* Ticks of the clock in a minute.                            *)
  Limits,    (* Values of requests_per_minute.                             *)
  MaxTime,   (* Bound on the clock.                                        *)
  None       (* No bucket, or no answer yet.                               *)

Bucket == [capacity : Nat, tokens : Nat, last_refill : Nat]
Status == [granted : BOOLEAN, limit : Nat, remaining : Nat,
           retry_after : Nat, reset : Nat]

ASSUME MinuteAssumption == Minute \in Nat \ {0} /\ MaxTime \in Nat
ASSUME LimitAssumption == Limits \subseteq Nat /\ None \notin Bucket
                          /\ None \notin Status

VARIABLES
  now,                 (* Instant::now().                                  *)
  bucket,              (* This key's TokenBucket, or None.                 *)
  status,              (* The last RateLimitStatus returned, or None.      *)
  window_start,        (* History: an arbitrary moment, and how many       *)
  window_grants        (*   requests were granted since.                   *)

vars == <<now, bucket, status, window_start, window_grants>>

Lesser(a, b) == IF a <= b THEN a ELSE b

Full(b) == Minute * b.capacity

(* What refill() would leave in bucket b at time t.                        *)
TokensAt(b, t) == Lesser(b.tokens + (t - b.last_refill) * b.capacity, Full(b))

(* Ticks until at least `need` units are in b, rounded up as the           *)
(* Retry-After and X-RateLimit-Reset headers are.                          *)
TicksToFloored(b, need) == (need - b.tokens) \div b.capacity   \* slip

TicksTo(b, need) == (need - b.tokens + b.capacity - 1) \div b.capacity

(* Whole tokens left in b: `self.tokens as u32` truncates.                 *)
Remaining(b) == b.tokens \div Minute

TypeOK ==
  /\ now \in Nat
  /\ bucket \in Bucket \cup {None}
  /\ status \in Status \cup {None}
  /\ bucket # None => bucket.last_refill <= now /\ bucket.tokens <= Full(bucket)
  /\ window_start \in Nat /\ window_start <= now
  /\ window_grants \in Nat

Init ==
  /\ now = 0
  /\ bucket = None
  /\ status = None
  /\ window_start = 0
  /\ window_grants = 0

-----------------------------------------------------------------------------
(* The bucket as `or_insert_with` and refill() leave it, for a caller that  *)
(* supplied the limit rpm.                                                 *)
Seeded(rpm) ==
  IF bucket # None THEN bucket
  ELSE [capacity |-> rpm, tokens |-> Minute * rpm, last_refill |-> now]

RefilledTwice(rpm) ==   \* slip: last_refill is not moved to now
  [Seeded(rpm) EXCEPT !.tokens = TokensAt(Seeded(rpm), now)]

Refilled(rpm) ==
  [Seeded(rpm) EXCEPT !.tokens = TokensAt(Seeded(rpm), now), !.last_refill = now]

Taken(rpm) == [Refilled(rpm) EXCEPT !.tokens = @ - Minute]

(* RateLimiter::check(key, rpm) granting, or refusing, one request.        *)
Grant(rpm) ==
  /\ Refilled(rpm).tokens >= Minute
  /\ bucket' = Taken(rpm)
  /\ status' = [granted |-> TRUE,
                limit |-> Taken(rpm).capacity,
                remaining |-> Remaining(Taken(rpm)),
                retry_after |-> 0,
                reset |-> TicksTo(Taken(rpm), Full(Taken(rpm)))]
  /\ window_grants' = window_grants + 1
  /\ UNCHANGED <<now, window_start>>

(* A bucket of capacity zero reports a fixed minute.                       *)
Refuse(rpm) ==
  /\ Refilled(rpm).tokens < Minute
  /\ bucket' = Refilled(rpm)
  /\ status' = LET Wait(need) == IF Refilled(rpm).capacity = 0 THEN Minute
                                 ELSE TicksTo(Refilled(rpm), need)
               IN [granted |-> FALSE,
                   limit |-> Refilled(rpm).capacity,
                   remaining |-> 0,
                   retry_after |-> Wait(Minute),
                   reset |-> Wait(Full(Refilled(rpm)))]
  /\ UNCHANGED <<now, window_start, window_grants>>

Tick ==
  /\ now < MaxTime
  /\ now' = now + 1
  /\ UNCHANGED <<bucket, status, window_start, window_grants>>

(* The observer starts counting grants.                                    *)
Observe ==
  /\ window_start' = now
  /\ window_grants' = 0
  /\ UNCHANGED <<now, bucket, status>>

Next ==
  \/ \E rpm \in Limits : Grant(rpm) \/ Refuse(rpm)
  \/ Tick
  \/ Observe

Spec == Init /\ [][Next]_vars

-----------------------------------------------------------------------------
(* The rate promised, over every window of time: at most a full bucket,    *)
(* plus what the window's length refills.                                  *)
RateBounded ==
  bucket # None =>
    Minute * window_grants <= bucket.capacity * (Minute + (now - window_start))

JustAnswered == status # None /\ bucket # None /\ bucket.last_refill = now

(* Units reach `need` after exactly `wait` ticks, if nobody else takes one. *)
ReachesIn(need, wait) ==
  /\ TokensAt(bucket, now + wait) >= need
  /\ wait > 0 => TokensAt(bucket, now + wait - 1) < need

(* The headers tell the truth.  As many requests as `remaining` says, and  *)
(* not one more, are granted at this instant; the bucket is full again     *)
(* exactly when `reset` says; a refused caller that waits for Retry-After  *)
(* finds a token and would not have found one a tick earlier.  (A bucket   *)
(* of capacity zero never grants.)                                         *)
HeadersExact ==
  JustAnswered =>
    /\ status.remaining = TokensAt(bucket, now) \div Minute
    /\ bucket.capacity > 0 =>
         /\ ReachesIn(Full(bucket), status.reset)
         /\ ~status.granted => status.retry_after > 0
                               /\ ReachesIn(Minute, status.retry_after)
=============================================================================
