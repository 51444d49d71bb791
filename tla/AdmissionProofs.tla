--------------------------- MODULE AdmissionProofs ---------------------------
(***************************************************************************)
(* Theorems about what a request passes before its chain is walked: about  *)
(* RateLimiter, for every limit and every length of the run; about         *)
(* RequestAdmission, which EXTENDS it, for any number of requests,         *)
(* permits, signing keys and changes; and about CandidateSelection, for    *)
(* every table of candidates, request, average and calendar.               *)
(***************************************************************************)
EXTENDS RequestAdmission, CandidateSelection, FiniteSetTheorems, TLAPS

(* Distribution of a product over the sums that occur below.               *)
LEMMA Distribute ==
  ASSUME NEW c \in Nat, NEW a \in Int, NEW b \in Int
  PROVE  /\ c * (a + b) = c * a + c * b
         /\ (a + b) * c = a * c + b * c
         /\ c * a \in Int
OBVIOUS

LEMMA Products ==
  ASSUME NEW a \in Nat, NEW b \in Nat
  PROVE  a * b \in Nat
OBVIOUS

(* A count of whole units, or of ticks, is a natural number.               *)
LEMMA Division ==
  ASSUME NEW n \in Nat, NEW d \in Nat \ {0}
  PROVE  n \div d \in Nat
OBVIOUS

(* refill() never overfills a bucket and never loses tokens, a tick adds   *)
(* at most `capacity` units, and a refill at the stamp changes nothing.    *)
LEMMA RefillFacts ==
  ASSUME NEW b \in Bucket, NEW t \in Nat,
         b.last_refill <= t, b.tokens <= Full(b)
  PROVE  /\ TokensAt(b, t) \in Nat
         /\ TokensAt(b, t) <= Full(b)
         /\ TokensAt(b, t + 1) \in Nat
         /\ TokensAt(b, t + 1) <= TokensAt(b, t) + b.capacity
         /\ TokensAt(b, b.last_refill) = b.tokens
<1> DEFINE e == t - b.last_refill
<1>1. /\ b.capacity \in Nat /\ b.tokens \in Nat /\ b.last_refill \in Nat
      /\ e \in Nat
  BY DEF Bucket
<1>2. /\ e * b.capacity \in Nat
      /\ (t + 1 - b.last_refill) * b.capacity = e * b.capacity + b.capacity
      /\ (b.last_refill - b.last_refill) * b.capacity = 0
  <2>1. t + 1 - b.last_refill = e + 1
    BY <1>1
  <2>2. (e + 1) * b.capacity = e * b.capacity + 1 * b.capacity
    BY <1>1, Distribute
  <2>3. e * b.capacity \in Nat
    BY <1>1, Products
  <2> QED  BY <1>1, <2>1, <2>2, <2>3
<1>3. Full(b) \in Nat
  BY <1>1, MinuteAssumption, Products DEF Full
<1> HIDE DEF e
<1>4. TokensAt(b, t) = Lesser(b.tokens + e * b.capacity, Full(b))
  BY DEF TokensAt, e
<1> QED
  BY <1>1, <1>2, <1>3, <1>4 DEF TokensAt, Lesser

-----------------------------------------------------------------------------
(* The strengthening: what was granted and what is still in the bucket     *)
(* never exceed a full bucket and the window's refill.  RateBounded alone  *)
(* is not inductive: a bucket that held more than that would break it at   *)
(* the next grant.                                                         *)
GrantsCovered ==
  /\ bucket = None => window_grants = 0
  /\ bucket # None =>
       Minute * window_grants + TokensAt(bucket, now)
         <= bucket.capacity * (Minute + (now - window_start))

(* The bucket after refill: well formed, stamped now, with the tokens the  *)
(* old bucket has by now.                                                  *)
LEMMA RefilledFacts ==
  ASSUME TypeOK, NEW rpm \in Limits
  PROVE  /\ Refilled(rpm) \in Bucket
         /\ Refilled(rpm).last_refill = now
         /\ Refilled(rpm).tokens <= Full(Refilled(rpm))
         /\ bucket # None => /\ Refilled(rpm).capacity = bucket.capacity
                             /\ Refilled(rpm).tokens = TokensAt(bucket, now)
<1>1. rpm \in Nat /\ now \in Nat
  BY LimitAssumption DEF TypeOK
<1>2. CASE bucket = None
  <2> DEFINE s == [capacity |-> rpm, tokens |-> Minute * rpm, last_refill |-> now]
  <2>1. Seeded(rpm) = s
    BY <1>2 DEF Seeded
  <2>2. s \in Bucket /\ s.tokens <= Full(s) /\ s.last_refill = now
        /\ s.capacity = rpm /\ s.tokens = Minute * rpm
    BY <1>1, MinuteAssumption, Products DEF Bucket, Full
  <2> HIDE DEF s
  <2>3. TokensAt(s, now) = s.tokens
    BY <1>1, <2>2, RefillFacts
  <2>4. Refilled(rpm) = [s EXCEPT !.tokens = s.tokens, !.last_refill = now]
    BY <2>1, <2>3 DEF Refilled
  <2>5. Refilled(rpm) = s
    BY <2>2, <2>4 DEF Bucket
  <2> QED  BY <1>2, <2>2, <2>5
<1>3. CASE bucket # None
  <2>1. Seeded(rpm) = bucket /\ bucket \in Bucket
    BY <1>3 DEF Seeded, TypeOK
  <2>2. bucket.last_refill <= now /\ bucket.tokens <= Full(bucket)
    BY <1>3 DEF TypeOK
  <2>3. TokensAt(bucket, now) \in Nat /\ TokensAt(bucket, now) <= Full(bucket)
    BY <1>1, <2>1, <2>2, RefillFacts
  <2>4. Refilled(rpm) = [bucket EXCEPT !.tokens = TokensAt(bucket, now),
                                       !.last_refill = now]
    BY <2>1 DEF Refilled
  <2>5. /\ Refilled(rpm) \in Bucket
        /\ Refilled(rpm).last_refill = now
        /\ Refilled(rpm).capacity = bucket.capacity
        /\ Refilled(rpm).tokens = TokensAt(bucket, now)
    BY <1>1, <2>1, <2>3, <2>4 DEF Bucket
  <2> QED  BY <2>3, <2>5 DEF Full
<1> QED  BY <1>2, <1>3

(* The bucket a grant leaves: well formed, with one token less.            *)
LEMMA TakenFacts ==
  ASSUME TypeOK, NEW rpm \in Limits, Refilled(rpm).tokens >= Minute
  PROVE  /\ Taken(rpm) \in Bucket
         /\ Taken(rpm).last_refill = now
         /\ Taken(rpm).capacity = Refilled(rpm).capacity
         /\ Taken(rpm).tokens = Refilled(rpm).tokens - Minute
         /\ Taken(rpm).tokens <= Full(Taken(rpm))
         /\ Taken(rpm).capacity > 0
<1> DEFINE r == Refilled(rpm)
<1>1. r \in Bucket /\ r.last_refill = now /\ r.tokens <= Full(r)
  BY RefilledFacts
<1>2. Taken(rpm) = [r EXCEPT !.tokens = r.tokens - Minute]
  BY DEF Taken
<1>3. r.tokens \in Nat /\ r.capacity \in Nat /\ Minute \in Nat \ {0} /\ r.tokens >= Minute
  BY <1>1, MinuteAssumption DEF Bucket
<1>4. r.capacity > 0
  <2> SUFFICES ASSUME r.capacity = 0 PROVE FALSE
    BY <1>3
  <2> QED  BY <1>1, <1>3 DEF Full
<1> HIDE DEF r
<1>5. /\ Taken(rpm) \in Bucket /\ Taken(rpm).last_refill = now
      /\ Taken(rpm).capacity = r.capacity
      /\ Taken(rpm).tokens = r.tokens - Minute
  BY <1>1, <1>2, <1>3 DEF Bucket
<1>6. Taken(rpm).tokens <= Full(Taken(rpm))
  <2>1. Full(Taken(rpm)) = Full(r)
    BY <1>5 DEF Full
  <2>2. Full(r) \in Nat
    BY <1>3, Products DEF Full
  <2> QED  BY <1>1, <1>3, <1>5, <2>1, <2>2
<1> QED  BY <1>4, <1>5, <1>6 DEF r

(* A wait computed for a bucket that is short of `need` is a natural.      *)
LEMMA WaitType ==
  ASSUME NEW b \in Bucket, b.capacity > 0, NEW need \in Nat, b.tokens <= need
  PROVE  TicksTo(b, need) \in Nat
<1>1. need - b.tokens + b.capacity - 1 \in Nat /\ b.capacity \in Nat \ {0}
  BY DEF Bucket
<1> QED  BY <1>1, Division DEF TicksTo

(* Every step keeps the types.                                             *)
LEMMA TypeStep == TypeOK /\ [Next]_vars => TypeOK'
<1> SUFFICES ASSUME TypeOK, [Next]_vars PROVE TypeOK'
  OBVIOUS
<1>1. ASSUME NEW rpm \in Limits, Grant(rpm) PROVE TypeOK'
  <2>1. Refilled(rpm).tokens >= Minute
    BY <1>1 DEF Grant
  <2>2. /\ Taken(rpm) \in Bucket /\ Taken(rpm).last_refill = now
        /\ Taken(rpm).tokens <= Full(Taken(rpm)) /\ Taken(rpm).capacity > 0
    BY <2>1, TakenFacts
  <2>3. Full(Taken(rpm)) \in Nat
    BY <2>2, MinuteAssumption, Products DEF Full, Bucket
  <2>4. TicksTo(Taken(rpm), Full(Taken(rpm))) \in Nat
    BY <2>2, <2>3, WaitType
  <2>5. Remaining(Taken(rpm)) \in Nat
    BY <2>2, MinuteAssumption, Division DEF Remaining, Bucket
  <2>6. status' \in Status
    BY <1>1, <2>2, <2>4, <2>5, LimitAssumption DEF Grant, Status, Bucket
  <2>7. bucket' = Taken(rpm) /\ now' = now /\ window_start' = window_start
        /\ window_grants' = window_grants + 1
    BY <1>1 DEF Grant
  <2> QED  BY <2>2, <2>6, <2>7 DEF TypeOK, Full
<1>2. ASSUME NEW rpm \in Limits, Refuse(rpm) PROVE TypeOK'
  <2> DEFINE r == Refilled(rpm)
  <2>1. /\ r \in Bucket /\ r.last_refill = now /\ r.tokens <= Full(r)
    BY RefilledFacts
  <2>2. r.tokens < Minute
    BY <1>2 DEF Refuse
  <2>3. bucket' = r /\ now' = now /\ window_start' = window_start
        /\ window_grants' = window_grants
    BY <1>2 DEF Refuse
  <2>4. status' = [granted |-> FALSE, limit |-> r.capacity,
                   remaining |-> 0,
                   retry_after |-> IF r.capacity = 0 THEN Minute
                                   ELSE TicksTo(r, Minute),
                   reset |-> IF r.capacity = 0 THEN Minute
                             ELSE TicksTo(r, Full(r))]
    BY <1>2 DEF Refuse
  <2> HIDE DEF r
  <2>5. Full(r) \in Nat /\ r.capacity \in Nat /\ Minute \in Nat /\ r.tokens \in Nat
    BY <2>1, MinuteAssumption, Products DEF Full, Bucket
  <2>6. r.capacity # 0 => TicksTo(r, Minute) \in Nat /\ TicksTo(r, Full(r)) \in Nat
    BY <2>1, <2>2, <2>5, WaitType
  <2>7. status' \in Status
    BY <2>4, <2>5, <2>6, LimitAssumption DEF Status
  <2> QED  BY <2>1, <2>3, <2>7 DEF TypeOK, Full
<1>3. CASE Tick
  BY <1>3 DEF Tick, TypeOK, Full, Bucket
<1>4. CASE Observe
  BY <1>4 DEF Observe, TypeOK, Full
<1>5. CASE UNCHANGED vars
  BY <1>5 DEF vars, TypeOK, Full
<1> QED  BY <1>1, <1>2, <1>3, <1>4, <1>5 DEF Next

(* Buckets and answers keep their types, and no bucket is overfilled or    *)
(* stamped in the future.                                                  *)
THEOREM TypeInvariant == Spec => []TypeOK
<1>1. Init => TypeOK
  BY MinuteAssumption DEF Init, TypeOK
<1> QED  BY <1>1, TypeStep, PTL DEF Spec

-----------------------------------------------------------------------------
(* Every step keeps granted plus remaining tokens within the full bucket   *)
(* and the refill of the window.                                           *)
LEMMA CoveredInductive ==
  TypeOK /\ TypeOK' /\ GrantsCovered /\ [Next]_vars => GrantsCovered'
<1> SUFFICES ASSUME TypeOK, TypeOK', GrantsCovered, [Next]_vars PROVE GrantsCovered'
  OBVIOUS
<1> DEFINE w == now - window_start
<1>1. now \in Nat /\ w \in Nat /\ window_grants \in Nat /\ Minute \in Nat \ {0}
  BY MinuteAssumption DEF TypeOK
<1>2. None \notin Bucket
  BY LimitAssumption
(* A check: the refilled bucket is covered whether it is old or new.       *)
<1>3. ASSUME NEW rpm \in Limits
      PROVE  /\ Refilled(rpm) \in Bucket
             /\ Minute * window_grants + Refilled(rpm).tokens
                  <= Refilled(rpm).capacity * (Minute + w)
  <2>1. /\ Refilled(rpm) \in Bucket
        /\ Refilled(rpm).tokens <= Full(Refilled(rpm))
        /\ bucket # None => /\ Refilled(rpm).capacity = bucket.capacity
                            /\ Refilled(rpm).tokens = TokensAt(bucket, now)
    BY RefilledFacts
  <2>2. CASE bucket = None
    <3> DEFINE c == Refilled(rpm).capacity
    <3>1. c \in Nat /\ Refilled(rpm).tokens \in Nat
      BY <2>1 DEF Bucket
    <3>2. Minute * window_grants = 0
      BY <1>1, <2>2 DEF GrantsCovered
    <3>3. Refilled(rpm).tokens <= Minute * c
      BY <2>1 DEF Full
    <3> HIDE DEF c, w
    <3>4. c * (Minute + w) = c * Minute + c * w /\ c * w \in Nat /\ c * Minute = Minute * c
      BY <1>1, <3>1, Distribute, Products
    <3>5. Minute * c \in Nat
      BY <1>1, <3>1, Products
    <3>6. Minute * window_grants + Refilled(rpm).tokens <= c * (Minute + w)
      BY <3>1, <3>2, <3>3, <3>4, <3>5
    <3> QED  BY <2>1, <3>6 DEF c
  <2>3. CASE bucket # None
    BY <2>1, <2>3 DEF GrantsCovered
  <2> QED  BY <2>2, <2>3
<1>4. ASSUME NEW rpm \in Limits, Grant(rpm) PROVE GrantsCovered'
  <2>1. Refilled(rpm).tokens >= Minute /\ bucket' = Taken(rpm)
        /\ window_grants' = window_grants + 1 /\ now' = now
        /\ window_start' = window_start
    BY <1>4 DEF Grant
  <2>2. /\ Taken(rpm) \in Bucket /\ Taken(rpm).last_refill = now
        /\ Taken(rpm).capacity = Refilled(rpm).capacity
        /\ Taken(rpm).tokens = Refilled(rpm).tokens - Minute
        /\ Taken(rpm).tokens <= Full(Taken(rpm))
    BY <2>1, TakenFacts
  <2>3. TokensAt(Taken(rpm), now) = Refilled(rpm).tokens - Minute
    BY <1>1, <2>2, RefillFacts
  <2>4. Minute * (window_grants + 1) = Minute * window_grants + Minute
        /\ Minute * window_grants \in Nat
    BY <1>1, Distribute, Products
  <2>5. Refilled(rpm).tokens \in Nat /\ Refilled(rpm).capacity * (Minute + w) \in Nat
    BY <1>1, <1>3, Products DEF Bucket
  <2>6. Minute * (window_grants + 1) + TokensAt(Taken(rpm), now)
          <= Taken(rpm).capacity * (Minute + w)
    BY <1>1, <1>3, <2>2, <2>3, <2>4, <2>5
  <2> QED  BY <1>2, <2>1, <2>2, <2>6 DEF GrantsCovered, TokensAt, Full
<1>5. ASSUME NEW rpm \in Limits, Refuse(rpm) PROVE GrantsCovered'
  <2>1. bucket' = Refilled(rpm) /\ now' = now /\ window_start' = window_start
        /\ window_grants' = window_grants
    BY <1>5 DEF Refuse
  <2>2. /\ Refilled(rpm) \in Bucket /\ Refilled(rpm).last_refill = now
        /\ Refilled(rpm).tokens <= Full(Refilled(rpm))
    BY RefilledFacts
  <2>3. TokensAt(Refilled(rpm), now) = Refilled(rpm).tokens
    BY <1>1, <2>2, RefillFacts
  <2>4. Minute * window_grants + TokensAt(Refilled(rpm), now)
          <= Refilled(rpm).capacity * (Minute + w)
    BY <1>3, <2>3
  <2> QED  BY <1>2, <2>1, <2>2, <2>4 DEF GrantsCovered, TokensAt, Full
(* A tick of the clock adds `capacity` units to both sides.                *)
<1>6. CASE Tick
  <2>1. bucket' = bucket /\ now' = now + 1 /\ window_start' = window_start
        /\ window_grants' = window_grants
    BY <1>6 DEF Tick
  <2>2. CASE bucket = None
    BY <2>1, <2>2 DEF GrantsCovered
  <2>3. CASE bucket # None
    <3>1. bucket \in Bucket /\ bucket.last_refill <= now /\ bucket.tokens <= Full(bucket)
      BY <2>3 DEF TypeOK
    <3>2. /\ TokensAt(bucket, now) \in Nat
          /\ TokensAt(bucket, now + 1) \in Nat
          /\ TokensAt(bucket, now + 1) <= TokensAt(bucket, now) + bucket.capacity
      BY <1>1, <3>1, RefillFacts
    <3>4. bucket.capacity \in Nat
      BY <3>1 DEF Bucket
    <3>5. bucket.capacity * (Minute + w + 1) = bucket.capacity * (Minute + w) + bucket.capacity
          /\ bucket.capacity * (Minute + w) \in Nat
      BY <1>1, <3>4, Distribute, Products
    <3>6. Minute + ((now + 1) - window_start) = Minute + w + 1
      BY <1>1 DEF TypeOK
    <3>7. Minute * window_grants + TokensAt(bucket, now) <= bucket.capacity * (Minute + w)
          /\ Minute * window_grants \in Nat
      BY <1>1, <2>3, Products DEF GrantsCovered
    <3>8. Minute * window_grants + TokensAt(bucket, now + 1)
            <= bucket.capacity * (Minute + ((now + 1) - window_start))
      BY <3>2, <3>4, <3>5, <3>6, <3>7
    <3>9. Minute * window_grants' + TokensAt(bucket', now')
            <= bucket'.capacity * (Minute + (now' - window_start'))
      <4>1. TokensAt(bucket', now') = TokensAt(bucket, now + 1)
        BY <2>1, Zenon
      <4> QED  BY <2>1, <3>8, <4>1, Zenon
    <3> QED  BY <2>1, <2>3, <3>9, Zenon DEF GrantsCovered, TokensAt, Full
  <2> QED  BY <2>2, <2>3
<1>7. CASE Observe
  <2>1. bucket' = bucket /\ now' = now /\ window_start' = now /\ window_grants' = 0
    BY <1>7 DEF Observe
  <2>2. CASE bucket = None
    BY <2>1, <2>2 DEF GrantsCovered
  <2>3. CASE bucket # None
    <3>1. bucket \in Bucket /\ bucket.last_refill <= now /\ bucket.tokens <= Full(bucket)
      BY <2>3 DEF TypeOK
    <3>2. TokensAt(bucket, now) <= Minute * bucket.capacity
          /\ TokensAt(bucket, now) \in Nat
      BY <1>1, <3>1, RefillFacts DEF Full
    <3>3. bucket.capacity \in Nat
      BY <3>1 DEF Bucket
    <3>4. Minute * 0 + TokensAt(bucket, now) <= bucket.capacity * (Minute + (now - now))
      BY <1>1, <3>2, <3>3
    <3> QED  BY <2>1, <2>3, <3>4 DEF GrantsCovered, TokensAt, Full
  <2> QED  BY <2>2, <2>3
<1>8. CASE UNCHANGED vars
  BY <1>8 DEF vars, GrantsCovered, TokensAt, Full
<1> QED  BY <1>4, <1>5, <1>6, <1>7, <1>8 DEF Next

(* The rate promised holds over every window, whatever the limits.         *)
THEOREM RateIsBounded == Spec => []RateBounded
<1>1. Init => GrantsCovered
  BY DEF Init, GrantsCovered
<1>2. TypeOK /\ GrantsCovered => RateBounded
  <2> SUFFICES ASSUME TypeOK, GrantsCovered, bucket # None
               PROVE  Minute * window_grants
                        <= bucket.capacity * (Minute + (now - window_start))
    BY DEF RateBounded
  <2>1. bucket \in Bucket /\ bucket.last_refill <= now /\ bucket.tokens <= Full(bucket)
        /\ now \in Nat
    BY DEF TypeOK
  <2>2. TokensAt(bucket, now) \in Nat
    BY <2>1, RefillFacts
  <2>3. /\ Minute * window_grants \in Nat
        /\ bucket.capacity * (Minute + (now - window_start)) \in Nat
    BY <2>1, MinuteAssumption, Products DEF TypeOK, Bucket
  <2> QED  BY <2>2, <2>3 DEF GrantsCovered
<1> QED
  BY <1>1, <1>2, TypeInvariant, CoveredInductive, PTL DEF Spec

-----------------------------------------------------------------------------
(* The tokens of a bucket, by the ticks since its stamp.                   *)
LEMMA TokensAfter ==
  ASSUME NEW b, NEW t, NEW e, t - b.last_refill = e
  PROVE  TokensAt(b, t) = Lesser(b.tokens + e * b.capacity, Full(b))
BY Zenon DEF TokensAt

(* Less than one share is none.                                            *)
LEMMA NoWholeShare ==
  ASSUME NEW n \in Nat, NEW d \in Nat \ {0}, n < d
  PROVE  n \div d = 0
OBVIOUS

(* Rounding up: `w` shares of c cover d, and one share fewer does not.     *)
LEMMA RoundedUp ==
  ASSUME NEW d \in Nat, NEW c \in Nat \ {0}
  PROVE  LET w == (d + c - 1) \div c
         IN /\ w \in Nat
            /\ d <= w * c
            /\ w > 0 => (w - 1) * c < d
            /\ d > 0 => w > 0
<1> DEFINE n == d + c - 1
           w == n \div c
<1>1. n \in Nat
  OBVIOUS
<1>2. w \in Nat
  BY <1>1, Division
<1>3. c * w <= n /\ n < c * w + c
  <2> HIDE DEF n
  <2> QED  BY <1>1
<1> HIDE DEF w
<1>4. c * w = w * c /\ w * c \in Nat /\ (w - 1) * c = w * c - c
  <2>1. (w + (-1)) * c = w * c + (-1) * c
    BY <1>2, Distribute
  <2> QED  BY <1>2, <2>1, Products
<1>5. d <= w * c /\ (w - 1) * c < d
  BY <1>2, <1>3, <1>4
<1>6. d > 0 => w > 0
  <2> SUFFICES ASSUME d > 0, w = 0 PROVE FALSE
    BY <1>2
  <2> QED  BY <1>4, <1>5
<1> QED  BY <1>2, <1>5, <1>6 DEF w

(* What TicksTo promises a caller is exact: a bucket stamped now that is   *)
(* short of `need` has it then, and not a tick earlier.                    *)
LEMMA WaitIsExact ==
  ASSUME NEW b \in Bucket, b.capacity > 0, b.last_refill \in Nat,
         NEW need \in Nat, b.tokens <= need, need <= Full(b)
  PROVE  LET wait == TicksTo(b, need)
         IN /\ TokensAt(b, b.last_refill + wait) >= need
            /\ wait > 0 => TokensAt(b, b.last_refill + wait - 1) < need
            /\ b.tokens < need => wait > 0
<1> DEFINE wait == TicksTo(b, need)
           d == need - b.tokens
<1>1. b.capacity \in Nat \ {0} /\ b.tokens \in Nat /\ d \in Nat
  BY DEF Bucket
<1>2. wait = (d + b.capacity - 1) \div b.capacity
  BY DEF TicksTo
<1>3. /\ wait \in Nat
      /\ d <= wait * b.capacity
      /\ wait > 0 => (wait - 1) * b.capacity < d
      /\ d > 0 => wait > 0
  <2> HIDE DEF d, wait
  <2> QED  BY <1>1, <1>2, RoundedUp
<1> HIDE DEF wait
<1>4. wait * b.capacity \in Nat /\ (wait - 1) * b.capacity \in Int
  BY <1>1, <1>3, Products, Distribute
<1>5. TokensAt(b, b.last_refill + wait) = Lesser(b.tokens + wait * b.capacity, Full(b))
  <2>1. (b.last_refill + wait) - b.last_refill = wait
    BY <1>3
  <2> QED  BY <2>1, TokensAfter
<1>6. TokensAt(b, b.last_refill + wait - 1)
        = Lesser(b.tokens + (wait - 1) * b.capacity, Full(b))
  <2>1. (b.last_refill + wait - 1) - b.last_refill = wait - 1
    BY <1>3
  <2> QED  BY <2>1, TokensAfter
<1>7. Full(b) \in Nat
  BY <1>1, MinuteAssumption, Products DEF Full
<1>8. b.tokens + wait * b.capacity >= need
  BY <1>1, <1>3, <1>4
<1>9. wait > 0 => b.tokens + (wait - 1) * b.capacity < need
  BY <1>1, <1>3, <1>4
<1>10. TokensAt(b, b.last_refill + wait) >= need
  BY <1>1, <1>4, <1>5, <1>7, <1>8 DEF Lesser
<1>11. wait > 0 => TokensAt(b, b.last_refill + wait - 1) < need
  BY <1>1, <1>4, <1>6, <1>7, <1>9 DEF Lesser
<1> QED  BY <1>1, <1>3, <1>10, <1>11 DEF wait

(* A check leaves a stamped bucket and headers that describe it.           *)
LEMMA AnswerIsExact ==
  ASSUME TypeOK, NEW rpm \in Limits, Grant(rpm) \/ Refuse(rpm)
  PROVE  HeadersExact'
<1>1. now \in Nat /\ Minute \in Nat \ {0} /\ now' = now
  BY MinuteAssumption DEF TypeOK, Grant, Refuse
<1>2. ASSUME NEW b \in Bucket, b.last_refill = now, b.tokens <= Full(b)
      PROVE  TokensAt(b, now) = b.tokens /\ b.tokens \in Nat /\ Full(b) \in Nat
  BY <1>1, <1>2, MinuteAssumption, Products, RefillFacts DEF Bucket, Full
<1>3. CASE Grant(rpm)
  <2> DEFINE left == Taken(rpm)
  <2>1. Refilled(rpm).tokens >= Minute
    BY <1>3 DEF Grant
  <2>2. left \in Bucket /\ left.last_refill = now /\ left.capacity > 0 /\ left.tokens <= Full(left)
    BY <2>1, TakenFacts
  <2>3. bucket' = left /\ status'.granted = TRUE /\ status'.remaining = Remaining(left)
        /\ status'.reset = TicksTo(left, Full(left))
    BY <1>3 DEF Grant
  <2> HIDE DEF left
  <2>4. TokensAt(left, now) = left.tokens /\ Full(left) \in Nat
    BY <1>2, <2>2
  <2>5. /\ TokensAt(left, now + status'.reset) >= Full(left)
        /\ status'.reset > 0 => TokensAt(left, now + status'.reset - 1) < Full(left)
    BY <1>1, <2>2, <2>3, <2>4, WaitIsExact
  <2>6. status'.remaining = TokensAt(left, now) \div Minute
    BY <2>3, <2>4 DEF Remaining
  <2> QED
    BY <1>1, <2>3, <2>5, <2>6 DEF HeadersExact, ReachesIn, TokensAt, Full
<1>4. CASE Refuse(rpm)
  <2> DEFINE left == Refilled(rpm)
  <2>1. left \in Bucket /\ left.last_refill = now /\ left.tokens <= Full(left)
    BY RefilledFacts
  <2>2. /\ left.tokens < Minute /\ bucket' = left
        /\ status'.granted = FALSE /\ status'.remaining = 0
        /\ left.capacity > 0 => /\ status'.reset = TicksTo(left, Full(left))
                             /\ status'.retry_after = TicksTo(left, Minute)
    BY <1>4 DEF Refuse
  <2> HIDE DEF left
  <2>3. TokensAt(left, now) = left.tokens /\ Full(left) \in Nat /\ left.tokens \in Nat
    BY <1>2, <2>1
  <2>4. left.tokens \div Minute = 0
    BY <1>1, <2>2, <2>3, NoWholeShare
  <2>5. ASSUME left.capacity > 0 PROVE Minute <= Full(left)
    <3>1. left.capacity - 1 \in Nat /\ left.capacity \in Nat
      BY <2>1, <2>5 DEF Bucket
    <3>2. Minute * ((left.capacity - 1) + 1) = Minute * (left.capacity - 1) + Minute * 1
      BY <1>1, <3>1, Distribute
    <3>3. Minute * (left.capacity - 1) \in Nat
      BY <1>1, <3>1, Products
    <3> QED  BY <1>1, <3>1, <3>2, <3>3 DEF Full
  <2>6. ASSUME left.capacity > 0
        PROVE  /\ TokensAt(left, now + status'.reset) >= Full(left)
               /\ status'.reset > 0 => TokensAt(left, now + status'.reset - 1) < Full(left)
    <3>1. left.tokens <= Full(left) /\ Full(left) <= Full(left) /\ left.last_refill \in Nat
      BY <1>1, <2>1, <2>3
    <3> QED  BY <2>1, <2>2, <2>3, <2>6, <3>1, WaitIsExact
  <2>7. ASSUME left.capacity > 0
        PROVE  /\ TokensAt(left, now + status'.retry_after) >= Minute
               /\ status'.retry_after > 0 =>
                    TokensAt(left, now + status'.retry_after - 1) < Minute
               /\ status'.retry_after > 0
    <3>1. left.tokens <= Minute /\ Minute \in Nat /\ left.last_refill \in Nat
      BY <1>1, <2>1, <2>2, <2>3
    <3> QED  BY <2>1, <2>2, <2>5, <2>7, <3>1, WaitIsExact
  <2>8. bucket'.capacity > 0 =>
          /\ ReachesIn(Full(bucket), status.reset)'
          /\ status'.retry_after > 0 /\ ReachesIn(Minute, status.retry_after)'
    BY <1>1, <2>2, <2>6, <2>7 DEF ReachesIn, TokensAt, Full
  <2> QED
    BY <1>1, <2>2, <2>3, <2>4, <2>8 DEF HeadersExact, TokensAt, Full
<1> QED  BY <1>3, <1>4

(* Remaining, Retry-After and Reset are exact at the moment of the answer, *)
(* for every limit and every number of ticks to the minute: no answer      *)
(* outlives the tick it was given at, so HeadersExact is inductive beside  *)
(* the types.                                                              *)
THEOREM HeadersAreExact == Spec => []HeadersExact
<1>1. Init => HeadersExact
  BY DEF Init, HeadersExact, JustAnswered
<1>2. TypeOK /\ HeadersExact /\ [Next]_vars => HeadersExact'
  <2> SUFFICES ASSUME TypeOK, HeadersExact, [Next]_vars PROVE HeadersExact'
    OBVIOUS
  <2>1. ASSUME NEW rpm \in Limits, Grant(rpm) \/ Refuse(rpm) PROVE HeadersExact'
    BY <2>1, AnswerIsExact
  <2>2. CASE Tick
    <3>1. bucket' = bucket /\ now' = now + 1 /\ now \in Nat
          /\ (bucket # None => bucket.last_refill <= now /\ bucket.last_refill \in Nat)
      BY <2>2 DEF Tick, TypeOK, Bucket
    <3>2. ~JustAnswered'
      BY <3>1 DEF JustAnswered
    <3> QED  BY <3>2 DEF HeadersExact
  <2>3. CASE Observe \/ UNCHANGED vars
    <3>1. bucket' = bucket /\ now' = now /\ status' = status
      BY <2>3 DEF Observe, vars
    <3> QED  BY <3>1 DEF HeadersExact, JustAnswered, ReachesIn, TokensAt, Full
  <2> QED  BY <2>1, <2>2, <2>3 DEF Next
<1> QED  BY <1>1, <1>2, TypeInvariant, PTL DEF Spec

-----------------------------------------------------------------------------
(* Tokens that stand for the client.                                       *)
Shows(r) == r.token = "client" \/ (r.token \in Kids /\ "jwt" \in configured)

(* What lost its meaning has disturbed every request that shows it.        *)
LossesNoticed(r) ==
  /\ r.token \in Kids /\ r.token \notin published => r.disturbed
  /\ r.token \in Kids \cup {"client"} /\ client_rpm = None => r.disturbed
  /\ r.token = "client" /\ ~key_held => r.disturbed

(* A document on its way is at most MaxFetch old, and what it still lists  *)
(* was published when it was taken.                                        *)
DocumentTimely(r) ==
  /\ r.taken <= now /\ now - r.taken <= MaxFetch
  /\ \A k \in r.document : k \notin published => withdrawn[k] >= r.taken
  /\ r.token \notin r.document => r.disturbed

Sound(r) ==
  /\ r.at # "idle" => LossesNoticed(r)
  /\ r.at \in {"fetch", "store"} => r.token \in Kids /\ "jwt" \in configured
  /\ r.at = "store" => DocumentTimely(r)
  /\ r.stale < Ttl + MaxFetch \/ r.stale <= MaxFetch
  /\ r.at = "refused" /\ r.token \in Kids /\ "jwt" \in configured => r.disturbed
  /\ r.at = "limit" /\ Shows(r) => r.client \/ r.disturbed
  /\ r.at = "serve" /\ Shows(r) => r.metered \/ r.disturbed

CacheTimely ==
  jwks # None =>
    /\ jwks.at <= now
    /\ \A k \in jwks.kids : k \notin published => withdrawn[k] + MaxFetch >= jwks.at

(* The inductive invariant.                                                *)
AdmissionInv ==
  /\ TypeOKAdmission
  /\ CacheTimely
  /\ \A h \in Handlers : Sound(handler[h])

-----------------------------------------------------------------------------
(* What a handler's own step may touch besides its request.                *)
Surroundings == <<configured, published, withdrawn, client_rpm, key_held, now>>

(* A step that gives one handler a sound request leaves all sound.         *)
LEMMA HandlerStep ==
  ASSUME handler \in [Handlers -> Request],
         \A g \in Handlers : Sound(handler[g]),
         UNCHANGED Surroundings,
         NEW h \in Handlers, NEW r \in Request, Moves(h, r), Sound(r)
  PROVE  /\ handler' \in [Handlers -> Request]
         /\ \A g \in Handlers : Sound(handler[g])'
<1>1. handler' \in [Handlers -> Request]
  BY DEF Moves
<1>2. ASSUME NEW g \in Handlers PROVE Sound(handler'[g])
  BY DEF Moves
<1>3. ASSUME NEW g \in Handlers PROVE Sound(handler[g])' <=> Sound(handler'[g])
  BY DEF Sound, LossesNoticed, DocumentTimely, Shows, Surroundings
<1> QED  BY <1>1, <1>2, <1>3

LEMMA FreshFields ==
  ASSUME NEW token \in Tokens, NEW u \in BOOLEAN
  PROVE  LET r == [Idle EXCEPT !.at = "check", !.token = token, !.disturbed = u]
         IN /\ r \in Request /\ r.at = "check" /\ r.token = token
            /\ r.disturbed = u /\ r.stale = 0
BY DEF Idle, Request

(* A fresh request is sound when it has noticed what is already lost.      *)
LEMMA ArrivalSound ==
  ASSUME AdmissionInv, NEW token \in Tokens
  PROVE  LET r == [Idle EXCEPT !.at = "check", !.token = token,
                               !.disturbed = Unsupported(token)]
         IN r \in Request /\ Sound(r) /\ r.at # "idle"
<1> DEFINE u == Unsupported(token)
<1>1. u \in BOOLEAN /\ (u <=> Unsupported(token))
  BY DEF Unsupported
<1> HIDE DEF u
<1> DEFINE r == [Idle EXCEPT !.at = "check", !.token = token, !.disturbed = u]
<1>2. /\ r \in Request /\ r.at = "check" /\ r.token = token
      /\ r.disturbed = u /\ r.stale = 0
  BY <1>1, FreshFields
<1> HIDE DEF r
<1>3. LossesNoticed(r)
  BY <1>1, <1>2, AdmissionAssumption DEF LossesNoticed, Unsupported
<1>4. Sound(r)
  BY <1>2, <1>3, AdmissionAssumption DEF Sound
<1> QED  BY <1>2, <1>4 DEF r, u

(* Nothing is asked of a handler without a request.                        *)
LEMMA IdleSound == Idle \in Request /\ Sound(Idle)
<1>1. Idle \in Request
  BY DEF Idle, Request, Tokens
<1>2. Sound(Idle)
  BY AdmissionAssumption DEF Idle, Sound
<1> QED  BY <1>1, <1>2

(* A token that is not verified is refused, or goes unmetered: both only   *)
(* when it is disturbed.                                                   *)
LEMMA NotVerifiedFacts ==
  ASSUME AdmissionInv, NEW h \in Handlers, Underway(h)
  PROVE  /\ NotVerified(h) \in Request
         /\ [NotVerified(h) EXCEPT !.disturbed = TRUE] \in Request
         /\ Sound([NotVerified(h) EXCEPT !.disturbed = TRUE])
         /\ handler[h].disturbed => Sound(NotVerified(h))
<1> DEFINE q == handler[h]
           r == NotVerified(h)
           d == [r EXCEPT !.disturbed = TRUE]
<1>1. q \in Request /\ Sound(q) /\ q.at # "idle"
  BY DEF AdmissionInv, TypeOKAdmission, Underway
<1>2. /\ r \in Request /\ r.at \in {"refused", "limit"} /\ r.stale = q.stale
      /\ r.token = q.token /\ r.disturbed = q.disturbed
  BY <1>1 DEF NotVerified, Request
<1> HIDE DEF q, r
<1>3. /\ d \in Request /\ d.at \in {"refused", "limit"} /\ d.stale = q.stale
      /\ d.token = q.token /\ d.disturbed = TRUE
  BY <1>2 DEF Request
<1> HIDE DEF d
<1>4. Sound(d)
  BY <1>1, <1>3 DEF Sound, LossesNoticed
<1>5. q.disturbed => Sound(r)
  BY <1>1, <1>2 DEF Sound, LossesNoticed
<1> QED  BY <1>2, <1>3, <1>4, <1>5 DEF q, r, d

(* A verified token goes on, at most as stale as the key that let it in.   *)
LEMMA VerifiedFacts ==
  ASSUME AdmissionInv, NEW h \in Handlers, Underway(h), handler[h].token \in Kids,
         \/ Staleness(handler[h].token) < Ttl + MaxFetch
         \/ Staleness(handler[h].token) <= MaxFetch
  PROVE  Verified(h) \in Request /\ Sound(Verified(h))
<1> DEFINE q == handler[h]
           r == Verified(h)
<1>1. q \in Request /\ Sound(q) /\ q.at # "idle" /\ now \in Nat /\ q.token \in Kids
  BY DEF AdmissionInv, TypeOKAdmission, TypeOK, Underway
<1>2. Staleness(q.token) \in Nat
  BY <1>1 DEF Staleness, AdmissionInv, TypeOKAdmission
<1>3. CASE q.step = "auth"
  <2>1. /\ r \in Request /\ r.at = "check" /\ r.stale = Staleness(q.token)
        /\ r.token = q.token /\ r.disturbed = q.disturbed
    BY <1>1, <1>2, <1>3 DEF Verified, Request
  <2> QED  BY <1>1, <2>1 DEF Sound, LossesNoticed
<1>4. CASE q.step # "auth"
  <2>1. /\ r \in Request /\ r.at = "limit" /\ r.stale = q.stale /\ r.token = q.token
        /\ r.disturbed = q.disturbed /\ r.client = (client_rpm # None)
    BY <1>1, <1>4 DEF Verified, Request
  <2> QED  BY <1>1, <2>1 DEF Sound, LossesNoticed, Shows
<1> QED  BY <1>3, <1>4

(* A cached key is at most the cache's time and one fetch out of date.     *)
LEMMA CachedFresh ==
  ASSUME AdmissionInv, NEW kid \in Kids, Cached(kid)
  PROVE  Staleness(kid) < Ttl + MaxFetch \/ Staleness(kid) <= MaxFetch
<1>1. CASE kid \in published
  BY <1>1, AdmissionAssumption DEF Staleness
<1>2. CASE kid \notin published
  <2>1. /\ jwks \in Document /\ now - jwks.at < Ttl /\ withdrawn[kid] + MaxFetch >= jwks.at
    BY <1>2 DEF Cached, AdmissionInv, TypeOKAdmission, CacheTimely
  <2>2. now \in Nat /\ jwks.at \in Nat /\ withdrawn[kid] \in Nat
    BY <2>1 DEF Document, AdmissionInv, TypeOKAdmission, TypeOK
  <2> QED  BY <1>2, <2>1, <2>2, AdmissionAssumption DEF Staleness
<1> QED  BY <1>1, <1>2

(* Wherever a lookup leads, the request stays sound.                       *)
LEMMA LookUpSound ==
  ASSUME AdmissionInv, NEW h \in Handlers, Underway(h), handler[h].token \in Kids,
         "jwt" \in configured, LookUp(h)
  PROVE  \E r \in Request : Moves(h, r) /\ Sound(r) /\ r.at # "idle"
<1> DEFINE q == handler[h]
<1>1. q \in Request /\ Sound(q) /\ q.at # "idle"
  BY DEF AdmissionInv, TypeOKAdmission, Underway
<1>2. CASE Cached(q.token)
  <2>1. Verified(h) \in Request /\ Sound(Verified(h))
    BY <1>2, CachedFresh, VerifiedFacts
  <2>2. /\ [NotVerified(h) EXCEPT !.disturbed = TRUE] \in Request
        /\ Sound([NotVerified(h) EXCEPT !.disturbed = TRUE])
    BY NotVerifiedFacts
  <2>3. Verified(h).at # "idle" /\ [NotVerified(h) EXCEPT !.disturbed = TRUE].at # "idle"
    BY <1>1 DEF Verified, NotVerified, Request
  <2> QED  BY <1>2, <2>1, <2>2, <2>3 DEF LookUp
<1>3. CASE ~Cached(q.token)
  <2> DEFINE r == [q EXCEPT !.at = "fetch"]
  <2>1. /\ r \in Request /\ r.at = "fetch" /\ r.token = q.token /\ r.stale = q.stale
        /\ r.disturbed = q.disturbed
    BY <1>1 DEF Request
  <2>2. Sound(r)
    BY <1>1, <2>1 DEF Sound, LossesNoticed
  <2>3. Moves(h, r)
    BY <1>3 DEF LookUp
  <2> QED  BY <2>1, <2>2, <2>3
<1> QED  BY <1>2, <1>3

-----------------------------------------------------------------------------
(* A handler's step preserves the invariant if the request it leaves is    *)
(* sound and the document it leaves is timely.                             *)
LEMMA HandlerPreserves ==
  ASSUME AdmissionInv, TypeOK', UNCHANGED Surroundings, changes' = changes,
         permits' \in Nat, requests' \in Nat,
         jwks' \in Document \cup {None}, CacheTimely',
         NEW h \in Handlers, NEW r \in Request, Moves(h, r), Sound(r)
  PROVE  AdmissionInv'
<1>1. /\ handler' \in [Handlers -> Request]
      /\ \A g \in Handlers : Sound(handler[g])'
  BY HandlerStep DEF AdmissionInv, TypeOKAdmission
<1>2. TypeOKAdmission'
  BY <1>1 DEF AdmissionInv, TypeOKAdmission, Surroundings
<1> QED  BY <1>1, <1>2 DEF AdmissionInv

(* The document in the cache ages with the clock only.                     *)
LEMMA CacheKept ==
  ASSUME AdmissionInv, UNCHANGED Surroundings, jwks' = jwks
  PROVE  jwks' \in Document \cup {None} /\ CacheTimely'
BY DEF AdmissionInv, TypeOKAdmission, CacheTimely, Surroundings

LEMMA ArriveStep ==
  ASSUME AdmissionInv, TypeOK', NEW h \in Handlers, NEW token \in Tokens, Arrive(h, token)
  PROVE  AdmissionInv'
<1>1. \E r \in Request : Moves(h, r) /\ Sound(r)
  BY ArrivalSound DEF Arrive
<1>2. /\ UNCHANGED Surroundings /\ jwks' = jwks /\ changes' = changes
      /\ permits' \in Nat /\ requests' \in Nat
  BY DEF Arrive, Surroundings, vars, others, AdmissionInv, TypeOKAdmission
<1> QED  BY <1>1, <1>2, CacheKept, HandlerPreserves

LEMMA LeaveStep ==
  ASSUME AdmissionInv, TypeOK', NEW h \in Handlers, Leave(h)
  PROVE  AdmissionInv'
<1>1. Idle \in Request /\ Moves(h, Idle) /\ Sound(Idle)
  BY IdleSound DEF Leave
<1>2. /\ UNCHANGED Surroundings /\ jwks' = jwks /\ changes' = changes
      /\ permits' \in Nat /\ requests' \in Nat
  BY DEF Leave, Release, Surroundings, vars, others, AdmissionInv, TypeOKAdmission
<1> QED  BY <1>1, <1>2, CacheKept, HandlerPreserves

(* Authentication: the token is known, looked up or refused.               *)
LEMMA AuthSound ==
  ASSUME AdmissionInv, NEW h \in Handlers, check_auth(h)
  PROVE  \E r \in Request : Moves(h, r) /\ Sound(r) /\ r.at # "idle"
<1> DEFINE q == handler[h]
<1>1. q \in Request /\ Sound(q) /\ q.at = "check"
  BY DEF AdmissionInv, TypeOKAdmission, check_auth
<1>2. ASSUME Moves(h, [q EXCEPT !.step = "identity"])
      PROVE  \E r \in Request : Moves(h, r) /\ Sound(r) /\ r.at # "idle"
  <2> DEFINE r == [q EXCEPT !.step = "identity"]
  <2>1. /\ r \in Request /\ r.at = "check" /\ r.token = q.token /\ r.stale = q.stale
        /\ r.disturbed = q.disturbed
    BY <1>1 DEF Request
  <2>2. Sound(r)
    BY <1>1, <2>1 DEF Sound, LossesNoticed
  <2> QED  BY <1>2, <2>1, <2>2
<1>3. CASE q.token \in Kids /\ "jwt" \in configured /\ LookUp(h)
  BY <1>1, <1>3, LookUpSound DEF Underway
<1>4. ASSUME ~(q.token \in Kids /\ "jwt" \in configured),
             Moves(h, [q EXCEPT !.at = "refused"])
      PROVE  \E r \in Request : Moves(h, r) /\ Sound(r) /\ r.at # "idle"
  <2> DEFINE r == [q EXCEPT !.at = "refused"]
  <2>1. /\ r \in Request /\ r.at = "refused" /\ r.token = q.token /\ r.stale = q.stale
        /\ r.disturbed = q.disturbed
    BY <1>1 DEF Request
  <2>2. Sound(r)
    BY <1>1, <1>4, <2>1 DEF Sound, LossesNoticed
  <2> QED  BY <1>4, <2>1, <2>2
<1> QED  BY <1>2, <1>3, <1>4 DEF check_auth

(* The identity: a token that stands for the client yields the client, or  *)
(* has been disturbed.                                                     *)
LEMMA IdentitySound ==
  ASSUME AdmissionInv, NEW h \in Handlers, resolve_client_identity(h)
  PROVE  \E r \in Request : Moves(h, r) /\ Sound(r) /\ r.at # "idle"
<1> DEFINE q == handler[h]
<1>1. q \in Request /\ Sound(q) /\ q.at = "check" /\ key_held \in BOOLEAN
  BY DEF AdmissionInv, TypeOKAdmission, resolve_client_identity
<1>2. CASE q.token \in Kids /\ "jwt" \in configured
  BY <1>1, <1>2, LookUpSound DEF Underway, resolve_client_identity
<1>3. CASE ~(q.token \in Kids /\ "jwt" \in configured)
  <2> DEFINE c == q.token = "client" /\ key_held
             r == [q EXCEPT !.at = "limit", !.client = c]
  <2>1. c \in BOOLEAN /\ (c <=> q.token = "client" /\ key_held)
    BY <1>1
  <2>2. Moves(h, r)
    BY <1>3 DEF resolve_client_identity
  <2> HIDE DEF c
  <2>3. /\ r \in Request /\ r.at = "limit" /\ r.token = q.token /\ r.stale = q.stale
        /\ r.disturbed = q.disturbed /\ r.client = c
    BY <1>1, <2>1 DEF Request
  <2>4. Sound(r)
    BY <1>1, <1>3, <2>1, <2>3 DEF Sound, LossesNoticed, Shows
  <2> QED  BY <2>2, <2>3, <2>4
<1> QED  BY <1>2, <1>3

LEMMA CheckStep ==
  ASSUME AdmissionInv, TypeOK', NEW h \in Handlers,
         check_auth(h) \/ resolve_client_identity(h)
  PROVE  AdmissionInv'
<1>1. \E r \in Request : Moves(h, r) /\ Sound(r)
  BY AuthSound, IdentitySound
<1>2. /\ UNCHANGED Surroundings /\ jwks' = jwks /\ changes' = changes
      /\ permits' \in Nat /\ requests' \in Nat
  BY DEF check_auth, resolve_client_identity, Surroundings, vars, others,
         AdmissionInv, TypeOKAdmission
<1> QED  BY <1>1, <1>2, CacheKept, HandlerPreserves

LEMMA FetchStep ==
  ASSUME AdmissionInv, TypeOK', NEW h \in Handlers, FetchFails(h) \/ FetchAnswers(h)
  PROVE  AdmissionInv'
<1> DEFINE q == handler[h]
<1>1. q \in Request /\ Sound(q) /\ q.at = "fetch" /\ Underway(h)
  BY DEF AdmissionInv, TypeOKAdmission, FetchFails, FetchAnswers, Underway
<1>2. ASSUME FetchAnswers(h) PROVE \E r \in Request : Moves(h, r) /\ Sound(r)
  <2> DEFINE r == [q EXCEPT !.at = "store", !.document = published, !.taken = now]
  <2>1. published \in SUBSET Kids /\ now \in Nat
    BY DEF AdmissionInv, TypeOKAdmission, TypeOK
  <2>2. /\ r \in Request /\ r.at = "store" /\ r.token = q.token /\ r.stale = q.stale
        /\ r.disturbed = q.disturbed /\ r.document = published /\ r.taken = now
    BY <1>1, <2>1 DEF Request
  <2>3. Moves(h, r)
    BY <1>2 DEF FetchAnswers
  <2> HIDE DEF r
  <2>4. DocumentTimely(r) /\ LossesNoticed(r)
    BY <1>1, <2>1, <2>2, AdmissionAssumption DEF Sound, LossesNoticed, DocumentTimely
  <2>5. Sound(r)
    BY <1>1, <2>2, <2>4 DEF Sound
  <2> QED  BY <2>2, <2>3, <2>5
<1>3. ASSUME FetchFails(h) PROVE \E r \in Request : Moves(h, r) /\ Sound(r)
  BY <1>1, <1>3, NotVerifiedFacts DEF FetchFails
<1>4. /\ UNCHANGED Surroundings /\ jwks' = jwks /\ changes' = changes
      /\ permits' \in Nat /\ requests' \in Nat
  BY DEF FetchFails, FetchAnswers, Surroundings, vars, others, AdmissionInv, TypeOKAdmission
<1> QED  BY <1>2, <1>3, <1>4, CacheKept, HandlerPreserves

(* Storing a document: what it lists was published at most MaxFetch ago.   *)
LEMMA StoreStep ==
  ASSUME AdmissionInv, TypeOK', NEW h \in Handlers, Store(h)
  PROVE  AdmissionInv'
<1> DEFINE q == handler[h]
<1>1. /\ q \in Request /\ Sound(q) /\ q.at = "store" /\ Underway(h) /\ now \in Nat
      /\ q.token \in Kids /\ DocumentTimely(q)
      /\ withdrawn \in [Kids -> Nat] /\ \A k \in Kids : withdrawn[k] <= now
  BY DEF AdmissionInv, TypeOKAdmission, TypeOK, Store, Underway, Sound
<1>2. q.document \subseteq Kids /\ q.taken \in Nat
  BY <1>1 DEF Request
<1>3. \E r \in Request : Moves(h, r) /\ Sound(r)
  <2>1. CASE q.token \in q.document
    <3>1. Staleness(q.token) <= MaxFetch
      BY <1>1, <1>2, <2>1, AdmissionAssumption DEF Staleness, DocumentTimely
    <3> QED  BY <1>1, <2>1, <3>1, VerifiedFacts DEF Store
  <2>2. CASE q.token \notin q.document
    BY <1>1, <2>2, NotVerifiedFacts DEF Store, DocumentTimely
  <2> QED  BY <2>1, <2>2
<1>4. jwks' \in Document \cup {None} /\ CacheTimely'
  BY <1>1, <1>2, AdmissionAssumption
     DEF Store, Document, CacheTimely, DocumentTimely, vars, others
<1>5. /\ UNCHANGED Surroundings /\ changes' = changes
      /\ permits' \in Nat /\ requests' \in Nat
  BY DEF Store, Surroundings, vars, others, AdmissionInv, TypeOKAdmission
<1> QED  BY <1>3, <1>4, <1>5, HandlerPreserves

(* The rate limit: who shows the client's token is metered as the client,  *)
(* or has been disturbed.                                                  *)
LEMMA LimitStep ==
  ASSUME AdmissionInv, TypeOK', NEW h \in Handlers, ClientLimit(h) \/ AddressLimit(h)
  PROVE  AdmissionInv'
<1> DEFINE q == handler[h]
<1>1. q \in Request /\ Sound(q) /\ q.at = "limit"
  BY DEF AdmissionInv, TypeOKAdmission, ClientLimit, AddressLimit
<1>2. ASSUME NEW at \in {"serve", "limited"}, NEW m \in BOOLEAN,
             at = "serve" /\ Shows(q) => m \/ q.disturbed
      PROVE  LET r == [q EXCEPT !.at = at, !.metered = m]
             IN r \in Request /\ Sound(r)
  <2> DEFINE r == [q EXCEPT !.at = at, !.metered = m]
  <2>1. /\ r \in Request /\ r.at = at /\ r.token = q.token /\ r.stale = q.stale
        /\ r.disturbed = q.disturbed /\ r.metered = m
    BY <1>1, <1>2 DEF Request
  <2> HIDE DEF r
  <2>2. Sound(r)
    BY <1>1, <1>2, <2>1 DEF Sound, LossesNoticed, Shows
  <2> QED  BY <2>1, <2>2 DEF r
<1>3. [q EXCEPT !.at = "limited"] = [q EXCEPT !.at = "limited", !.metered = q.metered]
      /\ q.metered \in BOOLEAN
  BY <1>1 DEF Request
<1>4. [q EXCEPT !.at = "serve"] = [q EXCEPT !.at = "serve", !.metered = q.metered]
  BY <1>1 DEF Request
<1>5. AddressLimit(h) /\ Shows(q) => q.disturbed
  BY <1>1 DEF AddressLimit, Sound, Shows, LossesNoticed
<1>6. \E r \in Request : Moves(h, r) /\ Sound(r)
  <2>1. CASE ClientLimit(h)
    BY <1>2, <1>3, <2>1 DEF ClientLimit
  <2>2. CASE AddressLimit(h)
    BY <1>2, <1>3, <1>4, <1>5, <2>2 DEF AddressLimit
  <2> QED  BY <2>1, <2>2
<1>7. /\ UNCHANGED Surroundings /\ jwks' = jwks /\ changes' = changes
      /\ permits' \in Nat /\ requests' \in Nat
  BY DEF ClientLimit, AddressLimit, Grant, Refuse, Surroundings, vars, others,
         AdmissionInv, TypeOKAdmission
<1> QED  BY <1>6, <1>7, CacheKept, HandlerPreserves

-----------------------------------------------------------------------------
(* The rest of the world.  Every loss disturbs the requests that show it.  *)

(* A request that was at most disturbed.                                   *)
SameBut(q, r) ==
  /\ r.at = q.at /\ r.token = q.token /\ r.document = q.document /\ r.taken = q.taken
  /\ r.client = q.client /\ r.metered = q.metered /\ r.stale = q.stale
  /\ q.disturbed => r.disturbed

LEMMA Disturbed ==
  ASSUME handler \in [Handlers -> Request], NEW tokens, Disturb(tokens), NEW h \in Handlers
  PROVE  /\ handler'[h] \in Request
         /\ \A f \in {"at", "step", "token", "document", "taken", "client", "metered",
                       "stale"} : handler'[h][f] = handler[h][f]
         /\ handler[h].disturbed => handler'[h].disturbed
         /\ Underway(h) /\ handler[h].token \in tokens => handler'[h].disturbed
<1>1. handler[h] \in Request
  OBVIOUS
<1>2. handler'[h] = IF Underway(h) /\ handler[h].token \in tokens
                    THEN [handler[h] EXCEPT !.disturbed = TRUE] ELSE handler[h]
  BY DEF Disturb
<1>3. CASE Underway(h) /\ handler[h].token \in tokens
  <2>1. handler'[h] = [handler[h] EXCEPT !.disturbed = TRUE]
    BY <1>2, <1>3
  <2> QED  BY <1>1, <2>1 DEF Request
<1>4. CASE ~(Underway(h) /\ handler[h].token \in tokens)
  <2>1. handler'[h] = handler[h]
    BY <1>2, <1>4
  <2> QED  BY <1>1, <1>4, <2>1
<1> QED  BY <1>3, <1>4

LEMMA PublishStep ==
  ASSUME AdmissionInv, TypeOK', NEW kid \in Kids, Publish(kid)
  PROVE  AdmissionInv'
<1>1. /\ published' = published \cup {kid} /\ changes' \in Nat
      /\ UNCHANGED <<now, configured, permits, handler, jwks, client_rpm, key_held,
                     withdrawn, requests>>
  BY DEF Publish, Change, vars, server, AdmissionInv, TypeOKAdmission
<1>2. TypeOKAdmission' /\ CacheTimely'
  BY <1>1 DEF AdmissionInv, TypeOKAdmission, CacheTimely
<1>3. ASSUME NEW h \in Handlers PROVE Sound(handler[h])'
  BY <1>1 DEF AdmissionInv, Sound, LossesNoticed, DocumentTimely, Shows
<1> QED  BY <1>2, <1>3 DEF AdmissionInv

LEMMA WithdrawStep ==
  ASSUME AdmissionInv, TypeOK', NEW kid \in Kids, Withdraw(kid)
  PROVE  AdmissionInv'
<1>1. /\ published' = published \ {kid} /\ withdrawn' = [withdrawn EXCEPT ![kid] = now]
      /\ Disturb({kid}) /\ changes' \in Nat
      /\ UNCHANGED <<now, configured, permits, jwks, client_rpm, key_held, requests>>
  BY DEF Withdraw, Change, vars, AdmissionInv, TypeOKAdmission
<1>2. /\ now \in Nat /\ handler \in [Handlers -> Request] /\ jwks \in Document \cup {None}
      /\ withdrawn \in [Kids -> Nat] /\ \A k \in Kids : withdrawn[k] <= now
  BY DEF AdmissionInv, TypeOKAdmission, TypeOK
<1>3. /\ withdrawn' \in [Kids -> Nat]
      /\ \A k \in Kids : withdrawn'[k] <= now /\ withdrawn'[k] >= withdrawn[k]
      /\ withdrawn'[kid] = now
  BY <1>1, <1>2
<1>4. handler' \in [Handlers -> Request]
  BY <1>1, <1>2, Disturbed DEF Disturb
<1>5. TypeOKAdmission'
  BY <1>1, <1>3, <1>4 DEF AdmissionInv, TypeOKAdmission
<1>6. CacheTimely'
  BY <1>1, <1>2, <1>3, AdmissionAssumption DEF AdmissionInv, CacheTimely, Document
<1>7. ASSUME NEW h \in Handlers PROVE Sound(handler[h])'
  <2>1. handler[h] \in Request /\ Sound(handler[h]) /\ SameBut(handler[h], handler'[h])
        /\ (handler[h].at # "idle" /\ handler[h].token = kid => handler'[h].disturbed)
    BY <1>1, <1>2, Disturbed DEF AdmissionInv, Underway, SameBut
  <2>2. handler[h].at # "idle" => LossesNoticed(handler[h])'
    BY <1>1, <2>1 DEF Sound, LossesNoticed, SameBut
  <2>3. handler[h].at = "store" => DocumentTimely(handler[h])'
    <3>1. handler[h].taken \in Nat /\ handler[h].document \subseteq Kids
      BY <2>1 DEF Request
    <3>2. ASSUME handler[h].at = "store"
          PROVE  \A k \in handler[h].document :
                   k \notin published' => withdrawn'[k] >= handler[h].taken
      BY <1>1, <1>2, <1>3, <2>1, <3>1, <3>2 DEF Sound, DocumentTimely
    <3> QED  BY <1>1, <2>1, <3>2 DEF Sound, DocumentTimely, SameBut
  <2> QED  BY <1>1, <2>1, <2>2, <2>3 DEF Sound, Shows, SameBut
<1> QED  BY <1>5, <1>6, <1>7 DEF AdmissionInv

LEMMA ClientStep ==
  ASSUME AdmissionInv, TypeOK', UpdateClient \/ RevokeKey
  PROVE  AdmissionInv'
<1>1. /\ UNCHANGED <<now, configured, permits, handler, jwks, published, withdrawn, requests>>
      /\ client_rpm' \in Limits \cup {None} /\ (client_rpm' = None <=> client_rpm = None)
      /\ key_held' \in BOOLEAN /\ changes' \in Nat
      /\ key_held' = key_held \/ client_rpm = None
  <2>1. CASE UpdateClient
    BY <2>1, AdmissionAssumption
       DEF UpdateClient, Change, vars, server, AdmissionInv, TypeOKAdmission
  <2>2. CASE RevokeKey
    BY <2>2 DEF RevokeKey, vars, server, AdmissionInv, TypeOKAdmission
  <2> QED  BY <2>1, <2>2
<1>2. TypeOKAdmission' /\ CacheTimely'
  BY <1>1 DEF AdmissionInv, TypeOKAdmission, CacheTimely
<1>3. ASSUME NEW h \in Handlers PROVE Sound(handler[h])'
  BY <1>1 DEF AdmissionInv, Sound, LossesNoticed, DocumentTimely, Shows
<1> QED  BY <1>2, <1>3 DEF AdmissionInv

LEMMA DeleteStep ==
  ASSUME AdmissionInv, TypeOK', DeleteClient
  PROVE  AdmissionInv'
<1>1. /\ client_rpm' = None /\ Disturb({"client"} \cup Kids) /\ changes' \in Nat
      /\ UNCHANGED <<now, configured, permits, jwks, key_held, published, withdrawn,
                     requests>>
  BY DEF DeleteClient, Change, vars, AdmissionInv, TypeOKAdmission
<1>2. handler \in [Handlers -> Request]
  BY DEF AdmissionInv, TypeOKAdmission
<1>3. handler' \in [Handlers -> Request]
  BY <1>1, <1>2, Disturbed DEF Disturb
<1>4. TypeOKAdmission' /\ CacheTimely'
  BY <1>1, <1>3 DEF AdmissionInv, TypeOKAdmission, CacheTimely
<1>5. ASSUME NEW h \in Handlers PROVE Sound(handler[h])'
  <2>1. /\ handler[h] \in Request /\ Sound(handler[h]) /\ SameBut(handler[h], handler'[h])
        /\ handler[h].at # "idle" /\ handler[h].token \in {"client"} \cup Kids
             => handler'[h].disturbed
    BY <1>1, <1>2, Disturbed DEF AdmissionInv, Underway, SameBut
  <2>2. handler[h].at # "idle" => LossesNoticed(handler[h])'
    BY <1>1, <2>1 DEF Sound, LossesNoticed, SameBut
  <2>3. handler[h].at = "store" => DocumentTimely(handler[h])'
    BY <1>1, <2>1 DEF Sound, DocumentTimely, SameBut
  <2> QED  BY <1>1, <2>1, <2>2, <2>3 DEF Sound, Shows, SameBut
<1> QED  BY <1>4, <1>5 DEF AdmissionInv

(* A tick ages the documents on their way, which the premise on fetches    *)
(* bounds, and nothing else that Sound speaks of.                          *)
LEMMA PassStep ==
  ASSUME AdmissionInv, TypeOK', Pass
  PROVE  AdmissionInv'
<1>1. /\ now' = now + 1
      /\ \A h \in Handlers : handler[h].at = "store" => now - handler[h].taken < MaxFetch
      /\ UNCHANGED <<configured, permits, handler, jwks, client_rpm, key_held, published,
                     withdrawn, requests, changes>>
  BY DEF Pass, Tick, server, others
<1>2. /\ now \in Nat /\ MaxFetch \in Nat /\ jwks \in Document \cup {None}
      /\ withdrawn \in [Kids -> Nat] /\ handler \in [Handlers -> Request]
  BY AdmissionAssumption DEF AdmissionInv, TypeOKAdmission, TypeOK
<1>3. TypeOKAdmission'
  BY <1>1, <1>2 DEF AdmissionInv, TypeOKAdmission
<1>4. CacheTimely'
  BY <1>1, <1>2 DEF AdmissionInv, CacheTimely, Document
<1>5. ASSUME NEW h \in Handlers PROVE Sound(handler[h])'
  <2>1. handler[h] \in Request /\ Sound(handler[h]) /\ handler[h].taken \in Nat
    BY <1>2 DEF AdmissionInv, Request
  <2>2. handler[h].at = "store" => DocumentTimely(handler[h])'
    BY <1>1, <1>2, <2>1 DEF Sound, DocumentTimely
  <2> QED  BY <1>1, <2>1, <2>2 DEF Sound, LossesNoticed, Shows
<1> QED  BY <1>3, <1>4, <1>5 DEF AdmissionInv

LEMMA QuietStep ==
  ASSUME AdmissionInv, TypeOK', Watch \/ Shed \/ UNCHANGED admission_vars
  PROVE  AdmissionInv'
<1>1. /\ UNCHANGED <<now, configured, permits, handler, jwks, client_rpm, key_held,
                     published, withdrawn, changes>>
      /\ requests' \in Nat
  BY DEF Watch, Observe, Shed, admission_vars, vars, server, others,
         AdmissionInv, TypeOKAdmission
<1>2. TypeOKAdmission' /\ CacheTimely'
  BY <1>1 DEF AdmissionInv, TypeOKAdmission, CacheTimely
<1>3. ASSUME NEW h \in Handlers PROVE Sound(handler[h])'
  BY <1>1 DEF AdmissionInv, Sound, LossesNoticed, DocumentTimely, Shows
<1> QED  BY <1>2, <1>3 DEF AdmissionInv

-----------------------------------------------------------------------------
(* Admission uses the client's bucket as its limiter allows.               *)
LEMMA BucketStep ==
  ASSUME client_rpm \in Limits \cup {None}, [AdmissionNext]_admission_vars
  PROVE  [Next]_vars
<1>1. ASSUME NEW h \in Handlers, ClientLimit(h) PROVE Next
  BY <1>1 DEF ClientLimit, Next
<1>2. ASSUME NEW h \in Handlers,
             \/ \E token \in Tokens : Arrive(h, token)
             \/ Leave(h) \/ check_auth(h) \/ resolve_client_identity(h)
             \/ FetchFails(h) \/ FetchAnswers(h) \/ Store(h) \/ AddressLimit(h)
      PROVE  UNCHANGED vars
  BY <1>2 DEF Arrive, Leave, check_auth, resolve_client_identity, FetchFails,
              FetchAnswers, Store, AddressLimit
<1>3. ASSUME \/ Shed \/ UpdateClient \/ DeleteClient \/ RevokeKey
             \/ \E kid \in Kids : Publish(kid) \/ Withdraw(kid)
             \/ UNCHANGED admission_vars
      PROVE  UNCHANGED vars
  BY <1>3 DEF Shed, UpdateClient, DeleteClient, RevokeKey, Publish, Withdraw,
              admission_vars
<1>4. ASSUME Pass \/ Watch PROVE Next
  BY <1>4 DEF Pass, Watch, Next
<1> QED  BY <1>1, <1>2, <1>3, <1>4 DEF AdmissionNext

LEMMA AdmissionInvInductive ==
  AdmissionInv /\ [AdmissionNext]_admission_vars => AdmissionInv'
<1> SUFFICES ASSUME AdmissionInv, [AdmissionNext]_admission_vars PROVE AdmissionInv'
  OBVIOUS
<1>1. TypeOK'
  BY BucketStep, TypeStep DEF AdmissionInv, TypeOKAdmission
<1>2. ASSUME NEW h \in Handlers,
             \/ \E token \in Tokens : Arrive(h, token)
             \/ Leave(h) \/ check_auth(h) \/ resolve_client_identity(h)
             \/ FetchFails(h) \/ FetchAnswers(h) \/ Store(h)
             \/ ClientLimit(h) \/ AddressLimit(h)
      PROVE  AdmissionInv'
  BY <1>1, <1>2, ArriveStep, LeaveStep, CheckStep, FetchStep, StoreStep, LimitStep
<1>3. ASSUME NEW kid \in Kids, Publish(kid) \/ Withdraw(kid) PROVE AdmissionInv'
  BY <1>1, <1>3, PublishStep, WithdrawStep
<1>4. CASE UpdateClient \/ RevokeKey
  BY <1>1, <1>4, ClientStep
<1>5. CASE DeleteClient
  BY <1>1, <1>5, DeleteStep
<1>6. CASE Pass
  BY <1>1, <1>6, PassStep
<1>7. CASE Watch \/ Shed \/ UNCHANGED admission_vars
  BY <1>1, <1>7, QuietStep
<1> QED  BY <1>2, <1>3, <1>4, <1>5, <1>6, <1>7 DEF AdmissionNext

(* In every reachable state the requests under way are sound and the       *)
(* cached document is timely.                                              *)
THEOREM AdmissionInvariant == AdmissionSpec => []AdmissionInv
<1>1. AdmissionInit => AdmissionInv
  <2> SUFFICES ASSUME AdmissionInit PROVE AdmissionInv
    OBVIOUS
  <2>1. TypeOK
    BY MinuteAssumption DEF AdmissionInit, Init, TypeOK
  <2>2. TypeOKAdmission
    BY <2>1, IdleSound, AdmissionAssumption DEF AdmissionInit, TypeOKAdmission, TypeOK
  <2>3. CacheTimely
    BY DEF AdmissionInit, CacheTimely
  <2> QED  BY <2>2, <2>3, IdleSound DEF AdmissionInit, AdmissionInv
<1> QED  BY <1>1, AdmissionInvInductive, PTL DEF AdmissionSpec

(* Permits, keys, documents and requests keep their types.                 *)
THEOREM AdmissionTypes == AdmissionSpec => []TypeOKAdmission
<1>1. AdmissionInv => TypeOKAdmission
  BY DEF AdmissionInv
<1> QED  BY <1>1, AdmissionInvariant, PTL

(* Authentication follows the provider's keys, whichever document wins     *)
(* the race to the cache.                                                  *)
THEOREM AuthenticationFollowsKeys == AdmissionSpec => []KeysFollowProvider
<1>1. AdmissionInv => KeysFollowProvider
  BY DEF AdmissionInv, Sound, KeysFollowProvider
<1> QED  BY <1>1, AdmissionInvariant, PTL

(* Who shows the client's key or token is metered as the client.           *)
THEOREM ClientRequestsAreMetered == AdmissionSpec => []ClientsAreMetered
<1>1. AdmissionInv => ClientsAreMetered
  BY DEF AdmissionInv, Sound, Shows, ClientsAreMetered
<1> QED  BY <1>1, AdmissionInvariant, PTL

(* Admission implements the rate limiter, so its promise holds for every   *)
(* client behind authentication, whatever an admin does to its limit.      *)
THEOREM AdmissionLimits == AdmissionSpec => Spec /\ []RateBounded
<1>1. AdmissionInit => Init
  BY DEF AdmissionInit
<1>2. AdmissionInv => client_rpm \in Limits \cup {None}
  BY DEF AdmissionInv, TypeOKAdmission
<1>3. AdmissionInv /\ [AdmissionNext]_admission_vars => [Next]_vars
  BY <1>2, BucketStep
<1>4. AdmissionSpec => Spec
  BY <1>1, <1>3, AdmissionInvariant, PTL DEF AdmissionSpec, Spec
<1> QED  BY <1>4, RateIsBounded, PTL

-----------------------------------------------------------------------------
(* The handlers that hold a permit.                                        *)
Holders == { h \in Handlers : Underway(h) }

LEMMA HoldersFinite == IsFiniteSet(Holders) /\ Cardinality(Holders) \in Nat
<1>1. Holders \in SUBSET Handlers
  BY DEF Holders
<1> QED  BY <1>1, FS_Subset, FS_CardinalityType, AdmissionAssumption

(* Arriving takes a permit, leaving gives it back, and no other step       *)
(* starts or ends a request.                                               *)
LEMMA PermitStep ==
  ASSUME AdmissionInv, PermitsBalance, [AdmissionNext]_admission_vars
  PROVE  PermitsBalance'
<1> USE HoldersFinite
<1>1. handler \in [Handlers -> Request] /\ permits \in Nat
      /\ permits + Cardinality(Holders) = Permits /\ Permits \in Nat
  BY AdmissionAssumption DEF AdmissionInv, TypeOKAdmission, PermitsBalance, Holders
<1>2. PermitsBalance' <=> permits' + Cardinality(Holders') = Permits
  BY DEF PermitsBalance, Holders
<1>3. ASSUME NEW h \in Handlers, NEW token \in Tokens, Arrive(h, token)
      PROVE  PermitsBalance'
  <2>1. handler'[h].at # "idle" /\ h \notin Holders /\ permits' = permits - 1
    BY <1>1, <1>3, ArrivalSound DEF Arrive, Moves, Holders, Underway
  <2>2. \A g \in Handlers \ {h} : handler'[g] = handler[g]
    BY <1>1, <1>3 DEF Arrive, Moves
  <2>3. Holders' = Holders \cup {h}
    BY <2>1, <2>2 DEF Holders, Underway
  <2>4. Cardinality(Holders \cup {h}) = Cardinality(Holders) + 1
    BY <2>1, FS_AddElement
  <2> QED  BY <1>1, <1>2, <2>1, <2>3, <2>4
<1>4. ASSUME NEW h \in Handlers, Leave(h) PROVE PermitsBalance'
  <2>1. handler'[h].at = "idle" /\ h \in Holders /\ permits' = permits + 1
    BY <1>1, <1>4 DEF Leave, Release, Moves, Holders, Underway, Idle
  <2>2. \A g \in Handlers \ {h} : handler'[g] = handler[g]
    BY <1>1, <1>4 DEF Leave, Moves
  <2>3. Holders' = Holders \ {h}
    BY <2>1, <2>2 DEF Holders, Underway
  <2>4. Cardinality(Holders \ {h}) = Cardinality(Holders) - 1
    BY <2>1, FS_RemoveElement
  <2> QED  BY <1>1, <1>2, <2>1, <2>3, <2>4
<1>5. ASSUME permits' = permits,
             \A g \in Handlers : handler'[g].at = "idle" <=> handler[g].at = "idle"
      PROVE  PermitsBalance'
  <2>1. Holders' = Holders
    BY <1>5 DEF Holders, Underway
  <2> QED  BY <1>1, <1>2, <1>5, <2>1
<1>6. ASSUME NEW h \in Handlers, Underway(h), permits' = permits,
             NEW r, Moves(h, r), r.at # "idle"
      PROVE  PermitsBalance'
  BY <1>1, <1>5, <1>6 DEF Moves, Underway
<1>7. ASSUME NEW h \in Handlers, check_auth(h) \/ resolve_client_identity(h)
      PROVE  PermitsBalance'
  <2>1. \E r \in Request : Moves(h, r) /\ r.at # "idle"
    BY <1>7, AuthSound, IdentitySound
  <2> QED  BY <1>6, <1>7, <2>1 DEF check_auth, resolve_client_identity, Underway
<1>8. ASSUME NEW h \in Handlers,
             \/ FetchFails(h) \/ FetchAnswers(h) \/ Store(h)
             \/ ClientLimit(h) \/ AddressLimit(h)
      PROVE  PermitsBalance'
  <2>1. /\ handler[h] \in Request /\ Underway(h) /\ permits' = permits
    BY <1>1, <1>8 DEF FetchFails, FetchAnswers, Store, ClientLimit, AddressLimit, Underway
  <2>2. NotVerified(h).at # "idle" /\ [NotVerified(h) EXCEPT !.disturbed = TRUE].at # "idle"
        /\ Verified(h).at # "idle"
    BY <2>1 DEF NotVerified, Verified, Request
  <2>3. \E r : Moves(h, r) /\ r.at # "idle"
    <3>1. CASE FetchFails(h) \/ Store(h)
      BY <2>2, <3>1 DEF FetchFails, Store
    <3>2. CASE FetchAnswers(h)
      <4>1. [handler[h] EXCEPT !.at = "store", !.document = published, !.taken = now].at
              # "idle"
        BY <2>1 DEF Request
      <4> QED  BY <3>2, <4>1 DEF FetchAnswers
    <3>3. CASE ClientLimit(h)
      <4>1. /\ [handler[h] EXCEPT !.at = "serve", !.metered = TRUE].at # "idle"
            /\ [handler[h] EXCEPT !.at = "limited"].at # "idle"
        BY <2>1 DEF Request
      <4> QED  BY <3>3, <4>1 DEF ClientLimit
    <3>4. CASE AddressLimit(h)
      <4>1. PICK at \in {"serve", "limited"} : Moves(h, [handler[h] EXCEPT !.at = at])
        BY <3>4 DEF AddressLimit
      <4>2. [handler[h] EXCEPT !.at = at].at # "idle"
        BY <2>1, <4>1 DEF Request
      <4> QED  BY <4>1, <4>2
    <3> QED  BY <1>8, <3>1, <3>2, <3>3, <3>4
  <2> QED  BY <1>6, <2>1, <2>3
<1>9. ASSUME \/ Shed \/ UpdateClient \/ DeleteClient \/ RevokeKey \/ Pass \/ Watch
             \/ \E kid \in Kids : Publish(kid) \/ Withdraw(kid)
             \/ UNCHANGED admission_vars
      PROVE  PermitsBalance'
  <2>1. permits' = permits /\ (handler' = handler \/ \E tokens : Disturb(tokens))
    BY <1>9 DEF Shed, UpdateClient, DeleteClient, RevokeKey, Pass, Watch, Publish,
                Withdraw, admission_vars, server
  <2>2. \A g \in Handlers : handler'[g].at = "idle" <=> handler[g].at = "idle"
    BY <1>1, <2>1, Disturbed
  <2> QED  BY <1>5, <2>1, <2>2
<1> QED  BY <1>3, <1>4, <1>7, <1>8, <1>9 DEF AdmissionNext

(* However requests end, the permits left are those nobody holds.          *)
THEOREM PermitsAreBalanced == AdmissionSpec => []PermitsBalance
<1>1. AdmissionInit => PermitsBalance
  <2> SUFFICES ASSUME AdmissionInit PROVE PermitsBalance
    OBVIOUS
  <2>1. { h \in Handlers : Underway(h) } = {}
    BY DEF AdmissionInit, Underway, Idle
  <2> QED  BY <2>1, FS_EmptySet, AdmissionAssumption DEF AdmissionInit, PermitsBalance
<1>2. AdmissionInv /\ PermitsBalance /\ [AdmissionNext]_admission_vars => PermitsBalance'
  BY PermitStep
<1> QED  BY <1>1, <1>2, AdmissionInvariant, PTL DEF AdmissionSpec

-----------------------------------------------------------------------------
(* The calendar arithmetic, for a day of an era of 400 years.            *)
LEMMA Fours ==
  ASSUME NEW n \in Int, NEW q \in Int, q = n \div 4
  PROVE  4 * q <= n /\ n < 4 * q + 4
BY SMT
LEMMA Hundreds ==
  ASSUME NEW n \in Int, NEW q \in Int, q = n \div 100
  PROVE  100 * q <= n /\ n < 100 * q + 100
BY SMT
LEMMA Years ==
  ASSUME NEW n \in Int, NEW q \in Int, q = n \div 365
  PROVE  365 * q <= n /\ n < 365 * q + 365
BY SMT
LEMMA Months ==
  ASSUME NEW n \in Int, NEW q \in Int, q = n \div 153
  PROVE  153 * q <= n /\ n < 153 * q + 153
BY SMT
LEMMA LeapCycles ==
  ASSUME NEW n \in Int, NEW q \in Int, q = n \div 1460
  PROVE  1460 * q <= n /\ n < 1460 * q + 1460
BY SMT
LEMMA Centuries ==
  ASSUME NEW n \in Int, NEW q \in Int, q = n \div 36524
  PROVE  36524 * q <= n /\ n < 36524 * q + 36524
BY SMT
LEMMA LastDays ==
  ASSUME NEW n \in Int, NEW q \in Int, q = n \div 146096
  PROVE  146096 * q <= n /\ n < 146096 * q + 146096
BY SMT
LEMMA Eras ==
  ASSUME NEW n \in Int, NEW q \in Int, q = n \div 146097
  PROVE  146097 * q <= n /\ n < 146097 * q + 146097
BY SMT

(* In a year that is not the era's last, by the leap cycles and centuries. *)
LEMMA DayOfYear ==
  ASSUME NEW doe \in Int, 0 <= doe, doe < 146096,
         NEW a \in Int, 1460 * a <= doe, doe < 1460 * a + 1460,
         NEW b \in Int, 36524 * b <= doe, doe < 36524 * b + 36524,
         NEW yoe \in Int, 365 * yoe <= doe - a + b, doe - a + b < 365 * yoe + 365,
         NEW q \in Int, 4 * q <= yoe, yoe < 4 * q + 4,
         NEW s \in Int, 100 * s <= yoe, yoe < 100 * s + 100
  PROVE  /\ 0 <= yoe /\ yoe < 400
         /\ 0 <= doe - (365 * yoe + q - s) /\ doe - (365 * yoe + q - s) <= 365
<1>1. 0 <= b /\ b <= 3
  BY SMT
<1> DEFINE w == a - 25 * b
           x == doe - 1460 * a
<1>2. w \in Int /\ x \in Int /\ a = w + 25 * b /\ doe = 36500 * b + 1460 * w + x
  BY SMT
<1>3. 0 <= x /\ x <= 1459
  BY SMT
<1> HIDE DEF w, x
<1>4. 1460 * w + x >= 24 * b /\ 1460 * w + x < 24 * b + 36524
  BY SMT, <1>2
<1>5. 0 <= w /\ w <= 25
  BY SMT, <1>1, <1>2, <1>3, <1>4
<1>6. /\ 365 * yoe <= 36500 * b + 1459 * w + x - 24 * b
      /\ 36500 * b + 1459 * w + x - 24 * b < 365 * yoe + 365
  BY SMT, <1>2
<1>7. /\ 36500 * b + 1460 * w + x - (365 * yoe + q - s) >= 0
      /\ 36500 * b + 1460 * w + x - (365 * yoe + q - s) <= 365
  BY SMTT(60), <1>1, <1>2, <1>3, <1>4, <1>5, <1>6
<1>8. 0 <= yoe /\ yoe < 400
  BY SMT, <1>1, <1>2, <1>3, <1>4, <1>5, <1>6
<1> QED  BY SMT, <1>2, <1>7, <1>8

(* A date of an era, by its day there: the months since the year 0 are   *)
(* 12 * y + mp + 3, where years begin in March.                            *)
LEMMA MonthOfEra ==
  ASSUME NEW doe \in Int, 0 <= doe, doe <= 146096,
         NEW yoe \in Int, yoe = YearOfEra(doe),
         NEW doy \in Int, doy = doe - (365 * yoe + (yoe \div 4) - (yoe \div 100))
  PROVE  0 <= yoe /\ yoe <= 399 /\ 0 <= doy /\ doy <= 365
<1>1. PICK a \in Int : a = doe \div 1460
  BY SMT
<1>2. PICK b \in Int : b = doe \div 36524
  BY SMT
<1>3. PICK c \in Int : c = doe \div 146096
  BY SMT
<1>4. PICK q \in Int : q = yoe \div 4
  BY SMT
<1>5. PICK s \in Int : s = yoe \div 100
  BY SMT
<1>6. /\ 1460 * a <= doe /\ doe < 1460 * a + 1460
      /\ 36524 * b <= doe /\ doe < 36524 * b + 36524
      /\ 146096 * c <= doe /\ doe < 146096 * c + 146096
  BY SMT, <1>1, <1>2, <1>3, LeapCycles, Centuries, LastDays
<1>7. 4 * q <= yoe /\ yoe < 4 * q + 4 /\ 100 * s <= yoe /\ yoe < 100 * s + 100
  BY SMT, <1>4, <1>5, Fours, Hundreds
<1>8. 365 * yoe <= doe - a + b - c /\ doe - a + b - c < 365 * yoe + 365
  <2>1. yoe = (doe - a + b - c) \div 365
    BY SMT, <1>1, <1>2, <1>3 DEF YearOfEra
  <2> QED  BY SMT, <2>1, Years
<1>9. doy = doe - (365 * yoe + q - s)
  BY SMT, <1>4, <1>5
<1>10. CASE doe = 146096
  <2>1. a = 100 /\ b = 4 /\ c = 1
    BY SMT, <1>6, <1>10
  <2>2. yoe = 399
    BY SMT, <1>8, <1>10, <2>1
  <2>3. q = 99 /\ s = 3
    BY SMT, <1>7, <2>2
  <2> QED  BY SMT, <1>9, <1>10, <2>2, <2>3
<1>11. CASE doe < 146096
  <2>1. c = 0
    BY SMT, <1>6, <1>11
  <2>2. 365 * yoe <= doe - a + b /\ doe - a + b < 365 * yoe + 365
    BY SMT, <1>8, <2>1
  <2>3. /\ 0 <= yoe /\ yoe < 400
        /\ 0 <= doe - (365 * yoe + q - s) /\ doe - (365 * yoe + q - s) <= 365
    BY SMT, <1>6, <1>7, <1>11, <2>2, DayOfYear
  <2> QED  BY SMT, <1>9, <2>3
<1> QED  BY SMT, <1>10, <1>11

(* The year of an era never goes back.                                     *)
LEMMA YearAdvances ==
  ASSUME NEW doe \in Int, 0 <= doe, doe < 146096
  PROVE  YearOfEra(doe) <= YearOfEra(doe + 1)
<1>1. PICK a \in Int, a1 \in Int : a = doe \div 1460 /\ a1 = (doe + 1) \div 1460
  BY SMT
<1>2. PICK b \in Int, b1 \in Int : b = doe \div 36524 /\ b1 = (doe + 1) \div 36524
  BY SMT
<1>3. PICK c \in Int, c1 \in Int : c = doe \div 146096 /\ c1 = (doe + 1) \div 146096
  BY SMT
<1>4. /\ 1460 * a <= doe /\ doe < 1460 * a + 1460
      /\ 36524 * b <= doe /\ doe < 36524 * b + 36524
      /\ 146096 * c <= doe /\ doe < 146096 * c + 146096
  BY SMT, <1>1, <1>2, <1>3, LeapCycles, Centuries, LastDays
<1>5. /\ 1460 * a1 <= doe + 1 /\ doe + 1 < 1460 * a1 + 1460
      /\ 36524 * b1 <= doe + 1 /\ doe + 1 < 36524 * b1 + 36524
      /\ 146096 * c1 <= doe + 1 /\ doe + 1 < 146096 * c1 + 146096
  BY SMT, <1>1, <1>2, <1>3, LeapCycles, Centuries, LastDays
<1>6. doe - a + b - c <= doe + 1 - a1 + b1 - c1
  BY SMT, <1>4, <1>5
<1>7. PICK n \in Int, m \in Int : n = doe - a + b - c /\ m = doe + 1 - a1 + b1 - c1
  BY SMT
<1>8. YearOfEra(doe) = n \div 365 /\ YearOfEra(doe + 1) = m \div 365
  BY SMT, <1>1, <1>2, <1>3, <1>7 DEF YearOfEra
<1>9. PICK y \in Int, y1 \in Int : y = n \div 365 /\ y1 = m \div 365
  BY SMT
<1>10. 365 * y <= n /\ n < 365 * y + 365 /\ 365 * y1 <= m /\ m < 365 * y1 + 365
  BY SMT, <1>9, Years
<1>11. y <= y1
  BY SMT, <1>6, <1>7, <1>10
<1> QED  BY SMT, <1>8, <1>9, <1>11

(* The day n in an era, with its year, its day of the year and its month,  *)
(* counted from March.                                                     *)
Dated(n, e, doe, yoe, doy, mp) ==
  /\ 0 <= e /\ 0 <= doe /\ doe <= 146096
  /\ n + 719468 = 146097 * e + doe
  /\ yoe = YearOfEra(doe) /\ 0 <= yoe /\ yoe <= 399
  /\ doy = doe - (365 * yoe + (yoe \div 4) - (yoe \div 100))
  /\ 0 <= doy /\ doy <= 365
  /\ mp = (5 * doy + 2) \div 153 /\ 0 <= mp /\ mp <= 11
  /\ KeyOfDay("monthly", n) = 12 * (yoe + 400 * e) + mp + 3

(* What a day's month comes to.                                            *)
LEMMA MonthOfDay ==
  ASSUME NEW n \in Nat
  PROVE  \E e \in Int, doe \in Int, yoe \in Int, doy \in Int, mp \in Int :
           Dated(n, e, doe, yoe, doy, mp)
<1>1. PICK z \in Int : z = n + 719468 /\ z >= 719468
  BY SMT
<1>2. PICK e \in Int : e = z \div 146097
  BY SMT
<1>3. 146097 * e <= z /\ z < 146097 * e + 146097
  BY SMT, <1>2, Eras
<1>4. PICK doe \in Int : doe = z - e * 146097
  BY SMT
<1>5. 0 <= e /\ 0 <= doe /\ doe <= 146096
  BY SMT, <1>1, <1>3, <1>4
<1>6. Era(z) = e
  BY SMT, <1>1, <1>2 DEF Era, Truncated
<1>7. PICK yoe \in Int : yoe = YearOfEra(doe)
  BY SMT DEF YearOfEra
<1>8. PICK doy \in Int : doy = doe - (365 * yoe + (yoe \div 4) - (yoe \div 100))
  BY SMT
<1>9. 0 <= yoe /\ yoe <= 399 /\ 0 <= doy /\ doy <= 365
  BY SMT, <1>5, <1>7, <1>8, MonthOfEra
<1>10. PICK mp \in Int : mp = (5 * doy + 2) \div 153
  BY SMT
<1>11. 153 * mp <= 5 * doy + 2 /\ 5 * doy + 2 < 153 * mp + 153
  BY SMT, <1>10, Months
<1>12. 0 <= mp /\ mp <= 11
  BY SMT, <1>9, <1>11
<1> DEFINE m == IF mp < 10 THEN mp + 3 ELSE mp - 9
           y == IF m <= 2 THEN yoe + e * 400 + 1 ELSE yoe + e * 400
<1>13. ymd_from_days(n).y = y /\ ymd_from_days(n).m = m
  <2>1. n + 719468 = z /\ Era(n + 719468) = e
    BY SMT, <1>1, <1>6
  <2>2. z - e * 146097 = doe
    BY SMT, <1>4
  <2> HIDE DEF m, y
  <2>3. /\ m = (IF mp < 10 THEN mp + 3 ELSE mp - 9)
        /\ y = (IF m <= 2 THEN yoe + e * 400 + 1 ELSE yoe + e * 400)
    BY SMT DEF m, y
  <2>4. ymd_from_days(n) = [y |-> y, m |-> m, d |-> doy - ((153 * mp + 2) \div 5) + 1]
    BY SMT, <1>7, <1>8, <1>10, <2>1, <2>2, <2>3 DEF ymd_from_days
  <2> QED  BY SMT, <2>4
<1>14. KeyOfDay("monthly", n) = y * 12 + m
  BY SMT, <1>13 DEF KeyOfDay, MonthKey
<1> HIDE DEF m, y
<1>15. y * 12 + m = 12 * (yoe + 400 * e) + mp + 3
  <2>1. CASE mp < 10
    <3>1. m = mp + 3 /\ y = yoe + e * 400
      BY SMT, <1>12, <2>1 DEF m, y
    <3> QED  BY SMT, <3>1
  <2>2. CASE ~(mp < 10)
    <3>1. m = mp - 9 /\ y = yoe + e * 400 + 1
      BY SMT, <1>12, <2>2 DEF m, y
    <3> QED  BY SMT, <3>1
  <2> QED  BY SMT, <2>1, <2>2
<1>16. /\ n + 719468 = 146097 * e + doe
       /\ KeyOfDay("monthly", n) = 12 * (yoe + 400 * e) + mp + 3
  BY SMT, <1>1, <1>4, <1>14, <1>15
<1>17. Dated(n, e, doe, yoe, doy, mp)
  BY SMT, <1>5, <1>7, <1>8, <1>9, <1>10, <1>12, <1>16 DEF Dated
<1> QED  BY <1>17

(* The key of a period never goes back, so a period that is over never     *)
(* returns (period_key_at, with the civil date of ymd_from_days).          *)
THEOREM PeriodsAdvance ==
  ASSUME NEW period \in BudgetPeriod, NEW n \in Nat
  PROVE  /\ KeyOfDay(period, n) \in Int /\ 0 <= KeyOfDay(period, n)
         /\ KeyOfDay(period, n) <= KeyOfDay(period, n + 1)
<1>1. CASE period = "total"
  BY SMT, <1>1 DEF KeyOfDay
<1>2. CASE period = "daily"
  BY SMT, <1>2 DEF KeyOfDay
<1>3. CASE period = "weekly"
  BY SMT, <1>3 DEF KeyOfDay
<1>4. CASE period = "monthly"
  <2>1. PICK e \in Int, doe \in Int, yoe \in Int, doy \in Int, mp \in Int :
          Dated(n, e, doe, yoe, doy, mp)
    BY MonthOfDay
  <2>2. n + 1 \in Nat
    BY SMT
  <2>3. PICK e1 \in Int, doe1 \in Int, yoe1 \in Int, doy1 \in Int, mp1 \in Int :
          Dated(n + 1, e1, doe1, yoe1, doy1, mp1)
    BY <2>2, MonthOfDay
  <2>4. \/ e1 = e /\ doe1 = doe + 1
        \/ e1 = e + 1 /\ doe1 = 0 /\ doe = 146096
    BY SMT, <2>1, <2>3 DEF Dated
  <2>5. CASE e1 = e + 1
    BY SMT, <1>4, <2>1, <2>3, <2>5 DEF Dated
  <2>6. CASE e1 = e /\ doe1 = doe + 1 /\ yoe1 = yoe
    <3>1. doy1 = doy + 1
      BY SMT, <2>1, <2>3, <2>6 DEF Dated
    <3>2. mp <= mp1
      <4>1. 153 * mp <= 5 * doy + 2 /\ 5 * doy + 2 < 153 * mp + 153
        BY SMT, <2>1, Months DEF Dated
      <4>2. 153 * mp1 <= 5 * doy1 + 2 /\ 5 * doy1 + 2 < 153 * mp1 + 153
        BY SMT, <2>3, Months DEF Dated
      <4> QED  BY SMT, <3>1, <4>1, <4>2
    <3> QED  BY SMT, <1>4, <2>1, <2>3, <2>6, <3>2 DEF Dated
  <2>7. CASE e1 = e /\ doe1 = doe + 1 /\ yoe1 # yoe
    <3>1. yoe <= yoe1
      BY SMT, <2>1, <2>3, <2>7, YearAdvances DEF Dated
    <3> QED  BY SMT, <1>4, <2>1, <2>3, <2>7, <3>1 DEF Dated
  <2> QED  BY SMT, <2>4, <2>5, <2>6, <2>7
<1> QED  BY SMT, <1>1, <1>2, <1>3, <1>4 DEF BudgetPeriod

-----------------------------------------------------------------------------
(* A sequence as a selection of another's positions.                       *)

(* t has what s has at the positions S, each once: at[k] is where t[k] is  *)
(* from.                                                                   *)
Picks(t, s, S, at) ==
  /\ at \in [DOMAIN t -> S]
  /\ \A k, l \in DOMAIN t : at[k] = at[l] => k = l
  /\ \A i \in S : \E k \in DOMAIN t : at[k] = i
  /\ \A k \in DOMAIN t : t[k] = s[at[k]]

(* The stable order by an ascending key.                                   *)
Before(s, key, j, i) == key[s[j]] < key[s[i]] \/ (key[s[j]] = key[s[i]] /\ j <= i)

Below(s, S, key, i) == {j \in S : Before(s, key, j, i)}

(* The positions of a chain, and any set of them, are finitely many.      *)
LEMMA PositionsFinite ==
  ASSUME NEW s \in Seq(Candidates), NEW S \in SUBSET DOMAIN s
  PROVE  /\ IsFiniteSet(DOMAIN s) /\ DOMAIN s = 1..Len(s) /\ Len(s) \in Nat
         /\ IsFiniteSet(S) /\ Cardinality(S) \in Nat
         /\ \A i \in S : i \in Nat /\ s[i] \in Candidates
<1>1. DOMAIN s = 1..Len(s) /\ Len(s) \in Nat /\ \A i \in 1..Len(s) : s[i] \in Candidates
  OBVIOUS
<1>2. IsFiniteSet(1..Len(s))
  BY <1>1, FS_Interval
<1>3. IsFiniteSet(S)
  BY <1>1, <1>2, FS_Subset
<1> QED  BY <1>1, <1>2, <1>3, FS_CardinalityType

(* The places of the positions are 1 to their number, in their order.      *)
LEMMA PlacesAreInOrder ==
  ASSUME NEW s \in Seq(Candidates), NEW S \in SUBSET DOMAIN s, NEW key \in [Candidates -> Int]
  PROVE  LET Place == [i \in S |-> Cardinality(Below(s, S, key, i))] IN
         /\ Place \in [S -> 1..Cardinality(S)]
         /\ \A i, j \in S : i # j => Before(s, key, i, j) \/ Before(s, key, j, i)
         /\ \A i, j \in S : i # j /\ Before(s, key, i, j) => Place[i] < Place[j]
         /\ \A n \in 1..Cardinality(S) : \E i \in S : Place[i] = n
<1> DEFINE Place == [i \in S |-> Cardinality(Below(s, S, key, i))]
<1>1. /\ IsFiniteSet(S) /\ Cardinality(S) \in Nat
      /\ \A i \in S : i \in Nat /\ s[i] \in Candidates /\ key[s[i]] \in Int
  BY PositionsFinite
<1>2. ASSUME NEW i \in S
      PROVE  /\ IsFiniteSet(Below(s, S, key, i)) /\ Below(s, S, key, i) \subseteq S
             /\ i \in Below(s, S, key, i) /\ Place[i] \in 1..Cardinality(S)
  <2>1. Below(s, S, key, i) \in SUBSET S /\ i \in Below(s, S, key, i)
    BY <1>1 DEF Below, Before
  <2>2. /\ IsFiniteSet(Below(s, S, key, i))
        /\ Cardinality(Below(s, S, key, i)) <= Cardinality(S)
    BY <1>1, <2>1, FS_Subset
  <2>3. Cardinality(Below(s, S, key, i)) \in Nat /\ Cardinality(Below(s, S, key, i)) # 0
    BY <2>1, <2>2, FS_CardinalityType, FS_EmptySet
  <2> QED  BY <1>1, <2>1, <2>2, <2>3
<1>3. ASSUME NEW i \in S, NEW j \in S, i # j
      PROVE  Before(s, key, i, j) \/ Before(s, key, j, i)
  BY <1>1, <1>3 DEF Before
<1>4. ASSUME NEW i \in S, NEW j \in S, i # j, Before(s, key, i, j)
      PROVE  Place[i] < Place[j]
  <2>1. Below(s, S, key, i) \subseteq Below(s, S, key, j)
    <3> SUFFICES ASSUME NEW k \in S, Before(s, key, k, i) PROVE Before(s, key, k, j)
      BY DEF Below
    <3> QED  BY <1>1, <1>4 DEF Before
  <2>2. j \in Below(s, S, key, j) /\ j \notin Below(s, S, key, i)
    BY <1>1, <1>4 DEF Below, Before
  <2>3. /\ Cardinality(Below(s, S, key, i)) <= Cardinality(Below(s, S, key, j))
        /\ Cardinality(Below(s, S, key, i)) # Cardinality(Below(s, S, key, j))
    BY <1>2, <2>1, <2>2, FS_Subset
  <2> QED  BY <1>1, <1>2, <2>3
<1>5. ASSUME NEW n \in 1..Cardinality(S) PROVE \E i \in S : Place[i] = n
  <2>1. Place \in [S -> 1..Cardinality(S)]
    BY <1>2
  <2>2. \A i, j \in S : Place[i] = Place[j] => i = j
    BY <1>1, <1>2, <1>3, <1>4
  <2>3. Place \in Injection(S, 1..Cardinality(S))
    BY <2>1, <2>2 DEF Injection, IsInjective
  <2>4. IsFiniteSet(1..Cardinality(S)) /\ Cardinality(1..Cardinality(S)) = Cardinality(S)
    BY <1>1, FS_Interval
  <2>5. Place \in Surjection(S, 1..Cardinality(S))
    BY <2>3, <2>4, FS_Injection
  <2> QED  BY <2>5 DEF Surjection
<1> QED  BY <1>2, <1>3, <1>4, <1>5

(* Arranged is a sequence of what s has at S, in the order of the key.     *)
LEMMA ArrangedPicks ==
  ASSUME NEW s \in Seq(Candidates), NEW S \in SUBSET DOMAIN s, NEW key \in [Candidates -> Int]
  PROVE  LET t == Arranged(s, S, key) IN
         /\ t \in Seq(Candidates)
         /\ \E at : /\ Picks(t, s, S, at)
                    /\ \A k, l \in DOMAIN t : k < l => Before(s, key, at[k], at[l])
<1> DEFINE Place == [i \in S |-> Cardinality(Below(s, S, key, i))]
           At(k) == CHOOSE i \in S : Cardinality(Below(s, S, key, i)) = k
           at == [k \in 1..Cardinality(S) |-> At(k)]
           t == Arranged(s, S, key)
<1>1. /\ Place \in [S -> 1..Cardinality(S)]
      /\ \A i, j \in S : i # j => Before(s, key, i, j) \/ Before(s, key, j, i)
      /\ \A i, j \in S : i # j /\ Before(s, key, i, j) => Place[i] < Place[j]
      /\ \A n \in 1..Cardinality(S) : \E i \in S : Place[i] = n
  BY PlacesAreInOrder
<1>2. Cardinality(S) \in Nat /\ \A i \in S : s[i] \in Candidates
  BY PositionsFinite
<1>3. t = [k \in 1..Cardinality(S) |-> s[At(k)]]
  BY DEF Arranged, Below, Before
<1> HIDE DEF t
<1>4. \A k \in 1..Cardinality(S) : At(k) \in S /\ Place[At(k)] = k
  <2>1. \A i \in S : Place[i] = Cardinality(Below(s, S, key, i))
    OBVIOUS
  <2> HIDE DEF Place
  <2>2. ASSUME NEW k \in 1..Cardinality(S) PROVE At(k) \in S /\ Place[At(k)] = k
    <3>1. \E i \in S : Cardinality(Below(s, S, key, i)) = k
      BY <1>1, <2>1
    <3> QED  BY <2>1, <3>1
  <2> QED  BY <2>2
<1> HIDE DEF Place, At
<1>5. /\ at \in [1..Cardinality(S) -> S]
      /\ \A k \in 1..Cardinality(S) : at[k] = At(k) /\ Place[at[k]] = k
  BY <1>4
<1>6. t \in Seq(Candidates) /\ DOMAIN t = 1..Cardinality(S)
  <2>1. t \in [1..Cardinality(S) -> Candidates]
    BY <1>2, <1>3, <1>4
  <2> QED  BY <1>2, <2>1
<1> HIDE DEF at
<1>7. Picks(t, s, S, at)
  <2>1. \A k, l \in DOMAIN t : at[k] = at[l] => k = l
    BY <1>5, <1>6
  <2>2. ASSUME NEW i \in S PROVE \E k \in DOMAIN t : at[k] = i
    <3>1. Place[i] \in 1..Cardinality(S)
      BY <1>1
    <3>2. at[Place[i]] \in S /\ Place[at[Place[i]]] = Place[i]
      BY <1>5, <3>1
    <3>3. \A a, b \in 1..Cardinality(S) : a < b => a # b
      BY <1>2
    <3>4. at[Place[i]] = i
      BY <1>1, <3>1, <3>2, <3>3
    <3> QED  BY <1>6, <3>1, <3>4
  <2>3. \A k \in DOMAIN t : t[k] = s[at[k]]
    BY <1>3, <1>5, <1>6
  <2> QED  BY <1>5, <1>6, <2>1, <2>2, <2>3 DEF Picks
<1>8. ASSUME NEW k \in DOMAIN t, NEW l \in DOMAIN t, k < l
      PROVE  Before(s, key, at[k], at[l])
  <2>1. at[k] \in S /\ at[l] \in S /\ Place[at[k]] = k /\ Place[at[l]] = l
    BY <1>5, <1>6
  <2>2. k \in Nat /\ l \in Nat /\ k # l /\ ~(l < k)
    BY <1>2, <1>6, <1>8
  <2> QED  BY <1>1, <2>1, <2>2
<1> QED  BY <1>6, <1>7, <1>8 DEF t

(* A selection of a selection.                                             *)
LEMMA PicksCompose ==
  ASSUME NEW s, NEW t, NEW u, NEW S, NEW T, NEW at, NEW bt,
         Picks(t, s, S, at), T \subseteq DOMAIN t, Picks(u, t, T, bt)
  PROVE  Picks(u, s, {at[k] : k \in T}, [n \in DOMAIN u |-> at[bt[n]]])
BY DEF Picks

(* The same selection, seen from another sequence of it.                   *)
LEMMA PicksAll ==
  ASSUME NEW s, NEW t, NEW S, NEW at, Picks(t, s, S, at)
  PROVE  {at[k] : k \in DOMAIN t} = S
BY DEF Picks

(* A selection by candidates repeats or loses none of them.                *)
LEMMA PicksTimes ==
  ASSUME NEW s \in Seq(Candidates), NEW t \in Seq(Candidates), NEW E, NEW at,
         Picks(t, s, {i \in DOMAIN s : s[i] \in E}, at), NEW c
  PROVE  Times(t, c) = IF c \in E THEN Times(s, c) ELSE 0
<1> DEFINE S == {i \in DOMAIN s : s[i] \in E}
           A == {k \in DOMAIN t : t[k] = c}
           B == {i \in DOMAIN s : s[i] = c}
<1>1. IsFiniteSet(A) /\ IsFiniteSet(B)
  BY PositionsFinite
<1>2. CASE c \in E
  <2> DEFINE f == [k \in A |-> at[k]]
  <2>1. \A k \in A : at[k] \in B
    BY DEF Picks
  <2>2. f \in Injection(A, B)
    BY <2>1 DEF Picks, Injection, IsInjective
  <2>3. \A i \in B : \E k \in A : f[k] = i
    BY <1>2 DEF Picks
  <2>4. f \in Bijection(A, B)
    BY <2>2, <2>3 DEF Bijection, Surjection, Injection
  <2>5. ExistsBijection(A, B)
    BY <2>4 DEF ExistsBijection
  <2> QED  BY <1>1, <1>2, <2>5, FS_Bijection DEF Times
<1>3. CASE c \notin E
  <2>1. A = {}
    BY <1>3 DEF Picks
  <2> QED  BY <1>3, <2>1, FS_EmptySet DEF Times
<1> QED  BY <1>2, <1>3

(* What is at the selected positions, is in the selection.                 *)
LEMMA PicksHolds ==
  ASSUME NEW s \in Seq(Candidates), NEW t \in Seq(Candidates), NEW S, NEW at,
         Picks(t, s, S, at)
  PROVE  /\ t = <<>> <=> S = {}
         /\ \A i \in S : \E k \in DOMAIN t : t[k] = s[i]
<1>1. t = <<>> <=> DOMAIN t = {}
  OBVIOUS
<1>2. DOMAIN t = {} <=> S = {}
  BY DEF Picks
<1> QED  BY <1>1, <1>2 DEF Picks

-----------------------------------------------------------------------------
(* Orders of three keys.                                                   *)
Lex(s, cost, health, rank, i, j) ==
  \/ cost[s[i]] < cost[s[j]]
  \/ cost[s[i]] = cost[s[j]] /\ health[s[i]] < health[s[j]]
  \/ cost[s[i]] = cost[s[j]] /\ health[s[i]] = health[s[j]] /\ rank[s[i]] < rank[s[j]]
  \/ cost[s[i]] = cost[s[j]] /\ health[s[i]] = health[s[j]] /\ rank[s[i]] = rank[s[j]] /\ i <= j

SortKeys == [Candidates -> Int]
Zero == [c \in Candidates |-> 0]

LexOrdered(t, s, cost, health, rank, at) ==
  \A k, l \in DOMAIN t : k < l => Lex(s, cost, health, rank, at[k], at[l])

(* By a fourth key first.                                                  *)
KeyOrdered(t, s, key, cost, health, rank, at) ==
  \A k, l \in DOMAIN t : k < l =>
    \/ key[s[at[k]]] < key[s[at[l]]]
    \/ key[s[at[k]]] = key[s[at[l]]] /\ Lex(s, cost, health, rank, at[k], at[l])

(* Sorting what is in an order, by another key first.                      *)
LEMMA Rearranged ==
  ASSUME NEW s \in Seq(Candidates), NEW t \in Seq(Candidates),
         NEW S \in SUBSET DOMAIN s, NEW at, Picks(t, s, S, at),
         NEW T \in SUBSET DOMAIN t, NEW key \in SortKeys, NEW cost, NEW health, NEW rank
  PROVE  LET u == Arranged(t, T, key) IN
         /\ u \in Seq(Candidates)
         /\ \E ct : /\ Picks(u, s, {at[k] : k \in T}, ct)
                    /\ LexOrdered(t, s, cost, health, rank, at) =>
                         KeyOrdered(u, s, key, cost, health, rank, ct)
<1> DEFINE u == Arranged(t, T, key)
<1>1. u \in Seq(Candidates)
  BY ArrangedPicks DEF SortKeys
<1>2. PICK bt : /\ Picks(u, t, T, bt)
                /\ \A k, l \in DOMAIN u : k < l => Before(t, key, bt[k], bt[l])
  BY ArrangedPicks DEF SortKeys
<1> HIDE DEF u
<1> DEFINE ct == [n \in DOMAIN u |-> at[bt[n]]]
<1>3. Picks(u, s, {at[k] : k \in T}, ct)
  BY <1>2, PicksCompose
<1>4. ASSUME LexOrdered(t, s, cost, health, rank, at),
             NEW k \in DOMAIN u, NEW l \in DOMAIN u, k < l
      PROVE  \/ key[s[ct[k]]] < key[s[ct[l]]]
             \/ /\ key[s[ct[k]]] = key[s[ct[l]]]
                /\ Lex(s, cost, health, rank, ct[k], ct[l])
  <2>1. /\ bt[k] \in T /\ bt[l] \in T /\ bt[k] # bt[l]
        /\ ct[k] = at[bt[k]] /\ ct[l] = at[bt[l]]
    <3>1. k # l
      BY <1>1, <1>4
    <3> QED  BY <1>2, <3>1 DEF Picks
  <2>2. bt[k] \in Nat /\ bt[l] \in Nat
    BY <2>1
  <2>3. t[bt[k]] = s[ct[k]] /\ t[bt[l]] = s[ct[l]]
    BY <2>1 DEF Picks
  <2>4. Before(t, key, bt[k], bt[l])
    BY <1>2, <1>4
  <2>5. CASE key[t[bt[k]]] < key[t[bt[l]]]
    BY <2>3, <2>5
  <2>6. CASE key[t[bt[k]]] = key[t[bt[l]]] /\ bt[k] <= bt[l]
    <3>1. bt[k] < bt[l]
      BY <2>1, <2>2, <2>6
    <3>2. Lex(s, cost, health, rank, at[bt[k]], at[bt[l]])
      BY <1>4, <2>1, <3>1 DEF LexOrdered
    <3> QED  BY <2>1, <2>3, <2>6, <3>2
  <2> QED  BY <2>4, <2>5, <2>6 DEF Before
<1>5. LexOrdered(t, s, cost, health, rank, at) => KeyOrdered(u, s, key, cost, health, rank, ct)
  BY <1>4 DEF KeyOrdered
<1> HIDE DEF ct
<1> QED  BY <1>1, <1>3, <1>5 DEF u

(* Moving the elements about.                                              *)
LEMMA PicksPermuted ==
  ASSUME NEW s \in Seq(Candidates), NEW t \in Seq(Candidates), NEW S, NEW at,
         Picks(t, s, S, at), NEW p \in [DOMAIN t -> DOMAIN t],
         \A i, j \in DOMAIN t : p[i] = p[j] => i = j,
         NEW u, DOMAIN u = DOMAIN t, \A i \in DOMAIN t : u[i] = t[p[i]]
  PROVE  \E bt : Picks(u, s, S, bt)
<1>1. DOMAIN t = 1..Len(t) /\ Len(t) \in Nat /\ IsFiniteSet(DOMAIN t)
  BY PositionsFinite
<1>2. p \in Injection(DOMAIN t, DOMAIN t)
  BY DEF Injection, IsInjective
<1>3. p \in Surjection(DOMAIN t, DOMAIN t)
  BY <1>1, <1>2, FS_Injection
<1>4. Picks(u, t, DOMAIN t, p)
  BY <1>3 DEF Picks, Surjection
<1>5. Picks(u, s, {at[k] : k \in DOMAIN t}, [n \in DOMAIN u |-> at[p[n]]])
  BY <1>4, PicksCompose
<1>6. {at[k] : k \in DOMAIN t} = S
  BY PicksAll
<1> QED  BY <1>5, <1>6

-----------------------------------------------------------------------------
(* What holds on the way to a chain.                                       *)

(* The stages of a chain that the filters were applied to; those before    *)
(* the ranking, and those after it.                                        *)
Unsorted == {"filtered", "snapshot"}
Ranked == {"sorted", "ranked", "honoured", "done"}
Choosing == Unsorted \cup {"sorting"} \cup Ranked

(* A field of the request that is still to be read, is unset; what was     *)
(* read of provider.sort, led where it should.                             *)
FieldsAreReadInOrder ==
  /\ stage \in {"new", "resolved"} => wanted.sort = Unset
  /\ stage \in {"new", "resolved"} \cup (Choosing \ {"honoured", "done"}) => wanted.require = Unset
  /\ stage \in {"new", "resolved"} \cup (Choosing \ {"done"}) => wanted.cap = Unset
  /\ stage \in {"new", "resolved", "sorting", "sorted"} \cup Unsorted => unhealthy = {}
  /\ stage = "sorting" => Mode \in {"latency", "uptime"}
  /\ stage = "snapshot" => Mode = "free_tier_remaining"
  /\ stage = "resolved" => chain = resolved

(* The three keys of the order asked for.                                  *)
CostKey == [c \in Candidates |-> IF wanted.cap = Unset THEN 0 ELSE Ascending(Price[c])]
HealthKey == [c \in Candidates |-> IF c \in unhealthy THEN 1 ELSE 0]
RankKey == [c \in Candidates |-> Rank(c)]

RankedModes == {"price", "quality", "free_tier_remaining", Unset}

(* The chain is what is eligible of the resolved one, at every stage; at   *)
(* first in its order, and once ranked, in the order asked for.            *)
EligibleAt == {i \in DOMAIN resolved : Eligible(resolved[i])}

ChosenBy(at) ==
  /\ Picks(chain, resolved, EligibleAt, at)
  /\ stage \in Unsorted => LexOrdered(chain, resolved, Zero, Zero, Zero, at)
  /\ stage \in Ranked /\ Mode \in RankedModes =>
       LexOrdered(chain, resolved, CostKey, HealthKey, RankKey, at)

Chosen == stage \in Choosing => \E at \in [DOMAIN chain -> DOMAIN resolved] : ChosenBy(at)

(* A selection ends without a chain only for want of a candidate.          *)
FailsForWant ==
  /\ stage \in {"no_eligible_provider", "request_budget_exceeded"} =>
       \A i \in DOMAIN resolved :
         \/ ~Eligible(resolved[i])
         \/ stage = "request_budget_exceeded" /\ ~Fits(resolved[i], wanted.cap)
  /\ stage \in Choosing /\ chain = <<>> => resolved = <<>>

(* What a free tier's state holds is of one period, none after it was      *)
(* used, and it is not of a period to come.                                *)
TierIsCurrent(c) ==
  /\ free_tier_usage[c].period_key <= PeriodKey(c)
  /\ \A k \in PeriodKeysOf(c) :
       /\ k = free_tier_usage[c].period_key => uses[c][k] = free_tier_usage[c].tokens_used
       /\ k > free_tier_usage[c].period_key => uses[c][k] = 0

TiersAreCurrent == \A c \in DOMAIN FreeTierSettings : TierIsCurrent(c)

SelectionInv ==
  SelectionTypeOK /\ FieldsAreReadInOrder /\ Chosen /\ FailsForWant /\ TiersAreCurrent

-----------------------------------------------------------------------------
(* Every variable keeps its type.                                          *)

(* What is arranged, kept or sorted of a chain is a chain.                *)
LEMMA ArrangedType ==
  ASSUME NEW s \in Seq(Candidates), NEW S \in SUBSET DOMAIN s, NEW key \in SortKeys
  PROVE  Arranged(s, S, key) \in Seq(Candidates)
BY ArrangedPicks DEF SortKeys

(* The keys a chain is sorted by.                                          *)
LEMMA StaticKeys ==
  /\ Zero \in SortKeys
  /\ [c \in Candidates |-> Ascending(Price[c])] \in SortKeys
  /\ [c \in Candidates |-> Descending(Quality[c])] \in SortKeys
  /\ \A bad : [c \in Candidates |-> IF c \in bad THEN 1 ELSE 0] \in SortKeys
<1>1. Unranked \in Int
  BY DEF Unranked
<1>2. \A v \in Nat \cup {Unset} : Ascending(v) \in Int /\ Descending(v) \in Int
  BY <1>1, SelectionAssumption DEF Ascending, Descending
<1>3. \A c \in Candidates : Ascending(Price[c]) \in Int /\ Descending(Quality[c]) \in Int
  BY <1>2, SelectionAssumption
<1>4. /\ [c \in Candidates |-> Ascending(Price[c])] \in [Candidates -> Int]
      /\ [c \in Candidates |-> Descending(Quality[c])] \in [Candidates -> Int]
  BY <1>3
<1>5. Zero \in [Candidates -> Int]
  BY DEF Zero
<1>6. ASSUME NEW bad
      PROVE  [c \in Candidates |-> IF c \in bad THEN 1 ELSE 0] \in [Candidates -> Int]
  OBVIOUS
<1> QED  BY <1>4, <1>5, <1>6 DEF SortKeys

(* The snapshot of the free tiers gives every candidate a number to be    *)
(* ranked by.                                                             *)
LEMMA TierKey ==
  ASSUME SelectionTypeOK
  PROVE  /\ [c \in Candidates |-> Descending(TierRemaining(c))] \in SortKeys
         /\ \A c \in DOMAIN FreeTierSettings : TokensRemaining(c) \in Nat
<1>1. Unranked \in Int
  BY DEF Unranked
<1>2. ASSUME NEW c \in DOMAIN FreeTierSettings PROVE TokensRemaining(c) \in Nat
  <2>1. free_tier_usage[c] \in TokenState
    BY DEF SelectionTypeOK, FreeTierType
  <2>2. RolledState(c).tokens_used \in Nat
    BY <2>1 DEF RolledState, TokenState
  <2>3. FreeTierSettings[c].monthly_free_tokens \in Nat
    BY FreeTierAssumption
  <2> QED  BY <2>2, <2>3 DEF TokensRemaining
<1>3. \A c : TierRemaining(c) \in Nat \cup {Unset}
  BY <1>2 DEF TierRemaining
<1>4. \A c : Descending(TierRemaining(c)) \in Int
  BY <1>1, <1>3, SelectionAssumption DEF Descending
<1> QED  BY <1>2, <1>4 DEF SortKeys

(* A shuffled chain is a chain.                                           *)
LEMMA ShuffleType ==
  ASSUME NEW s \in Seq(Candidates), NEW t \in shuffle_chain(s)
  PROVE  t \in Seq(Candidates)
<1>1. PICK p \in [DOMAIN s -> DOMAIN s] : t = [i \in DOMAIN s |-> s[p[i]]]
  BY DEF shuffle_chain
<1>2. DOMAIN s = 1..Len(s) /\ Len(s) \in Nat
  OBVIOUS
<1>3. t \in [1..Len(s) -> Candidates]
  BY <1>1, <1>2
<1> QED  BY <1>2, <1>3

(* The keys of a free tier's periods are integers that never decrease.     *)
LEMMA KeysOfPeriods ==
  ASSUME SelectionTypeOK, NEW c \in DOMAIN FreeTierSettings
  PROVE  /\ PeriodKey(c) \in PeriodKeysOf(c)
         /\ PeriodKey(c) \in Int /\ PeriodKey(c) >= 0
         /\ \A k \in PeriodKeysOf(c) : k \in Int
<1>1. FirstDay \in Nat /\ LastDay \in Nat /\ day \in FirstDay..LastDay
  BY FreeTierAssumption DEF SelectionTypeOK, FreeTierType
<1>2. FreeTierSettings[c].period \in BudgetPeriod
  BY FreeTierAssumption
<1>3. \A d \in FirstDay..LastDay :
        /\ KeyOfDay(FreeTierSettings[c].period, d) \in Int
        /\ KeyOfDay(FreeTierSettings[c].period, d) >= 0
  <2> SUFFICES ASSUME NEW d \in FirstDay..LastDay
               PROVE  /\ KeyOfDay(FreeTierSettings[c].period, d) \in Int
                      /\ KeyOfDay(FreeTierSettings[c].period, d) >= 0
    OBVIOUS
  <2>1. d \in Nat
    BY <1>1
  <2>2. /\ KeyOfDay(FreeTierSettings[c].period, d) \in Int
        /\ 0 <= KeyOfDay(FreeTierSettings[c].period, d)
    BY <1>2, <2>1, PeriodsAdvance
  <2> QED  BY <2>2
<1> QED  BY <1>1, <1>3 DEF PeriodKey, PeriodKeysOf

LEMMA RolledType ==
  ASSUME SelectionTypeOK, NEW c \in DOMAIN FreeTierSettings
  PROVE  RolledState(c) \in TokenState
<1>1. free_tier_usage[c] \in TokenState
  BY DEF SelectionTypeOK, FreeTierType
<1>2. PeriodKey(c) \in Int
  BY KeysOfPeriods
<1> QED  BY <1>1, <1>2 DEF RolledState, TokenState

LEMMA ResolvedType ==
  ASSUME SelectionTypeOK, NEW prefs \in BOOLEAN, NEW auto \in BOOLEAN, NEW entries \in Seq(Entries),
         ResolveTo(entries, auto, prefs)
  PROVE  SelectionTypeOK'
<1>1. wanted' \in Wanted
  BY DEF SelectionTypeOK, ResolveTo, Wanted
<1>2. \A i \in DOMAIN entries : entries[i] \in Entries
  OBVIOUS
<1>3. CASE \E i \in DOMAIN entries : entries[i] = Malformed
  BY <1>1, <1>3 DEF SelectionTypeOK, ResolveTo, Stages, Untouched, FreeTierType, tier_vars,
     PeriodKeysOf
<1>4. CASE ~\E i \in DOMAIN entries : entries[i] = Malformed
  <2>1. entries \in [1..Len(entries) -> Candidates] /\ Len(entries) \in Nat
    BY <1>2, <1>4 DEF Entries
  <2>2. entries \in Seq(Candidates)
    BY <2>1
  <2> QED  BY <1>1, <1>4, <2>2 DEF SelectionTypeOK, ResolveTo, Stages, Untouched, FreeTierType,
              tier_vars, PeriodKeysOf
<1> QED  BY <1>3, <1>4

(* What the request's model resolves to, is a sequence of entries.         *)
LEMMA ResolveEntries ==
  ASSUME Resolve
  PROVE  \E prefs, auto \in BOOLEAN, entries \in Seq(Entries) : ResolveTo(entries, auto, prefs)
<1>1. \A alias \in DOMAIN Routes : Routes[alias] \in Seq(Entries)
  BY SelectionAssumption
<1>2. ASSUME NEW p, NEW bias
      PROVE  resolve_tier(AutoRoutes, p, bias) \in DOMAIN Routes
  <2>1. Tier(AutoRoutes, p, bias) \in {"simple", "medium", "complex"}
    BY DEF Tier
  <2>2. DOMAIN AutoRoutes.models = {"simple", "medium", "complex"}
    BY SelectionAssumption DEF AutoRoutingConfig
  <2> QED  BY <2>1, <2>2, SelectionAssumption DEF resolve_tier
<1>3. PICK prefs \in BOOLEAN :
        \/ \E model \in Candidates \cup {Malformed} : ResolveTo(<<model>>, FALSE, prefs)
        \/ \E model \in Entries, next \in Entries : ResolveTo(<<model, next>>, FALSE, prefs)
        \/ \E alias \in DOMAIN Routes : ResolveTo(Routes[alias], FALSE, prefs)
        \/ \E p \in Prompts, bias \in {"cost", "quality", Unset} :
             ResolveTo(Routes[resolve_tier(AutoRoutes, p, bias)], TRUE, prefs)
  BY DEF Resolve
<1>4. CASE \E model \in Candidates \cup {Malformed} : ResolveTo(<<model>>, FALSE, prefs)
  <2>1. PICK model \in Entries : ResolveTo(<<model>>, FALSE, prefs)
    BY <1>4 DEF Entries
  <2>2. <<model>> \in Seq(Entries)
    OBVIOUS
  <2> QED  BY <2>1, <2>2
<1>5. CASE \E model \in Entries, next \in Entries : ResolveTo(<<model, next>>, FALSE, prefs)
  <2>1. PICK model \in Entries, next \in Entries : ResolveTo(<<model, next>>, FALSE, prefs)
    BY <1>5
  <2>2. <<model, next>> \in Seq(Entries)
    OBVIOUS
  <2> QED  BY <2>1, <2>2
<1>6. CASE \E alias \in DOMAIN Routes : ResolveTo(Routes[alias], FALSE, prefs)
  BY <1>1, <1>6
<1>7. CASE \E p \in Prompts, bias \in {"cost", "quality", Unset} :
             ResolveTo(Routes[resolve_tier(AutoRoutes, p, bias)], TRUE, prefs)
  BY <1>1, <1>2, <1>7
<1> QED  BY <1>3, <1>4, <1>5, <1>6, <1>7

LEMMA KeptType ==
  ASSUME NEW s \in Seq(Candidates), NEW S
  PROVE  Kept(s, S) \in Seq(Candidates)
<1>1. Arranged(s, {i \in DOMAIN s : s[i] \in S}, Zero) \in Seq(Candidates)
  BY ArrangedType, StaticKeys
<1> QED  BY <1>1 DEF Kept, Zero

LEMMA SortedType ==
  ASSUME NEW s \in Seq(Candidates), NEW key \in SortKeys
  PROVE  SortedBy(s, key) \in Seq(Candidates)
BY ArrangedType DEF SortedBy

LEMMA DeprioritizedType ==
  ASSUME NEW s \in Seq(Candidates), NEW bad
  PROVE  Deprioritized(s, bad) \in Seq(Candidates)
BY SortedType, StaticKeys DEF Deprioritized

LEMMA SortChainType ==
  ASSUME SelectionTypeOK, Sort
  PROVE  chain' \in Seq(Candidates)
<1>1. chain \in Seq(Candidates)
  BY DEF SelectionTypeOK
<1>2. \A mode : StaticSort(mode) \in Seq(Candidates)
  BY <1>1, SortedType, StaticKeys DEF StaticSort
<1>3. \A t \in shuffle_chain(chain) : t \in Seq(Candidates)
  BY <1>1, ShuffleType
<1> QED  BY <1>2, <1>3 DEF Sort

LEMMA BudgetedType ==
  ASSUME NEW cap, NEW strict, SelectionTypeOK
  PROVE  Budgeted(cap, strict) \in Seq(Candidates)
<1>1. chain \in Seq(Candidates)
  BY DEF SelectionTypeOK
<1>2. Kept(chain, {c \in Candidates : Fits(c, cap)}) \in Seq(Candidates)
  BY <1>1, KeptType
<1> QED  BY <1>1, <1>2, SortedType, StaticKeys DEF Budgeted

(* Every action keeps the types.                                          *)
LEMMA SelectionTypeStep ==
  SelectionTypeOK /\ [SelectionNext]_selection_vars => SelectionTypeOK'
<1> SUFFICES ASSUME SelectionTypeOK, [SelectionNext]_selection_vars PROVE SelectionTypeOK'
  OBVIOUS
<1>0. chain \in Seq(Candidates) /\ wanted \in Wanted
  BY DEF SelectionTypeOK
<1>1. CASE Resolve
  BY <1>1, ResolveEntries, ResolvedType
<1>2. CASE Filter
  <2>1. wanted' \in Wanted
    <3>1. PICK only \in ProviderSets \cup {Unset}, ignore \in ProviderSets \cup {Unset},
               zdr \in BOOLEAN, data_collection \in BOOLEAN, max_price \in Bounds \cup {Unset} :
            /\ ignore # Unset => only = Unset
            /\ wanted' = [wanted EXCEPT !.only = only, !.ignore = ignore, !.zdr = zdr,
                            !.data_collection = data_collection, !.max_price = max_price]
      BY <1>2, Zenon DEF Filter
    <3> DEFINE a == [wanted EXCEPT !.only = only]
               b == [a EXCEPT !.ignore = ignore]
               c == [b EXCEPT !.zdr = zdr]
               d == [c EXCEPT !.data_collection = data_collection]
    <3>2. a \in Wanted
      BY <1>0, <3>1 DEF Wanted
    <3> HIDE DEF a
    <3>3. b \in Wanted
      BY <3>1, <3>2 DEF Wanted
    <3> HIDE DEF b
    <3>4. c \in Wanted
      BY <3>1, <3>3 DEF Wanted
    <3> HIDE DEF c
    <3>5. d \in Wanted
      BY <3>1, <3>4 DEF Wanted
    <3>6. wanted' = [d EXCEPT !.max_price = max_price]
      BY <3>1 DEF a, b, c
    <3> HIDE DEF d
    <3> QED  BY <3>1, <3>5, <3>6 DEF Wanted
  <2>2. chain' \in Seq(Candidates)
    BY <1>0, <1>2, KeptType DEF Filter
  <2> QED  BY <1>2, <2>1, <2>2 DEF SelectionTypeOK, Filter, Stages, Untouched, FreeTierType,
              tier_vars, PeriodKeysOf
<1>3. CASE FilterDefault
  BY <1>3 DEF SelectionTypeOK, FilterDefault, Stages, Untouched, FreeTierType, tier_vars,
     PeriodKeysOf
<1>4. CASE Sort
  <2>1. wanted' \in Wanted
    BY <1>0, <1>4 DEF Sort, Wanted
  <2>2. chain' \in Seq(Candidates)
    BY <1>4, SortChainType
  <2>3. stage' \in Stages /\ tail' \in Nat /\ hole' \in Nat
    BY <1>4 DEF SelectionTypeOK, Sort, Stages
  <2>4. stage' = "sorting" => 1 < hole' /\ hole' <= tail' /\ tail' <= Len(chain')
    <3>1. ASSUME stage' = "sorting" PROVE Len(chain) > 1 /\ chain' = chain
      BY <1>4, <3>1 DEF Sort, StaticSort
    <3> QED  BY <1>0, <1>4, <3>1 DEF Sort
  <2> QED  BY <1>4, <2>1, <2>2, <2>3, <2>4 DEF SelectionTypeOK, Sort, Untouched, FreeTierType,
              tier_vars, PeriodKeysOf
<1>5. CASE Compare
  <2>1. hole \in 2..tail /\ tail \in 2..Len(chain) /\ Len(chain) \in Nat
    BY <1>5 DEF SelectionTypeOK, Compare
  <2>2. Swapped \in Seq(Candidates) /\ Len(Swapped) = Len(chain)
    <3>1. Swapped \in [1..Len(chain) -> Candidates]
      BY <1>0, <2>1 DEF Swapped
    <3> QED  BY <2>1, <3>1
  <2>3. chain' \in Seq(Candidates) /\ Len(chain') = Len(chain)
    BY <1>0, <1>5, <2>2 DEF Compare
  <2>4. /\ tail' \in Nat /\ hole' \in Nat /\ 1 < hole' /\ hole' <= tail'
        /\ stage' = IF tail' > Len(chain) THEN "sorted" ELSE "sorting"
    <3> DEFINE moves == Key(chain[hole]) < Key(chain[hole - 1])
    <3>1. \/ hole > 2 /\ hole' = hole - 1 /\ tail' = tail
          \/ tail' = tail + 1 /\ hole' = tail + 1
      BY <1>5 DEF Compare
    <3>2. stage' = IF tail' > Len(chain') THEN "sorted" ELSE "sorting"
      BY <1>5, <2>3 DEF Compare
    <3> QED  BY <2>1, <2>3, <3>1, <3>2
  <2>5. /\ stage' \in Stages
        /\ stage' = "sorting" => 1 < hole' /\ hole' <= tail' /\ tail' <= Len(chain')
    BY <2>1, <2>3, <2>4 DEF Stages
  <2>6. UNCHANGED <<wanted, resolved, unhealthy, ewma, updates, uses, day, free_tier_usage>>
    BY <1>5 DEF Compare, Untouched, tier_vars
  <2> QED  BY <2>3, <2>4, <2>5, <2>6 DEF SelectionTypeOK, FreeTierType, PeriodKeysOf
<1>6. ASSUME NEW table \in {"latency", "uptime"}, NEW c \in Candidates, NEW level \in Levels,
             MoveAverage(table, c, level)
      PROVE  SelectionTypeOK'
  <2>1. level \in Nat
    BY SelectionAssumption
  <2>2. ewma' \in Ewma
    BY <1>6, <2>1 DEF SelectionTypeOK, MoveAverage, Ewma
  <2>3. updates' \in 0..MaxUpdates
    BY <1>6, SelectionAssumption DEF SelectionTypeOK, MoveAverage
  <2> QED  BY <1>6, <2>2, <2>3 DEF SelectionTypeOK, MoveAverage, FreeTierType, tier_vars,
              PeriodKeysOf
<1>7. ASSUME NEW c \in DOMAIN FreeTierSettings, NEW tokens \in TokenCounts, UseFreeTier(c, tokens)
      PROVE  SelectionTypeOK'
  <2>1. tokens \in Nat
    BY SelectionAssumption
  <2>2. free_tier_usage' \in [DOMAIN FreeTierSettings -> TokenState]
    <3>1. [RolledState(c) EXCEPT !.tokens_used = @ + tokens] \in TokenState
      BY <2>1, RolledType DEF TokenState
    <3> QED  BY <1>7, <3>1 DEF SelectionTypeOK, UseFreeTier, RecordTokens, FreeTierType
  <2>3. /\ DOMAIN uses' = DOMAIN FreeTierSettings
        /\ \A d \in DOMAIN uses' : uses'[d] \in [PeriodKeysOf(d) -> Nat]
    <3>1. PeriodKey(c) \in PeriodKeysOf(c) /\ uses[c] \in [PeriodKeysOf(c) -> Nat]
      BY KeysOfPeriods DEF SelectionTypeOK
    <3>2. [uses[c] EXCEPT ![PeriodKey(c)] = @ + tokens] \in [PeriodKeysOf(c) -> Nat]
      BY <2>1, <3>1
    <3>3. uses' = [uses EXCEPT ![c] = [uses[c] EXCEPT ![PeriodKey(c)] = @ + tokens]]
      BY <1>7 DEF UseFreeTier
    <3> QED  BY <3>2, <3>3 DEF SelectionTypeOK
  <2> QED  BY <1>7, <2>2, <2>3 DEF SelectionTypeOK, UseFreeTier, RecordTokens, FreeTierType,
              PeriodKeysOf
<1>8. CASE RenewFreeTiers
  <2>1. day' \in FirstDay..LastDay
    BY <1>8, FreeTierAssumption DEF SelectionTypeOK, RenewFreeTiers, Midnight, FreeTierType
  <2> QED  BY <1>8, <2>1 DEF SelectionTypeOK, RenewFreeTiers, Midnight, FreeTierType, PeriodKeysOf
<1>9. CASE SortByFreeTier
  <2>1. chain' \in Seq(Candidates)
    BY <1>0, <1>9, SortedType, TierKey DEF SortByFreeTier
  <2>2. free_tier_usage' \in [DOMAIN FreeTierSettings -> TokenState]
    BY <1>9, RolledType DEF SortByFreeTier, SnapshotRolls
  <2> QED  BY <1>9, <2>1, <2>2 DEF SelectionTypeOK, SortByFreeTier, Stages, FreeTierType,
              PeriodKeysOf
<1>10. Unhealthy \subseteq Candidates
  BY DEF Unhealthy
<1>11. CASE DefaultOrder
  <2>1. chain' \in Seq(Candidates)
    BY <1>0, <1>11, DeprioritizedType DEF DefaultOrder
  <2> QED  BY <1>10, <1>11, <2>1 DEF SelectionTypeOK, DefaultOrder, Stages, Untouched,
              FreeTierType, tier_vars, PeriodKeysOf
<1>12. CASE Deprioritize
  <2>1. chain' \in Seq(Candidates) /\ unhealthy' \subseteq Candidates
    BY <1>0, <1>10, <1>12, DeprioritizedType DEF Deprioritize, SelectionTypeOK
  <2> QED  BY <1>12, <2>1 DEF SelectionTypeOK, Deprioritize, Stages, Untouched, FreeTierType,
              tier_vars, PeriodKeysOf
<1>13. CASE RequireParameters
  <2>1. wanted' \in Wanted
    BY <1>0, <1>13 DEF RequireParameters, Wanted
  <2>2. chain' \in Seq(Candidates)
    BY <1>0, <1>13, KeptType DEF RequireParameters
  <2> QED  BY <1>13, <2>1, <2>2 DEF SelectionTypeOK, RequireParameters, Stages, Untouched,
              FreeTierType, tier_vars, PeriodKeysOf
<1>14. CASE RequestBudget
  <2>1. wanted' \in Wanted
    BY <1>0, <1>14 DEF RequestBudget, Wanted
  <2>2. chain' \in Seq(Candidates) /\ stage' \in {"done", "request_budget_exceeded"}
    BY <1>0, <1>14, BudgetedType DEF RequestBudget
  <2> QED  BY <1>14, <2>1, <2>2 DEF SelectionTypeOK, RequestBudget, Stages, Untouched,
              FreeTierType, tier_vars, PeriodKeysOf
<1>15. CASE UNCHANGED selection_vars
  BY <1>15 DEF SelectionTypeOK, selection_vars, FreeTierType, tier_vars, PeriodKeysOf
<1> QED  BY <1>1, <1>2, <1>3, <1>4, <1>5, <1>6, <1>7, <1>8, <1>9, <1>11, <1>12, <1>13, <1>14, <1>15
         DEF SelectionNext

-----------------------------------------------------------------------------
(* Fields are read in order.                                               *)

SelectionFields == {"prefs", "auto", "only", "ignore", "zdr", "data_collection", "max_price",
                    "sort", "require", "cap", "strict"}

(* Every action reads the fields it is about, and no other.               *)
LEMMA FieldsStep ==
  SelectionTypeOK /\ FieldsAreReadInOrder /\ [SelectionNext]_selection_vars => FieldsAreReadInOrder'
<1> SUFFICES ASSUME SelectionTypeOK, FieldsAreReadInOrder, [SelectionNext]_selection_vars
             PROVE  FieldsAreReadInOrder'
  OBVIOUS
<1> USE DEF Choosing, Unsorted, Ranked, Mode
<1>0. DOMAIN wanted = SelectionFields
  BY DEF SelectionTypeOK, Wanted, SelectionFields
<1>1. ASSUME NEW prefs \in BOOLEAN, NEW auto \in BOOLEAN, NEW entries \in Seq(Entries),
             ResolveTo(entries, auto, prefs)
      PROVE  FieldsAreReadInOrder'
  BY <1>0, <1>1 DEF FieldsAreReadInOrder, ResolveTo, SelectionFields
<1>2. CASE Resolve
  BY <1>1, <1>2, ResolveEntries
<1>3. CASE Filter
  BY <1>0, <1>3 DEF FieldsAreReadInOrder, Filter, SelectionFields
<1>4. CASE FilterDefault
  BY <1>4 DEF FieldsAreReadInOrder, FilterDefault
<1>5. CASE Sort
  <2>1. PICK mode \in Modes \cup {Unset} : wanted' = [wanted EXCEPT !.sort = mode]
    BY <1>5 DEF Sort
  <2>2. /\ wanted'.sort = mode /\ wanted'.auto = wanted.auto
        /\ wanted'.require = wanted.require /\ wanted'.cap = wanted.cap
    BY <1>0, <2>1 DEF SelectionFields
  <2>3. /\ stage' \in {"sorting", "snapshot", "sorted"}
        /\ stage' = "sorting" => Mode' \in {"latency", "uptime"}
        /\ stage' = "snapshot" => Mode' = "free_tier_remaining"
    BY <1>5 DEF Sort
  <2> QED  BY <1>5, <2>2, <2>3 DEF FieldsAreReadInOrder, Sort
<1>6. CASE Compare
  BY <1>6 DEF FieldsAreReadInOrder, Compare
<1>7. ASSUME NEW table \in {"latency", "uptime"}, NEW c \in Candidates, NEW level \in Levels,
             MoveAverage(table, c, level)
      PROVE  FieldsAreReadInOrder'
  BY <1>7 DEF FieldsAreReadInOrder, MoveAverage
<1>8. ASSUME NEW c \in DOMAIN FreeTierSettings, NEW tokens \in TokenCounts, UseFreeTier(c, tokens)
      PROVE  FieldsAreReadInOrder'
  BY <1>8 DEF FieldsAreReadInOrder, UseFreeTier
<1>9. CASE RenewFreeTiers
  BY <1>9 DEF FieldsAreReadInOrder, RenewFreeTiers
<1>10. CASE SortByFreeTier
  BY <1>10 DEF FieldsAreReadInOrder, SortByFreeTier
<1>11. CASE DefaultOrder
  BY <1>11 DEF FieldsAreReadInOrder, DefaultOrder
<1>12. CASE Deprioritize
  BY <1>12 DEF FieldsAreReadInOrder, Deprioritize
<1>13. CASE RequireParameters
  <2>1. wanted'.cap = wanted.cap
    BY <1>0, <1>13 DEF RequireParameters, SelectionFields
  <2> QED  BY <1>13, <2>1 DEF FieldsAreReadInOrder, RequireParameters
<1>14. CASE RequestBudget
  BY <1>14 DEF FieldsAreReadInOrder, RequestBudget
<1>15. CASE UNCHANGED selection_vars
  BY <1>15 DEF FieldsAreReadInOrder, selection_vars
<1> QED  BY <1>2, <1>3, <1>4, <1>5, <1>6, <1>7, <1>8, <1>9, <1>10, <1>11, <1>12, <1>13, <1>14, <1>15
         DEF SelectionNext

-----------------------------------------------------------------------------
(* What is left of the free tiers.                                         *)

(* Uses, midnights and snapshots keep the state of every free tier        *)
(* current.                                                               *)
LEMMA TiersStep ==
  SelectionTypeOK /\ TiersAreCurrent /\ [SelectionNext]_selection_vars => TiersAreCurrent'
<1> SUFFICES ASSUME SelectionTypeOK, TiersAreCurrent, [SelectionNext]_selection_vars,
                    NEW c \in DOMAIN FreeTierSettings
             PROVE  TierIsCurrent(c)'
  BY DEF TiersAreCurrent
<1>1. SelectionTypeOK'
  BY SelectionTypeStep
<1>2. /\ TierIsCurrent(c) /\ RolledState(c) \in TokenState
      /\ PeriodKey(c) \in PeriodKeysOf(c) /\ PeriodKey(c) \in Int
      /\ free_tier_usage[c] \in TokenState
      /\ \A k \in PeriodKeysOf(c) : k \in Int
  BY KeysOfPeriods, RolledType DEF TiersAreCurrent, SelectionTypeOK, FreeTierType
<1>3. CASE UNCHANGED <<uses, tier_vars>>
  BY <1>2, <1>3 DEF TierIsCurrent, tier_vars, PeriodKey, PeriodKeysOf
<1>4. ASSUME NEW d \in DOMAIN FreeTierSettings, NEW tokens \in TokenCounts, UseFreeTier(d, tokens)
      PROVE  TierIsCurrent(c)'
  <2>1. /\ tokens \in Nat /\ PeriodKey(c)' = PeriodKey(c)
        /\ DOMAIN uses = DOMAIN FreeTierSettings
        /\ free_tier_usage \in [DOMAIN FreeTierSettings -> TokenState]
        /\ uses[c] \in [PeriodKeysOf(c) -> Nat]
    BY <1>4, SelectionAssumption
       DEF SelectionTypeOK, FreeTierType, UseFreeTier, RecordTokens, PeriodKey
  <2>2. CASE d # c
    <3>1. uses'[c] = uses[c] /\ free_tier_usage'[c] = free_tier_usage[c]
      BY <1>4, <2>1, <2>2 DEF UseFreeTier, RecordTokens
    <3> QED  BY <1>2, <2>1, <3>1 DEF TierIsCurrent
  <2>3. CASE d = c
    <3>1. /\ free_tier_usage'[c] = [RolledState(c) EXCEPT !.tokens_used = @ + tokens]
          /\ uses'[c] = [uses[c] EXCEPT ![PeriodKey(c)] = @ + tokens]
      BY <1>4, <2>1, <2>3 DEF UseFreeTier, RecordTokens
    <3>2. /\ RolledState(c).period_key = PeriodKey(c)
          /\ RolledState(c).tokens_used = uses[c][PeriodKey(c)]
      BY <1>2 DEF RolledState, TierIsCurrent, TokenState
    <3>3. /\ free_tier_usage'[c].period_key = PeriodKey(c)
          /\ free_tier_usage'[c].tokens_used = uses[c][PeriodKey(c)] + tokens
      BY <1>2, <3>1, <3>2 DEF TokenState
    <3>4. /\ uses'[c][PeriodKey(c)] = uses[c][PeriodKey(c)] + tokens
          /\ \A k \in PeriodKeysOf(c) : k # PeriodKey(c) => uses'[c][k] = uses[c][k]
      BY <1>2, <2>1, <3>1
    <3>5. \A k \in PeriodKeysOf(c) : k > PeriodKey(c) => uses'[c][k] = 0
      BY <1>2, <3>4 DEF TierIsCurrent, TokenState
    <3> QED  BY <1>2, <2>1, <3>3, <3>4, <3>5 DEF TierIsCurrent
  <2> QED  BY <2>2, <2>3
<1>5. CASE RenewFreeTiers
  <2>1. day \in Nat /\ day' = day + 1 /\ FreeTierSettings[c].period \in BudgetPeriod
    BY <1>5, FreeTierAssumption DEF SelectionTypeOK, FreeTierType, RenewFreeTiers, Midnight
  <2>2. PeriodKey(c) <= PeriodKey(c)'
    BY <2>1, PeriodsAdvance DEF PeriodKey
  <2>3. PeriodKey(c)' \in Int
    BY <2>1, PeriodsAdvance DEF PeriodKey
  <2>4. UNCHANGED <<uses, free_tier_usage>>
    BY <1>5 DEF RenewFreeTiers, Midnight
  <2> QED  BY <1>2, <2>2, <2>3, <2>4 DEF TierIsCurrent, TokenState
<1>6. CASE SortByFreeTier
  <2>1. /\ free_tier_usage'[c] = RolledState(c) /\ uses' = uses /\ PeriodKey(c)' = PeriodKey(c)
    BY <1>6 DEF SortByFreeTier, SnapshotRolls, PeriodKey
  <2>2. /\ RolledState(c).period_key = PeriodKey(c)
        /\ RolledState(c).tokens_used = uses[c][PeriodKey(c)]
    BY <1>2 DEF RolledState, TierIsCurrent, TokenState
  <2>3. \A k \in PeriodKeysOf(c) : k > PeriodKey(c) => uses[c][k] = 0
    BY <1>2 DEF TierIsCurrent, TokenState
  <2> QED  BY <1>2, <2>1, <2>2, <2>3 DEF TierIsCurrent
<1> QED  BY <1>3, <1>4, <1>5, <1>6
         DEF SelectionNext, Resolve, ResolveTo, Filter, FilterDefault, Sort, Compare, MoveAverage,
             DefaultOrder, Deprioritize, RequireParameters, RequestBudget, Untouched, selection_vars

(* What the ranking by free tiers goes by, is what is left of them.        *)
LEMMA LeftIsRemaining ==
  ASSUME SelectionTypeOK, TiersAreCurrent, NEW c \in DOMAIN FreeTierSettings
  PROVE  Left(c) = TokensRemaining(c)
<1>1. /\ TierIsCurrent(c) /\ RolledState(c) \in TokenState
      /\ PeriodKey(c) \in PeriodKeysOf(c) /\ PeriodKey(c) \in Int
      /\ free_tier_usage[c] \in TokenState
  BY KeysOfPeriods, RolledType DEF TiersAreCurrent, SelectionTypeOK, FreeTierType
<1>2. RolledState(c).tokens_used = uses[c][PeriodKey(c)] /\ RolledState(c).tokens_used \in Nat
  BY <1>1 DEF RolledState, TierIsCurrent, TokenState
<1>3. FreeTierSettings[c].monthly_free_tokens \in Nat
  BY FreeTierAssumption
<1>4. \A n \in Int : Max({0, n}) = IF n >= 0 THEN n ELSE 0
  <2> SUFFICES ASSUME NEW n \in Int PROVE Max({0, n}) = IF n >= 0 THEN n ELSE 0
    OBVIOUS
  <2>1. \A m \in {0, n} : (\A y \in {0, n} : m >= y) <=> m = IF n >= 0 THEN n ELSE 0
    OBVIOUS
  <2> QED  BY <2>1 DEF Max
<1> QED  BY <1>2, <1>3, <1>4 DEF Left, TokensRemaining

-----------------------------------------------------------------------------
(* What the filters and the rankings do to a selection.                    *)

(* A chain is a selection of itself, in its own order.                    *)
LEMMA PicksSelf ==
  ASSUME NEW s \in Seq(Candidates)
  PROVE  \E at : Picks(s, s, DOMAIN s, at) /\ LexOrdered(s, s, Zero, Zero, Zero, at)
<1> DEFINE at == [k \in DOMAIN s |-> k]
<1>1. Picks(s, s, DOMAIN s, at)
  BY DEF Picks
<1>2. ASSUME NEW k \in DOMAIN s, NEW l \in DOMAIN s, k < l
      PROVE  Lex(s, Zero, Zero, Zero, at[k], at[l])
  <2>1. k \in Nat /\ l \in Nat /\ s[k] \in Candidates /\ s[l] \in Candidates
    BY PositionsFinite
  <2>2. Zero[s[k]] = 0 /\ Zero[s[l]] = 0
    BY <2>1 DEF Zero
  <2> QED  BY <1>2, <2>1, <2>2 DEF Lex
<1> QED  BY <1>1, <1>2 DEF LexOrdered

(* A filter keeps the order.                                               *)
LEMMA KeptPicks ==
  ASSUME NEW s \in Seq(Candidates), NEW t \in Seq(Candidates),
         NEW S \in SUBSET DOMAIN s, NEW at, Picks(t, s, S, at), NEW E,
         NEW cost, NEW health, NEW rank
  PROVE  LET u == Kept(t, E) IN
         /\ u \in Seq(Candidates)
         /\ \E ct : /\ Picks(u, s, {i \in S : s[i] \in E}, ct)
                    /\ LexOrdered(t, s, cost, health, rank, at) =>
                         LexOrdered(u, s, cost, health, rank, ct)
<1> DEFINE T == {k \in DOMAIN t : t[k] \in E}
           u == Arranged(t, T, Zero)
<1>1. u = Kept(t, E) /\ Zero \in SortKeys
  BY StaticKeys DEF Kept, Zero
<1>2. u \in Seq(Candidates)
  BY <1>1, ArrangedType
<1>3. PICK ct : /\ Picks(u, s, {at[k] : k \in T}, ct)
                /\ LexOrdered(t, s, cost, health, rank, at) =>
                     KeyOrdered(u, s, Zero, cost, health, rank, ct)
  BY <1>1, Rearranged
<1> HIDE DEF u
<1>4. {at[k] : k \in T} = {i \in S : s[i] \in E}
  BY DEF Picks
<1>5. \A k \in DOMAIN u : ct[k] \in DOMAIN s
  BY <1>3, <1>4 DEF Picks
<1>6. \A k \in DOMAIN u : Zero[s[ct[k]]] = 0
  BY <1>5, PositionsFinite DEF Zero
<1>7. LexOrdered(t, s, cost, health, rank, at) => LexOrdered(u, s, cost, health, rank, ct)
  BY <1>3, <1>6 DEF LexOrdered, KeyOrdered
<1> QED  BY <1>1, <1>2, <1>3, <1>4, <1>7

(* A ranking loses and repeats nothing, and keeps the order of what it     *)
(* ranks the same.                                                         *)
LEMMA SortedPicks ==
  ASSUME NEW s \in Seq(Candidates), NEW t \in Seq(Candidates),
         NEW S \in SUBSET DOMAIN s, NEW at, Picks(t, s, S, at), NEW key \in SortKeys,
         NEW cost, NEW health, NEW rank
  PROVE  LET u == SortedBy(t, key) IN
         /\ u \in Seq(Candidates)
         /\ \E ct : /\ Picks(u, s, S, ct)
                    /\ LexOrdered(t, s, cost, health, rank, at) =>
                         KeyOrdered(u, s, key, cost, health, rank, ct)
<1> DEFINE T == DOMAIN t
           u == Arranged(t, T, key)
<1>1. u = SortedBy(t, key)
  BY DEF SortedBy
<1>2. {at[k] : k \in T} = S
  BY PicksAll
<1>3. u \in Seq(Candidates)
  BY ArrangedType
<1>4. PICK ct : /\ Picks(u, s, {at[k] : k \in T}, ct)
                /\ LexOrdered(t, s, cost, health, rank, at) =>
                     KeyOrdered(u, s, key, cost, health, rank, ct)
  BY Rearranged
<1> HIDE DEF u, T
<1> QED  BY <1>1, <1>2, <1>3, <1>4

(* A ranking of an unordered selection; the same of one that is ranked,   *)
(* by health; and of one ordered by both, by cost.                        *)
LEMMA SortedByRank ==
  ASSUME NEW s \in Seq(Candidates), NEW t \in Seq(Candidates),
         NEW S \in SUBSET DOMAIN s, NEW at, Picks(t, s, S, at), NEW key \in SortKeys,
         LexOrdered(t, s, Zero, Zero, Zero, at)
  PROVE  \E ct : /\ Picks(SortedBy(t, key), s, S, ct)
                 /\ LexOrdered(SortedBy(t, key), s, Zero, Zero, key, ct)
<1> DEFINE u == SortedBy(t, key)
<1>1. PICK ct : /\ Picks(u, s, S, ct)
                /\ KeyOrdered(u, s, key, Zero, Zero, Zero, ct)
  BY SortedPicks
<1> HIDE DEF u
<1>2. \A k \in DOMAIN u : ct[k] \in DOMAIN s /\ s[ct[k]] \in Candidates
  BY <1>1, PositionsFinite DEF Picks
<1>3. \A k \in DOMAIN u : Zero[s[ct[k]]] = 0
  BY <1>2 DEF Zero
<1>4. LexOrdered(u, s, Zero, Zero, key, ct)
  BY <1>1, <1>3 DEF LexOrdered, KeyOrdered, Lex
<1> QED  BY <1>1, <1>4 DEF u

LEMMA SortedByHealth ==
  ASSUME NEW s \in Seq(Candidates), NEW t \in Seq(Candidates),
         NEW S \in SUBSET DOMAIN s, NEW at, Picks(t, s, S, at), NEW key \in SortKeys, NEW rank
  PROVE  \E ct : /\ Picks(SortedBy(t, key), s, S, ct)
                 /\ LexOrdered(t, s, Zero, Zero, rank, at) =>
                      LexOrdered(SortedBy(t, key), s, Zero, key, rank, ct)
<1> DEFINE u == SortedBy(t, key)
<1>1. PICK ct : /\ Picks(u, s, S, ct)
                /\ LexOrdered(t, s, Zero, Zero, rank, at) =>
                     KeyOrdered(u, s, key, Zero, Zero, rank, ct)
  BY SortedPicks
<1> HIDE DEF u
<1>2. \A k \in DOMAIN u : ct[k] \in DOMAIN s /\ s[ct[k]] \in Candidates
  BY <1>1, PositionsFinite DEF Picks
<1>3. \A k \in DOMAIN u : Zero[s[ct[k]]] = 0
  BY <1>2 DEF Zero
<1>4. ASSUME LexOrdered(t, s, Zero, Zero, rank, at) PROVE LexOrdered(u, s, Zero, key, rank, ct)
  BY <1>1, <1>3, <1>4 DEF LexOrdered, KeyOrdered, Lex
<1> QED  BY <1>1, <1>4 DEF u

LEMMA SortedByCost ==
  ASSUME NEW s \in Seq(Candidates), NEW t \in Seq(Candidates),
         NEW S \in SUBSET DOMAIN s, NEW at, Picks(t, s, S, at), NEW key \in SortKeys,
         NEW health, NEW rank
  PROVE  \E ct : /\ Picks(SortedBy(t, key), s, S, ct)
                 /\ LexOrdered(t, s, Zero, health, rank, at) =>
                      LexOrdered(SortedBy(t, key), s, key, health, rank, ct)
<1> DEFINE u == SortedBy(t, key)
<1>1. PICK ct : /\ Picks(u, s, S, ct)
                /\ LexOrdered(t, s, Zero, health, rank, at) =>
                     KeyOrdered(u, s, key, Zero, health, rank, ct)
  BY SortedPicks
<1> HIDE DEF u
<1>2. \A k \in DOMAIN u : ct[k] \in DOMAIN s /\ s[ct[k]] \in Candidates
  BY <1>1, PositionsFinite DEF Picks
<1>3. \A k \in DOMAIN u : Zero[s[ct[k]]] = 0
  BY <1>2 DEF Zero
<1>4. ASSUME LexOrdered(t, s, Zero, health, rank, at) PROVE LexOrdered(u, s, key, health, rank, ct)
  BY <1>1, <1>3, <1>4 DEF LexOrdered, KeyOrdered, Lex
<1> QED  BY <1>1, <1>4 DEF u

(* Two neighbours change places.                                           *)
LEMMA SwappedPicks ==
  ASSUME SelectionTypeOK, stage = "sorting", NEW S, NEW at, Picks(chain, resolved, S, at)
  PROVE  \E bt : Picks(Swapped, resolved, S, bt)
<1> DEFINE p == [i \in DOMAIN chain |->
                   IF i = hole THEN hole - 1 ELSE IF i = hole - 1 THEN hole ELSE i]
<1>1. /\ hole \in Nat /\ 1 < hole /\ hole <= Len(chain) /\ Len(chain) \in Nat
      /\ chain \in Seq(Candidates) /\ resolved \in Seq(Candidates)
      /\ DOMAIN chain = 1..Len(chain)
  BY DEF SelectionTypeOK
<1>2. ASSUME NEW i \in DOMAIN chain PROVE p[i] \in DOMAIN chain
  BY <1>1
<1>3. ASSUME NEW i \in DOMAIN chain, NEW j \in DOMAIN chain, p[i] = p[j] PROVE i = j
  BY <1>1, <1>3
<1>4. DOMAIN Swapped = DOMAIN chain /\ \A i \in DOMAIN chain : Swapped[i] = chain[p[i]]
  BY <1>1 DEF Swapped
<1>5. p \in [DOMAIN chain -> DOMAIN chain]
  BY <1>2
<1> HIDE DEF p
<1> QED  BY <1>1, <1>3, <1>4, <1>5, PicksPermuted

-----------------------------------------------------------------------------
(* The chain stays what is eligible, in its order.                         *)

Choice == Chosen /\ FailsForWant

(* What it takes to show that the next chain is chosen.                   *)
LEMMA ChosenNext ==
  ASSUME SelectionTypeOK', NEW at, Picks(chain', resolved', EligibleAt', at),
         stage' \in Unsorted => LexOrdered(chain', resolved', Zero, Zero, Zero, at),
         stage' \in Ranked /\ Mode' \in RankedModes =>
           LexOrdered(chain', resolved', CostKey', HealthKey', RankKey', at)
  PROVE  Chosen'
<1>1. at \in [DOMAIN chain' -> DOMAIN resolved']
  <2>1. at \in [DOMAIN chain' -> EligibleAt']
    BY DEF Picks
  <2>2. EligibleAt' \subseteq DOMAIN resolved'
    BY DEF EligibleAt
  <2> QED  BY <2>1, <2>2
<1>2. ChosenBy(at)'
  BY DEF ChosenBy
<1> QED  BY <1>1, <1>2 DEF Chosen

(* An empty chain has nothing to choose from.                              *)
LEMMA EmptyChain ==
  ASSUME SelectionTypeOK, NEW S \in SUBSET DOMAIN resolved, NEW at, Picks(chain, resolved, S, at)
  PROVE  chain = <<>> <=> S = {}
BY PicksHolds DEF SelectionTypeOK

(* Keys of what is unset are zero, and keys depend on little.              *)
LEMMA KeyFacts ==
  /\ wanted.cap = Unset => CostKey = Zero
  /\ unhealthy = {} => HealthKey = Zero
  /\ Mode \notin {"price", "quality", "free_tier_remaining"} => RankKey = Zero
  /\ Mode = "price" => RankKey = [c \in Candidates |-> Ascending(Price[c])]
  /\ Mode = "quality" => RankKey = [c \in Candidates |-> Descending(Quality[c])]
BY DEF CostKey, HealthKey, RankKey, Rank, Zero

(* Keys change only with what they are read from.                         *)
LEMMA RankSame ==
  ASSUME Mode' = Mode, UNCHANGED <<uses, day>>
  PROVE  RankKey' = RankKey
BY DEF RankKey, Rank, Left, PeriodKey

LEMMA EligibleSame ==
  ASSUME UNCHANGED <<wanted, resolved>>
  PROVE  /\ EligibleAt' = EligibleAt /\ CostKey' = CostKey /\ Mode' = Mode
         /\ \A c : Eligible(c)' = Eligible(c)
BY DEF EligibleAt, Eligible, CostKey, Mode

LEMMA HealthSame ==
  ASSUME UNCHANGED unhealthy
  PROVE  HealthKey' = HealthKey
BY DEF HealthKey

(* The eligible positions are positions of the resolved chain.            *)
LEMMA EligiblePositions == EligibleAt \in SUBSET DOMAIN resolved
BY DEF EligibleAt

(* A step that does not touch the selection.                               *)
LEMMA UntouchedChoice ==
  ASSUME SelectionTypeOK', Choice, UNCHANGED <<stage, wanted, resolved, chain, unhealthy>>,
         stage \in Ranked => UNCHANGED <<uses, day>>
  PROVE  Choice'
<1>1. /\ EligibleAt' = EligibleAt /\ CostKey' = CostKey /\ Mode' = Mode
      /\ HealthKey' = HealthKey /\ \A c : Eligible(c)' = Eligible(c)
  BY EligibleSame, HealthSame
<1>2. stage \in Ranked => RankKey' = RankKey
  BY <1>1, RankSame
<1>3. FailsForWant'
  BY <1>1 DEF Choice, FailsForWant
<1>4. CASE stage \in Choosing
  <2>1. PICK at : ChosenBy(at)
    BY <1>4 DEF Choice, Chosen
  <2>2. Chosen'
    BY <1>1, <1>2, <2>1, ChosenNext DEF ChosenBy
  <2> QED  BY <1>3, <2>2 DEF Choice
<1>5. CASE stage \notin Choosing
  BY <1>3, <1>5 DEF Choice, Chosen
<1> QED  BY <1>4, <1>5

(* Stage by stage: how each handler's chain is chosen, given the one      *)
(* before.                                                                *)
LEMMA ResolveChoice ==
  ASSUME Resolve
  PROVE  Choice'
<1>1. stage' \in {"invalid_model", "resolved"}
  BY DEF Resolve, ResolveTo
<1> QED  BY <1>1 DEF Choice, Chosen, FailsForWant, Choosing, Unsorted, Ranked

LEMMA FilterChoice ==
  ASSUME SelectionTypeOK, SelectionTypeOK', FieldsAreReadInOrder, Filter
  PROVE  Choice'
<1> DEFINE E == {c \in Candidates : Allows(wanted', c)}
           S == {i \in DOMAIN resolved : resolved[i] \in E}
<1>1. /\ stage = "resolved" /\ chain = resolved /\ resolved \in Seq(Candidates)
      /\ resolved' = resolved /\ chain' = Kept(resolved, E)
      /\ wanted'.prefs /\ wanted'.require = Unset /\ wanted'.cap = Unset
      /\ stage' = IF chain' = <<>> THEN "no_eligible_provider" ELSE "filtered"
  <2>1. DOMAIN wanted = SelectionFields
    BY DEF SelectionTypeOK, Wanted, SelectionFields
  <2> QED  BY <2>1 DEF SelectionTypeOK, FieldsAreReadInOrder, Filter, SelectionFields
<1>2. /\ EligibleAt' = S
      /\ \A i \in DOMAIN resolved : Eligible(resolved[i])' <=> i \in S
  <2>1. \A i \in DOMAIN resolved : resolved[i] \in Candidates
    BY <1>1
  <2> QED  BY <1>1, <2>1 DEF EligibleAt, Eligible
<1>3. PICK at : Picks(resolved, resolved, DOMAIN resolved, at)
                  /\ LexOrdered(resolved, resolved, Zero, Zero, Zero, at)
  BY <1>1, PicksSelf
<1> HIDE DEF E
<1>4. PICK ct : Picks(chain', resolved, S, ct)
                  /\ LexOrdered(chain', resolved, Zero, Zero, Zero, ct)
  BY <1>1, <1>3, KeptPicks
<1> HIDE DEF S
<1>5. CASE chain' = <<>>
  <2>1. EligibleAt' = {}
    BY <1>1, <1>2, <1>4, <1>5, PicksHolds DEF SelectionTypeOK, EligibleAt
  <2> QED  BY <1>1, <1>2, <1>5, <2>1
           DEF Choice, Chosen, FailsForWant, Choosing, Unsorted, Ranked
<1>6. CASE chain' # <<>>
  <2>1. stage' = "filtered"
    BY <1>1, <1>6
  <2>2. Chosen'
    BY <1>1, <1>2, <1>4, <2>1, ChosenNext DEF Ranked
  <2> QED  BY <1>6, <2>1, <2>2 DEF Choice, FailsForWant
<1> QED  BY <1>5, <1>6

LEMMA FilterDefaultChoice ==
  ASSUME SelectionTypeOK, SelectionTypeOK', FieldsAreReadInOrder, FilterDefault
  PROVE  Choice'
<1>1. /\ stage = "resolved" /\ chain = resolved /\ resolved \in Seq(Candidates)
      /\ UNCHANGED <<wanted, resolved, chain>>
      /\ ~wanted.prefs /\ wanted.require = Unset /\ wanted.cap = Unset
      /\ stage' = IF chain = <<>> THEN "no_eligible_provider" ELSE "filtered"
  BY DEF SelectionTypeOK, FieldsAreReadInOrder, FilterDefault
<1>2. EligibleAt' = DOMAIN resolved
  BY <1>1 DEF EligibleAt, Eligible
<1>3. PICK at : Picks(resolved, resolved, DOMAIN resolved, at)
                  /\ LexOrdered(resolved, resolved, Zero, Zero, Zero, at)
  BY <1>1, PicksSelf
<1>4. CASE chain = <<>>
  BY <1>1, <1>4 DEF Choice, Chosen, FailsForWant, Choosing, Unsorted, Ranked
<1>5. CASE chain # <<>>
  <2>1. stage' = "filtered"
    BY <1>1, <1>5
  <2>2. Chosen'
    BY <1>1, <1>2, <1>3, <2>1, ChosenNext DEF Ranked
  <2> QED  BY <1>1, <1>5, <2>1, <2>2 DEF Choice, FailsForWant
<1> QED  BY <1>4, <1>5

LEMMA DefaultOrderChoice ==
  ASSUME SelectionTypeOK, SelectionTypeOK', FieldsAreReadInOrder, DefaultOrder
  PROVE  Choice'
<1>1. /\ stage = "resolved" /\ chain = resolved /\ resolved \in Seq(Candidates)
      /\ UNCHANGED <<wanted, resolved>> /\ stage' = "done"
      /\ ~wanted.prefs /\ wanted.require = Unset /\ wanted.cap = Unset
      /\ Mode = Unset /\ unhealthy' = Unhealthy /\ chain' = Deprioritized(resolved, Unhealthy)
  BY DEF SelectionTypeOK, FieldsAreReadInOrder, DefaultOrder, Mode
<1>2. EligibleAt' = DOMAIN resolved
  BY <1>1 DEF EligibleAt, Eligible
<1>3. PICK at : Picks(resolved, resolved, DOMAIN resolved, at)
                  /\ LexOrdered(resolved, resolved, Zero, Zero, Zero, at)
  BY <1>1, PicksSelf
<1>4. chain' = SortedBy(resolved, HealthKey') /\ HealthKey' \in SortKeys
  BY <1>1, StaticKeys DEF Deprioritized, HealthKey
<1>5. PICK ct : Picks(chain', resolved, DOMAIN resolved, ct)
                  /\ LexOrdered(chain', resolved, Zero, HealthKey', Zero, ct)
  BY <1>1, <1>3, <1>4, SortedByHealth
<1>6. CostKey' = Zero /\ RankKey' = Zero
  <2>1. Mode' = Mode
    BY <1>1, EligibleSame
  <2>2. Mode' \notin {"price", "quality", "free_tier_remaining"}
    BY <1>1, <2>1, SelectionAssumption DEF Modes
  <2> QED  BY <1>1, <2>2 DEF CostKey, RankKey, Rank, Zero
<1>7. Chosen'
  BY <1>1, <1>2, <1>5, <1>6, ChosenNext DEF Unsorted
<1>8. chain' = <<>> => resolved = <<>>
  <2>1. chain' \in Seq(Candidates)
    BY DEF SelectionTypeOK
  <2>2. chain' = <<>> => DOMAIN resolved = {}
    BY <1>1, <1>5, <2>1, PicksHolds
  <2> QED  BY <1>1, <2>2
<1> QED  BY <1>1, <1>7, <1>8 DEF Choice, FailsForWant

LEMMA SortChoice ==
  ASSUME SelectionTypeOK, SelectionTypeOK', FieldsAreReadInOrder, Choice, Sort
  PROVE  Choice'
<1>1. PICK mode \in Modes \cup {Unset} : wanted' = [wanted EXCEPT !.sort = mode]
  BY DEF Sort
<1>2. /\ stage = "filtered" /\ wanted.cap = Unset /\ unhealthy = {}
      /\ UNCHANGED <<resolved, unhealthy, uses, day>>
      /\ stage' \in {"sorting", "snapshot", "sorted"}
      /\ chain' \in IF Mode' = "random" THEN shuffle_chain(chain) ELSE {StaticSort(Mode')}
      /\ chain \in Seq(Candidates) /\ chain' \in Seq(Candidates) /\ resolved \in Seq(Candidates)
  BY DEF Sort, FieldsAreReadInOrder, Unsorted, Choosing, Ranked, SelectionTypeOK, Untouched,
         tier_vars
<1>3. EligibleAt' = EligibleAt /\ wanted'.cap = Unset
  <2>1. DOMAIN wanted = SelectionFields
    BY DEF SelectionTypeOK, Wanted, SelectionFields
  <2>2. /\ wanted'.prefs = wanted.prefs /\ wanted'.only = wanted.only
        /\ wanted'.ignore = wanted.ignore /\ wanted'.zdr = wanted.zdr
        /\ wanted'.data_collection = wanted.data_collection
        /\ wanted'.max_price = wanted.max_price /\ wanted'.require = wanted.require
        /\ wanted'.cap = wanted.cap /\ wanted'.strict = wanted.strict
    BY <1>1, <2>1 DEF SelectionFields
  <2>3. \A c : Eligible(c)' = Eligible(c)
    BY <2>2 DEF Eligible, Allows
  <2> QED  BY <1>2, <2>2, <2>3 DEF EligibleAt
<1>4. CostKey' = Zero /\ HealthKey' = Zero
  BY <1>2, <1>3 DEF CostKey, HealthKey, Zero
<1>5. PICK at : Picks(chain, resolved, EligibleAt, at)
                  /\ LexOrdered(chain, resolved, Zero, Zero, Zero, at)
  BY <1>2 DEF Choice, Chosen, ChosenBy, Choosing, Unsorted
<1>6. EligibleAt \in SUBSET DOMAIN resolved
  BY EligiblePositions
<1>7. \E ct : /\ Picks(chain', resolved, EligibleAt, ct)
              /\ stage' \in Unsorted => LexOrdered(chain', resolved, Zero, Zero, Zero, ct)
              /\ stage' \in Ranked /\ Mode' \in RankedModes =>
                   LexOrdered(chain', resolved, Zero, Zero, RankKey', ct)
  <2>1. CASE Mode' = "random"
    <3>1. PICK p \in [DOMAIN chain -> DOMAIN chain] :
            /\ \A i, j \in DOMAIN chain : p[i] = p[j] => i = j
            /\ chain' = [i \in DOMAIN chain |-> chain[p[i]]]
      BY <1>2, <2>1 DEF shuffle_chain
    <3>2. DOMAIN chain' = DOMAIN chain /\ \A i \in DOMAIN chain : chain'[i] = chain[p[i]]
      BY <3>1
    <3>3. \E ct : Picks(chain', resolved, EligibleAt, ct)
      BY <1>2, <1>5, <3>1, <3>2, PicksPermuted
    <3>4. stage' = "sorted" /\ Mode' \notin RankedModes
      BY <2>1, SelectionAssumption DEF Sort, RankedModes, Modes
    <3> QED  BY <3>3, <3>4 DEF Unsorted
  <2>2. CASE Mode' = "price"
    <3>1. chain' = SortedBy(chain, [c \in Candidates |-> Ascending(Price[c])])
      BY <1>2, <2>2 DEF StaticSort
    <3>2. RankKey' = [c \in Candidates |-> Ascending(Price[c])]
      BY <2>2 DEF RankKey, Rank
    <3>3. stage' = "sorted"
      BY <2>2 DEF Sort
    <3>4. RankKey' \in SortKeys
      BY <3>2, StaticKeys
    <3>5. chain' = SortedBy(chain, RankKey')
      BY <3>1, <3>2
    <3>6. \E ct : /\ Picks(chain', resolved, EligibleAt, ct)
                  /\ LexOrdered(chain', resolved, Zero, Zero, RankKey', ct)
      BY <1>2, <1>5, <1>6, <3>4, <3>5, SortedByRank
    <3> QED  BY <3>3, <3>6 DEF Unsorted
  <2>3. CASE Mode' = "quality"
    <3>1. chain' = SortedBy(chain, [c \in Candidates |-> Descending(Quality[c])])
      BY <1>2, <2>3 DEF StaticSort
    <3>2. RankKey' = [c \in Candidates |-> Descending(Quality[c])]
      BY <2>3 DEF RankKey, Rank
    <3>3. stage' = "sorted"
      BY <2>3 DEF Sort
    <3>4. RankKey' \in SortKeys
      BY <3>2, StaticKeys
    <3>5. chain' = SortedBy(chain, RankKey')
      BY <3>1, <3>2
    <3>6. \E ct : /\ Picks(chain', resolved, EligibleAt, ct)
                  /\ LexOrdered(chain', resolved, Zero, Zero, RankKey', ct)
      BY <1>2, <1>5, <1>6, <3>4, <3>5, SortedByRank
    <3> QED  BY <3>3, <3>6 DEF Unsorted
  <2>4. CASE Mode' \notin {"random", "price", "quality"}
    <3>1. chain' = chain
      BY <1>2, <2>4 DEF StaticSort
    <3>2. ASSUME Mode' \in RankedModes, stage' \in Ranked PROVE RankKey' = Zero
      <4>1. Mode' # "free_tier_remaining"
        BY <3>2 DEF Sort, Ranked
      <4> QED  BY <2>4, <4>1 DEF RankKey, Rank, Zero
    <3> QED  BY <1>5, <3>1, <3>2
  <2> QED  BY <2>1, <2>2, <2>3, <2>4
<1>8. Chosen'
  BY <1>2, <1>3, <1>4, <1>7, ChosenNext
<1>9. chain' = <<>> => resolved = <<>>
  <2>1. chain' = <<>> => chain = <<>>
    <3>1. \A t \in Seq(Candidates) : \A ct :
            Picks(t, resolved, EligibleAt, ct) => (t = <<>> <=> EligibleAt = {})
      BY <1>2, PicksHolds, Zenon
    <3> QED  BY <1>2, <1>5, <1>7, <3>1, Zenon
  <2>2. chain = <<>> => resolved = <<>>
    BY <1>2 DEF Choice, FailsForWant, Choosing, Unsorted
  <2> QED  BY <2>1, <2>2
<1> QED  BY <1>2, <1>8, <1>9 DEF Choice, FailsForWant

LEMMA CompareChoice ==
  ASSUME SelectionTypeOK, SelectionTypeOK', FieldsAreReadInOrder, Choice, Compare
  PROVE  Choice'
<1>1. /\ stage = "sorting" /\ stage' \in {"sorting", "sorted"}
      /\ UNCHANGED <<wanted, resolved>> /\ chain' \in {chain, Swapped}
      /\ chain \in Seq(Candidates) /\ chain' \in Seq(Candidates) /\ resolved \in Seq(Candidates)
  BY DEF Compare, SelectionTypeOK
<1>2. Mode \in {"latency", "uptime"} /\ EligibleAt' = EligibleAt /\ Mode' = Mode
  BY <1>1, EligibleSame DEF FieldsAreReadInOrder
<1>3. PICK at : Picks(chain, resolved, EligibleAt, at)
  BY <1>1 DEF Choice, Chosen, ChosenBy, Choosing
<1>4. \E ct : Picks(chain', resolved, EligibleAt, ct)
  BY <1>1, <1>3, SwappedPicks
<1>5. stage' \notin Unsorted /\ Mode' \notin RankedModes
  BY <1>1, <1>2, SelectionAssumption DEF Unsorted, RankedModes, Modes
<1>6. Chosen'
  BY <1>1, <1>2, <1>4, <1>5, ChosenNext
<1>7. chain' = <<>> => resolved = <<>>
  <2>1. chain' = <<>> => chain = <<>>
    BY <1>1, <1>3, <1>4, EligiblePositions, PicksHolds
  <2>2. chain = <<>> => resolved = <<>>
    BY <1>1 DEF Choice, FailsForWant, Choosing
  <2> QED  BY <2>1, <2>2
<1> QED  BY <1>1, <1>6, <1>7 DEF Choice, FailsForWant

LEMMA SortByFreeTierChoice ==
  ASSUME SelectionTypeOK, SelectionTypeOK', FieldsAreReadInOrder, TiersAreCurrent, Choice,
         SortByFreeTier
  PROVE  Choice'
<1> DEFINE key == [c \in Candidates |-> Descending(TierRemaining(c))]
<1>1. /\ stage = "snapshot" /\ stage' = "sorted"
      /\ wanted.cap = Unset /\ unhealthy = {} /\ Mode = "free_tier_remaining"
      /\ UNCHANGED <<wanted, resolved, unhealthy, uses, day>> /\ chain' = SortedBy(chain, key)
      /\ chain \in Seq(Candidates) /\ chain' \in Seq(Candidates) /\ resolved \in Seq(Candidates)
  BY DEF SortByFreeTier, SelectionTypeOK, FieldsAreReadInOrder, Unsorted, Choosing, Ranked
<1>2. /\ EligibleAt' = EligibleAt /\ CostKey' = Zero /\ HealthKey' = Zero /\ Mode' = Mode
  BY <1>1, EligibleSame, KeyFacts, HealthSame
<1>3. RankKey' = key
  <2>1. RankKey' = RankKey
    BY <1>1, <1>2, RankSame
  <2>2. \A c : Rank(c) = Descending(IF c \in DOMAIN FreeTierSettings THEN Left(c) ELSE Unset)
    BY <1>1 DEF Rank
  <2>3. \A c : Rank(c) = Descending(TierRemaining(c))
    BY <2>2, LeftIsRemaining DEF TierRemaining
  <2> QED  BY <2>1, <2>3 DEF RankKey
<1>4. key \in SortKeys
  BY TierKey
<1>5. PICK at : Picks(chain, resolved, EligibleAt, at)
                  /\ LexOrdered(chain, resolved, Zero, Zero, Zero, at)
  BY <1>1 DEF Choice, Chosen, ChosenBy, Choosing, Unsorted
<1> HIDE DEF key
<1>6. PICK ct : Picks(chain', resolved, EligibleAt, ct)
                  /\ LexOrdered(chain', resolved, Zero, Zero, RankKey', ct)
  BY <1>1, <1>3, <1>4, <1>5, EligiblePositions, SortedByRank
<1>7. Chosen'
  BY <1>1, <1>2, <1>6, ChosenNext DEF Unsorted
<1>8. chain' = <<>> => resolved = <<>>
  <2>1. chain' = <<>> => chain = <<>>
    BY <1>1, <1>5, <1>6, EligiblePositions, PicksHolds
  <2>2. chain = <<>> => resolved = <<>>
    BY <1>1 DEF Choice, FailsForWant, Choosing, Unsorted
  <2> QED  BY <2>1, <2>2
<1> QED  BY <1>1, <1>7, <1>8 DEF Choice, FailsForWant

LEMMA DeprioritizeChoice ==
  ASSUME SelectionTypeOK, SelectionTypeOK', FieldsAreReadInOrder, Choice, Deprioritize
  PROVE  Choice'
<1>1. /\ stage = "sorted" /\ stage' \in {"ranked", "done"}
      /\ wanted.cap = Unset /\ unhealthy = {}
      /\ UNCHANGED <<wanted, resolved, uses, day>>
      /\ chain \in Seq(Candidates) /\ chain' \in Seq(Candidates) /\ resolved \in Seq(Candidates)
  BY DEF Deprioritize, SelectionTypeOK, FieldsAreReadInOrder, Choosing, Ranked, Untouched, tier_vars
<1>2. /\ EligibleAt' = EligibleAt /\ CostKey = Zero /\ CostKey' = Zero /\ HealthKey = Zero
      /\ Mode' = Mode /\ RankKey' = RankKey
  <2>1. CostKey = Zero /\ HealthKey = Zero
    BY <1>1, KeyFacts
  <2>2. EligibleAt' = EligibleAt /\ CostKey' = CostKey /\ Mode' = Mode
    BY <1>1, EligibleSame
  <2> QED  BY <1>1, <2>1, <2>2, RankSame
<1>3. PICK at : /\ Picks(chain, resolved, EligibleAt, at)
                /\ Mode \in RankedModes =>
                     LexOrdered(chain, resolved, Zero, Zero, RankKey, at)
  BY <1>1, <1>2 DEF Choice, Chosen, ChosenBy, Choosing, Ranked
<1>4. \E ct : /\ Picks(chain', resolved, EligibleAt, ct)
              /\ Mode \in RankedModes =>
                   LexOrdered(chain', resolved, Zero, HealthKey', RankKey, ct)
  <2>1. CASE Mode = "uptime"
    <3>1. chain' = chain /\ Mode \notin RankedModes
      BY <2>1, SelectionAssumption DEF Deprioritize, RankedModes, Modes
    <3> QED  BY <1>3, <3>1
  <2>2. CASE Mode # "uptime"
    <3>1. chain' = SortedBy(chain, HealthKey') /\ HealthKey' \in SortKeys
      BY <2>2, StaticKeys DEF Deprioritize, Deprioritized, HealthKey
    <3>2. \E ct : /\ Picks(chain', resolved, EligibleAt, ct)
                  /\ LexOrdered(chain, resolved, Zero, Zero, RankKey, at) =>
                       LexOrdered(chain', resolved, Zero, HealthKey', RankKey, ct)
      BY <1>1, <1>3, <3>1, EligiblePositions, SortedByHealth
    <3> QED  BY <1>3, <3>2
  <2> QED  BY <2>1, <2>2
<1>5. Chosen'
  BY <1>1, <1>2, <1>4, ChosenNext DEF Unsorted
<1>6. chain' = <<>> => resolved = <<>>
  <2>1. chain' = <<>> => chain = <<>>
    BY <1>1, <1>3, <1>4, EligiblePositions, PicksHolds
  <2>2. chain = <<>> => resolved = <<>>
    BY <1>1 DEF Choice, FailsForWant, Choosing, Ranked
  <2> QED  BY <2>1, <2>2
<1> QED  BY <1>1, <1>5, <1>6 DEF Choice, FailsForWant

LEMMA RequireChoice ==
  ASSUME SelectionTypeOK, SelectionTypeOK', FieldsAreReadInOrder, Choice, RequireParameters
  PROVE  Choice'
<1>1. PICK active \in (SUBSET Params) \cup {Unset} :
        /\ wanted' = [wanted EXCEPT !.require = active]
        /\ chain' = IF active = Unset THEN chain
                    ELSE Kept(chain, {c \in Candidates : Honours(c, active)})
  BY DEF RequireParameters
<1> DEFINE H == {c \in Candidates : active = Unset \/ Honours(c, active)}
           S == {i \in EligibleAt : resolved[i] \in H}
<1>2. /\ stage = "ranked" /\ UNCHANGED <<resolved, unhealthy, uses, day>>
      /\ wanted.require = Unset /\ wanted.cap = Unset
      /\ chain \in Seq(Candidates) /\ chain' \in Seq(Candidates) /\ resolved \in Seq(Candidates)
      /\ \A i \in DOMAIN resolved : resolved[i] \in Candidates
  BY DEF RequireParameters, SelectionTypeOK, FieldsAreReadInOrder, Choosing, Ranked, Untouched,
         tier_vars
<1>3. /\ wanted'.prefs = wanted.prefs /\ wanted'.only = wanted.only
      /\ wanted'.ignore = wanted.ignore /\ wanted'.zdr = wanted.zdr
      /\ wanted'.data_collection = wanted.data_collection
      /\ wanted'.max_price = wanted.max_price /\ wanted'.require = active
      /\ wanted'.cap = wanted.cap /\ wanted'.strict = wanted.strict
      /\ wanted'.sort = wanted.sort /\ wanted'.auto = wanted.auto
  <2>1. DOMAIN wanted = SelectionFields
    BY DEF SelectionTypeOK, Wanted, SelectionFields
  <2> QED  BY <1>1, <2>1 DEF SelectionFields
<1>4. \A c \in Candidates : Eligible(c)' <=> Eligible(c) /\ c \in H
  BY <1>2, <1>3 DEF Eligible, Allows
<1>5. EligibleAt' = S
  BY <1>2, <1>4 DEF EligibleAt
<1>6. CostKey' = CostKey /\ HealthKey' = HealthKey /\ RankKey' = RankKey /\ Mode' = Mode
  <2>1. Mode' = Mode
    BY <1>3 DEF Mode
  <2>2. CostKey' = CostKey
    BY <1>3 DEF CostKey
  <2> QED  BY <1>2, <2>1, <2>2, HealthSame, RankSame
<1>7. PICK at : /\ Picks(chain, resolved, EligibleAt, at)
                /\ Mode \in RankedModes =>
                     LexOrdered(chain, resolved, CostKey, HealthKey, RankKey, at)
  BY <1>2 DEF Choice, Chosen, ChosenBy, Choosing, Ranked
<1>8. PICK ct : /\ Picks(chain', resolved, S, ct)
                /\ Mode \in RankedModes =>
                     LexOrdered(chain', resolved, CostKey, HealthKey, RankKey, ct)
  <2>1. CASE active = Unset
    <3>1. S = EligibleAt
      BY <1>2, <2>1 DEF EligibleAt
    <3> QED  BY <1>1, <1>7, <2>1, <3>1
  <2>2. CASE active # Unset
    <3>1. H = {c \in Candidates : Honours(c, active)}
      BY <2>2
    <3>2. chain' = Kept(chain, H)
      BY <1>1, <2>2, <3>1
    <3> HIDE DEF H
    <3>3. \E ct : /\ Picks(chain', resolved, S, ct)
                  /\ LexOrdered(chain, resolved, CostKey, HealthKey, RankKey, at) =>
                       LexOrdered(chain', resolved, CostKey, HealthKey, RankKey, ct)
      BY <1>2, <1>7, <3>2, EligiblePositions, KeptPicks
    <3> QED  BY <1>7, <3>3
  <2> QED  BY <2>1, <2>2
<1> HIDE DEF H
<1>9. S \in SUBSET DOMAIN resolved
  BY EligiblePositions
<1> HIDE DEF S
<1>10. CASE stage' = "no_eligible_provider"
  <2>1. chain' = <<>>
    BY <1>10 DEF RequireParameters
  <2>2. EligibleAt' = {}
    BY <1>2, <1>5, <1>8, <1>9, <2>1, PicksHolds
  <2> QED  BY <1>10, <2>2 DEF Choice, Chosen, FailsForWant, EligibleAt, Choosing, Unsorted, Ranked
<1>11. CASE stage' # "no_eligible_provider"
  <2>1. stage' = "honoured" /\ (active # Unset => chain' # <<>>)
    BY <1>3, <1>11 DEF RequireParameters
  <2>2. Chosen'
    BY <1>2, <1>5, <1>6, <1>8, <2>1, ChosenNext DEF Unsorted
  <2>3. chain' = <<>> => resolved = <<>>
    BY <1>1, <1>2, <2>1 DEF Choice, FailsForWant, Choosing, Ranked
  <2> QED  BY <1>2, <2>1, <2>2, <2>3 DEF Choice, FailsForWant
<1> QED  BY <1>10, <1>11

(* The budget's ranking of a chain that it may have reduced.               *)
LEMMA BudgetedPicks ==
  ASSUME SelectionTypeOK, NEW cap \in Bounds, NEW strict \in BOOLEAN,
         NEW at, Picks(chain, resolved, EligibleAt, at),
         chain # <<>>, strict => ~NoneFits(cap), NEW health, NEW rank
  PROVE  LET key == [c \in Candidates |-> Ascending(Price[c])]
             S == {i \in EligibleAt : strict => Fits(resolved[i], cap)}
         IN /\ S # {}
            /\ \E ct : /\ Picks(Budgeted(cap, strict), resolved, S, ct)
                       /\ LexOrdered(chain, resolved, Zero, health, rank, at) =>
                            LexOrdered(Budgeted(cap, strict), resolved, key, health, rank, ct)
<1> DEFINE key == [c \in Candidates |-> Ascending(Price[c])]
           S == {i \in EligibleAt : strict => Fits(resolved[i], cap)}
           F == {c \in Candidates : Fits(c, cap)}
           fits == Kept(chain, F)
<1>1. /\ chain \in Seq(Candidates) /\ resolved \in Seq(Candidates)
      /\ \A i \in DOMAIN resolved : resolved[i] \in Candidates
      /\ \A i \in DOMAIN chain : chain[i] \in Candidates
      /\ EligibleAt \in SUBSET DOMAIN resolved /\ key \in SortKeys
  BY EligiblePositions, StaticKeys DEF SelectionTypeOK
<1>2. S \in SUBSET DOMAIN resolved
  BY <1>1
<1>3. Budgeted(cap, strict) = SortedBy(IF fits # <<>> /\ strict THEN fits ELSE chain, key)
  BY DEF Budgeted
<1>4. {i \in EligibleAt : resolved[i] \in F} = {i \in EligibleAt : Fits(resolved[i], cap)}
  BY <1>1
<1> HIDE DEF F
<1>5. /\ fits \in Seq(Candidates)
      /\ \E bt : /\ Picks(fits, resolved, {i \in EligibleAt : resolved[i] \in F}, bt)
                 /\ LexOrdered(chain, resolved, Zero, health, rank, at) =>
                      LexOrdered(fits, resolved, Zero, health, rank, bt)
  BY <1>1, KeptPicks
<1> HIDE DEF fits, key
<1>6. CASE strict
  <2>1. S = {i \in EligibleAt : Fits(resolved[i], cap)}
    BY <1>6
  <2>2. PICK bt : /\ Picks(fits, resolved, S, bt)
                  /\ LexOrdered(chain, resolved, Zero, health, rank, at) =>
                       LexOrdered(fits, resolved, Zero, health, rank, bt)
    BY <1>4, <1>5, <2>1
  <2>3. S # {}
    <3>1. PICK k \in DOMAIN chain : Fits(chain[k], cap)
      BY <1>6 DEF NoneFits
    <3>2. at[k] \in EligibleAt /\ resolved[at[k]] = chain[k]
      BY DEF Picks
    <3> QED  BY <2>1, <3>1, <3>2
  <2> HIDE DEF S
  <2>4. fits # <<>>
    BY <1>1, <1>5, <2>2, <2>3, PicksHolds
  <2>5. Budgeted(cap, strict) = SortedBy(fits, key)
    BY <1>3, <1>6, <2>4
  <2>6. \E ct : /\ Picks(SortedBy(fits, key), resolved, S, ct)
                /\ LexOrdered(fits, resolved, Zero, health, rank, bt) =>
                     LexOrdered(SortedBy(fits, key), resolved, key, health, rank, ct)
    BY <1>1, <1>2, <1>5, <2>2, SortedByCost
  <2>7. \E ct : /\ Picks(Budgeted(cap, strict), resolved, S, ct)
                /\ LexOrdered(chain, resolved, Zero, health, rank, at) =>
                     LexOrdered(Budgeted(cap, strict), resolved, key, health, rank, ct)
    BY <2>2, <2>5, <2>6
  <2> QED  BY <2>3, <2>7 DEF S, key
<1>7. CASE ~strict
  <2>1. S = EligibleAt
    BY <1>7
  <2>2. S # {}
    BY <1>1, <2>1, PicksHolds
  <2> HIDE DEF S
  <2>3. Budgeted(cap, strict) = SortedBy(chain, key)
    BY <1>3, <1>7
  <2>4. \E ct : /\ Picks(SortedBy(chain, key), resolved, S, ct)
                /\ LexOrdered(chain, resolved, Zero, health, rank, at) =>
                     LexOrdered(SortedBy(chain, key), resolved, key, health, rank, ct)
    BY <1>1, <2>1, SortedByCost
  <2>5. \E ct : /\ Picks(Budgeted(cap, strict), resolved, S, ct)
                /\ LexOrdered(chain, resolved, Zero, health, rank, at) =>
                     LexOrdered(Budgeted(cap, strict), resolved, key, health, rank, ct)
    BY <2>3, <2>4
  <2> QED  BY <2>2, <2>5 DEF S, key
<1> QED  BY <1>6, <1>7

LEMMA BudgetChoice ==
  ASSUME SelectionTypeOK, SelectionTypeOK', FieldsAreReadInOrder, Choice, RequestBudget
  PROVE  Choice'
<1>1. PICK cap \in Bounds \cup {Unset}, strict \in BOOLEAN :
        /\ strict => cap # Unset
        /\ wanted' = [wanted EXCEPT !.cap = cap, !.strict = strict]
        /\ IF cap = Unset \/ chain = <<>>
           THEN stage' = "done" /\ UNCHANGED chain
           ELSE IF strict /\ NoneFits(cap)
           THEN stage' = "request_budget_exceeded" /\ UNCHANGED chain
           ELSE stage' = "done" /\ chain' = Budgeted(cap, strict)
  BY DEF RequestBudget
<1>2. /\ stage = "honoured" /\ UNCHANGED <<resolved, unhealthy, uses, day>>
      /\ wanted.cap = Unset
      /\ chain \in Seq(Candidates) /\ chain' \in Seq(Candidates) /\ resolved \in Seq(Candidates)
      /\ \A i \in DOMAIN resolved : resolved[i] \in Candidates
  BY DEF RequestBudget, SelectionTypeOK, FieldsAreReadInOrder, Choosing, Ranked, Untouched,
         tier_vars
<1>3. /\ wanted'.prefs = wanted.prefs /\ wanted'.only = wanted.only
      /\ wanted'.ignore = wanted.ignore /\ wanted'.zdr = wanted.zdr
      /\ wanted'.data_collection = wanted.data_collection
      /\ wanted'.max_price = wanted.max_price /\ wanted'.require = wanted.require
      /\ wanted'.cap = cap /\ wanted'.strict = strict
      /\ wanted'.sort = wanted.sort /\ wanted'.auto = wanted.auto
  <2>1. DOMAIN wanted = SelectionFields
    BY DEF SelectionTypeOK, Wanted, SelectionFields
  <2> QED  BY <1>1, <2>1 DEF SelectionFields
<1> DEFINE S == {i \in EligibleAt : strict => Fits(resolved[i], cap)}
<1>4. \A c : Eligible(c)' <=> Eligible(c) /\ (strict => Fits(c, cap))
  BY <1>1, <1>2, <1>3 DEF Eligible, Allows
<1>5. EligibleAt' = S
  BY <1>2, <1>4 DEF EligibleAt
<1>6. HealthKey' = HealthKey /\ RankKey' = RankKey /\ Mode' = Mode /\ CostKey = Zero
  <2>1. Mode' = Mode
    BY <1>3 DEF Mode
  <2> QED  BY <1>2, <2>1, HealthSame, RankSame, KeyFacts
<1>7. PICK at : /\ Picks(chain, resolved, EligibleAt, at)
                /\ Mode \in RankedModes =>
                     LexOrdered(chain, resolved, Zero, HealthKey, RankKey, at)
  BY <1>2, <1>6 DEF Choice, Chosen, ChosenBy, Choosing, Ranked
<1>8. chain = <<>> => resolved = <<>>
  BY <1>2 DEF Choice, FailsForWant, Choosing, Ranked
<1>9. CASE cap = Unset \/ chain = <<>>
  <2>1. stage' = "done" /\ chain' = chain
    BY <1>1, <1>9
  <2>2. Picks(chain', resolved, EligibleAt', at)
    <3>1. S = EligibleAt
      <4>1. CASE cap = Unset
        BY <1>1, <4>1
      <4>2. CASE chain = <<>>
        BY <1>7, <4>2, EligiblePositions, EmptyChain
      <4> QED  BY <1>9, <4>1, <4>2
    <3> QED  BY <1>5, <1>7, <2>1, <3>1
  <2>3. Mode' \in RankedModes => LexOrdered(chain', resolved, CostKey', HealthKey', RankKey', at)
    <3>1. CASE cap = Unset
      <4>1. CostKey' = Zero
        BY <1>3, <3>1 DEF CostKey, Zero
      <4> QED  BY <1>6, <1>7, <2>1, <4>1
    <3>2. CASE chain = <<>>
      BY <2>1, <3>2 DEF LexOrdered
    <3> QED  BY <1>9, <3>1, <3>2
  <2>4. Chosen'
    BY <1>2, <2>1, <2>2, <2>3, ChosenNext DEF Unsorted
  <2> QED  BY <1>2, <1>8, <2>1, <2>4 DEF Choice, FailsForWant
<1>10. CASE ~(cap = Unset \/ chain = <<>>) /\ strict /\ NoneFits(cap)
  <2>1. stage' = "request_budget_exceeded"
    BY <1>1, <1>10
  <2>2. ASSUME NEW i \in DOMAIN resolved, Eligible(resolved[i])'
        PROVE  ~Fits(resolved[i], cap)
    <3>1. i \in EligibleAt
      <4>1. i \in EligibleAt'
        BY <1>2, <2>2 DEF EligibleAt
      <4> QED  BY <1>5, <4>1
    <3>2. PICK k \in DOMAIN chain : chain[k] = resolved[i]
      BY <1>7, <3>1 DEF Picks
    <3> QED  BY <1>10, <3>2 DEF NoneFits
  <2> QED  BY <1>2, <1>3, <2>1, <2>2
           DEF Choice, Chosen, FailsForWant, Choosing, Unsorted, Ranked
<1>11. CASE ~(cap = Unset \/ chain = <<>>) /\ ~(strict /\ NoneFits(cap))
  <2>1. /\ stage' = "done" /\ chain' = Budgeted(cap, strict)
        /\ cap \in Bounds /\ cap # Unset /\ chain # <<>> /\ (strict => ~NoneFits(cap))
    BY <1>1, <1>11
  <2>2. CostKey' = [c \in Candidates |-> Ascending(Price[c])]
    BY <1>3, <2>1 DEF CostKey
  <2>3. /\ S # {}
        /\ \E ct : /\ Picks(chain', resolved, S, ct)
                   /\ LexOrdered(chain, resolved, Zero, HealthKey, RankKey, at) =>
                        LexOrdered(chain', resolved, CostKey', HealthKey, RankKey, ct)
    BY <1>7, <2>1, <2>2, BudgetedPicks
  <2> HIDE DEF S
  <2>4. Chosen'
    BY <1>2, <1>5, <1>6, <1>7, <2>1, <2>3, ChosenNext DEF Unsorted
  <2>5. chain' # <<>>
    BY <1>2, <2>3, PicksHolds
  <2> QED  BY <2>1, <2>4, <2>5 DEF Choice, FailsForWant
<1> QED  BY <1>9, <1>10, <1>11

(* Every action keeps the chain chosen.                                   *)
LEMMA ChoiceStep ==
  ASSUME SelectionTypeOK, FieldsAreReadInOrder, TiersAreCurrent, Choice,
         [SelectionNext]_selection_vars
  PROVE  Choice'
<1>1. SelectionTypeOK'
  BY SelectionTypeStep
<1>2. ASSUME NEW table \in {"latency", "uptime"}, NEW c \in Candidates, NEW level \in Levels,
             MoveAverage(table, c, level)
      PROVE  Choice'
  BY <1>1, <1>2, UntouchedChoice DEF MoveAverage, tier_vars
<1>3. ASSUME NEW c \in DOMAIN FreeTierSettings, NEW tokens \in TokenCounts, UseFreeTier(c, tokens)
      PROVE  Choice'
  BY <1>1, <1>3, UntouchedChoice DEF UseFreeTier, Ranked
<1>4. CASE RenewFreeTiers
  BY <1>1, <1>4, UntouchedChoice DEF RenewFreeTiers, Ranked
<1>5. CASE UNCHANGED selection_vars
  BY <1>1, <1>5, UntouchedChoice DEF selection_vars, tier_vars
<1> QED  BY <1>1, <1>2, <1>3, <1>4, <1>5, ResolveChoice, FilterChoice, FilterDefaultChoice,
            SortChoice, CompareChoice, SortByFreeTierChoice, DefaultOrderChoice,
            DeprioritizeChoice, RequireChoice, BudgetChoice
         DEF SelectionNext

-----------------------------------------------------------------------------
(* At every stage of resolve_chain, apply_preferences and the steps after  *)
(* them the chain is the eligible part of the resolved one, in the order   *)
(* established so far.                                                     *)
THEOREM SelectionInvariant == SelectionSpec => []SelectionInv
<1>1. SelectionInit => SelectionInv
  <2> SUFFICES ASSUME SelectionInit PROVE SelectionInv
    OBVIOUS
  <2>1. SelectionTypeOK
    <3>0. wanted \in Wanted
      <4>1. /\ Unset \in ProviderSets \cup {Unset} /\ Unset \in Bounds \cup {Unset}
            /\ Unset \in Modes \cup {Unset} /\ Unset \in (SUBSET Params) \cup {Unset}
            /\ FALSE \in BOOLEAN
        OBVIOUS
      <4>2. [prefs |-> FALSE, auto |-> FALSE, only |-> Unset, ignore |-> Unset,
             zdr |-> FALSE, data_collection |-> FALSE, max_price |-> Unset,
             sort |-> Unset, require |-> Unset, cap |-> Unset, strict |-> FALSE] \in Wanted
        BY <4>1, Zenon DEF Wanted
      <4> QED  BY <4>2 DEF SelectionInit
    <3>1. /\ stage \in Stages /\ ewma \in Ewma /\ updates \in 0..MaxUpdates
          /\ unhealthy \subseteq Candidates /\ tail = 1 /\ hole = 1 /\ stage # "sorting"
          /\ resolved = <<>> /\ chain = <<>>
      BY SelectionAssumption DEF SelectionInit, Stages
    <3>2. /\ DOMAIN uses = DOMAIN FreeTierSettings
          /\ \A c \in DOMAIN uses : uses[c] \in [PeriodKeysOf(c) -> Nat]
      BY DEF SelectionInit
    <3>3. /\ free_tier_usage \in [DOMAIN FreeTierSettings -> TokenState]
          /\ day \in FirstDay..LastDay
      BY FreeTierAssumption DEF SelectionInit, FreeTierInit, TokenState
    <3> QED  BY <3>0, <3>1, <3>2, <3>3 DEF SelectionTypeOK, FreeTierType
  <2>2. FieldsAreReadInOrder
    BY DEF SelectionInit, FieldsAreReadInOrder
  <2>3. Chosen /\ FailsForWant
    BY DEF SelectionInit, Chosen, FailsForWant, Choosing, Unsorted, Ranked
  <2>4. ASSUME NEW c \in DOMAIN FreeTierSettings PROVE TierIsCurrent(c)
    <3>1. PeriodKey(c) \in Int /\ PeriodKey(c) >= 0
      BY <2>1, KeysOfPeriods
    <3>2. free_tier_usage[c] = [period_key |-> 0, tokens_used |-> 0]
      BY DEF SelectionInit, FreeTierInit
    <3>3. \A k \in PeriodKeysOf(c) : uses[c][k] = 0
      BY DEF SelectionInit
    <3> QED  BY <3>1, <3>2, <3>3 DEF TierIsCurrent
  <2> QED  BY <2>1, <2>2, <2>3, <2>4 DEF SelectionInv, TiersAreCurrent
<1>2. SelectionInv /\ [SelectionNext]_selection_vars => SelectionInv'
  BY SelectionTypeStep, FieldsStep, TiersStep, ChoiceStep DEF SelectionInv, Choice
<1> QED  BY <1>1, <1>2, PTL DEF SelectionSpec

(* The selection's variables have their types.                             *)
THEOREM SelectionTypes == SelectionSpec => []SelectionTypeOK
<1>1. SelectionInv => SelectionTypeOK
  BY DEF SelectionInv
<1> QED  BY <1>1, SelectionInvariant, PTL

(* The dispatch loop walks what is eligible of the resolved chain, each    *)
(* candidate as often as it is named there, whatever apply_preferences     *)
(* ranked by and whichever averages moved meanwhile.                       *)
THEOREM SelectionLosesNothing == SelectionSpec => []ChainIsEligible
<1>1. ASSUME SelectionInv PROVE ChainIsEligible
  <2>1. ASSUME Ok, NEW c \in Candidates
        PROVE  Times(chain, c) = IF Eligible(c) THEN Times(resolved, c) ELSE 0
    <3> DEFINE E == {x \in Candidates : Eligible(x)}
    <3>1. PICK at : Picks(chain, resolved, EligibleAt, at)
      BY <1>1, <2>1 DEF SelectionInv, Chosen, ChosenBy, Ok, Choosing, Ranked
    <3>2. /\ chain \in Seq(Candidates) /\ resolved \in Seq(Candidates)
          /\ \A i \in DOMAIN resolved : resolved[i] \in Candidates
      BY <1>1 DEF SelectionInv, SelectionTypeOK
    <3>3. EligibleAt = {i \in DOMAIN resolved : resolved[i] \in E}
      BY <3>2 DEF EligibleAt
    <3>4. c \in E <=> Eligible(c)
      OBVIOUS
    <3> HIDE DEF E
    <3>5. Times(chain, c) = IF c \in E THEN Times(resolved, c) ELSE 0
      BY <3>1, <3>2, <3>3, PicksTimes
    <3> QED  BY <3>4, <3>5
  <2>2. FailsForWant
    BY <1>1 DEF SelectionInv
  <2> QED  BY <2>1, <2>2 DEF ChainIsEligible, FailsForWant, Ok, Choosing, Ranked
<1> QED  BY <1>1, SelectionInvariant, PTL

(* No later step (deprioritize_unhealthy, apply_request_budget) scrambles  *)
(* the order an earlier one established, for every chain, price, average   *)
(* and use of the free tiers.                                              *)
THEOREM SelectionOrder == SelectionSpec => []OrderIsAsRequested
<1>1. ASSUME SelectionInv PROVE OrderIsAsRequested
  <2> SUFFICES ASSUME Ok, Mode \in RankedModes
               PROVE  \E at \in [DOMAIN chain -> DOMAIN resolved] :
                        /\ {at[k] : k \in DOMAIN chain} = EligibleAt
                        /\ \A k \in DOMAIN chain : chain[k] = resolved[at[k]]
                        /\ \A k, l \in DOMAIN chain :
                             k < l => at[k] # at[l] /\ InOrder(at[k], at[l])
    BY DEF OrderIsAsRequested, RankedModes, EligibleAt
  <2>1. PICK at \in [DOMAIN chain -> DOMAIN resolved] :
          /\ Picks(chain, resolved, EligibleAt, at)
          /\ LexOrdered(chain, resolved, CostKey, HealthKey, RankKey, at)
    BY <1>1 DEF SelectionInv, Chosen, ChosenBy, Ok, Choosing, Ranked
  <2>2. /\ \A i \in DOMAIN resolved : resolved[i] \in Candidates
        /\ \A k \in DOMAIN chain : k \in Nat
    BY <1>1 DEF SelectionInv, SelectionTypeOK
  <2>3. {at[k] : k \in DOMAIN chain} = EligibleAt
    BY <2>1, PicksAll
  <2>4. ASSUME NEW k \in DOMAIN chain, NEW l \in DOMAIN chain, k < l
        PROVE  at[k] # at[l] /\ InOrder(at[k], at[l])
    <3>1. at[k] # at[l]
      BY <2>1, <2>2, <2>4 DEF Picks
    <3>2. Lex(resolved, CostKey, HealthKey, RankKey, at[k], at[l])
      BY <2>1, <2>4 DEF LexOrdered
    <3>3. resolved[at[k]] \in Candidates /\ resolved[at[l]] \in Candidates
      BY <2>2
    <3>4. ASSUME NEW c \in Candidates
          PROVE  /\ CostKey[c] = IF wanted.cap = Unset THEN 0 ELSE Ascending(Price[c])
                 /\ HealthKey[c] = IF c \in unhealthy THEN 1 ELSE 0
                 /\ RankKey[c] = Rank(c)
      BY DEF CostKey, HealthKey, RankKey
    <3> QED  BY <3>1, <3>2, <3>3, <3>4 DEF Lex, InOrder
  <2> QED  BY <2>1, <2>3, <2>4 DEF Picks
<1> QED  BY <1>1, SelectionInvariant, PTL
=============================================================================
