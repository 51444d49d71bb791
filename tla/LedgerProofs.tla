---------------------------- MODULE LedgerProofs ----------------------------
(***************************************************************************)
(* What SpendLedger guarantees for any number of processes, requests,      *)
(* resets and mishaps, any costs, and either backend.  The sums its        *)
(* properties are about are sizes of sets: every request, and every unit   *)
(* of cost, that is on its way is an element <<process, position, unit>>.  *)
(***************************************************************************)
EXTENDS SpendLedger, FiniteSetTheorems, SequenceTheorems, TLAPS

(* The writes that are ever handed over.                                   *)
Writes ==
  {UsageWrite} \cup {DailyWrite(d) : d \in Days}
    \cup {SpendWrite(k, c) : k \in Keys, c \in Costs} \cup {ResetWrite(k) : k \in Keys}

Places == Processes \X Nat \X Nat

(* Where a position of a queue was before the i-th write left it.          *)
Skip(i, j) == IF j < i THEN j ELSE j + 1

-----------------------------------------------------------------------------
(* Queues.                                                                 *)
LEMMA AppendFacts ==
  ASSUME NEW S, NEW s \in Seq(S), NEW w \in S
  PROVE  /\ Append(s, w) \in Seq(S)
         /\ Len(Append(s, w)) = Len(s) + 1
         /\ DOMAIN s = 1..Len(s)
         /\ DOMAIN Append(s, w) = 1..(Len(s) + 1)
         /\ \A i \in DOMAIN s : Append(s, w)[i] = s[i]
         /\ Append(s, w)[Len(s) + 1] = w
OBVIOUS

(* What is left of a queue without its i-th write.                         *)
Leaves(s, i, t) ==
  /\ Len(t) = Len(s) - 1
  /\ DOMAIN t = 1..(Len(s) - 1)
  /\ \A j \in DOMAIN t : Skip(i, j) \in DOMAIN s /\ t[j] = s[Skip(i, j)]

LEMMA TailFacts ==
  ASSUME NEW S, NEW s \in Seq(S), s # <<>>
  PROVE  /\ Tail(s) \in Seq(S) /\ Leaves(s, 1, Tail(s))
         /\ 1 \in DOMAIN s /\ Head(s) = s[1]
BY DEF Leaves, Skip

LEMMA RemoveAtFacts ==
  ASSUME NEW S, NEW s \in Seq(S), NEW i \in DOMAIN s
  PROVE  RemoveAt(s, i) \in Seq(S) /\ Leaves(s, i, RemoveAt(s, i))
<1> DEFINE a == SubSeq(s, 1, i - 1)
           b == SubSeq(s, i + 1, Len(s))
<1>1. i \in 1..Len(s) /\ Len(s) \in Nat
  OBVIOUS
<1>2. a \in Seq(S) /\ Len(a) = i - 1 /\ \A j \in 1..(i - 1) : a[j] = s[j]
  BY <1>1, SubSeqProperties
<1>3. b \in Seq(S) /\ Len(b) = Len(s) - i /\ \A j \in 1..(Len(s) - i) : b[j] = s[j + i]
  BY <1>1, SubSeqProperties
<1> HIDE DEF a, b
<1>4. /\ a \o b \in Seq(S)
      /\ Len(a \o b) = Len(s) - 1
      /\ \A j \in 1..(Len(s) - 1) :
           (a \o b)[j] = IF j <= i - 1 THEN a[j] ELSE b[j - (i - 1)]
  <2>1. Len(a) + Len(b) = Len(s) - 1 /\ Len(a) = i - 1
    BY <1>1, <1>2, <1>3
  <2>2. /\ a \o b \in Seq(S)
        /\ Len(a \o b) = Len(a) + Len(b)
        /\ \A j \in 1..(Len(a) + Len(b)) :
             (a \o b)[j] = IF j <= Len(a) THEN a[j] ELSE b[j - Len(a)]
    BY <1>2, <1>3, ConcatProperties, Zenon
  <2> QED  BY <2>1, <2>2, Zenon
<1>5. ASSUME NEW j \in 1..(Len(s) - 1)
      PROVE  Skip(i, j) \in 1..Len(s) /\ (a \o b)[j] = s[Skip(i, j)]
  <2>1. CASE j < i
    <3>1. j <= i - 1 /\ j \in 1..(i - 1)
      BY <1>1, <2>1
    <3> QED  BY <1>1, <1>2, <1>4, <2>1, <3>1 DEF Skip
  <2>2. CASE ~(j < i)
    <3> DEFINE k == j - (i - 1)
    <3>1. ~(j <= i - 1) /\ k \in 1..(Len(s) - i) /\ k + i = j + 1
      BY <1>1, <2>2
    <3>2. (a \o b)[j] = b[k]
      BY <1>4, <3>1
    <3> HIDE DEF k
    <3>3. b[k] = s[j + 1]
      BY <1>3, <3>1, Zenon
    <3>4. Skip(i, j) = j + 1 /\ j + 1 \in 1..Len(s)
      BY <1>1, <2>2 DEF Skip
    <3> QED  BY <3>2, <3>3, <3>4
  <2> QED  BY <2>1, <2>2
<1>6. RemoveAt(s, i) = a \o b /\ DOMAIN (a \o b) = 1..(Len(s) - 1)
  BY <1>1, <1>4 DEF RemoveAt, a, b
<1> QED  BY <1>1, <1>4, <1>5, <1>6 DEF Leaves

(* The queues r are the queues q without the i-th write of p.              *)
Shortened(q, r, p, i) ==
  \E t \in Seq(Writes) : Leaves(q[p], i, t) /\ r = [q EXCEPT ![p] = t]

-----------------------------------------------------------------------------
(* Counting.                                                               *)
LEMMA IntervalSize ==
  ASSUME NEW n \in Nat
  PROVE  IsFiniteSet(1..n) /\ Cardinality(1..n) = n
BY FS_Interval

(* n units at one place of a queue are n.                                  *)
LEMMA UnitsAtPlace ==
  ASSUME NEW p, NEW i, NEW n \in Nat, NEW D,
         \A t : t \in D <=> \E c \in 1..n : t = <<p, i, c>>
  PROVE  IsFiniteSet(D) /\ Cardinality(D) = n
<1> DEFINE f == [c \in 1..n |-> <<p, i, c>>]
<1>1. f \in Bijection(1..n, D)
  BY DEF Bijection, Injection, Surjection, IsInjective
<1>2. ExistsBijection(1..n, D)
  BY <1>1 DEF ExistsBijection
<1> QED  BY <1>2, IntervalSize, FS_Bijection

(* A write with n units joins a queue.                                     *)
Joined(A, B, p, i, n) ==
  /\ \A c \in 1..n : <<p, i, c>> \notin A
  /\ \A t : t \in B <=> t \in A \/ \E c \in 1..n : t = <<p, i, c>>

LEMMA UnitsPushed ==
  ASSUME NEW A, IsFiniteSet(A), NEW B, NEW p, NEW i, NEW n \in Nat, Joined(A, B, p, i, n)
  PROVE  IsFiniteSet(B) /\ Cardinality(B) = Cardinality(A) + n
<1>1. PICK D : \A t : t \in D <=> \E c \in 1..n : t = <<p, i, c>>
  <2> WITNESS {<<p, i, c>> : c \in 1..n}
  <2> QED  OBVIOUS
<1>2. IsFiniteSet(D) /\ Cardinality(D) = n
  BY <1>1, UnitsAtPlace
<1>3. A \cap D = {} /\ B = A \cup D
  <2>1. \A t : t \in D => t \notin A
    BY <1>1 DEF Joined
  <2>2. \A t : t \in B <=> t \in A \/ t \in D
    BY <1>1, Zenon DEF Joined
  <2> QED  BY <2>1, <2>2
<1>4. /\ IsFiniteSet(A \cup D)
      /\ Cardinality(A \cup D) = Cardinality(A) + n - 0
  <2>1. /\ IsFiniteSet(A \cup D)
        /\ Cardinality(A \cup D) = Cardinality(A) + Cardinality(D) - Cardinality(A \cap D)
    BY <1>2, FS_Union
  <2>2. Cardinality(A \cap D) = 0
    BY <1>3, FS_EmptySet
  <2> QED  BY <1>2, <2>1, <2>2
<1>5. Cardinality(A) \in Nat
  BY FS_CardinalityType
<1> QED  BY <1>3, <1>4, <1>5

(* A write with n units leaves a queue; those behind it move up.           *)
Departed(A, B, p, i, n) ==
  /\ \A c \in Nat : <<p, i, c>> \in A <=> c \in 1..n
  /\ \A x \in Processes, j \in Nat, c \in Nat :
       <<x, j, c>> \in B <=> <<x, IF x = p THEN Skip(i, j) ELSE j, c>> \in A

LEMMA UnitsPopped ==
  ASSUME NEW A \in SUBSET Places, IsFiniteSet(A), NEW B \in SUBSET Places,
         NEW p \in Processes, NEW i \in Nat, NEW n \in Nat, Departed(A, B, p, i, n)
  PROVE  IsFiniteSet(B) /\ Cardinality(A) = Cardinality(B) + n
<1>0. PICK D : \A t : t \in D <=> \E c \in 1..n : t = <<p, i, c>>
  <2> WITNESS {<<p, i, c>> : c \in 1..n}
  <2> QED  OBVIOUS
<1> USE DEF Departed
<1> DEFINE R == A \ D
           f == [t \in B |-> <<t[1], IF t[1] = p THEN Skip(i, t[2]) ELSE t[2], t[3]>>]
<1>1. IsFiniteSet(D) /\ Cardinality(D) = n
  BY <1>0, UnitsAtPlace
<1>2. D \subseteq A
  BY <1>0
<1>3. \A t \in B : /\ t[1] \in Processes /\ t[2] \in Nat /\ t[3] \in Nat
                   /\ t = <<t[1], t[2], t[3]>>
  BY DEF Places
<1>4. \A t \in B : f[t] \in R
  <2> SUFFICES ASSUME NEW t \in B PROVE f[t] \in R
    OBVIOUS
  <2>1. f[t] \in A
    BY <1>3
  <2>2. t[1] = p => Skip(i, t[2]) # i
    BY <1>3 DEF Skip
  <2>3. f[t] \notin D
    BY <1>0, <1>3, <2>2
  <2> QED  BY <2>1, <2>3
<1>5. \A t, u \in B : f[t] = f[u] => t = u
  <2> SUFFICES ASSUME NEW t \in B, NEW u \in B, f[t] = f[u] PROVE t = u
    OBVIOUS
  <2>1. t[1] = u[1] /\ t[3] = u[3]
        /\ (IF t[1] = p THEN Skip(i, t[2]) ELSE t[2]) = (IF u[1] = p THEN Skip(i, u[2]) ELSE u[2])
    OBVIOUS
  <2>2. t[2] = u[2]
    BY <1>3, <2>1 DEF Skip
  <2> QED  BY <1>3, <2>1, <2>2
<1>6. \A a \in R : \E t \in B : f[t] = a
  <2> SUFFICES ASSUME NEW a \in R PROVE \E t \in B : f[t] = a
    OBVIOUS
  <2>1. /\ a[1] \in Processes /\ a[2] \in Nat /\ a[3] \in Nat
        /\ a = <<a[1], a[2], a[3]>>
    BY DEF Places
  <2>2. a[1] = p => a[2] # i
    BY <1>0, <2>1
  <2>3. CASE a[1] = p
    <3>1. PICK j \in Nat : Skip(i, j) = a[2]
      <4>1. CASE a[2] < i
        BY <2>1, <4>1 DEF Skip
      <4>2. CASE a[2] > i
        <5>1. a[2] - 1 \in Nat /\ Skip(i, a[2] - 1) = a[2]
          BY <2>1, <4>2 DEF Skip
        <5> QED  BY <5>1
      <4> QED  BY <2>1, <2>2, <2>3, <4>1, <4>2
    <3>2. <<p, j, a[3]>> \in B
      BY <2>1, <2>3, <3>1
    <3> QED  BY <2>1, <2>3, <3>1, <3>2
  <2>4. CASE a[1] # p
    <3>1. a \in B
      BY <2>1, <2>4
    <3> QED  BY <2>1, <2>4, <3>1
  <2> QED  BY <2>3, <2>4
<1>7. f \in Bijection(B, R)
  BY <1>4, <1>5, <1>6 DEF Bijection, Injection, Surjection, IsInjective
<1> HIDE DEF R, f
<1>8. /\ IsFiniteSet(R) /\ Cardinality(R) = Cardinality(A) - n
  <2>1. A \cap D = D
    BY <1>2
  <2> QED  BY <1>1, <2>1, FS_Difference DEF R
<1>9. f \in Injection(B, R) /\ f \in Surjection(B, R)
  BY <1>7 DEF Bijection
<1>10. IsFiniteSet(B) /\ Cardinality(B) = Cardinality(R)
  BY <1>8, <1>9, FS_Injection
<1>11. Cardinality(A) \in Nat
  BY FS_CardinalityType
<1> QED  BY <1>8, <1>10, <1>11

-----------------------------------------------------------------------------
(* Types.                                                                  *)
SlotTyped(request) ==
  /\ request.at = "checking" => request.key \in Keys
  /\ request.at = "answered" => request.cost \in Costs \cup {None}
  /\ request.at = "priced" => request.cost \in Costs

TableTypes ==
  /\ backend \in Backends /\ day \in Days
  /\ row = None \/ row \in [key : Keys, spent : Nat]
  /\ counts \in [Rows -> Nat] /\ recorded \in [Rows -> Nat]
  /\ memory \in [Processes -> Nat] /\ owed \in [Keys -> Nat]
  /\ writers \in SUBSET Processes
  /\ events \in [Events -> Nat]

QueueTypes ==
  /\ pending \in [Processes -> Seq(Writes)]
  /\ writer \in [Processes -> {"opening", "running", "gone"}]

SlotTypes == slot \in [Slots -> Request] /\ \A s \in Slots : SlotTyped(slot[s])

ReaderTypes == \A r \in readers : r.process \in Processes /\ r.key \in Keys /\ r.cost \in Costs

BoundTypes == bounds \in [requests : Nat, resets : Nat, mishaps : Nat]

Types == TableTypes /\ QueueTypes /\ SlotTypes /\ ReaderTypes /\ BoundTypes

LEMMA ConstantTypes ==
  /\ Keys \subseteq Nat /\ Days \subseteq Nat /\ Costs \subseteq Nat \ {0}
  /\ \A d \in Days : KeyAt[d] \in Keys
  /\ 0 \in Days
  /\ \A s \in Slots : s[1] \in Processes
  /\ \A k \in Keys, n \in Nat : [key |-> k, spent |-> n] # None
BY LedgerAssumption DEF Keys, Days

(* What the fields of a write say of it.                                   *)
LEMMA WriteFacts ==
  /\ UsageWrite \in Writes
  /\ \A d \in Days : DailyWrite(d) \in Writes
  /\ \A k \in Keys, c \in Costs : SpendWrite(k, c) \in Writes
  /\ \A k \in Keys : ResetWrite(k) \in Writes
  /\ \A w \in Writes :
       /\ w.kind \in {"usage", "daily", "spend", "reset"}
       /\ w.kind \in {"usage", "daily"} => <<w.kind, w.key>> \in Rows
       /\ w.kind \in {"spend", "reset"} => w.key \in Keys
       /\ w.kind = "spend" => w.cost \in Costs
       /\ w.kind = "reset" => w.cost = 0
<1>1. /\ UsageWrite \in Writes
      /\ \A d \in Days : DailyWrite(d) \in Writes
      /\ \A k \in Keys, c \in Costs : SpendWrite(k, c) \in Writes
      /\ \A k \in Keys : ResetWrite(k) \in Writes
  BY DEF Writes
<1>2. ASSUME NEW w \in Writes
      PROVE  /\ w.kind \in {"usage", "daily", "spend", "reset"}
             /\ w.kind \in {"usage", "daily"} => <<w.kind, w.key>> \in Rows
             /\ w.kind \in {"spend", "reset"} => w.key \in Keys
             /\ w.kind = "spend" => w.cost \in Costs
             /\ w.kind = "reset" => w.cost = 0
  <2>1. CASE w = UsageWrite
    BY <2>1 DEF UsageWrite, Rows
  <2>2. ASSUME NEW d \in Days, w = DailyWrite(d)
        PROVE w.kind = "daily" /\ <<w.kind, w.key>> \in Rows
    BY <2>2 DEF DailyWrite, Rows
  <2>3. ASSUME NEW k \in Keys, NEW c \in Costs, w = SpendWrite(k, c)
        PROVE w.kind = "spend" /\ w.key \in Keys /\ w.cost \in Costs
    BY <2>3 DEF SpendWrite
  <2>4. ASSUME NEW k \in Keys, w = ResetWrite(k)
        PROVE w.kind = "reset" /\ w.key \in Keys /\ w.cost = 0
    BY <2>4 DEF ResetWrite
  <2> QED  BY <2>1, <2>2, <2>3, <2>4 DEF Writes
<1> QED  BY <1>1, <1>2

(* A counter that grows stays one.                                         *)
LEMMA CountTypes ==
  ASSUME NEW S, NEW f \in [S -> Nat], NEW x, NEW n \in Nat
  PROVE  [f EXCEPT ![x] = @ + n] \in [S -> Nat]
<1>1. CASE x \in S
  <2>1. f[x] + n \in Nat
    BY <1>1
  <2> QED  BY <1>1, <2>1
<1>2. CASE x \notin S
  BY <1>2
<1> QED  BY <1>1, <1>2

(* A write handed over leaves every queue a queue of writes.               *)
LEMMA EnqueueTypes ==
  ASSUME pending \in [Processes -> Seq(Writes)], NEW p \in Processes, NEW w \in Writes,
         Enqueue(p, w)
  PROVE  pending' \in [Processes -> Seq(Writes)]
<1>1. Append(pending[p], w) \in Seq(Writes)
  BY AppendFacts
<1> QED  BY <1>1 DEF Enqueue

(* What a write does to the tables.                                        *)
LEMMA ExecuteTypes ==
  ASSUME TableTypes, NEW w \in Writes, Execute(w)
  PROVE  /\ row' = None \/ row' \in [key : Keys, spent : Nat]
         /\ counts' \in [Rows -> Nat]
<1>1. CASE w.kind \in {"spend", "reset"}
  <2>1. w.key \in Keys /\ w.cost \in Nat
    BY <1>1, WriteFacts, ConstantTypes
  <2>2. Spent(w.key) \in Nat
    BY DEF Spent, ClientSpend, TableTypes
  <2>3. SpendRow(w) \in [key : Keys, spent : Nat]
    BY <2>1, <2>2 DEF SpendRow
  <2> QED  BY <1>1, <2>3 DEF Execute, TableTypes
<1>2. CASE w.kind \notin {"spend", "reset"}
  <2>1. <<w.kind, w.key>> \in Rows
    BY <1>2, WriteFacts
  <2>2. /\ row' = row
        /\ counts' = [counts EXCEPT ![<<w.kind, w.key>>] = counts[<<w.kind, w.key>>] + 1]
    BY <1>2 DEF Execute, CountAdded
  <2>3. counts \in [Rows -> Nat] /\ (row = None \/ row \in [key : Keys, spent : Nat])
    BY DEF TableTypes
  <2> QED  BY <2>1, <2>2, <2>3
<1> QED  BY <1>1, <1>2

LEMMA MishapTypes ==
  ASSUME BoundTypes, Mishap
  PROVE  /\ BoundTypes'
         /\ bounds'.mishaps = bounds.mishaps + 1 /\ bounds'.resets = bounds.resets
BY DEF Mishap, BoundTypes

LEMMA LandsTypes ==
  ASSUME TableTypes, BoundTypes, NEW w \in Writes, Lands(w)
  PROVE  /\ row' = None \/ row' \in [key : Keys, spent : Nat]
         /\ counts' \in [Rows -> Nat]
         /\ BoundTypes'
<1>1. CASE Execute(w) /\ UNCHANGED bounds
  BY <1>1, ExecuteTypes DEF BoundTypes
<1>2. CASE Mishap /\ UNCHANGED <<row, counts>>
  BY <1>2, MishapTypes DEF TableTypes
<1> QED  BY <1>1, <1>2 DEF Lands

(* A queue that loses its i-th write keeps its types.                      *)
LEMMA LeavesTypes ==
  ASSUME QueueTypes, NEW p \in Processes, NEW t \in Seq(Writes),
         pending' = [pending EXCEPT ![p] = t], writer' = writer
  PROVE  QueueTypes'
BY DEF QueueTypes

LEMMA SlotStepTypes ==
  ASSUME SlotTypes, NEW s \in Slots, NEW request \in Request, SlotTyped(request),
         slot' = [slot EXCEPT ![s] = request]
  PROVE  SlotTypes'
BY DEF SlotTypes

LEMMA IdleTyped == IdleRequest \in Request /\ SlotTyped(IdleRequest)
BY DEF IdleRequest, Request, SlotTyped

-----------------------------------------------------------------------------
(* What a step does, as far as the database, the queues and the histories  *)
(* are concerned: nothing, or a day passes, or a caller hands over one     *)
(* write, or a write leaves a queue, or a process loses its queue.         *)
Handed(p, w) ==
  /\ p \in Processes /\ w \in Writes /\ Enqueue(p, w)
  /\ UNCHANGED <<day, row, counts, writer>> /\ bounds'.mishaps = bounds.mishaps

Quiet ==
  /\ UNCHANGED <<day, row, counts, pending, memory, recorded, owed, writers>>
  /\ bounds'.resets = bounds.resets
  /\ \/ UNCHANGED writer
     \/ \E p \in Processes : writer' = [writer EXCEPT ![p] = "running"]

Passes ==
  /\ day < MaxDay /\ day' = day + 1
  /\ UNCHANGED <<row, counts, pending, writer, memory, recorded, owed, writers, bounds>>

HandsUsage(p) ==
  /\ Handed(p, UsageWrite)
  /\ memory' = [memory EXCEPT ![p] = @ + 1]
  /\ recorded' = [recorded EXCEPT ![<<"usage", 0>>] = @ + 1]
  /\ UNCHANGED <<owed, writers>> /\ bounds'.resets = bounds.resets

HandsDaily(p) ==
  /\ Handed(p, DailyWrite(day))
  /\ recorded' = [recorded EXCEPT ![<<"daily", day>>] = @ + 1]
  /\ UNCHANGED <<memory, owed, writers>> /\ bounds'.resets = bounds.resets

HandsSpend(p, cost) ==
  /\ Handed(p, SpendWrite(KeyAt[day], cost))
  /\ owed' = [owed EXCEPT ![KeyAt[day]] = @ + cost]
  /\ writers' = writers \cup {p}
  /\ UNCHANGED <<memory, recorded>> /\ bounds'.resets = bounds.resets

HandsReset(p) ==
  /\ Handed(p, ResetWrite(KeyAt[day]))
  /\ owed' = [owed EXCEPT ![KeyAt[day]] = 0]
  /\ writers' = writers \cup {p}
  /\ UNCHANGED <<memory, recorded>> /\ bounds'.resets = bounds.resets + 1

Takes(p, i) ==
  /\ i \in DOMAIN pending[p] /\ (backend = "sqlite" => i = 1)
  /\ Shortened(pending, pending', p, i)
  /\ Lands(pending[p][i])
  /\ UNCHANGED <<day, writer, memory, recorded, owed, writers>>

Loses(p) ==
  /\ Mishap
  /\ pending' = [pending EXCEPT ![p] = <<>>]
  /\ memory' = memory \/ memory' = [memory EXCEPT ![p] = LoadAll]
  /\ UNCHANGED <<day, row, counts, recorded, owed, writers>>

Kinds ==
  /\ backend' = backend /\ bounds.mishaps <= bounds'.mishaps
  /\ \/ Quiet \/ Passes
     \/ \E p \in Processes :
          \/ HandsUsage(p) \/ HandsDaily(p) \/ (\E cost \in Costs : HandsSpend(p, cost))
          \/ HandsReset(p) \/ (\E i \in Nat : Takes(p, i)) \/ Loses(p)

LEMMA TakesTypes ==
  ASSUME Types, NEW p \in Processes, NEW i \in DOMAIN pending[p], NEW t \in Seq(Writes),
         backend = "sqlite" => i = 1, Leaves(pending[p], i, t),
         pending' = [pending EXCEPT ![p] = t], Lands(pending[p][i]),
         UNCHANGED <<backend, day, writer, memory, slot, readers, events, recorded, owed,
                     writers>>
  PROVE  Types' /\ Kinds
<1>1. pending[p] \in Seq(Writes)
  BY DEF Types, QueueTypes
<1>2. pending[p][i] \in Writes /\ i \in Nat
  BY <1>1
<1>3. /\ row' = None \/ row' \in [key : Keys, spent : Nat]
      /\ counts' \in [Rows -> Nat] /\ BoundTypes'
  BY <1>2, LandsTypes DEF Types
<1>4. TableTypes'
  BY <1>3 DEF Types, TableTypes
<1>5. QueueTypes'
  BY LeavesTypes DEF Types
<1>6. SlotTypes' /\ ReaderTypes'
  BY DEF Types, SlotTypes, ReaderTypes
<1>7. Takes(p, i)
  BY DEF Takes, Shortened
<1>8. bounds.mishaps <= bounds'.mishaps
  BY MishapTypes DEF Lands, Types, BoundTypes
<1> QED  BY <1>2, <1>3, <1>4, <1>5, <1>6, <1>7, <1>8 DEF Types, Kinds

LEMMA StartCheckStep ==
  ASSUME Types, NEW s \in Slots, StartCheck(s)
  PROVE  Types' /\ Kinds
<1>1. BoundTypes' /\ bounds'.mishaps = bounds.mishaps /\ bounds'.resets = bounds.resets
      /\ bounds.mishaps \in Nat
  BY DEF StartCheck, Types, BoundTypes
<1>2. KeyAt[day] \in Keys
  BY ConstantTypes DEF Types, TableTypes
<1> DEFINE request == [IdleRequest EXCEPT !.at = "checking", !.key = KeyAt[day]]
<1>3. request \in Request /\ SlotTyped(request)
  BY <1>2 DEF IdleRequest, Request, SlotTyped
<1>4. slot' = [slot EXCEPT ![s] = request]
  BY DEF StartCheck
<1> HIDE DEF request
<1>5. SlotTypes'
  BY <1>3, <1>4, SlotStepTypes DEF Types
<1>6. TableTypes' /\ QueueTypes' /\ ReaderTypes'
  BY DEF StartCheck, Types, TableTypes, QueueTypes, ReaderTypes
<1>7. Quiet
  BY <1>1 DEF StartCheck, Quiet
<1> QED  BY <1>1, <1>5, <1>6, <1>7 DEF Types, Kinds, StartCheck

LEMMA FinishCheckStep ==
  ASSUME Types, NEW s \in Slots, FinishCheck(s)
  PROVE  Types' /\ Kinds
<1>1. BoundTypes' /\ bounds'.mishaps >= bounds.mishaps /\ bounds'.resets = bounds.resets
  BY MishapTypes DEF FinishCheck, Types, BoundTypes
<1>2. PICK request \in {IdleRequest, [IdleRequest EXCEPT !.at = "dispatching"]} :
        slot' = [slot EXCEPT ![s] = request]
  BY DEF FinishCheck
<1>3. request \in Request /\ SlotTyped(request)
  BY <1>2 DEF IdleRequest, Request, SlotTyped
<1>5. SlotTypes'
  BY <1>2, <1>3, SlotStepTypes DEF Types
<1>6. TableTypes' /\ QueueTypes' /\ ReaderTypes'
  BY DEF FinishCheck, Types, TableTypes, QueueTypes, ReaderTypes
<1>7. Quiet
  BY <1>1 DEF FinishCheck, Quiet
<1>8. bounds.mishaps <= bounds'.mishaps
  BY <1>1 DEF Types, BoundTypes
<1> QED  BY <1>1, <1>5, <1>6, <1>7, <1>8 DEF Types, Kinds, FinishCheck

LEMMA NoAnswerStep ==
  ASSUME Types, NEW s \in Slots, NoAnswer(s)
  PROVE  Types' /\ Kinds
<1>1. SlotTypes'
  BY IdleTyped, SlotStepTypes DEF NoAnswer, Types
<1>2. TableTypes' /\ QueueTypes' /\ ReaderTypes' /\ BoundTypes'
  BY DEF NoAnswer, Types, TableTypes, QueueTypes, ReaderTypes, BoundTypes
<1>3. Quiet
  BY DEF NoAnswer, Quiet
<1> QED  BY <1>1, <1>2, <1>3 DEF Types, BoundTypes, Kinds, NoAnswer

LEMMA AnswerStep ==
  ASSUME Types, NEW s \in Slots, NEW cost \in Costs \cup {None}, Answer(s, cost)
  PROVE  Types' /\ Kinds
<1>1. s[1] \in Processes /\ UsageWrite \in Writes
  BY ConstantTypes, WriteFacts
<1> DEFINE request == [IdleRequest EXCEPT !.at = "answered", !.cost = cost]
<1>2. request \in Request /\ SlotTyped(request)
  BY DEF IdleRequest, Request, SlotTyped
<1>3. slot' = [slot EXCEPT ![s] = request]
  BY DEF Answer
<1> HIDE DEF request
<1>4. SlotTypes'
  BY <1>2, <1>3, SlotStepTypes DEF Types
<1>5. QueueTypes'
  BY <1>1, EnqueueTypes DEF Answer, Types, QueueTypes
<1>6. TableTypes'
  <2>1. memory' \in [Processes -> Nat] /\ recorded' \in [Rows -> Nat]
    BY CountTypes DEF Answer, Types, TableTypes
  <2> QED  BY <2>1 DEF Answer, Types, TableTypes
<1>7. ReaderTypes' /\ BoundTypes'
  BY DEF Answer, Types, ReaderTypes, BoundTypes
<1>8. HandsUsage(s[1])
  BY <1>1 DEF Answer, HandsUsage, Handed
<1> QED  BY <1>1, <1>4, <1>5, <1>6, <1>7, <1>8 DEF Types, BoundTypes, Kinds, Answer

LEMMA RecordDailyStep ==
  ASSUME Types, NEW s \in Slots, RecordDaily(s)
  PROVE  Types' /\ Kinds
<1>1. s[1] \in Processes /\ DailyWrite(day) \in Writes
  BY ConstantTypes, WriteFacts DEF Types, TableTypes
<1>2. slot[s] \in Request /\ SlotTyped(slot[s]) /\ slot[s].at = "answered"
  BY DEF Types, SlotTypes, RecordDaily
<1>3. AfterDaily(slot[s]) \in Request /\ SlotTyped(AfterDaily(slot[s]))
  <2>1. CASE slot[s].cost = None
    BY <2>1, IdleTyped DEF AfterDaily
  <2>2. CASE slot[s].cost # None
    BY <1>2, <2>2 DEF AfterDaily, Request, SlotTyped
  <2> QED  BY <2>1, <2>2
<1>4. SlotTypes'
  BY <1>3, SlotStepTypes DEF Types, RecordDaily
<1>5. QueueTypes'
  BY <1>1, EnqueueTypes DEF RecordDaily, Types, QueueTypes
<1>6. TableTypes'
  <2>1. recorded' \in [Rows -> Nat]
    BY CountTypes DEF RecordDaily, Types, TableTypes
  <2> QED  BY <2>1 DEF RecordDaily, Types, TableTypes
<1>7. ReaderTypes' /\ BoundTypes'
  BY DEF RecordDaily, Types, ReaderTypes, BoundTypes
<1>8. HandsDaily(s[1])
  BY <1>1 DEF RecordDaily, HandsDaily, Handed
<1> QED  BY <1>1, <1>4, <1>5, <1>6, <1>7, <1>8 DEF Types, BoundTypes, Kinds, RecordDaily

LEMMA RecordSpendStep ==
  ASSUME Types, NEW s \in Slots, RecordSpend(s)
  PROVE  Types' /\ Kinds
<1> DEFINE key == KeyAt[day]
           cost == slot[s].cost
<1>1. s[1] \in Processes /\ key \in Keys /\ cost \in Costs /\ cost \in Nat
  <2>1. SlotTyped(slot[s]) /\ slot[s].at = "priced"
    BY DEF Types, SlotTypes, RecordSpend
  <2> QED  BY <2>1, ConstantTypes DEF Types, TableTypes, SlotTyped
<1>2. SpendWrite(key, cost) \in Writes
  BY <1>1, WriteFacts
<1>3. /\ Enqueue(s[1], SpendWrite(key, cost))
      /\ owed' = [owed EXCEPT ![key] = @ + cost]
      /\ writers' = writers \cup {s[1]}
      /\ \E n : readers' = readers \cup {[process |-> s[1], key |-> key, cost |-> cost, id |-> n]}
      /\ slot' = [slot EXCEPT ![s] = IdleRequest]
      /\ UNCHANGED <<backend, day, row, counts, writer, memory, events, recorded, bounds>>
  BY DEF RecordSpend
<1> HIDE DEF key, cost
<1>4. SlotTypes'
  BY <1>3, IdleTyped, SlotStepTypes DEF Types
<1>5. QueueTypes'
  BY <1>1, <1>2, <1>3, EnqueueTypes DEF Types, QueueTypes
<1>6. TableTypes'
  BY <1>1, <1>3 DEF Types, TableTypes
<1>7. ReaderTypes'
  BY <1>1, <1>3 DEF Types, ReaderTypes
<1>8. BoundTypes'
  BY <1>3 DEF Types, BoundTypes
<1>9. HandsSpend(s[1], cost)
  BY <1>1, <1>2, <1>3 DEF key, HandsSpend, Handed
<1> QED  BY <1>1, <1>3, <1>4, <1>5, <1>6, <1>7, <1>8, <1>9 DEF Types, BoundTypes, Kinds

LEMMA ReadBackStep ==
  ASSUME Types, NEW r \in readers, ReadBack(r)
  PROVE  Types' /\ Kinds
<1>1. BoundTypes' /\ bounds.mishaps <= bounds'.mishaps /\ bounds'.resets = bounds.resets
  BY MishapTypes DEF ReadBack, Types, BoundTypes
<1>2. events' \in [Events -> Nat]
  BY DEF ReadBack, Types, TableTypes
<1>3. TableTypes'
  BY <1>2 DEF ReadBack, Types, TableTypes
<1>4. QueueTypes' /\ SlotTypes' /\ ReaderTypes'
  BY DEF ReadBack, Types, QueueTypes, SlotTypes, ReaderTypes
<1>5. Quiet
  BY <1>1 DEF ReadBack, Quiet
<1> QED  BY <1>1, <1>3, <1>4, <1>5 DEF Types, Kinds, ReadBack

LEMMA ResetStep ==
  ASSUME Types, NEW p \in Processes, Reset(p)
  PROVE  Types' /\ Kinds
<1>1. KeyAt[day] \in Keys /\ ResetWrite(KeyAt[day]) \in Writes
  BY ConstantTypes, WriteFacts DEF Types, TableTypes
<1>2. /\ BoundTypes' /\ bounds'.mishaps = bounds.mishaps
      /\ bounds'.resets = bounds.resets + 1 /\ bounds.mishaps \in Nat
  BY DEF Reset, Types, BoundTypes
<1>3. QueueTypes'
  BY <1>1, EnqueueTypes DEF Reset, Types, QueueTypes
<1>4. TableTypes'
  BY <1>1 DEF Reset, Types, TableTypes
<1>5. SlotTypes' /\ ReaderTypes'
  BY DEF Reset, Types, SlotTypes, ReaderTypes
<1>6. HandsReset(p)
  BY <1>1, <1>2 DEF Reset, HandsReset, Handed
<1> QED  BY <1>2, <1>3, <1>4, <1>5, <1>6 DEF Types, Kinds, Reset

LEMMA OpenWriterStep ==
  ASSUME Types, NEW p \in Processes, OpenWriter(p)
  PROVE  Types' /\ Kinds
<1>1. TableTypes' /\ SlotTypes' /\ ReaderTypes'
  BY DEF OpenWriter, Types, TableTypes, SlotTypes, ReaderTypes
<1>2. QueueTypes'
  <2>1. CASE pending' = pending /\ writer' = [writer EXCEPT ![p] = "running"]
    BY <2>1 DEF Types, QueueTypes
  <2>2. CASE pending' = [pending EXCEPT ![p] = <<>>] /\ writer' = [writer EXCEPT ![p] = "gone"]
    BY <2>2 DEF Types, QueueTypes
  <2> QED  BY <2>1, <2>2 DEF OpenWriter
<1>3. BoundTypes' /\ bounds.mishaps <= bounds'.mishaps
  BY MishapTypes DEF OpenWriter, Types, BoundTypes
<1>4. Quiet \/ Loses(p)
  BY DEF OpenWriter, Quiet, Loses
<1> QED  BY <1>1, <1>2, <1>3, <1>4 DEF Types, Kinds, OpenWriter

LEMMA ApplyStep ==
  ASSUME Types, NEW p \in Processes, Apply(p)
  PROVE  Types' /\ Kinds
<1>1. pending[p] \in Seq(Writes)
  BY DEF Types, QueueTypes
<1>2. CASE OpenWriter(p)
  BY <1>2, OpenWriterStep
<1>3. CASE WriterStep(p)
  <2>1. /\ Tail(pending[p]) \in Seq(Writes) /\ Leaves(pending[p], 1, Tail(pending[p]))
        /\ 1 \in DOMAIN pending[p] /\ Head(pending[p]) = pending[p][1]
    BY <1>1, <1>3, TailFacts DEF WriterStep
  <2> QED  BY <1>3, <2>1, TakesTypes DEF WriterStep
<1>4. ASSUME NEW i \in DOMAIN pending[p], NEW kind \in {"usage", "daily", "spend", "reset"},
             Task(p, i, kind)
      PROVE  Types' /\ Kinds
  <2>1. /\ RemoveAt(pending[p], i) \in Seq(Writes)
        /\ Leaves(pending[p], i, RemoveAt(pending[p], i))
    BY <1>1, RemoveAtFacts
  <2> QED  BY <1>4, <2>1, TakesTypes DEF Task
<1> QED  BY <1>2, <1>3, <1>4 DEF Apply, UsageTask, DailyTask, SpendTask, ResetTask

LEMMA RestartStep ==
  ASSUME Types, NEW p \in Processes, Restart(p)
  PROVE  Types' /\ Kinds
<1>1. LoadAll \in Nat
  BY DEF LoadAll, Types, TableTypes, Rows
<1>2. TableTypes'
  BY <1>1 DEF Restart, Types, TableTypes
<1>3. QueueTypes'
  BY DEF Restart, Types, QueueTypes
<1>4. SlotTypes'
  BY IdleTyped DEF Restart, Types, SlotTypes
<1>5. ReaderTypes'
  BY DEF Restart, Types, ReaderTypes
<1>6. BoundTypes' /\ bounds.mishaps <= bounds'.mishaps
  BY MishapTypes DEF Restart, Types, BoundTypes
<1>7. Loses(p)
  BY DEF Restart, Loses
<1> QED  BY <1>2, <1>3, <1>4, <1>5, <1>6, <1>7 DEF Types, Kinds, Restart

LEMMA TickStep ==
  ASSUME Types, Tick
  PROVE  Types' /\ Kinds
<1>1. day' \in Days
  BY LedgerAssumption DEF Tick, Types, TableTypes, Days
<1>2. TableTypes'
  BY <1>1 DEF Tick, Types, TableTypes
<1>3. QueueTypes' /\ SlotTypes' /\ ReaderTypes' /\ BoundTypes'
  BY DEF Tick, Types, QueueTypes, SlotTypes, ReaderTypes, BoundTypes
<1>4. Passes
  BY DEF Tick, Passes
<1> QED  BY <1>2, <1>3, <1>4 DEF Types, BoundTypes, Kinds, Tick

LEMMA EveryStep ==
  ASSUME Types, [Next]_vars
  PROVE  Types' /\ Kinds
<1>1. CASE UNCHANGED vars
  <2>1. Types'
    BY <1>1 DEF vars, Types, TableTypes, QueueTypes, SlotTypes, ReaderTypes, BoundTypes
  <2>2. Quiet
    BY <1>1 DEF vars, Quiet
  <2> QED  BY <1>1, <2>1, <2>2 DEF vars, Kinds, Types, BoundTypes
<1>2. CASE Next
  BY <1>2, StartCheckStep, FinishCheckStep, NoAnswerStep, AnswerStep, RecordDailyStep,
     RecordSpendStep, ReadBackStep, ApplyStep, ResetStep, RestartStep, TickStep DEF Next
<1> QED  BY <1>1, <1>2

LEMMA InitTypes ==
  ASSUME Init
  PROVE  Types
<1>1. TableTypes /\ QueueTypes /\ ReaderTypes /\ BoundTypes
  BY ConstantTypes DEF Init, TableTypes, QueueTypes, ReaderTypes, BoundTypes
<1>2. SlotTypes
  BY IdleTyped DEF Init, SlotTypes
<1> QED  BY <1>1, <1>2 DEF Types

-----------------------------------------------------------------------------
(* What is on its way, weighed.                                            *)
UnitsOf(q, f) ==
  {t \in Places : t[2] \in DOMAIN q[t[1]] /\ t[3] \in 1..f[q[t[1]][t[2]]]}

Queues == [Processes -> Seq(Writes)]
Weights == [Writes -> Nat]

LEMMA UnitIn ==
  ASSUME NEW q \in Queues, NEW f \in Weights, NEW p \in Processes, NEW i, NEW c
  PROVE  <<p, i, c>> \in UnitsOf(q, f) <=> i \in DOMAIN q[p] /\ c \in 1..f[q[p][i]]
<1>1. q[p] \in Seq(Writes)
  BY DEF Queues
<1>2. ASSUME i \in DOMAIN q[p], c \in 1..f[q[p][i]]
      PROVE  <<p, i, c>> \in Places
  <2>1. i \in Nat /\ q[p][i] \in Writes
    BY <1>1, <1>2
  <2>2. f[q[p][i]] \in Nat
    BY <2>1 DEF Weights
  <2>3. c \in Nat
    BY <1>2, <2>2
  <2> QED  BY <2>1, <2>3 DEF Places
<1> QED  BY <1>2 DEF UnitsOf

LEMMA UnitsNone ==
  ASSUME NEW q, \A p \in Processes : q[p] = <<>>, NEW f
  PROVE  IsFiniteSet(UnitsOf(q, f)) /\ Cardinality(UnitsOf(q, f)) = 0
<1>1. UnitsOf(q, f) = {}
  BY DEF UnitsOf, Places
<1> QED  BY <1>1, FS_EmptySet

Enqueued(q, r, p, w) == r = [q EXCEPT ![p] = Append(@, w)]

LEMMA UnitsEnqueued ==
  ASSUME NEW q \in Queues, NEW f \in Weights, NEW p \in Processes, NEW w \in Writes,
         NEW r \in Queues, Enqueued(q, r, p, w), IsFiniteSet(UnitsOf(q, f))
  PROVE  /\ IsFiniteSet(UnitsOf(r, f))
         /\ Cardinality(UnitsOf(r, f)) = Cardinality(UnitsOf(q, f)) + f[w]
<1> DEFINE i == Len(q[p]) + 1
<1>1. /\ q[p] \in Seq(Writes) /\ f[w] \in Nat /\ i \in Nat
      /\ DOMAIN q[p] = 1..Len(q[p]) /\ Len(q[p]) \in Nat
  BY DEF Queues, Weights
<1>2. /\ r[p] = Append(q[p], w) /\ \A x \in Processes : x # p => r[x] = q[x]
  BY DEF Queues, Enqueued
<1>3. /\ DOMAIN r[p] = 1..i /\ r[p][i] = w
      /\ \A j \in DOMAIN q[p] : r[p][j] = q[p][j]
  BY <1>1, <1>2, AppendFacts
<1> HIDE DEF i
<1>4. i \notin DOMAIN q[p] /\ \A j : j \in DOMAIN r[p] <=> j \in DOMAIN q[p] \/ j = i
  BY <1>1, <1>3 DEF i
<1>5. ASSUME NEW t
      PROVE  t \in UnitsOf(r, f) <=> \/ t \in UnitsOf(q, f)
                                     \/ \E c \in 1..f[w] : t = <<p, i, c>>
  <2>1. ASSUME t \in UnitsOf(r, f) \/ t \in UnitsOf(q, f) \/ \E c \in 1..f[w] : t = <<p, i, c>>
        PROVE  t = <<t[1], t[2], t[3]>> /\ t[1] \in Processes
    <3>1. CASE t \in Places
      BY <3>1 DEF Places
    <3>2. CASE \E c \in 1..f[w] : t = <<p, i, c>>
      BY <3>2
    <3> QED  BY <2>1, <3>1, <3>2 DEF UnitsOf
  <2> SUFFICES ASSUME t = <<t[1], t[2], t[3]>>, t[1] \in Processes
               PROVE  t \in UnitsOf(r, f) <=> \/ t \in UnitsOf(q, f)
                                              \/ \E c \in 1..f[w] : t = <<p, i, c>>
    BY <2>1
  <2>2. /\ t \in UnitsOf(r, f) <=> t[2] \in DOMAIN r[t[1]] /\ t[3] \in 1..f[r[t[1]][t[2]]]
        /\ t \in UnitsOf(q, f) <=> t[2] \in DOMAIN q[t[1]] /\ t[3] \in 1..f[q[t[1]][t[2]]]
    <3> DEFINE x == t[1]
               j == t[2]
               c == t[3]
    <3>1. t = <<x, j, c>> /\ x \in Processes
      OBVIOUS
    <3> HIDE DEF x, j, c
    <3>2. /\ <<x, j, c>> \in UnitsOf(r, f) <=> j \in DOMAIN r[x] /\ c \in 1..f[r[x][j]]
          /\ <<x, j, c>> \in UnitsOf(q, f) <=> j \in DOMAIN q[x] /\ c \in 1..f[q[x][j]]
      BY <3>1, UnitIn
    <3>3. /\ t \in UnitsOf(r, f) <=> j \in DOMAIN r[x] /\ c \in 1..f[r[x][j]]
          /\ t \in UnitsOf(q, f) <=> j \in DOMAIN q[x] /\ c \in 1..f[q[x][j]]
      BY <3>1, <3>2, Zenon
    <3> QED  BY <3>3 DEF x, j, c
  <2>3. (\E c \in 1..f[w] : t = <<p, i, c>>) <=> t[1] = p /\ t[2] = i /\ t[3] \in 1..f[w]
    OBVIOUS
  <2>4. CASE t[1] # p
    BY <1>2, <2>2, <2>3, <2>4
  <2>5. CASE t[1] = p /\ t[2] = i
    BY <1>3, <1>4, <2>2, <2>3, <2>5
  <2>6. CASE t[1] = p /\ t[2] # i
    BY <1>3, <1>4, <2>2, <2>3, <2>6
  <2> QED  BY <2>4, <2>5, <2>6
<1>6. \A c \in 1..f[w] : <<p, i, c>> \notin UnitsOf(q, f)
  BY <1>4, UnitIn
<1> DEFINE n == f[w]
           A == UnitsOf(q, f)
           B == UnitsOf(r, f)
<1>7. /\ IsFiniteSet(A) /\ n \in Nat
      /\ Joined(A, B, p, i, n)
  BY <1>1, <1>5, <1>6 DEF Joined
<1> HIDE DEF n, A, B
<1>8. IsFiniteSet(B) /\ Cardinality(B) = Cardinality(A) + n
  BY <1>7, UnitsPushed, Zenon
<1> QED  BY <1>8 DEF n, A, B

LEMMA UnitsTaken ==
  ASSUME NEW q \in Queues, NEW f \in Weights, NEW p \in Processes, NEW i \in DOMAIN q[p],
         NEW r \in Queues, Shortened(q, r, p, i), IsFiniteSet(UnitsOf(q, f))
  PROVE  /\ IsFiniteSet(UnitsOf(r, f))
         /\ Cardinality(UnitsOf(q, f)) = Cardinality(UnitsOf(r, f)) + f[q[p][i]]
<1>0. PICK t \in Seq(Writes) : Leaves(q[p], i, t) /\ r = [q EXCEPT ![p] = t]
  BY DEF Shortened
<1>1. /\ q[p] \in Seq(Writes) /\ DOMAIN q[p] = 1..Len(q[p]) /\ Len(q[p]) \in Nat
      /\ i \in Nat /\ i \in 1..Len(q[p]) /\ q[p][i] \in Writes
  BY DEF Queues
<1>2. f[q[p][i]] \in Nat
  BY <1>1 DEF Weights
<1>3. r[p] = t /\ \A x \in Processes : x # p => r[x] = q[x]
  BY <1>0 DEF Queues
<1>4. UnitsOf(q, f) \in SUBSET Places /\ UnitsOf(r, f) \in SUBSET Places
  BY DEF UnitsOf
<1>5. \A c \in Nat : <<p, i, c>> \in UnitsOf(q, f) <=> c \in 1..f[q[p][i]]
  BY UnitIn
<1>6. ASSUME NEW x \in Processes, NEW j \in Nat, NEW c \in Nat
      PROVE  <<x, j, c>> \in UnitsOf(r, f)
               <=> <<x, IF x = p THEN Skip(i, j) ELSE j, c>> \in UnitsOf(q, f)
  <2>1. CASE x # p
    <3>1. r[x] = q[x]
      BY <1>3, <2>1
    <3>2. /\ <<x, j, c>> \in UnitsOf(r, f) <=> j \in DOMAIN r[x] /\ c \in 1..f[r[x][j]]
          /\ <<x, j, c>> \in UnitsOf(q, f) <=> j \in DOMAIN q[x] /\ c \in 1..f[q[x][j]]
      BY UnitIn
    <3> QED  BY <2>1, <3>1, <3>2, Zenon
  <2>2. CASE x = p
    <3>1. j \in DOMAIN t <=> Skip(i, j) \in DOMAIN q[p]
      BY <1>0, <1>1 DEF Leaves, Skip
    <3>2. j \in DOMAIN t => t[j] = q[p][Skip(i, j)]
      BY <1>0 DEF Leaves
    <3>3. /\ <<p, j, c>> \in UnitsOf(r, f) <=> j \in DOMAIN t /\ c \in 1..f[t[j]]
          /\ <<p, Skip(i, j), c>> \in UnitsOf(q, f)
               <=> Skip(i, j) \in DOMAIN q[p] /\ c \in 1..f[q[p][Skip(i, j)]]
      BY <1>3, UnitIn
    <3> QED  BY <2>2, <3>1, <3>2, <3>3
  <2> QED  BY <2>1, <2>2
<1> DEFINE n == f[q[p][i]]
           A == UnitsOf(q, f)
           B == UnitsOf(r, f)
<1>7. /\ IsFiniteSet(A) /\ n \in Nat /\ A \in SUBSET Places /\ B \in SUBSET Places
      /\ i \in Nat /\ Departed(A, B, p, i, n)
  BY <1>1, <1>2, <1>4, <1>5, <1>6 DEF Departed
<1> HIDE DEF n, A, B
<1>8. IsFiniteSet(B) /\ Cardinality(A) = Cardinality(B) + n
  BY <1>7, UnitsPopped, Zenon
<1> QED  BY <1>8 DEF n, A, B

LEMMA UnitsCleared ==
  ASSUME NEW q \in Queues, NEW f \in Weights, NEW p \in Processes,
         NEW r \in Queues, r = [q EXCEPT ![p] = <<>>],
         IsFiniteSet(UnitsOf(q, f))
  PROVE  /\ IsFiniteSet(UnitsOf(r, f))
         /\ Cardinality(UnitsOf(r, f)) <= Cardinality(UnitsOf(q, f))
<1>1. r[p] = <<>> /\ \A x \in Processes : x # p => r[x] = q[x]
  BY DEF Queues
<1>2. UnitsOf(r, f) \subseteq UnitsOf(q, f)
  BY <1>1 DEF UnitsOf, Places
<1> QED  BY <1>2, FS_Subset

(* The same of the writes on their way, for any kind of step: what is      *)
(* handed over adds its weight, what leaves a queue takes its weight with  *)
(* it, and a loss makes nothing of more weight.                            *)
LEMMA UnitsHanded ==
  ASSUME Types, Types', NEW f \in Weights, NEW p \in Processes, NEW w \in Writes,
         Enqueue(p, w), IsFiniteSet(UnitsOf(pending, f))
  PROVE  /\ IsFiniteSet(UnitsOf(pending', f))
         /\ Cardinality(UnitsOf(pending', f)) <= Cardinality(UnitsOf(pending, f)) + f[w]
         /\ writer[p] # "gone" =>
              Cardinality(UnitsOf(pending', f)) = Cardinality(UnitsOf(pending, f)) + f[w]
<1>1. pending \in Queues /\ pending' \in Queues
  BY DEF Types, QueueTypes, Queues
<1>2. Cardinality(UnitsOf(pending, f)) \in Nat /\ f[w] \in Nat
  BY FS_CardinalityType DEF Weights
<1>3. CASE writer[p] = "gone"
  BY <1>2, <1>3 DEF Enqueue
<1>4. CASE writer[p] # "gone"
  <2>1. pending' = [pending EXCEPT ![p] = Append(@, w)]
    BY <1>4 DEF Enqueue
  <2>2. /\ IsFiniteSet(UnitsOf(pending', f))
        /\ Cardinality(UnitsOf(pending', f)) = Cardinality(UnitsOf(pending, f)) + f[w]
    <3>1. Enqueued(pending, pending', p, w)
      BY <2>1 DEF Enqueued
    <3> QED  BY <1>1, <3>1, UnitsEnqueued
  <2> QED  BY <1>2, <2>2
<1> QED  BY <1>3, <1>4

LEMMA UnitsTook ==
  ASSUME Types, Types', NEW f \in Weights, NEW p \in Processes, NEW i, Takes(p, i),
         IsFiniteSet(UnitsOf(pending, f))
  PROVE  /\ pending[p][i] \in Writes /\ f[pending[p][i]] \in Nat
         /\ IsFiniteSet(UnitsOf(pending', f))
         /\ Cardinality(UnitsOf(pending, f))
              = Cardinality(UnitsOf(pending', f)) + f[pending[p][i]]
<1>1. pending \in Queues /\ pending' \in Queues
  BY DEF Types, QueueTypes, Queues
<1>2. Shortened(pending, pending', p, i)
  BY DEF Takes
<1>3. i \in DOMAIN pending[p] /\ pending[p] \in Seq(Writes)
  BY <1>1 DEF Takes, Queues
<1>4. pending[p][i] \in Writes
  BY <1>3
<1>5. f[pending[p][i]] \in Nat
  BY <1>4 DEF Weights
<1>6. /\ IsFiniteSet(UnitsOf(pending', f))
      /\ Cardinality(UnitsOf(pending, f))
           = Cardinality(UnitsOf(pending', f)) + f[pending[p][i]]
  BY <1>1, <1>2, <1>3, UnitsTaken
<1> QED  BY <1>4, <1>5, <1>6

LEMMA UnitsLost ==
  ASSUME Types, Types', NEW f \in Weights, NEW p \in Processes, Loses(p),
         IsFiniteSet(UnitsOf(pending, f))
  PROVE  /\ IsFiniteSet(UnitsOf(pending', f))
         /\ Cardinality(UnitsOf(pending', f)) <= Cardinality(UnitsOf(pending, f))
<1>1. pending \in Queues /\ pending' \in Queues /\ pending' = [pending EXCEPT ![p] = <<>>]
  BY DEF Types, QueueTypes, Queues, Loses
<1> QED  BY <1>1, UnitsCleared

-----------------------------------------------------------------------------
(* No request is lost and none counted twice.                              *)
RowWeight(r) == [w \in Writes |-> IF <<w.kind, w.key>> = r THEN 1 ELSE 0]

OnWay(r) == UnitsOf(pending, RowWeight(r))

Counted(r) ==
  /\ IsFiniteSet(OnWay(r))
  /\ counts[r] + Cardinality(OnWay(r)) <= recorded[r]
  /\ NothingLost => counts[r] + Cardinality(OnWay(r)) = recorded[r]

WritersLive == NothingLost => \A p \in Processes : writer[p] # "gone"

LEMMA RowWeights == \A r : RowWeight(r) \in Weights
BY DEF RowWeight, Weights

LEMMA StillNothingLost ==
  ASSUME Types, Kinds, NothingLost'
  PROVE  NothingLost
BY DEF Types, BoundTypes, Kinds, NothingLost

LEMMA MishapLoses ==
  ASSUME Types, Mishap
  PROVE  ~NothingLost'
BY MishapTypes DEF Types, BoundTypes, NothingLost

LEMMA WritersStayLive ==
  ASSUME Types, Kinds, WritersLive
  PROVE  WritersLive'
<1>1. CASE \E p \in Processes : Loses(p)
  BY <1>1, MishapLoses DEF Loses, WritersLive
<1>2. CASE Quiet
  BY <1>2, StillNothingLost DEF Quiet, WritersLive, Types, QueueTypes
<1>3. CASE writer' = writer
  BY <1>3, StillNothingLost DEF WritersLive
<1>4. (\E p \in Processes : Loses(p)) \/ Quiet \/ writer' = writer
  BY DEF Kinds, Passes, HandsUsage, HandsDaily, HandsSpend, HandsReset, Handed, Takes
<1> QED  BY <1>1, <1>2, <1>3, <1>4

LEMMA CountedHanded ==
  ASSUME Types, Types', Kinds, WritersLive, NEW r \in Rows, Counted(r),
         NEW p \in Processes, NEW w \in Writes, Handed(p, w),
         recorded'[r] = recorded[r] + RowWeight(r)[w]
  PROVE  Counted(r)'
<1>1. /\ IsFiniteSet(UnitsOf(pending', RowWeight(r)))
      /\ Cardinality(OnWay(r)') <= Cardinality(OnWay(r)) + RowWeight(r)[w]
      /\ writer[p] # "gone" =>
           Cardinality(OnWay(r)') = Cardinality(OnWay(r)) + RowWeight(r)[w]
  BY RowWeights, UnitsHanded DEF Handed, Counted, OnWay
<1>2. IsFiniteSet(OnWay(r)') /\ OnWay(r)' = UnitsOf(pending', RowWeight(r))
  BY <1>1 DEF OnWay
<1>3. /\ Cardinality(OnWay(r)) \in Nat /\ Cardinality(OnWay(r)') \in Nat
      /\ RowWeight(r)[w] \in Nat
      /\ counts[r] \in Nat /\ recorded[r] \in Nat /\ counts'[r] = counts[r]
  BY <1>2, FS_CardinalityType DEF Counted, RowWeight, Types, TableTypes, Handed
<1>4. NothingLost' => writer[p] # "gone" /\ NothingLost
  BY StillNothingLost DEF WritersLive
<1> QED  BY <1>1, <1>2, <1>3, <1>4 DEF Counted

LEMMA CountedTaken ==
  ASSUME Types, Types', Kinds, NEW r \in Rows, Counted(r),
         NEW p \in Processes, NEW i, Takes(p, i)
  PROVE  Counted(r)'
<1> DEFINE w == pending[p][i]
           n == RowWeight(r)[w]
<1>1. /\ w \in Writes /\ n \in Nat
      /\ IsFiniteSet(UnitsOf(pending', RowWeight(r)))
      /\ Cardinality(OnWay(r)) = Cardinality(OnWay(r)') + n
  BY RowWeights, UnitsTook DEF Counted, OnWay
<1>2. IsFiniteSet(OnWay(r)')
  BY <1>1 DEF OnWay
<1>3. /\ Cardinality(OnWay(r)') \in Nat
      /\ counts[r] \in Nat /\ recorded[r] \in Nat /\ recorded' = recorded
  BY <1>2, FS_CardinalityType DEF Types, TableTypes, Takes
<1> HIDE DEF n
<1>4. CASE Execute(w) /\ UNCHANGED bounds
  <2>1. counts'[r] = counts[r] + n
    <3>1. CASE w.kind \in {"spend", "reset"}
      <4>1. <<w.kind, w.key>> # r
        BY <3>1 DEF Rows
      <4>2. n = 0 /\ counts' = counts
        BY <1>1, <1>4, <3>1, <4>1 DEF n, RowWeight, Execute
      <4> QED  BY <1>3, <4>2
    <3>2. CASE w.kind \notin {"spend", "reset"}
      <4>1. counts' = [counts EXCEPT ![<<w.kind, w.key>>] = counts[<<w.kind, w.key>>] + 1]
        BY <1>4, <3>2 DEF Execute, CountAdded
      <4>2. n = IF <<w.kind, w.key>> = r THEN 1 ELSE 0
        BY <1>1 DEF n, RowWeight
      <4>3. counts \in [Rows -> Nat]
        BY DEF Types, TableTypes
      <4> HIDE DEF w
      <4> QED  BY <1>3, <4>1, <4>2, <4>3
    <3> QED  BY <3>1, <3>2
  <2>2. NothingLost' => NothingLost
    BY StillNothingLost
  <2> QED  BY <1>1, <1>2, <1>3, <2>1, <2>2 DEF Counted
<1>5. CASE Mishap /\ UNCHANGED <<row, counts>>
  BY <1>1, <1>2, <1>3, <1>5, MishapLoses DEF Counted
<1> QED  BY <1>4, <1>5 DEF Takes, Lands

LEMMA CountedLost ==
  ASSUME Types, Types', NEW r \in Rows, Counted(r), NEW p \in Processes, Loses(p)
  PROVE  Counted(r)'
<1>1. /\ IsFiniteSet(UnitsOf(pending', RowWeight(r)))
      /\ Cardinality(OnWay(r)') <= Cardinality(OnWay(r))
  BY RowWeights, UnitsLost DEF Counted, OnWay
<1>2. IsFiniteSet(OnWay(r)')
  BY <1>1 DEF OnWay
<1>3. /\ Cardinality(OnWay(r)') \in Nat /\ Cardinality(OnWay(r)) \in Nat
      /\ counts[r] \in Nat /\ recorded[r] \in Nat /\ recorded' = recorded /\ counts' = counts
  BY <1>2, FS_CardinalityType DEF Counted, Types, TableTypes, Loses
<1> QED  BY <1>1, <1>2, <1>3, MishapLoses DEF Counted, Loses

(* What each way of handing over a write adds to the record of a row.      *)
LEMMA RecordedAdds ==
  ASSUME Types, NEW r \in Rows, NEW p \in Processes
  PROVE  /\ HandsUsage(p) => recorded'[r] = recorded[r] + RowWeight(r)[UsageWrite]
         /\ HandsDaily(p) => recorded'[r] = recorded[r] + RowWeight(r)[DailyWrite(day)]
         /\ \A cost \in Costs : HandsSpend(p, cost) =>
              recorded'[r] = recorded[r] + RowWeight(r)[SpendWrite(KeyAt[day], cost)]
         /\ HandsReset(p) =>
              recorded'[r] = recorded[r] + RowWeight(r)[ResetWrite(KeyAt[day])]
<1>1. day \in Days /\ KeyAt[day] \in Keys /\ recorded \in [Rows -> Nat]
  BY ConstantTypes DEF Types, TableTypes
<1>2. /\ UsageWrite \in Writes /\ DailyWrite(day) \in Writes
      /\ ResetWrite(KeyAt[day]) \in Writes
      /\ \A cost \in Costs : SpendWrite(KeyAt[day], cost) \in Writes
  BY <1>1, WriteFacts
<1>3. ASSUME HandsUsage(p) PROVE recorded'[r] = recorded[r] + RowWeight(r)[UsageWrite]
  <2>1. RowWeight(r)[UsageWrite] = IF <<"usage", 0>> = r THEN 1 ELSE 0
    BY <1>2 DEF RowWeight, UsageWrite
  <2> QED  BY <1>1, <1>3, <2>1 DEF HandsUsage
<1>4. ASSUME HandsDaily(p) PROVE recorded'[r] = recorded[r] + RowWeight(r)[DailyWrite(day)]
  <2>1. RowWeight(r)[DailyWrite(day)] = IF <<"daily", day>> = r THEN 1 ELSE 0
    BY <1>2 DEF RowWeight, DailyWrite
  <2> QED  BY <1>1, <1>4, <2>1 DEF HandsDaily
<1>5. ASSUME NEW cost \in Costs, HandsSpend(p, cost)
      PROVE  recorded'[r] = recorded[r] + RowWeight(r)[SpendWrite(KeyAt[day], cost)]
  <2>1. RowWeight(r)[SpendWrite(KeyAt[day], cost)] = 0
    BY <1>2 DEF RowWeight, SpendWrite, Rows
  <2> QED  BY <1>1, <1>5, <2>1 DEF HandsSpend
<1>6. ASSUME HandsReset(p)
      PROVE  recorded'[r] = recorded[r] + RowWeight(r)[ResetWrite(KeyAt[day])]
  <2>1. RowWeight(r)[ResetWrite(KeyAt[day])] = 0
    BY <1>2 DEF RowWeight, ResetWrite, Rows
  <2> QED  BY <1>1, <1>6, <2>1 DEF HandsReset
<1> QED  BY <1>3, <1>4, <1>5, <1>6

LEMMA CountedStep ==
  ASSUME Types, Types', Kinds, WritersLive, NEW r \in Rows, Counted(r)
  PROVE  Counted(r)'
<1>1. CASE Quiet \/ Passes
  <2>1. UNCHANGED <<counts, recorded, pending>>
    BY <1>1 DEF Quiet, Passes
  <2>2. OnWay(r)' = OnWay(r)
    BY <2>1 DEF OnWay
  <2> QED  BY <2>1, <2>2, StillNothingLost DEF Counted
<1>2. ASSUME NEW p \in Processes, HandsUsage(p) PROVE Counted(r)'
  BY <1>2, RecordedAdds, CountedHanded DEF HandsUsage, Handed
<1>3. ASSUME NEW p \in Processes, HandsDaily(p) PROVE Counted(r)'
  BY <1>3, RecordedAdds, CountedHanded DEF HandsDaily, Handed
<1>4. ASSUME NEW p \in Processes, NEW cost \in Costs, HandsSpend(p, cost) PROVE Counted(r)'
  BY <1>4, RecordedAdds, CountedHanded DEF HandsSpend, Handed
<1>5. ASSUME NEW p \in Processes, HandsReset(p) PROVE Counted(r)'
  BY <1>5, RecordedAdds, CountedHanded DEF HandsReset, Handed
<1> QED  BY <1>1, <1>2, <1>3, <1>4, <1>5, CountedTaken, CountedLost DEF Kinds

(* What a process remembers.                                               *)
Memories ==
  /\ \A p \in Processes : memory[p] <= recorded[<<"usage", 0>>]
  /\ NothingLost => /\ IsFiniteSet(Remembered)
                    /\ Cardinality(Remembered) = recorded[<<"usage", 0>>]

(* No row of a day that has not begun.                                     *)
NoFuture == \A d \in Days : d > day => recorded[<<"daily", d>>] = 0

LEMMA UsageRow == <<"usage", 0>> \in Rows /\ \A d \in Days : <<"daily", d>> \in Rows
BY DEF Rows

LEMMA MemoriesGrow ==
  ASSUME Types, NEW p \in Processes, IsFiniteSet(Remembered),
         memory' = [memory EXCEPT ![p] = @ + 1]
  PROVE  /\ IsFiniteSet(Remembered')
         /\ Cardinality(Remembered') = Cardinality(Remembered) + 1
<1> DEFINE new == <<p, memory[p] + 1>>
<1>1. /\ memory[p] \in Nat /\ memory'[p] = memory[p] + 1
      /\ \A x \in Processes : x # p => memory'[x] = memory[x]
  BY DEF Types, TableTypes
<1>2. \A n : n \in 1..memory'[p] <=> n \in 1..memory[p] \/ n = memory[p] + 1
  BY <1>1
<1>3. ASSUME NEW t PROVE t \in Remembered' <=> t \in Remembered \/ t = new
  <2>1. \A m : t \in UNION {{x} \X (1..m[x]) : x \in Processes}
                 <=> \E x \in Processes : \E n \in 1..m[x] : t = <<x, n>>
    OBVIOUS
  <2>2. /\ t \in Remembered <=> \E x \in Processes : \E n \in 1..memory[x] : t = <<x, n>>
        /\ t \in Remembered' <=> \E x \in Processes : \E n \in 1..memory'[x] : t = <<x, n>>
    BY <2>1 DEF Remembered
  <2>3. ASSUME t \in Remembered' PROVE t \in Remembered \/ t = new
    <3>1. PICK x \in Processes : \E n \in 1..memory'[x] : t = <<x, n>>
      BY <2>2, <2>3
    <3>2. PICK n \in 1..memory'[x] : t = <<x, n>>
      BY <3>1
    <3>3. n \in 1..memory[x] \/ (x = p /\ n = memory[p] + 1)
      BY <1>1, <1>2
    <3> QED  BY <2>2, <3>2, <3>3
  <2>4. ASSUME t \in Remembered PROVE t \in Remembered'
    <3>1. PICK x \in Processes : \E n \in 1..memory[x] : t = <<x, n>>
      BY <2>2, <2>4
    <3>2. PICK n \in 1..memory[x] : t = <<x, n>>
      BY <3>1
    <3>3. n \in 1..memory'[x]
      BY <1>1, <1>2
    <3> QED  BY <2>2, <3>2, <3>3
  <2>5. new \in UNION {{x} \X (1..memory'[x]) : x \in Processes}
    <3>1. memory[p] + 1 \in 1..memory'[p]
      BY <1>1
    <3> QED  BY <3>1
  <2>6. new \in Remembered'
    BY <2>5 DEF Remembered
  <2> QED  BY <2>3, <2>4, <2>6
<1>4. new \notin Remembered
  <2> SUFFICES ASSUME new \in Remembered PROVE FALSE
    OBVIOUS
  <2>1. PICK x \in Processes : new \in {x} \X (1..memory[x])
    BY DEF Remembered
  <2>2. memory[p] + 1 \in 1..memory[p]
    BY <2>1
  <2> QED  BY <1>1, <2>2
<1>5. Remembered' = Remembered \cup {new}
  BY <1>3
<1> HIDE DEF new
<1> QED  BY <1>4, <1>5, FS_AddElement

LEMMA MemoriesStep ==
  ASSUME Types, Types', Kinds, Memories, \A r \in Rows : Counted(r)
  PROVE  Memories'
<1>1. /\ memory \in [Processes -> Nat] /\ recorded \in [Rows -> Nat]
      /\ <<"usage", 0>> \in Rows /\ day \in Days
  BY UsageRow DEF Types, TableTypes
<1>2. CASE memory' = memory /\ recorded'[<<"usage", 0>>] = recorded[<<"usage", 0>>]
  <2>1. Remembered' = Remembered
    BY <1>2 DEF Remembered
  <2> QED  BY <1>2, <2>1, StillNothingLost DEF Memories
<1>3. ASSUME NEW p \in Processes, HandsUsage(p) PROVE Memories'
  <2>1. /\ memory' = [memory EXCEPT ![p] = @ + 1]
        /\ recorded'[<<"usage", 0>>] = recorded[<<"usage", 0>>] + 1
    BY <1>1, <1>3 DEF HandsUsage
  <2>2. \A x \in Processes : memory'[x] <= recorded'[<<"usage", 0>>]
    BY <1>1, <2>1 DEF Memories
  <2>3. NothingLost' => /\ IsFiniteSet(Remembered')
                        /\ Cardinality(Remembered') = recorded'[<<"usage", 0>>]
    BY <2>1, MemoriesGrow, StillNothingLost DEF Memories
  <2> QED  BY <2>2, <2>3 DEF Memories
<1>4. ASSUME NEW p \in Processes, Loses(p) PROVE Memories'
  <2>1. LoadAll <= recorded[<<"usage", 0>>]
    <3>1. Counted(<<"usage", 0>>)
      BY <1>1
    <3>2. /\ Cardinality(OnWay(<<"usage", 0>>)) \in Nat
          /\ counts[<<"usage", 0>>] \in Nat
      BY <1>1, <3>1, FS_CardinalityType DEF Counted, Types, TableTypes
    <3> QED  BY <1>1, <3>1, <3>2 DEF Counted, LoadAll
  <2>2. \A x \in Processes : memory'[x] <= recorded'[<<"usage", 0>>]
    BY <1>1, <1>4, <2>1 DEF Memories, Loses
  <2>3. ~NothingLost'
    BY <1>4, MishapLoses DEF Loses
  <2> QED  BY <2>2, <2>3 DEF Memories
<1>5. ASSUME NEW p \in Processes, HandsDaily(p)
      PROVE  memory' = memory /\ recorded'[<<"usage", 0>>] = recorded[<<"usage", 0>>]
  BY <1>1, <1>5 DEF HandsDaily
<1> QED  BY <1>2, <1>3, <1>4, <1>5
         DEF Kinds, Quiet, Passes, HandsSpend, HandsReset, Takes

LEMMA NoFutureStep ==
  ASSUME Types, Types', Kinds, NoFuture
  PROVE  NoFuture'
<1> SUFFICES ASSUME NEW d \in Days, d > day' PROVE recorded'[<<"daily", d>>] = 0
  BY DEF NoFuture
<1>1. /\ recorded \in [Rows -> Nat] /\ <<"daily", d>> \in Rows
      /\ day \in Nat /\ day' \in Nat /\ d \in Nat
  BY UsageRow, ConstantTypes DEF Types, TableTypes
<1>2. day <= day'
  BY <1>1 DEF Kinds, Quiet, Passes, HandsUsage, HandsDaily, HandsSpend, HandsReset, Handed,
              Takes, Loses
<1>3. recorded[<<"daily", d>>] = 0 /\ d # day
  BY <1>1, <1>2 DEF NoFuture
<1>4. recorded'[<<"daily", d>>] = recorded[<<"daily", d>>]
  <2>1. ASSUME NEW p \in Processes, HandsUsage(p)
        PROVE  recorded'[<<"daily", d>>] = recorded[<<"daily", d>>]
    BY <1>1, <2>1 DEF HandsUsage
  <2>2. ASSUME NEW p \in Processes, HandsDaily(p)
        PROVE  recorded'[<<"daily", d>>] = recorded[<<"daily", d>>]
    BY <1>1, <1>3, <2>2 DEF HandsDaily
  <2> QED  BY <2>1, <2>2 DEF Kinds, Quiet, Passes, HandsSpend, HandsReset, Takes, Loses
<1> QED  BY <1>3, <1>4

(* The writes of a row that wait are its units on the way.                 *)
LEMMA WaitingIsOnWay ==
  ASSUME Types, NEW r \in Rows, Counted(r)
  PROVE  Cardinality(Waiting(r)) = Cardinality(OnWay(r))
<1> DEFINE f == [t \in Waiting(r) |-> <<t[1], t[2], 1>>]
<1>1. pending \in Queues /\ RowWeight(r) \in Weights
  BY RowWeights DEF Types, QueueTypes, Queues
<1>2. ASSUME NEW p \in Processes, NEW i
      PROVE  <<p, i>> \in Waiting(r)
               <=> i \in DOMAIN pending[p] /\ <<pending[p][i].kind, pending[p][i].key>> = r
  BY DEF Waiting
<1>3. \A t \in Waiting(r) : t[1] \in Processes /\ t = <<t[1], t[2]>>
  BY DEF Waiting
<1>4. ASSUME NEW p \in Processes, NEW i, NEW c
      PROVE  <<p, i, c>> \in OnWay(r) <=> <<p, i>> \in Waiting(r) /\ c = 1
  <2>1. <<p, i, c>> \in OnWay(r)
          <=> i \in DOMAIN pending[p] /\ c \in 1..RowWeight(r)[pending[p][i]]
    BY <1>1, UnitIn DEF OnWay
  <2>2. ASSUME i \in DOMAIN pending[p]
        PROVE  c \in 1..RowWeight(r)[pending[p][i]]
                 <=> <<pending[p][i].kind, pending[p][i].key>> = r /\ c = 1
    <3>1. pending[p][i] \in Writes
      BY <1>1, <2>2 DEF Queues
    <3>2. RowWeight(r)[pending[p][i]]
            = IF <<pending[p][i].kind, pending[p][i].key>> = r THEN 1 ELSE 0
      BY <3>1 DEF RowWeight
    <3> QED  BY <3>2
  <2> QED  BY <1>2, <2>1, <2>2
<1>5. f \in [Waiting(r) -> OnWay(r)]
  BY <1>3, <1>4
<1>6. \A t, u \in Waiting(r) : f[t] = f[u] => t = u
  BY <1>3
<1>7. \A a \in OnWay(r) : \E t \in Waiting(r) : f[t] = a
  <2> SUFFICES ASSUME NEW a \in OnWay(r) PROVE \E t \in Waiting(r) : f[t] = a
    OBVIOUS
  <2>1. a[1] \in Processes /\ a = <<a[1], a[2], a[3]>>
    BY DEF OnWay, UnitsOf, Places
  <2>2. <<a[1], a[2]>> \in Waiting(r) /\ a[3] = 1
    BY <1>4, <2>1
  <2>3. f[<<a[1], a[2]>>] = a
    BY <2>1, <2>2
  <2> QED  BY <2>2, <2>3
<1>8. f \in Injection(Waiting(r), OnWay(r)) /\ f \in Surjection(Waiting(r), OnWay(r))
  BY <1>5, <1>6, <1>7 DEF Injection, Surjection, IsInjective
<1>9. IsFiniteSet(OnWay(r))
  BY DEF Counted
<1> HIDE DEF f
<1> QED  BY <1>8, <1>9, FS_Injection

(* DailyRows numbers the days it keeps, oldest first.                      *)
Upto(kept, d) == {e \in kept : e <= d}

LEMMA Ranking ==
  ASSUME NEW kept \in SUBSET Nat, IsFiniteSet(kept)
  PROVE  /\ Cardinality(kept) \in Nat
         /\ \A d \in kept : Cardinality(Upto(kept, d)) \in 1..Cardinality(kept)
         /\ \A c, d \in kept : c < d <=> Cardinality(Upto(kept, c)) < Cardinality(Upto(kept, d))
         /\ \A i \in 1..Cardinality(kept) : \E d \in kept : Cardinality(Upto(kept, d)) = i
<1> DEFINE n == Cardinality(kept)
           f == [d \in kept |-> Cardinality(Upto(kept, d))]
<1>1. n \in Nat
  BY FS_CardinalityType
<1>2. ASSUME NEW d \in kept
      PROVE  IsFiniteSet(Upto(kept, d)) /\ Cardinality(Upto(kept, d)) \in 1..n
  <2>1. IsFiniteSet(Upto(kept, d)) /\ Cardinality(Upto(kept, d)) <= n
    BY FS_Subset DEF Upto
  <2>2. d \in Upto(kept, d)
    BY DEF Upto
  <2>3. Cardinality(Upto(kept, d)) \in Nat /\ Cardinality(Upto(kept, d)) # 0
    BY <2>1, <2>2, FS_CardinalityType, FS_EmptySet
  <2> QED  BY <1>1, <2>1, <2>3
<1>3. ASSUME NEW c \in kept, NEW d \in kept, c < d
      PROVE  Cardinality(Upto(kept, c)) < Cardinality(Upto(kept, d))
  <2>1. Upto(kept, c) \in SUBSET Upto(kept, d) /\ Upto(kept, c) # Upto(kept, d)
    <3>1. d \in Upto(kept, d) /\ d \notin Upto(kept, c)
      BY <1>3 DEF Upto
    <3>2. Upto(kept, c) \subseteq Upto(kept, d)
      <4>1. \A e \in kept : e <= c => e <= d
        BY <1>3
      <4> QED  BY <4>1 DEF Upto
    <3> QED  BY <3>1, <3>2
  <2>2. /\ Cardinality(Upto(kept, c)) <= Cardinality(Upto(kept, d))
        /\ Cardinality(Upto(kept, c)) # Cardinality(Upto(kept, d))
    BY <1>2, <2>1, FS_Subset
  <2> QED  BY <1>1, <1>2, <2>2
<1>4. \A c, d \in kept : c < d <=> Cardinality(Upto(kept, c)) < Cardinality(Upto(kept, d))
  <2> SUFFICES ASSUME NEW c \in kept, NEW d \in kept,
                      Cardinality(Upto(kept, c)) < Cardinality(Upto(kept, d))
               PROVE  c < d
    BY <1>3
  <2>1. c = d \/ c < d \/ d < c
    OBVIOUS
  <2>2. c # d
    BY <1>1, <1>2
  <2>3. ~(d < c)
    BY <1>1, <1>2, <1>3
  <2> QED  BY <2>1, <2>2, <2>3
<1>5. f \in Injection(kept, 1..n)
  <2>1. f \in [kept -> 1..n]
    BY <1>2
  <2>2. \A c, d \in kept : f[c] = f[d] => c = d
    <3> SUFFICES ASSUME NEW c \in kept, NEW d \in kept, f[c] = f[d] PROVE c = d
      OBVIOUS
    <3>1. c = d \/ c < d \/ d < c
      OBVIOUS
    <3> QED  BY <1>1, <1>2, <1>3, <3>1
  <2> QED  BY <2>1, <2>2 DEF Injection, IsInjective
<1>6. IsFiniteSet(1..n) /\ Cardinality(1..n) = n
  BY <1>1, IntervalSize
<1> HIDE DEF f
<1>7. f \in Surjection(kept, 1..n)
  BY <1>5, <1>6, FS_Injection
<1>8. \A i \in 1..n : \E d \in kept : Cardinality(Upto(kept, d)) = i
  BY <1>7 DEF Surjection, f
<1> QED  BY <1>1, <1>2, <1>4, <1>8

(* The history since a day: every day of it with a row, oldest first.      *)
LEMMA DailyRowsList ==
  ASSUME TableTypes, NEW since \in Int
  PROVE  LET history == DailyRows(since) IN
         /\ \A i \in DOMAIN history :
              /\ history[i].day \in Days /\ history[i].day >= since
              /\ counts[<<"daily", history[i].day>>] > 0
              /\ history[i].requests = counts[<<"daily", history[i].day>>]
         /\ \A i, j \in DOMAIN history : i < j => history[i].day < history[j].day
         /\ \A d \in Days : d >= since /\ counts[<<"daily", d>>] > 0 =>
              \E i \in DOMAIN history : history[i].day = d
<1> DEFINE kept == {d \in Days : d >= since /\ counts[<<"daily", d>>] > 0}
           n == Cardinality(kept)
           At(i) == CHOOSE d \in kept : Cardinality(Upto(kept, d)) = i
           history == [i \in 1..n |-> [day |-> At(i), requests |-> counts[<<"daily", At(i)>>]]]
<1>1. DailyRows(since) = history
  BY DEF DailyRows, Upto
<1>2. kept \in SUBSET Nat /\ IsFiniteSet(kept)
  <2>1. IsFiniteSet(Days)
    <3>1. 0 \in Int /\ MaxDay \in Int
      BY LedgerAssumption
    <3> QED  BY <3>1, FS_Interval DEF Days
  <2>2. kept \in SUBSET Days
    OBVIOUS
  <2> QED  BY <2>1, <2>2, ConstantTypes, FS_Subset
<1>3. \A d : d \in kept <=> d \in Days /\ d >= since /\ counts[<<"daily", d>>] > 0
  OBVIOUS
<1> HIDE DEF kept
<1>4. /\ n \in Nat
      /\ \A d \in kept : Cardinality(Upto(kept, d)) \in 1..n
      /\ \A c, d \in kept : c < d <=> Cardinality(Upto(kept, c)) < Cardinality(Upto(kept, d))
      /\ \A i \in 1..n : \E d \in kept : Cardinality(Upto(kept, d)) = i
  BY <1>2, Ranking
<1>5. \A i \in 1..n : At(i) \in kept /\ Cardinality(Upto(kept, At(i))) = i
  BY <1>4
<1> HIDE DEF At, n
<1>6. /\ DOMAIN history = 1..n
      /\ \A i \in 1..n : history[i].day = At(i) /\ history[i].requests = counts[<<"daily", At(i)>>]
  OBVIOUS
<1> HIDE DEF history
<1>7. \A i, j \in DOMAIN history : i < j => history[i].day < history[j].day
  <2> SUFFICES ASSUME NEW i \in 1..n, NEW j \in 1..n, i < j PROVE At(i) < At(j)
    BY <1>6
  <2>1. /\ At(i) \in kept /\ Cardinality(Upto(kept, At(i))) = i
        /\ At(j) \in kept /\ Cardinality(Upto(kept, At(j))) = j
    BY <1>5
  <2> QED  BY <1>4, <2>1
<1>8. ASSUME NEW d \in kept PROVE \E i \in DOMAIN history : history[i].day = d
  <2> DEFINE i == Cardinality(Upto(kept, d))
  <2>1. i \in 1..n /\ At(i) \in kept /\ Cardinality(Upto(kept, At(i))) = i
    BY <1>4, <1>5
  <2>2. ~(At(i) < d) /\ ~(d < At(i))
    BY <1>4, <2>1
  <2>3. At(i) = d
    <3>1. At(i) \in Nat /\ d \in Nat
      BY <1>2, <2>1
    <3> QED  BY <2>2, <3>1
  <2> QED  BY <1>6, <2>1, <2>3
<1>9. \A i \in DOMAIN history :
        /\ history[i].day \in Days /\ history[i].day >= since
        /\ counts[<<"daily", history[i].day>>] > 0
        /\ history[i].requests = counts[<<"daily", history[i].day>>]
  BY <1>3, <1>5, <1>6
<1> QED  BY <1>1, <1>3, <1>7, <1>8, <1>9

(* The first day of a history lies between the epoch and today.            *)
LEMMA HistoryBegins ==
  ASSUME TableTypes, NEW asked \in Nat \cup {None}
  PROVE  \E since \in Int : /\ AdminUsageHistory(asked) = DailyRows(since)
                            /\ since <= day
                            /\ asked \in {0, 1} => since = day
<1> DEFINE days == IF asked = None THEN DefaultHistoryDays ELSE asked
           n == IF days < 1 THEN 1 ELSE Min({days, MaxHistoryDays})
           since == day - (n - 1)
<1>1. days \in Nat /\ day \in Nat
  BY ConstantTypes DEF DefaultHistoryDays, TableTypes
<1>2. asked \in {0, 1} => days = asked
  BY LedgerAssumption
<1>3. n \in Nat /\ n >= 1 /\ (days <= 1 => n = 1)
  <2>1. CASE days < 1
    BY <1>1, <2>1
  <2>2. CASE ~(days < 1)
    <3> DEFINE m == Min({days, MaxHistoryDays})
    <3>1. \E x \in {days, MaxHistoryDays} : \A y \in {days, MaxHistoryDays} : x <= y
      BY <1>1 DEF MaxHistoryDays
    <3>2. m \in {days, MaxHistoryDays} /\ \A y \in {days, MaxHistoryDays} : m <= y
      BY <3>1 DEF Min
    <3>3. n = m
      BY <2>2
    <3> QED  BY <1>1, <2>2, <3>2, <3>3 DEF MaxHistoryDays
  <2> QED  BY <2>1, <2>2
<1>4. AdminUsageHistory(asked) = DailyRows(since)
  BY DEF AdminUsageHistory, ClientUsageHistory
<1> HIDE DEF n, days
<1>5. since \in Int /\ since <= day /\ (n = 1 => since = day)
  BY <1>1, <1>3
<1>6. asked \in {0, 1} => n = 1
  BY <1>1, <1>2, <1>3
<1> QED  BY <1>4, <1>5, <1>6

HistoryInv ==
  /\ Types /\ WritersLive /\ Memories /\ NoFuture
  /\ \A r \in Rows : Counted(r)

LEMMA HistoryInit ==
  ASSUME Init
  PROVE  HistoryInv
<1>1. Types
  BY InitTypes
<1>2. WritersLive /\ NoFuture
  BY UsageRow DEF Init, WritersLive, NoFuture
<1>3. Memories
  <2>1. Remembered = {}
    <3>1. \A p \in Processes : 1..memory[p] = {}
      BY DEF Init
    <3> QED  BY <3>1 DEF Remembered
  <2> QED  BY <2>1, UsageRow, FS_EmptySet DEF Init, Memories
<1>4. ASSUME NEW r \in Rows PROVE Counted(r)
  <2>1. IsFiniteSet(OnWay(r)) /\ Cardinality(OnWay(r)) = 0
    BY UnitsNone DEF Init, OnWay
  <2> QED  BY <2>1 DEF Init, Counted
<1> QED  BY <1>1, <1>2, <1>3, <1>4 DEF HistoryInv

LEMMA HistoryStep ==
  ASSUME HistoryInv, [Next]_vars
  PROVE  HistoryInv'
<1>1. Types' /\ Kinds
  BY EveryStep DEF HistoryInv
<1>2. WritersLive' /\ Memories' /\ NoFuture'
  BY <1>1, WritersStayLive, MemoriesStep, NoFutureStep DEF HistoryInv
<1>3. \A r \in Rows : Counted(r)'
  BY <1>1, CountedStep DEF HistoryInv
<1> QED  BY <1>1, <1>2, <1>3 DEF HistoryInv, Rows

LEMMA HistoryFollows ==
  ASSUME HistoryInv
  PROVE  HistoryIsComplete
<1>1. Types /\ TableTypes /\ \A r \in Rows : Counted(r)
  BY DEF HistoryInv, Types
<1>2. \A r \in Rows : /\ counts[r] \in Nat /\ recorded[r] \in Nat
                      /\ Cardinality(OnWay(r)) \in Nat
  BY <1>1, FS_CardinalityType DEF TableTypes, Counted
<1>3. \A r \in Rows : counts[r] <= recorded[r]
  BY <1>1, <1>2 DEF Counted
<1>4. NothingLost => \A r \in Rows : counts[r] + Cardinality(Waiting(r)) = recorded[r]
  BY <1>1, WaitingIsOnWay DEF Counted
<1>5. ASSUME NEW p \in Processes, NEW readable \in BOOLEAN
      PROVE  UsageSnapshot(p, readable) <= recorded[<<"usage", 0>>]
  BY <1>3, UsageRow DEF HistoryInv, Memories, UsageSnapshot, LoadAll
<1>6. NothingLost => Cardinality(Remembered) = recorded[<<"usage", 0>>]
  BY DEF HistoryInv, Memories
<1>7. ASSUME NEW asked \in {None, 0, 1, MaxDay + 1}
      PROVE  LET history == AdminUsageHistory(asked) IN
             /\ \A i, j \in DOMAIN history : i < j => history[i].day < history[j].day
             /\ \A i \in DOMAIN history :
                  /\ history[i].requests <= recorded[<<"daily", history[i].day>>]
                  /\ asked \in {0, 1} => history[i].day = day
             /\ counts[<<"daily", day>>] > 0 => \E i \in DOMAIN history : history[i].day = day
  <2>1. asked \in Nat \cup {None}
    BY LedgerAssumption
  <2>2. PICK since \in Int : /\ AdminUsageHistory(asked) = DailyRows(since)
                             /\ since <= day
                             /\ asked \in {0, 1} => since = day
    BY <1>1, <2>1, HistoryBegins
  <2> DEFINE history == AdminUsageHistory(asked)
  <2>3. /\ \A i \in DOMAIN history :
              /\ history[i].day \in Days /\ history[i].day >= since
              /\ counts[<<"daily", history[i].day>>] > 0
              /\ history[i].requests = counts[<<"daily", history[i].day>>]
        /\ \A i, j \in DOMAIN history : i < j => history[i].day < history[j].day
        /\ \A d \in Days : d >= since /\ counts[<<"daily", d>>] > 0 =>
             \E i \in DOMAIN history : history[i].day = d
    BY <1>1, <2>2, DailyRowsList
  <2> HIDE DEF history
  <2>4. day \in Days /\ day \in Nat /\ \A d \in Days : d \in Nat
    BY <1>1, ConstantTypes DEF TableTypes
  <2>5. ASSUME NEW i \in DOMAIN history
        PROVE  /\ history[i].requests <= recorded[<<"daily", history[i].day>>]
               /\ asked \in {0, 1} => history[i].day = day
    <3> DEFINE d == history[i].day
    <3>1. d \in Days /\ d >= since /\ counts[<<"daily", d>>] > 0 /\ <<"daily", d>> \in Rows
      BY <2>3, UsageRow
    <3>2. recorded[<<"daily", d>>] # 0
      BY <1>2, <1>3, <3>1
    <3>3. ~(d > day)
      BY <3>1, <3>2 DEF HistoryInv, NoFuture
    <3>4. history[i].requests <= recorded[<<"daily", d>>]
      BY <1>3, <2>3, <3>1
    <3> HIDE DEF d
    <3>5. asked \in {0, 1} => d = day
      BY <2>2, <2>4, <3>1, <3>3
    <3> QED  BY <3>4, <3>5 DEF d
  <2>6. counts[<<"daily", day>>] > 0 => \E i \in DOMAIN history : history[i].day = day
    BY <2>2, <2>3, <2>4
  <2> QED  BY <2>3, <2>5, <2>6 DEF history
<1> QED  BY <1>4, <1>5, <1>6, <1>7 DEF HistoryIsComplete

(* Any number of processes, requests, days and mishaps, either backend:    *)
(* what was recorded is in the tables or on its way, once, unless there    *)
(* was a mishap; no process ever reports more than was recorded; and the   *)
(* history of a client lists its days in order, each with no more than its *)
(* requests, today always among them (persistence.rs: `load_all`,          *)
(* `load_client_usage_history`; lib.rs: `usage_snapshot`).                 *)
THEOREM HistoryComplete == Spec => []HistoryIsComplete
<1>1. Init => HistoryInv
  BY HistoryInit
<1>2. HistoryInv /\ [Next]_vars => HistoryInv'
  BY HistoryStep
<1>3. HistoryInv => HistoryIsComplete
  BY HistoryFollows
<1> QED  BY <1>1, <1>2, <1>3, PTL DEF Spec

-----------------------------------------------------------------------------
(* The cost that is on its way to the row, in units under period key k.    *)
KeyWeight(k) == [w \in Writes |-> IF w.kind = "spend" /\ w.key = k THEN w.cost ELSE 0]

Owing(k) == UnitsOf(pending, KeyWeight(k))

LEMMA KeyWeights ==
  /\ \A k : KeyWeight(k) \in Weights
  /\ \A k : \A w \in Writes : w.kind # "spend" => KeyWeight(k)[w] = 0
  /\ \A k : \A j \in Keys, c \in Costs : KeyWeight(k)[SpendWrite(j, c)] = IF j = k THEN c ELSE 0
<1>1. ASSUME NEW k PROVE KeyWeight(k) \in Weights
  <2>1. \A w \in Writes : w.kind = "spend" => w.cost \in Nat
    BY WriteFacts, ConstantTypes
  <2> QED  BY <2>1 DEF KeyWeight, Weights
<1>2. \A k : \A w \in Writes : w.kind # "spend" => KeyWeight(k)[w] = 0
  BY DEF KeyWeight
<1>3. \A k : \A j \in Keys, c \in Costs : KeyWeight(k)[SpendWrite(j, c)] = IF j = k THEN c ELSE 0
  <2> SUFFICES ASSUME NEW k, NEW j \in Keys, NEW c \in Costs
               PROVE  KeyWeight(k)[SpendWrite(j, c)] = IF j = k THEN c ELSE 0
    OBVIOUS
  <2>1. SpendWrite(j, c) \in Writes
    BY WriteFacts
  <2> QED  BY <2>1 DEF KeyWeight, SpendWrite
<1> QED  BY <1>1, <1>2, <1>3

(* The period keys there have been so far.                                 *)
Past == {KeyAt[d] : d \in 0..day}

Charge(w) == w.kind \in {"spend", "reset"}

(* Charges come from the processes that changed the spend, for a period    *)
(* that has begun, and no reset is on its way before the first one.        *)
QueuedCharges ==
  \A p \in Processes : \A i \in DOMAIN pending[p] :
    Charge(pending[p][i]) => /\ p \in writers /\ pending[p][i].key \in Past
                             /\ pending[p][i].kind = "reset" => bounds.resets > 0

RowKey == row # None => row.key \in Past

LEMMA PastGrows ==
  ASSUME Types, Types', Kinds
  PROVE  /\ Past \subseteq Past' /\ KeyAt[day] \in Past
         /\ writers \subseteq writers'
         /\ bounds.resets <= bounds'.resets
<1>1. day \in Nat /\ day' \in Nat
  BY ConstantTypes DEF Types, TableTypes
<1>2. day <= day'
  BY <1>1 DEF Kinds, Quiet, Passes, HandsUsage, HandsDaily, HandsSpend, HandsReset, Handed,
              Takes, Loses
<1>3. writers \subseteq writers'
  BY DEF Kinds, Quiet, Passes, HandsUsage, HandsDaily, HandsSpend, HandsReset, Handed,
         Takes, Loses
<1>4. bounds.resets <= bounds'.resets
  <2>1. bounds.resets \in Nat
    BY DEF Types, BoundTypes
  <2>2. \A w : Lands(w) => bounds'.resets = bounds.resets
    BY MishapTypes DEF Lands, Types
  <2>3. Mishap => bounds'.resets = bounds.resets
    BY MishapTypes DEF Types
  <2> QED  BY <2>1, <2>2, <2>3
           DEF Kinds, Quiet, Passes, HandsUsage, HandsDaily, HandsSpend, HandsReset, Takes,
               Loses
<1> QED  BY <1>1, <1>2, <1>3, <1>4 DEF Past

(* Every write of a queue was there before, or has just been handed over.  *)
LEMMA QueueAfter ==
  ASSUME Types, Types', Kinds, NEW p \in Processes, NEW i \in DOMAIN pending'[p]
  PROVE  \/ \E j \in DOMAIN pending[p] : pending'[p][i] = pending[p][j]
         \/ HandsUsage(p) /\ pending'[p][i] = UsageWrite
         \/ HandsDaily(p) /\ pending'[p][i] = DailyWrite(day)
         \/ (\E c \in Costs : HandsSpend(p, c) /\ pending'[p][i] = SpendWrite(KeyAt[day], c))
         \/ HandsReset(p) /\ pending'[p][i] = ResetWrite(KeyAt[day])
<1> DEFINE Old == \E j \in DOMAIN pending[p] : pending'[p][i] = pending[p][j]
<1>1. pending \in [Processes -> Seq(Writes)] /\ pending[p] \in Seq(Writes)
  BY DEF Types, QueueTypes
<1>2. CASE pending' = pending
  BY <1>2
<1>3. ASSUME NEW x \in Processes, NEW w \in Writes, Enqueue(x, w)
      PROVE  Old \/ (x = p /\ pending'[p][i] = w)
  <2>1. CASE pending' = pending \/ x # p
    BY <1>1, <1>3, <2>1 DEF Enqueue
  <2>2. CASE pending' # pending /\ x = p
    <3>1. pending'[p] = Append(pending[p], w)
      BY <1>1, <1>3, <2>2 DEF Enqueue
    <3>2. i \in DOMAIN Append(pending[p], w)
      BY <3>1
    <3>3. i \in DOMAIN pending[p] \/ i = Len(pending[p]) + 1
      BY <1>1, <3>2, AppendFacts
    <3> QED  BY <1>1, <2>2, <3>1, <3>3, AppendFacts
  <2> QED  BY <2>1, <2>2
<1>4. ASSUME NEW x \in Processes, NEW j, Takes(x, j) PROVE Old
  <2>1. PICK t \in Seq(Writes) : Leaves(pending[x], j, t) /\ pending' = [pending EXCEPT ![x] = t]
    BY <1>4 DEF Takes, Shortened
  <2> QED  BY <1>1, <2>1 DEF Leaves
<1>5. ASSUME NEW x \in Processes, Loses(x) PROVE Old
  BY <1>1, <1>5 DEF Loses
<1> HIDE DEF Old
<1>6. Old => \E j \in DOMAIN pending[p] : pending'[p][i] = pending[p][j]
  BY DEF Old
<1>7. ASSUME NEW x \in Processes, HandsUsage(x) \/ HandsDaily(x) \/ HandsReset(x)
      PROVE  Old \/ (HandsUsage(p) /\ pending'[p][i] = UsageWrite)
                 \/ (HandsDaily(p) /\ pending'[p][i] = DailyWrite(day))
                 \/ (HandsReset(p) /\ pending'[p][i] = ResetWrite(KeyAt[day]))
  BY <1>3, <1>7 DEF HandsUsage, HandsDaily, HandsReset, Handed
<1>8. ASSUME NEW x \in Processes, NEW c \in Costs, HandsSpend(x, c)
      PROVE  Old \/ (HandsSpend(p, c) /\ pending'[p][i] = SpendWrite(KeyAt[day], c))
  BY <1>3, <1>8 DEF HandsSpend, Handed
<1> QED  BY <1>2, <1>4, <1>5, <1>6, <1>7, <1>8 DEF Kinds, Quiet, Passes

LEMMA QueuedChargesStep ==
  ASSUME Types, Types', Kinds, QueuedCharges
  PROVE  QueuedCharges'
<1> SUFFICES ASSUME NEW p \in Processes, NEW i \in DOMAIN pending'[p], Charge(pending'[p][i])
             PROVE  /\ p \in writers' /\ pending'[p][i].key \in Past'
                    /\ pending'[p][i].kind = "reset" => bounds'.resets > 0
  BY DEF QueuedCharges
<1> DEFINE w == pending'[p][i]
<1>1. CASE \E j \in DOMAIN pending[p] : w = pending[p][j]
  <2>1. bounds.resets \in Nat /\ bounds'.resets \in Nat
    BY DEF Types, BoundTypes
  <2>2. p \in writers /\ w.key \in Past /\ (w.kind = "reset" => bounds.resets > 0)
    BY <1>1 DEF QueuedCharges
  <2> HIDE DEF w
  <2> QED  BY <2>1, <2>2, PastGrows DEF w
<1>2. CASE w = UsageWrite \/ w = DailyWrite(day)
  BY <1>2 DEF UsageWrite, DailyWrite, Charge
<1>3. ASSUME NEW c \in Costs, HandsSpend(p, c), w = SpendWrite(KeyAt[day], c)
      PROVE  p \in writers' /\ w.key \in Past' /\ w.kind # "reset"
  BY <1>3, PastGrows DEF HandsSpend, SpendWrite
<1>4. ASSUME HandsReset(p), w = ResetWrite(KeyAt[day])
      PROVE  p \in writers' /\ w.key \in Past' /\ bounds'.resets > 0
  BY <1>4, PastGrows DEF HandsReset, ResetWrite, Types, BoundTypes
<1> QED  BY <1>1, <1>2, <1>3, <1>4, QueueAfter

LEMMA RowKeyStep ==
  ASSUME Types, Types', Kinds, QueuedCharges, RowKey
  PROVE  RowKey'
<1>1. CASE row' = row
  BY <1>1, PastGrows DEF RowKey
<1>2. ASSUME NEW p \in Processes, NEW i, Takes(p, i) PROVE RowKey'
  <2>1. i \in DOMAIN pending[p]
    BY <1>2 DEF Takes
  <2>2. row' = row \/ (row' = SpendRow(pending[p][i]) /\ Charge(pending[p][i]))
    BY <1>2 DEF Takes, Lands, Execute, Charge
  <2>3. CASE row' = SpendRow(pending[p][i]) /\ Charge(pending[p][i])
    BY <2>1, <2>3, PastGrows DEF SpendRow, QueuedCharges, RowKey
  <2> QED  BY <1>1, <2>2, <2>3
<1> QED  BY <1>1, <1>2 DEF Kinds, Quiet, Passes, HandsUsage, HandsDaily, HandsSpend,
                           HandsReset, Handed, Loses

(* Without a reset, the row and what is on its way never exceed what was   *)
(* recorded; and they are it as long as nothing is lost and no period ends.*)
Owed(k) ==
  /\ IsFiniteSet(Owing(k))
  /\ bounds.resets = 0 => Spent(k) + Cardinality(Owing(k)) <= owed[k]
  /\ bounds.resets = 0 /\ NothingLost /\ day = 0 /\ k = KeyAt[0] =>
       Spent(k) + Cardinality(Owing(k)) = owed[k]

LEMMA SpentType ==
  ASSUME Types, NEW k
  PROVE  Spent(k) \in Nat
BY DEF Types, TableTypes, Spent, ClientSpend

LEMMA OwedHanded ==
  ASSUME Types, Types', Kinds, WritersLive, NEW k \in Keys, Owed(k),
         NEW p \in Processes, NEW w \in Writes, Handed(p, w),
         bounds'.resets = 0 => bounds.resets = 0 /\ owed'[k] = owed[k] + KeyWeight(k)[w]
  PROVE  Owed(k)'
<1> DEFINE n == KeyWeight(k)[w]
<1>1. /\ IsFiniteSet(UnitsOf(pending', KeyWeight(k)))
      /\ Cardinality(Owing(k)') <= Cardinality(Owing(k)) + n
      /\ writer[p] # "gone" => Cardinality(Owing(k)') = Cardinality(Owing(k)) + n
  BY KeyWeights, UnitsHanded DEF Handed, Owed, Owing
<1>2. IsFiniteSet(Owing(k)')
  BY <1>1 DEF Owing
<1>3. /\ Cardinality(Owing(k)) \in Nat /\ Cardinality(Owing(k)') \in Nat /\ n \in Nat
      /\ Spent(k) \in Nat /\ owed[k] \in Nat
  BY <1>2, FS_CardinalityType, SpentType, KeyWeights DEF Owed, Weights, Types, TableTypes
<1>4. Spent(k)' = Spent(k) /\ day' = day
  BY DEF Handed, Spent, ClientSpend
<1>5. NothingLost' => writer[p] # "gone" /\ NothingLost
  BY StillNothingLost DEF WritersLive
<1> HIDE DEF n
<1>6. bounds'.resets = 0 => bounds.resets = 0 /\ owed'[k] = owed[k] + n
  BY DEF n
<1> QED  BY <1>1, <1>2, <1>3, <1>4, <1>5, <1>6 DEF Owed

(* What a charge does to the row: a spend adds its weight under its key.   *)
LEMMA SpentAfter ==
  ASSUME Types, NEW w \in Writes, Execute(w), NEW k \in Keys
  PROVE  /\ ~Charge(w) => Spent(k)' = Spent(k)
         /\ Charge(w) => row' = SpendRow(w) /\ row' # None /\ row'.key = w.key
         /\ Charge(w) /\ w.key # k => Spent(k)' = 0
         /\ w.kind = "spend" /\ w.key = k => Spent(k)' = Spent(k) + KeyWeight(k)[w]
         /\ w.kind = "reset" /\ w.key = k => Spent(k)' = 0
<1>1. CASE ~Charge(w)
  BY <1>1 DEF Charge, Execute, Spent, ClientSpend
<1>2. CASE Charge(w)
  <2>1. row' = SpendRow(w) /\ w.key \in Keys
    BY <1>2, WriteFacts DEF Charge, Execute
  <2>2. w.cost \in Nat /\ Spent(w.key) \in Nat
    BY <1>2, WriteFacts, ConstantTypes, SpentType DEF Charge
  <2>3. row' # None /\ row'.key = w.key
        /\ row'.spent = IF w.kind = "reset" THEN 0 ELSE Spent(w.key) + w.cost
    BY <2>1, <2>2, ConstantTypes DEF SpendRow
  <2>4. Spent(k)' = IF w.key = k THEN row'.spent ELSE 0
    BY <2>3 DEF Spent, ClientSpend
  <2>5. w.kind = "spend" /\ w.key = k => KeyWeight(k)[w] = w.cost
    BY DEF KeyWeight
  <2> QED  BY <1>2, <2>1, <2>3, <2>4, <2>5
<1> QED  BY <1>1, <1>2 DEF Charge

LEMMA OwedTaken ==
  ASSUME Types, Types', Kinds, QueuedCharges, NEW k \in Keys, Owed(k),
         NEW p \in Processes, NEW i, Takes(p, i)
  PROVE  Owed(k)'
<1> DEFINE w == pending[p][i]
           n == KeyWeight(k)[w]
<1>1. /\ w \in Writes /\ n \in Nat
      /\ IsFiniteSet(UnitsOf(pending', KeyWeight(k)))
      /\ Cardinality(Owing(k)) = Cardinality(Owing(k)') + n
  BY KeyWeights, UnitsTook DEF Owed, Owing
<1>2. IsFiniteSet(Owing(k)')
  BY <1>1 DEF Owing
<1>3. /\ Cardinality(Owing(k)') \in Nat /\ Spent(k) \in Nat /\ owed[k] \in Nat
      /\ owed' = owed /\ day' = day
  BY <1>2, FS_CardinalityType, SpentType DEF Types, TableTypes, Takes
<1>4. CASE Execute(w) /\ UNCHANGED bounds
  <2>1. bounds.resets = 0 => w.kind # "reset"
    BY DEF QueuedCharges, Charge, Takes, Types, BoundTypes
  <2>2. w.kind \in {"usage", "daily", "spend", "reset"}
    BY <1>1, WriteFacts
  <2>3. w.kind # "spend" => n = 0
    BY <1>1, KeyWeights
  <2>4. w.kind = "spend" /\ w.key # k => n = 0
    BY <1>1 DEF KeyWeight
  <2>5. Charge(w) /\ day = 0 => w.key = KeyAt[0]
    BY ConstantTypes DEF QueuedCharges, Past, Takes
  <2>6. bounds.resets = 0 => \/ Spent(k)' = Spent(k) + n
                             \/ Spent(k)' = 0 /\ n = 0 /\ Charge(w) /\ w.key # k
    BY <1>1, <1>3, <1>4, <2>1, <2>2, <2>3, <2>4, SpentAfter DEF Charge
  <2>7. NothingLost' = NothingLost
    BY <1>4 DEF NothingLost
  <2> HIDE DEF n, w
  <2> QED  BY <1>1, <1>2, <1>3, <1>4, <2>5, <2>6, <2>7 DEF Owed
<1>5. CASE Mishap /\ UNCHANGED <<row, counts>>
  <2>1. Spent(k)' = Spent(k) /\ bounds'.resets = bounds.resets /\ ~NothingLost'
    BY <1>5, MishapTypes, MishapLoses DEF Spent, ClientSpend, Types
  <2> HIDE DEF n
  <2> QED  BY <1>1, <1>2, <1>3, <2>1 DEF Owed
<1> QED  BY <1>4, <1>5 DEF Takes, Lands

LEMMA OwedLost ==
  ASSUME Types, Types', NEW k \in Keys, Owed(k), NEW p \in Processes, Loses(p)
  PROVE  Owed(k)'
<1>1. /\ IsFiniteSet(UnitsOf(pending', KeyWeight(k)))
      /\ Cardinality(Owing(k)') <= Cardinality(Owing(k))
  BY KeyWeights, UnitsLost DEF Owed, Owing
<1>2. IsFiniteSet(Owing(k)')
  BY <1>1 DEF Owing
<1>3. /\ Cardinality(Owing(k)') \in Nat /\ Cardinality(Owing(k)) \in Nat
      /\ Spent(k) \in Nat /\ owed[k] \in Nat /\ owed' = owed /\ Spent(k)' = Spent(k)
  BY <1>2, FS_CardinalityType, SpentType DEF Owed, Types, TableTypes, Loses, Spent, ClientSpend
<1>4. bounds'.resets = bounds.resets /\ ~NothingLost'
  BY MishapTypes, MishapLoses DEF Loses, Types
<1> QED  BY <1>1, <1>2, <1>3, <1>4 DEF Owed

LEMMA OwedStep ==
  ASSUME Types, Types', Kinds, WritersLive, QueuedCharges, NEW k \in Keys, Owed(k)
  PROVE  Owed(k)'
<1>1. /\ day \in Nat /\ KeyAt[day] \in Keys /\ owed \in [Keys -> Nat]
      /\ UsageWrite \in Writes /\ DailyWrite(day) \in Writes
  BY ConstantTypes, WriteFacts DEF Types, TableTypes
<1>2. CASE Quiet
  <2>1. Owing(k)' = Owing(k) /\ Spent(k)' = Spent(k)
    BY <1>2 DEF Quiet, Owing, Spent, ClientSpend
  <2> QED  BY <1>2, <2>1, StillNothingLost DEF Quiet, Owed
<1>3. CASE Passes
  <2>1. Owing(k)' = Owing(k) /\ Spent(k)' = Spent(k) /\ day' # 0
    BY <1>1, <1>3 DEF Passes, Owing, Spent, ClientSpend
  <2> QED  BY <1>3, <2>1 DEF Passes, Owed
<1>4. ASSUME NEW p \in Processes, HandsUsage(p) PROVE Owed(k)'
  <2>1. KeyWeight(k)[UsageWrite] = 0
    BY <1>1, KeyWeights DEF UsageWrite
  <2>2. owed'[k] = owed[k] + KeyWeight(k)[UsageWrite]
    BY <1>1, <1>4, <2>1 DEF HandsUsage
  <2> QED  BY <1>4, <2>2, OwedHanded DEF HandsUsage, Handed
<1>5. ASSUME NEW p \in Processes, HandsDaily(p) PROVE Owed(k)'
  <2>1. KeyWeight(k)[DailyWrite(day)] = 0
    BY <1>1, KeyWeights DEF DailyWrite
  <2>2. owed'[k] = owed[k] + KeyWeight(k)[DailyWrite(day)]
    BY <1>1, <1>5, <2>1 DEF HandsDaily
  <2> QED  BY <1>5, <2>2, OwedHanded DEF HandsDaily, Handed
<1>6. ASSUME NEW p \in Processes, NEW cost \in Costs, HandsSpend(p, cost) PROVE Owed(k)'
  <2>1. KeyWeight(k)[SpendWrite(KeyAt[day], cost)] = IF KeyAt[day] = k THEN cost ELSE 0
    BY <1>1, KeyWeights
  <2>2. owed'[k] = owed[k] + KeyWeight(k)[SpendWrite(KeyAt[day], cost)]
    BY <1>1, <1>6, <2>1 DEF HandsSpend
  <2> QED  BY <1>6, <2>2, OwedHanded DEF HandsSpend, Handed
<1>7. ASSUME NEW p \in Processes, HandsReset(p) PROVE Owed(k)'
  <2>1. bounds'.resets # 0
    BY <1>7 DEF HandsReset, Types, BoundTypes
  <2> QED  BY <1>7, <2>1, OwedHanded DEF HandsReset, Handed
<1> QED  BY <1>2, <1>3, <1>4, <1>5, <1>6, <1>7, OwedTaken, OwedLost DEF Kinds

-----------------------------------------------------------------------------
(* Refusals and events.                                                    *)
ChargesInv ==
  /\ Types /\ WritersLive /\ QueuedCharges /\ RowKey /\ IsFiniteSet(writers)
  /\ \A k \in Keys : Owed(k)

LEMMA ChargesInit ==
  ASSUME Init
  PROVE  ChargesInv
<1>1. Types
  BY InitTypes
<1>2. WritersLive /\ QueuedCharges /\ RowKey /\ IsFiniteSet(writers)
  BY FS_EmptySet DEF Init, WritersLive, QueuedCharges, RowKey
<1>3. ASSUME NEW k \in Keys PROVE Owed(k)
  <2>1. IsFiniteSet(Owing(k)) /\ Cardinality(Owing(k)) = 0
    BY UnitsNone DEF Init, Owing
  <2>2. Spent(k) = 0 /\ owed[k] = 0
    BY DEF Init, Spent, ClientSpend
  <2> QED  BY <2>1, <2>2 DEF Owed
<1> QED  BY <1>1, <1>2, <1>3 DEF ChargesInv

LEMMA ChargesStep ==
  ASSUME ChargesInv, [Next]_vars
  PROVE  ChargesInv' /\ Kinds
<1>1. Types' /\ Kinds
  BY EveryStep DEF ChargesInv
<1>2. WritersLive' /\ QueuedCharges' /\ RowKey'
  BY <1>1, WritersStayLive, QueuedChargesStep, RowKeyStep DEF ChargesInv
<1>3. \A k \in Keys : Owed(k)'
  BY <1>1, OwedStep DEF ChargesInv
<1>4. IsFiniteSet(writers')
  <2>1. writers' = writers \/ \E p : writers' = writers \cup {p}
    BY <1>1 DEF Kinds, Quiet, Passes, HandsUsage, HandsDaily, HandsSpend, HandsReset, Takes,
                Loses
  <2> QED  BY <2>1, FS_AddElement DEF ChargesInv
<1> QED  BY <1>1, <1>2, <1>3, <1>4 DEF ChargesInv, Keys

(* Without a reset the row never exceeds what is owed.                     *)
LEMMA SpentIsOwed ==
  ASSUME ChargesInv, bounds.resets = 0, NEW k \in Keys
  PROVE  Spent(k) <= owed[k] /\ Spent(k) \in Nat /\ owed[k] \in Nat
<1>1. Spent(k) \in Nat /\ owed[k] \in Nat /\ Cardinality(Owing(k)) \in Nat
  BY SpentType, FS_CardinalityType DEF ChargesInv, Owed, Types, TableTypes
<1>2. Spent(k) + Cardinality(Owing(k)) <= owed[k]
  BY DEF ChargesInv, Owed
<1> QED  BY <1>1, <1>2

LEMMA RefusedIsOwed ==
  ASSUME ChargesInv, Next, bounds.resets = 0, NEW s \in Slots, Refused(s),
         bounds'.mishaps = bounds.mishaps
  PROVE  Budget <= owed[slot[s].key]
<1>1. /\ slot \in [Slots -> Request] /\ slot[s].at = "checking" /\ slot'[s].at = "idle"
      /\ slot[s].key \in Keys /\ bounds.mishaps \in Nat /\ Budget \in Nat
  BY LedgerAssumption DEF ChargesInv, Types, SlotTypes, SlotTyped, Refused, BoundTypes
<1>2. ~Mishap
  BY <1>1, MishapTypes DEF ChargesInv, Types
<1>3. Spent(slot[s].key) >= Budget
  <2>1. ASSUME NEW x \in Slots, StartCheck(x) PROVE FALSE
    BY <1>1, <2>1 DEF StartCheck, IdleRequest
  <2>2. ASSUME NEW x \in Slots, FinishCheck(x) PROVE Spent(slot[s].key) >= Budget
    BY <1>1, <1>2, <2>2 DEF FinishCheck, IdleRequest
  <2>3. ASSUME NEW x \in Slots, NoAnswer(x) \/ (\E c \in Costs \cup {None} : Answer(x, c))
                                  \/ RecordDaily(x) \/ RecordSpend(x)
        PROVE  FALSE
    BY <1>1, <2>3 DEF NoAnswer, Answer, RecordDaily, RecordSpend
  <2>4. ASSUME NEW p \in Processes, Apply(p) \/ Reset(p) PROVE FALSE
    BY <1>1, <2>4 DEF Apply, OpenWriter, WriterStep, UsageTask, DailyTask, SpendTask,
                      ResetTask, Task, Reset
  <2>5. ASSUME NEW p \in Processes, Restart(p) PROVE FALSE
    BY <1>2, <2>5 DEF Restart
  <2>6. ASSUME NEW r \in readers, ReadBack(r) PROVE FALSE
    BY <1>1, <2>6 DEF ReadBack
  <2>7. ASSUME Tick PROVE FALSE
    BY <1>1, <2>7 DEF Tick
  <2> QED  BY <2>1, <2>2, <2>3, <2>4, <2>5, <2>6, <2>7 DEF Next
<1>4. /\ Spent(slot[s].key) <= owed[slot[s].key]
      /\ Spent(slot[s].key) \in Nat /\ owed[slot[s].key] \in Nat
  BY <1>1, SpentIsOwed
<1> QED  BY <1>1, <1>3, <1>4

LEMMA EventIsOwed ==
  ASSUME ChargesInv, Next, bounds.resets = 0, NEW e \in Events, events'[e] > events[e]
  PROVE  \E r \in readers \ readers' : owed[r.key] >= Limit[e]
<1>1. events \in [Events -> Nat] /\ Limit[e] \in Nat
  BY LedgerAssumption DEF ChargesInv, Types, TableTypes
<1>2. events' # events
  BY <1>1
<1>3. PICK r \in readers : ReadBack(r)
  BY <1>2 DEF Next, StartCheck, FinishCheck, NoAnswer, Answer, RecordDaily, RecordSpend,
              Apply, OpenWriter, WriterStep, UsageTask, DailyTask, SpendTask, ResetTask, Task,
              Reset, Restart, Tick
<1>4. CrossedBy(r, e) /\ r \in readers \ readers'
  BY <1>1, <1>3 DEF ReadBack
<1>5. r.key \in Keys
  BY DEF ChargesInv, Types, ReaderTypes
<1>6. Spent(r.key) >= Limit[e]
  BY <1>4 DEF CrossedBy, ReadsItsPeriod, Spent, ClientSpend
<1>7. Spent(r.key) <= owed[r.key] /\ Spent(r.key) \in Nat /\ owed[r.key] \in Nat
  BY <1>5, SpentIsOwed
<1> QED  BY <1>1, <1>4, <1>6, <1>7

(* check_client_budget and record_client_spend (lib.rs), whatever was lost *)
(* and whatever came late: without resets, no request is refused and no    *)
(* event sent for more than was recorded in that period.                   *)
THEOREM ActsOnOwed == Spec => ActsOnlyOnOwed
<1> DEFINE A == bounds.resets = 0 =>
                  /\ \A s \in Slots : (Refused(s) /\ bounds'.mishaps = bounds.mishaps) =>
                       Budget <= owed[slot[s].key]
                  /\ \A e \in Events : events'[e] > events[e] =>
                       \E r \in readers \ readers' : owed[r.key] >= Limit[e]
<1>1. Init => ChargesInv
  BY ChargesInit
<1>2. ChargesInv /\ [Next]_vars => ChargesInv'
  BY ChargesStep
<1>3. ChargesInv /\ [Next]_vars => [A]_vars
  BY RefusedIsOwed, EventIsOwed
<1> QED  BY <1>1, <1>2, <1>3, PTL DEF Spec, ActsOnlyOnOwed

-----------------------------------------------------------------------------
(* Convergence.  A reset on its way forgets the row and what was handed    *)
(* over before it: what stays live are the units behind the last reset.    *)
IsReset(w, k) == w.kind = "reset" /\ w.key = k

ResetBehind(q, p, i, k) == \E j \in DOMAIN q[p] : i < j /\ IsReset(q[p][j], k)

Live(q, k) == {t \in UnitsOf(q, KeyWeight(k)) : ~ResetBehind(q, t[1], t[2], k)}

LEMMA LiveIn ==
  ASSUME NEW q \in Queues, NEW k, NEW p \in Processes, NEW i, NEW c
  PROVE  <<p, i, c>> \in Live(q, k)
           <=> /\ i \in DOMAIN q[p] /\ c \in 1..KeyWeight(k)[q[p][i]]
               /\ ~ResetBehind(q, p, i, k)
<1>1. <<p, i, c>> \in UnitsOf(q, KeyWeight(k))
        <=> i \in DOMAIN q[p] /\ c \in 1..KeyWeight(k)[q[p][i]]
  BY KeyWeights, UnitIn
<1> QED  BY <1>1 DEF Live

LEMMA LiveTriples ==
  ASSUME NEW q, NEW k, NEW t \in Live(q, k)
  PROVE  t = <<t[1], t[2], t[3]>> /\ t[1] \in Processes /\ t \in Places
BY DEF Live, UnitsOf, Places

(* A write that is no reset of k joins a queue.                            *)
LEMMA LiveEnqueued ==
  ASSUME NEW q \in Queues, NEW k, NEW p \in Processes, NEW w \in Writes,
         NEW r \in Queues, Enqueued(q, r, p, w), ~IsReset(w, k), IsFiniteSet(Live(q, k))
  PROVE  /\ IsFiniteSet(Live(r, k))
         /\ Cardinality(Live(r, k)) = Cardinality(Live(q, k)) + KeyWeight(k)[w]
<1> DEFINE i == Len(q[p]) + 1
           n == KeyWeight(k)[w]
           A == Live(q, k)
           B == Live(r, k)
<1>1. /\ q[p] \in Seq(Writes) /\ n \in Nat /\ i \in Nat
      /\ DOMAIN q[p] = 1..Len(q[p]) /\ Len(q[p]) \in Nat
  BY KeyWeights DEF Queues, Weights
<1>2. /\ r[p] = Append(q[p], w) /\ \A x \in Processes : x # p => r[x] = q[x]
  BY DEF Queues, Enqueued
<1>3. /\ DOMAIN r[p] = 1..i /\ r[p][i] = w
      /\ \A j \in DOMAIN q[p] : r[p][j] = q[p][j]
  BY <1>1, <1>2, AppendFacts
<1>4. /\ i \notin DOMAIN q[p] /\ \A j : j \in DOMAIN r[p] <=> j \in DOMAIN q[p] \/ j = i
      /\ \A j \in DOMAIN r[p] : ~(i < j)
  BY <1>1, <1>3
<1> HIDE DEF i
<1>5. ASSUME NEW x \in Processes, NEW j
      PROVE  /\ x # p => (ResetBehind(r, x, j, k) <=> ResetBehind(q, x, j, k))
             /\ ResetBehind(r, p, j, k) <=> ResetBehind(q, p, j, k)
  BY <1>2, <1>3, <1>4 DEF ResetBehind
<1>6. ~ResetBehind(r, p, i, k)
  BY <1>4 DEF ResetBehind
<1>7. ASSUME NEW x \in Processes, NEW j, NEW c
      PROVE  <<x, j, c>> \in B <=> <<x, j, c>> \in A \/ (x = p /\ j = i /\ c \in 1..n)
  <2>1. /\ <<x, j, c>> \in B <=> /\ j \in DOMAIN r[x] /\ c \in 1..KeyWeight(k)[r[x][j]]
                                 /\ ~ResetBehind(r, x, j, k)
        /\ <<x, j, c>> \in A <=> /\ j \in DOMAIN q[x] /\ c \in 1..KeyWeight(k)[q[x][j]]
                                 /\ ~ResetBehind(q, x, j, k)
    BY LiveIn
  <2>2. CASE x # p
    BY <1>2, <1>5, <2>1, <2>2
  <2>3. CASE x = p /\ j = i
    BY <1>3, <1>4, <1>6, <2>1, <2>3
  <2>4. CASE x = p /\ j # i
    BY <1>3, <1>4, <1>5, <2>1, <2>4
  <2> QED  BY <2>2, <2>3, <2>4
<1>8. \A t : t \in A \/ t \in B => t = <<t[1], t[2], t[3]>> /\ t[1] \in Processes
  BY LiveTriples
<1> HIDE DEF A, B, n
<1>9. \A t : t \in B <=> t \in A \/ \E c \in 1..n : t = <<p, i, c>>
  <2>1. ASSUME NEW t \in B PROVE t \in A \/ \E c \in 1..n : t = <<p, i, c>>
    BY <1>7, <1>8
  <2>2. ASSUME NEW t \in A PROVE t \in B
    BY <1>7, <1>8
  <2>3. ASSUME NEW c \in 1..n PROVE <<p, i, c>> \in B
    BY <1>7
  <2> QED  BY <2>1, <2>2, <2>3
<1>10. \A c : <<p, i, c>> \notin A
  BY <1>4, LiveIn DEF A
<1>11. Joined(A, B, p, i, n) /\ IsFiniteSet(A)
  BY <1>9, <1>10 DEF Joined, A
<1>12. IsFiniteSet(B) /\ Cardinality(B) = Cardinality(A) + n
  BY <1>1, <1>11, UnitsPushed
<1> QED  BY <1>12 DEF A, B, n

(* The first write leaves a queue.                                         *)
LEMMA LiveTaken ==
  ASSUME NEW q \in Queues, NEW k, NEW p \in Processes, 1 \in DOMAIN q[p],
         NEW r \in Queues, Shortened(q, r, p, 1), IsFiniteSet(Live(q, k))
  PROVE  /\ IsFiniteSet(Live(r, k))
         /\ Cardinality(Live(q, k)) = Cardinality(Live(r, k))
              + IF ResetBehind(q, p, 1, k) THEN 0 ELSE KeyWeight(k)[q[p][1]]
<1>0. PICK t \in Seq(Writes) : Leaves(q[p], 1, t) /\ r = [q EXCEPT ![p] = t]
  BY DEF Shortened
<1> DEFINE n == IF ResetBehind(q, p, 1, k) THEN 0 ELSE KeyWeight(k)[q[p][1]]
           A == Live(q, k)
           B == Live(r, k)
<1>1. /\ q[p] \in Seq(Writes) /\ DOMAIN q[p] = 1..Len(q[p]) /\ Len(q[p]) \in Nat
      /\ q[p][1] \in Writes
  BY DEF Queues
<1>2. n \in Nat
  BY <1>1, KeyWeights DEF Weights
<1>3. r[p] = t /\ \A x \in Processes : x # p => r[x] = q[x]
  BY <1>0 DEF Queues
<1>4. A \in SUBSET Places /\ B \in SUBSET Places
  BY DEF Live, UnitsOf
<1>5. \A c \in Nat : <<p, 1, c>> \in A <=> c \in 1..n
  BY LiveIn
<1>6. /\ \A j \in Nat : j \in DOMAIN t <=> Skip(1, j) \in DOMAIN q[p]
      /\ \A j \in DOMAIN t : t[j] = q[p][Skip(1, j)]
  BY <1>0, <1>1 DEF Leaves, Skip
<1>7. ASSUME NEW j \in Nat, j >= 1
      PROVE  ResetBehind(r, p, j, k) <=> ResetBehind(q, p, Skip(1, j), k)
  <2>1. ASSUME NEW m \in DOMAIN t, j < m, IsReset(t[m], k)
        PROVE  ResetBehind(q, p, Skip(1, j), k)
    <3>1. m \in Nat /\ m >= 1 /\ Skip(1, m) \in DOMAIN q[p] /\ t[m] = q[p][Skip(1, m)]
      BY <1>0, <1>1, <1>6 DEF Leaves
    <3>2. Skip(1, j) < Skip(1, m)
      BY <2>1, <3>1 DEF Skip
    <3> QED  BY <2>1, <3>1, <3>2 DEF ResetBehind
  <2>2. ASSUME NEW m \in DOMAIN q[p], Skip(1, j) < m, IsReset(q[p][m], k)
        PROVE  ResetBehind(r, p, j, k)
    <3>1. m \in Nat /\ m >= 1
      BY <1>1
    <3>2. CASE m > 1
      <4>1. m - 1 \in Nat /\ Skip(1, m - 1) = m /\ j < m - 1
        BY <2>2, <3>1, <3>2 DEF Skip
      <4>2. m - 1 \in DOMAIN t /\ t[m - 1] = q[p][m]
        BY <1>6, <3>1, <4>1
      <4> QED  BY <1>3, <2>2, <4>1, <4>2 DEF ResetBehind
    <3>3. CASE ~(m > 1)
      BY <1>7, <2>2, <3>1, <3>3 DEF Skip
    <3> QED  BY <3>2, <3>3
  <2> QED  BY <1>3, <2>1, <2>2 DEF ResetBehind
<1>8. ASSUME NEW x \in Processes, NEW j \in Nat, NEW c \in Nat
      PROVE  <<x, j, c>> \in B <=> <<x, IF x = p THEN Skip(1, j) ELSE j, c>> \in A
  <2>1. CASE x # p
    <3>1. r[x] = q[x] /\ (ResetBehind(r, x, j, k) <=> ResetBehind(q, x, j, k))
      BY <1>3, <2>1 DEF ResetBehind
    <3>2. /\ <<x, j, c>> \in B <=> /\ j \in DOMAIN r[x] /\ c \in 1..KeyWeight(k)[r[x][j]]
                                   /\ ~ResetBehind(r, x, j, k)
          /\ <<x, j, c>> \in A <=> /\ j \in DOMAIN q[x] /\ c \in 1..KeyWeight(k)[q[x][j]]
                                   /\ ~ResetBehind(q, x, j, k)
      BY LiveIn
    <3> HIDE DEF A, B
    <3> QED  BY <2>1, <3>1, <3>2
  <2>2. CASE x = p
    <3> DEFINE m == Skip(1, j)
    <3>1. /\ <<p, j, c>> \in B <=> /\ j \in DOMAIN t /\ c \in 1..KeyWeight(k)[t[j]]
                                   /\ ~ResetBehind(r, p, j, k)
          /\ <<p, m, c>> \in A <=> /\ m \in DOMAIN q[p] /\ c \in 1..KeyWeight(k)[q[p][m]]
                                   /\ ~ResetBehind(q, p, m, k)
      BY <1>3, LiveIn
    <3>2. /\ j \in DOMAIN t <=> m \in DOMAIN q[p]
          /\ j \in DOMAIN t => t[j] = q[p][m]
          /\ j \in DOMAIN t => (ResetBehind(r, p, j, k) <=> ResetBehind(q, p, m, k))
      <4>1. j \in DOMAIN t => j >= 1
        BY <1>0, <1>1 DEF Leaves
      <4> QED  BY <1>6, <1>7, <4>1
    <3> HIDE DEF A, B, m
    <3>3. <<p, j, c>> \in B <=> <<p, m, c>> \in A
      BY <3>1, <3>2
    <3> QED  BY <2>2, <3>3 DEF m
  <2> QED  BY <2>1, <2>2
<1>9. IsFiniteSet(A) /\ Departed(A, B, p, 1, n)
  BY <1>5, <1>8 DEF Departed
<1> HIDE DEF A, B, n
<1>10. IsFiniteSet(B) /\ Cardinality(A) = Cardinality(B) + n
  BY <1>2, <1>4, <1>9, UnitsPopped
<1> QED  BY <1>10 DEF A, B, n

(* One process, writing in order and losing nothing.                       *)
Alone == backend = "sqlite" /\ NothingLost /\ \A x, y \in writers : x = y

Sorted ==
  \A p \in Processes : \A i, j \in DOMAIN pending[p] :
    i < j /\ Charge(pending[p][i]) /\ Charge(pending[p][j]) =>
      pending[p][i].key <= pending[p][j].key

RowFirst ==
  row # None => \A p \in Processes : \A i \in DOMAIN pending[p] :
                  Charge(pending[p][i]) => row.key <= pending[p][i].key

ResetPending(k) == \E p \in Processes : \E i \in DOMAIN pending[p] : IsReset(pending[p][i], k)

(* The row as the resets on their way will leave it, and what stays live,  *)
(* are what is owed.                                                       *)
Settled(k) ==
  row = None \/ row.key <= k =>
    (IF ResetPending(k) THEN 0 ELSE Spent(k)) + Cardinality(Live(pending, k)) = owed[k]

OrderInv == Alone => Sorted /\ RowFirst /\ \A k \in Keys : Settled(k)

LEMMA AloneBefore ==
  ASSUME Types, Types', Kinds, Alone'
  PROVE  /\ Alone
         /\ \A p \in Processes : ~Loses(p)
         /\ \A p \in Processes : \A i : Takes(p, i) =>
              /\ i = 1 /\ 1 \in DOMAIN pending[p] /\ Execute(pending[p][1])
              /\ Shortened(pending, pending', p, 1) /\ owed' = owed /\ bounds' = bounds
<1>1. NothingLost /\ NothingLost' /\ backend = "sqlite" /\ ~Mishap
  BY StillNothingLost, MishapLoses DEF Alone, Kinds
<1>2. \A x, y \in writers : x = y
  BY PastGrows DEF Alone
<1>3. \A p \in Processes : ~Loses(p)
  BY <1>1 DEF Loses
<1>4. ASSUME NEW p \in Processes, NEW i, Takes(p, i)
      PROVE  /\ i = 1 /\ 1 \in DOMAIN pending[p] /\ Execute(pending[p][1])
             /\ Shortened(pending, pending', p, 1) /\ owed' = owed /\ bounds' = bounds
  <2>1. i = 1 /\ i \in DOMAIN pending[p] /\ Shortened(pending, pending', p, i) /\ owed' = owed
    BY <1>1, <1>4 DEF Takes
  <2>2. Execute(pending[p][i]) /\ bounds' = bounds
    BY <1>1, <1>4 DEF Takes, Lands
  <2> QED  BY <2>1, <2>2
<1>5. Alone
  BY <1>1, <1>2 DEF Alone
<1> QED  BY <1>3, <1>4, <1>5

LEMMA PastOrdered ==
  ASSUME Types
  PROVE  Past \subseteq Nat /\ \A k \in Past : k <= KeyAt[day]
<1>1. day \in Days /\ MaxDay \in Nat
  BY LedgerAssumption DEF Types, TableTypes
<1>2. \A d \in 0..day : d \in Days /\ d <= day
  BY <1>1 DEF Days
<1>3. \A d \in 0..day : KeyAt[d] \in Nat /\ KeyAt[d] <= KeyAt[day]
  BY <1>1, <1>2, LedgerAssumption
<1> QED  BY <1>3 DEF Past

LEMMA HandedPlaces ==
  ASSUME Types, NEW p \in Processes, NEW w \in Writes, Handed(p, w)
  PROVE  \A x \in Processes : \A i \in DOMAIN pending'[x] :
           \/ i \in DOMAIN pending[x] /\ pending'[x][i] = pending[x][i]
           \/ /\ x = p /\ i \notin DOMAIN pending[x] /\ pending'[x][i] = w
              /\ \A j \in DOMAIN pending'[x] : j <= i
<1>1. pending \in [Processes -> Seq(Writes)]
  BY DEF Types, QueueTypes
<1>2. CASE pending' = pending
  BY <1>2
<1>3. CASE pending' = [pending EXCEPT ![p] = Append(@, w)]
  <2> SUFFICES ASSUME NEW x \in Processes, NEW i \in DOMAIN pending'[x]
               PROVE  \/ i \in DOMAIN pending[x] /\ pending'[x][i] = pending[x][i]
                      \/ /\ x = p /\ i \notin DOMAIN pending[x] /\ pending'[x][i] = w
                         /\ \A j \in DOMAIN pending'[x] : j <= i
    OBVIOUS
  <2>1. CASE x # p
    BY <1>1, <1>3, <2>1
  <2>2. CASE x = p
    <3>1. pending'[p] = Append(pending[p], w) /\ pending[p] \in Seq(Writes)
      BY <1>1, <1>3
    <3>2. /\ DOMAIN pending[p] = 1..Len(pending[p]) /\ Len(pending[p]) \in Nat
          /\ DOMAIN pending'[p] = 1..(Len(pending[p]) + 1)
          /\ \A j \in DOMAIN pending[p] : pending'[p][j] = pending[p][j]
          /\ pending'[p][Len(pending[p]) + 1] = w
      BY <3>1, AppendFacts
    <3>3. CASE i \in DOMAIN pending[p]
      BY <2>2, <3>2, <3>3
    <3>4. CASE i \notin DOMAIN pending[p]
      <4>1. i = Len(pending[p]) + 1
        BY <2>2, <3>2, <3>4
      <4> QED  BY <2>2, <3>2, <3>4, <4>1
    <3> QED  BY <3>3, <3>4
  <2> QED  BY <2>1, <2>2
<1> QED  BY <1>2, <1>3 DEF Handed, Enqueue

LEMMA TakenPlaces ==
  ASSUME Types, NEW p \in Processes, Shortened(pending, pending', p, 1)
  PROVE  \A x \in Processes : \A i \in DOMAIN pending'[x] :
           /\ (IF x = p THEN i + 1 ELSE i) \in DOMAIN pending[x]
           /\ pending'[x][i] = pending[x][IF x = p THEN i + 1 ELSE i]
           /\ i \in Nat /\ i >= 1
<1>1. pending \in [Processes -> Seq(Writes)]
  BY DEF Types, QueueTypes
<1>2. PICK t \in Seq(Writes) : Leaves(pending[p], 1, t) /\ pending' = [pending EXCEPT ![p] = t]
  BY DEF Shortened
<1> SUFFICES ASSUME NEW x \in Processes, NEW i \in DOMAIN pending'[x]
             PROVE  /\ (IF x = p THEN i + 1 ELSE i) \in DOMAIN pending[x]
                    /\ pending'[x][i] = pending[x][IF x = p THEN i + 1 ELSE i]
                    /\ i \in Nat /\ i >= 1
  OBVIOUS
<1>3. CASE x # p
  BY <1>1, <1>2, <1>3
<1>4. CASE x = p
  <2>1. pending'[p] = t /\ i \in DOMAIN t /\ i \in Nat /\ i >= 1
    BY <1>1, <1>2, <1>4
  <2>2. Skip(1, i) = i + 1
    BY <2>1 DEF Skip
  <2> QED  BY <1>2, <1>4, <2>1, <2>2 DEF Leaves
<1> QED  BY <1>3, <1>4

LEMMA SortedHanded ==
  ASSUME ChargesInv, Sorted, NEW p \in Processes, NEW w \in Writes, Handed(p, w),
         Charge(w) => w.key = KeyAt[day]
  PROVE  Sorted'
<1> SUFFICES ASSUME NEW x \in Processes, NEW i \in DOMAIN pending'[x],
                    NEW j \in DOMAIN pending'[x], i < j,
                    Charge(pending'[x][i]), Charge(pending'[x][j])
             PROVE  pending'[x][i].key <= pending'[x][j].key
  BY DEF Sorted
<1>1. Types
  BY DEF ChargesInv
<1>2. pending \in [Processes -> Seq(Writes)] /\ i \in Int /\ j \in Int
  <2>1. pending[x] \in Seq(Writes) /\ pending \in [Processes -> Seq(Writes)]
    BY <1>1 DEF Types, QueueTypes
  <2>2. pending'[x] \in Seq(Writes)
    <3>1. pending' \in [Processes -> Seq(Writes)]
      BY <2>1, EnqueueTypes DEF Handed
    <3> QED  BY <3>1
  <2> QED  BY <2>1, <2>2
<1>3. i \in DOMAIN pending[x] /\ pending'[x][i] = pending[x][i]
  BY <1>1, <1>2, HandedPlaces
<1>4. CASE j \in DOMAIN pending[x] /\ pending'[x][j] = pending[x][j]
  BY <1>3, <1>4 DEF Sorted
<1>5. CASE pending'[x][j] = w
  <2>1. pending[x][i].key \in Past
    BY <1>3 DEF ChargesInv, QueuedCharges
  <2> QED  BY <1>1, <1>3, <1>5, <2>1, PastOrdered
<1> QED  BY <1>1, <1>4, <1>5, HandedPlaces

LEMMA RowFirstHanded ==
  ASSUME ChargesInv, RowFirst, NEW p \in Processes, NEW w \in Writes, Handed(p, w),
         Charge(w) => w.key = KeyAt[day]
  PROVE  RowFirst'
<1> SUFFICES ASSUME row # None, NEW x \in Processes, NEW i \in DOMAIN pending'[x],
                    Charge(pending'[x][i])
             PROVE  row.key <= pending'[x][i].key
  BY DEF RowFirst, Handed
<1>1. CASE i \in DOMAIN pending[x] /\ pending'[x][i] = pending[x][i]
  BY <1>1 DEF RowFirst
<1>2. CASE pending'[x][i] = w
  BY <1>2, PastOrdered DEF ChargesInv, RowKey
<1> QED  BY <1>1, <1>2, HandedPlaces DEF ChargesInv

LEMMA SortedTaken ==
  ASSUME Types, Sorted, NEW p \in Processes, Shortened(pending, pending', p, 1)
  PROVE  Sorted'
<1> SUFFICES ASSUME NEW x \in Processes, NEW i \in DOMAIN pending'[x],
                    NEW j \in DOMAIN pending'[x], i < j,
                    Charge(pending'[x][i]), Charge(pending'[x][j])
             PROVE  pending'[x][i].key <= pending'[x][j].key
  BY DEF Sorted
<1> DEFINE m == IF x = p THEN i + 1 ELSE i
           n == IF x = p THEN j + 1 ELSE j
<1>1. /\ m \in DOMAIN pending[x] /\ pending'[x][i] = pending[x][m]
      /\ n \in DOMAIN pending[x] /\ pending'[x][j] = pending[x][n]
      /\ i \in Nat /\ j \in Nat
  BY TakenPlaces
<1>2. m < n
  BY <1>1
<1> HIDE DEF m, n
<1> QED  BY <1>1, <1>2 DEF Sorted

(* The head of the only queue is the oldest charge there is.               *)
LEMMA RowFirstTaken ==
  ASSUME ChargesInv, Alone, Sorted, RowFirst, NEW p \in Processes,
         1 \in DOMAIN pending[p], Shortened(pending, pending', p, 1), Execute(pending[p][1])
  PROVE  RowFirst'
<1> DEFINE w == pending[p][1]
<1>1. Types /\ w \in Writes
  BY DEF ChargesInv, Types, QueueTypes
<1> SUFFICES ASSUME row' # None, NEW x \in Processes, NEW i \in DOMAIN pending'[x],
                    Charge(pending'[x][i])
             PROVE  row'.key <= pending'[x][i].key
  BY DEF RowFirst
<1> DEFINE m == IF x = p THEN i + 1 ELSE i
<1>2. /\ m \in DOMAIN pending[x] /\ pending'[x][i] = pending[x][m]
      /\ i \in Nat /\ i >= 1
  BY <1>1, TakenPlaces
<1>3. CASE ~Charge(w)
  <2>1. row' = row
    BY <1>3 DEF Execute, Charge
  <2> HIDE DEF m
  <2> QED  BY <1>2, <2>1 DEF RowFirst
<1>4. CASE Charge(w)
  <2>1. row'.key = w.key
    BY <1>1, <1>4, WriteFacts, SpentAfter DEF Charge
  <2>2. x = p
    BY <1>2, <1>4 DEF ChargesInv, QueuedCharges, Alone
  <2>3. m = i + 1 /\ 1 < m
    BY <1>2, <2>2
  <2> HIDE DEF m
  <2> QED  BY <1>2, <1>4, <2>1, <2>2, <2>3 DEF Sorted
<1> QED  BY <1>3, <1>4

LEMMA LiveFinite ==
  ASSUME ChargesInv, NEW k \in Keys
  PROVE  IsFiniteSet(Live(pending, k)) /\ Cardinality(Live(pending, k)) \in Nat
<1>1. Live(pending, k) \in SUBSET Owing(k) /\ IsFiniteSet(Owing(k))
  BY DEF Live, Owing, ChargesInv, Owed
<1> QED  BY <1>1, FS_Subset, FS_CardinalityType

(* A write that is no reset of k is handed over.                           *)
LEMMA SettledHanded ==
  ASSUME ChargesInv, ChargesInv', Kinds, Alone', NEW k \in Keys, Settled(k),
         NEW p \in Processes, NEW w \in Writes, Handed(p, w), ~IsReset(w, k),
         owed'[k] = owed[k] + KeyWeight(k)[w]
  PROVE  Settled(k)'
<1>1. /\ Types /\ Types' /\ pending \in Queues /\ pending' \in Queues
      /\ writer[p] # "gone"
  <2>1. NothingLost
    BY AloneBefore DEF Alone, ChargesInv
  <2> QED  BY <2>1 DEF ChargesInv, Types, QueueTypes, Queues, WritersLive
<1>2. pending' = [pending EXCEPT ![p] = Append(@, w)]
  BY <1>1 DEF Handed, Enqueue
<1>3. Enqueued(pending, pending', p, w)
  BY <1>2 DEF Enqueued
<1>4. Cardinality(Live(pending', k)) = Cardinality(Live(pending, k)) + KeyWeight(k)[w]
  BY <1>1, <1>3, LiveFinite, LiveEnqueued
<1>5. ResetPending(k)' <=> ResetPending(k)
  <2>1. ASSUME NEW x \in Processes, NEW i \in DOMAIN pending'[x], IsReset(pending'[x][i], k)
        PROVE  ResetPending(k)
    BY <1>1, <2>1, HandedPlaces DEF ResetPending
  <2>2. ASSUME NEW x \in Processes, NEW i \in DOMAIN pending[x], IsReset(pending[x][i], k)
        PROVE  ResetPending(k)'
    <3>1. i \in DOMAIN pending'[x] /\ pending'[x][i] = pending[x][i]
      <4>1. pending[x] \in Seq(Writes)
        BY <1>1 DEF Queues
      <4>2. CASE x = p
        <5>1. pending'[x] = Append(pending[x], w)
          BY <1>1, <1>2, <4>2 DEF Queues
        <5> QED  BY <4>1, <5>1, AppendFacts
      <4>3. CASE x # p
        BY <1>1, <1>2, <4>3 DEF Queues
      <4> QED  BY <4>2, <4>3
    <3> QED  BY <2>2, <3>1 DEF ResetPending
  <2> QED  BY <2>1, <2>2 DEF ResetPending
<1>6. Spent(k)' = Spent(k) /\ row' = row
  BY DEF Handed, Spent, ClientSpend
<1>7. /\ Cardinality(Live(pending, k)) \in Nat /\ Spent(k) \in Nat
      /\ KeyWeight(k)[w] \in Nat
  BY <1>1, LiveFinite, SpentType, KeyWeights DEF Weights
<1> QED  BY <1>4, <1>5, <1>6, <1>7 DEF Settled

(* A reset of k forgets all that was handed over under k, all of it by p.  *)
LEMMA SettledReset ==
  ASSUME ChargesInv, ChargesInv', Kinds, Alone', NEW p \in Processes, HandsReset(p),
         NEW k \in Keys, k = KeyAt[day]
  PROVE  Settled(k)'
<1> DEFINE w == ResetWrite(k)
           i == Len(pending[p]) + 1
<1>1. /\ Types /\ pending \in Queues /\ pending' \in Queues /\ writer[p] # "gone"
      /\ pending[p] \in Seq(Writes)
  <2>1. NothingLost
    BY AloneBefore DEF Alone, ChargesInv
  <2> QED  BY <2>1 DEF ChargesInv, Types, QueueTypes, Queues, WritersLive
<1>2. pending' = [pending EXCEPT ![p] = Append(@, w)] /\ w \in Writes
  BY <1>1 DEF HandsReset, Handed, Enqueue
<1>3. pending'[p] = Append(pending[p], w)
  BY <1>1, <1>2 DEF Queues
<1>4. /\ DOMAIN pending'[p] = 1..i /\ pending'[p][i] = w /\ i \in Nat /\ i >= 1
      /\ DOMAIN pending[p] = 1..Len(pending[p])
  BY <1>1, <1>2, <1>3, AppendFacts
<1>5. IsReset(w, k) /\ Charge(w) /\ w.kind # "spend"
  BY DEF IsReset, ResetWrite, Charge
<1> HIDE DEF w, i
<1>6. ResetPending(k)'
  BY <1>4, <1>5 DEF ResetPending
<1>7. Live(pending', k) = {}
  <2> SUFFICES ASSUME NEW t \in Live(pending', k) PROVE FALSE
    OBVIOUS
  <2> DEFINE x == t[1]
             j == t[2]
             c == t[3]
  <2>1. t = <<x, j, c>> /\ x \in Processes
    BY LiveTriples
  <2> HIDE DEF x, j, c
  <2>2. /\ j \in DOMAIN pending'[x] /\ c \in 1..KeyWeight(k)[pending'[x][j]]
        /\ ~ResetBehind(pending', x, j, k)
    BY <1>1, <2>1, LiveIn
  <2>3. pending'[x][j] \in Writes
    BY <1>1, <2>1, <2>2 DEF Queues
  <2>4. pending'[x][j].kind = "spend"
    <3> SUFFICES ASSUME pending'[x][j].kind # "spend" PROVE FALSE
      OBVIOUS
    <3>1. KeyWeight(k)[pending'[x][j]] = 0
      BY <2>3, KeyWeights
    <3> QED  BY <2>2, <3>1
  <2>5. x = p
    BY <2>1, <2>2, <2>4 DEF ChargesInv, QueuedCharges, Charge, Alone, HandsReset
  <2>6. j # i
    BY <1>4, <1>5, <2>4, <2>5
  <2>7. j < i
    BY <1>4, <2>2, <2>5, <2>6
  <2>8. ResetBehind(pending', p, j, k)
    BY <1>4, <1>5, <2>7 DEF ResetBehind
  <2> QED  BY <2>2, <2>5, <2>8
<1>8. owed'[k] = 0
  BY DEF HandsReset, ChargesInv, Types, TableTypes
<1>9. Cardinality(Live(pending', k)) = 0
  BY <1>7, FS_EmptySet
<1> QED  BY <1>6, <1>8, <1>9 DEF Settled

(* The head of the queue is applied.                                       *)
LEMMA SettledTaken ==
  ASSUME ChargesInv, ChargesInv', Alone, RowFirst, NEW k \in Keys, Settled(k),
         NEW p \in Processes, 1 \in DOMAIN pending[p],
         Shortened(pending, pending', p, 1), Execute(pending[p][1]), owed' = owed
  PROVE  Settled(k)'
<1> DEFINE w == pending[p][1]
           behind == ResetBehind(pending, p, 1, k)
           n == IF behind THEN 0 ELSE KeyWeight(k)[w]
           live == Cardinality(Live(pending, k))
           rest == Cardinality(Live(pending', k))
<1>1. /\ Types /\ pending \in Queues /\ pending' \in Queues /\ w \in Writes
  BY DEF ChargesInv, Types, QueueTypes, Queues
<1>2. IsFiniteSet(Live(pending', k)) /\ live = rest + n
  BY <1>1, LiveFinite, LiveTaken
<1>3. live \in Nat /\ rest \in Nat /\ Spent(k) \in Nat /\ Spent(k)' \in Nat
      /\ KeyWeight(k)[w] \in Nat
  <2>1. live \in Nat /\ rest \in Nat
    BY <1>2, LiveFinite, FS_CardinalityType
  <2>2. Spent(k) \in Nat /\ Spent(k)' \in Nat
    BY SpentType DEF ChargesInv, Types, TableTypes, Spent, ClientSpend
  <2> QED  BY <1>1, <2>1, <2>2, KeyWeights DEF Weights
<1>4. /\ w.kind \in {"usage", "daily", "spend", "reset"}
      /\ Charge(w) => w.key \in Keys
      /\ w.kind # "spend" \/ w.key # k => KeyWeight(k)[w] = 0
  BY <1>1, WriteFacts DEF Charge, KeyWeight
<1>5. ResetPending(k)' =>
        \E x \in Processes : \E j \in DOMAIN pending[x] :
          IsReset(pending[x][j], k) /\ (x = p => 1 < j)
  <2> SUFFICES ASSUME NEW x \in Processes, NEW i \in DOMAIN pending'[x],
                      IsReset(pending'[x][i], k)
               PROVE  \E j \in DOMAIN pending[x] :
                        IsReset(pending[x][j], k) /\ (x = p => 1 < j)
    BY DEF ResetPending
  <2> DEFINE m == IF x = p THEN i + 1 ELSE i
  <2>1. m \in DOMAIN pending[x] /\ pending'[x][i] = pending[x][m] /\ i \in Nat /\ i >= 1
    BY <1>1, TakenPlaces
  <2>2. x = p => 1 < m
    BY <2>1
  <2> HIDE DEF m
  <2> QED  BY <2>1, <2>2
<1>6. ASSUME behind \/ (ResetPending(k) /\ ~IsReset(w, k))
      PROVE  ResetPending(k)'
  <2>1. PICK t \in Seq(Writes) : Leaves(pending[p], 1, t) /\ pending' = [pending EXCEPT ![p] = t]
    BY DEF Shortened
  <2>2. PICK x \in Processes : \E j \in DOMAIN pending[x] :
          IsReset(pending[x][j], k) /\ (x = p => 1 < j)
    <3>1. CASE behind
      BY <3>1 DEF ResetBehind
    <3>2. CASE ResetPending(k) /\ ~IsReset(w, k)
      <4>1. PICK x \in Processes : \E j \in DOMAIN pending[x] : IsReset(pending[x][j], k)
        BY <3>2 DEF ResetPending
      <4>2. PICK j \in DOMAIN pending[x] : IsReset(pending[x][j], k)
        BY <4>1
      <4>3. pending[x] \in Seq(Writes)
        BY <1>1 DEF Queues
      <4>4. x = p => 1 < j
        BY <3>2, <4>2, <4>3
      <4> QED  BY <4>2, <4>4
    <3> QED  BY <1>6, <3>1, <3>2
  <2>3. PICK j \in DOMAIN pending[x] : IsReset(pending[x][j], k) /\ (x = p => 1 < j)
    BY <2>2
  <2>4. CASE x # p
    BY <1>1, <2>1, <2>3, <2>4 DEF ResetPending, Queues
  <2>5. CASE x = p
    <3>1. /\ DOMAIN pending[p] = 1..Len(pending[p]) /\ Len(pending[p]) \in Nat
          /\ pending'[p] = t
      BY <1>1, <2>1 DEF Queues
    <3>2. j - 1 \in DOMAIN t /\ Skip(1, j - 1) = j
      BY <2>1, <2>3, <2>5, <3>1 DEF Leaves, Skip
    <3>3. t[j - 1] = pending[p][j]
      BY <2>1, <3>2 DEF Leaves
    <3> QED  BY <2>3, <2>5, <3>1, <3>2, <3>3 DEF ResetPending
  <2> QED  BY <2>4, <2>5
<1>7. ResetPending(k)' => ResetPending(k)
  BY <1>5 DEF ResetPending
<1>8. ResetPending(k)' /\ Charge(w) => behind
  <2> SUFFICES ASSUME ResetPending(k)', Charge(w) PROVE behind
    OBVIOUS
  <2>1. PICK x \in Processes : \E j \in DOMAIN pending[x] :
          IsReset(pending[x][j], k) /\ (x = p => 1 < j)
    BY <1>5
  <2>2. PICK j \in DOMAIN pending[x] : IsReset(pending[x][j], k) /\ (x = p => 1 < j)
    BY <2>1
  <2>3. x \in writers
    BY <2>2 DEF ChargesInv, QueuedCharges, Charge, IsReset
  <2>4. p \in writers
    BY DEF ChargesInv, QueuedCharges
  <2>5. x = p
    BY <2>3, <2>4 DEF Alone
  <2> QED  BY <2>2, <2>5 DEF ResetBehind
<1> SUFFICES ASSUME row' = None \/ row'.key <= k
             PROVE  (IF ResetPending(k)' THEN 0 ELSE Spent(k)') + rest = owed[k]
  BY DEF Settled
<1> DEFINE before == IF ResetPending(k) THEN 0 ELSE Spent(k)
<1>9. CASE ~Charge(w)
  <2>1. row' = row /\ Spent(k)' = Spent(k) /\ n = 0
    BY <1>1, <1>4, <1>9, SpentAfter DEF Charge, Execute
  <2>2. ~IsReset(w, k)
    BY <1>9 DEF IsReset, Charge
  <2>3. before + live = owed[k]
    BY <2>1 DEF Settled
  <2>4. ResetPending(k)' <=> ResetPending(k)
    BY <1>6, <1>7, <2>2
  <2> HIDE DEF w, n, live, rest
  <2> QED  BY <1>2, <1>3, <2>1, <2>3, <2>4
<1>10. CASE Charge(w)
  <2>1. w.key <= k /\ w.key \in Nat /\ k \in Nat
    BY <1>1, <1>4, <1>10, SpentAfter, ConstantTypes
  <2>2. row = None \/ (row.key <= w.key /\ row.key \in Nat)
    BY <1>10, ConstantTypes DEF RowFirst, ChargesInv, Types, TableTypes
  <2>3. before + live = owed[k]
    BY <2>1, <2>2 DEF Settled
  <2> HIDE DEF live, rest
  <2>4. CASE w.key = k /\ w.kind = "spend"
    <3>1. Spent(k)' = Spent(k) + KeyWeight(k)[w] /\ ~IsReset(w, k)
      BY <1>1, <2>4, SpentAfter DEF IsReset
    <3>2. (ResetPending(k)' <=> ResetPending(k)) /\ (ResetPending(k) <=> behind)
      BY <1>6, <1>7, <1>8, <1>10, <3>1
    <3> HIDE DEF w, behind
    <3> QED  BY <1>2, <1>3, <2>3, <3>1, <3>2
  <2>5. CASE w.key = k /\ w.kind = "reset"
    <3>1. Spent(k)' = 0 /\ n = 0 /\ ResetPending(k)
      BY <1>1, <1>4, <2>5, SpentAfter DEF ResetPending, IsReset
    <3> HIDE DEF w, n, behind
    <3> QED  BY <1>2, <1>3, <2>3, <3>1
  <2>6. CASE w.key # k
    <3>1. Spent(k)' = 0 /\ n = 0
      BY <1>1, <1>4, <1>10, <2>6, SpentAfter
    <3>2. Spent(k) = 0
      BY <2>1, <2>2, <2>6 DEF Spent, ClientSpend
    <3> HIDE DEF w, n, behind
    <3> QED  BY <1>2, <1>3, <2>3, <3>1, <3>2
  <2> QED  BY <1>4, <1>10, <2>4, <2>5, <2>6 DEF Charge
<1> QED  BY <1>9, <1>10

LEMMA OrderInit ==
  ASSUME Init
  PROVE  OrderInv
<1>1. Sorted /\ RowFirst
  BY DEF Init, Sorted, RowFirst
<1>2. ASSUME NEW k \in Keys PROVE Settled(k)
  <2>1. Live(pending, k) = {}
    BY DEF Init, Live, UnitsOf, Places
  <2>2. Spent(k) = 0 /\ owed[k] = 0
    BY DEF Init, Spent, ClientSpend
  <2> QED  BY <2>1, <2>2, FS_EmptySet DEF Settled
<1> QED  BY <1>1, <1>2 DEF OrderInv

LEMMA OrderStep ==
  ASSUME ChargesInv, ChargesInv', Kinds, OrderInv
  PROVE  OrderInv'
<1> SUFFICES ASSUME Alone' PROVE Sorted' /\ RowFirst' /\ \A k \in Keys : Settled(k)'
  BY DEF OrderInv, Keys
<1>1. /\ Types /\ Types' /\ Alone /\ Sorted /\ RowFirst /\ \A k \in Keys : Settled(k)
      /\ \A p \in Processes : ~Loses(p)
  BY AloneBefore DEF OrderInv, ChargesInv
<1>2. /\ KeyAt[day] \in Keys /\ owed \in [Keys -> Nat]
      /\ UsageWrite \in Writes /\ DailyWrite(day) \in Writes
  BY <1>1, ConstantTypes, WriteFacts DEF Types, TableTypes
<1>3. CASE Quiet \/ Passes
  <2>1. UNCHANGED <<row, pending, owed>>
    BY <1>3 DEF Quiet, Passes
  <2>2. \A k : Settled(k)' <=> Settled(k)
    BY <2>1 DEF Settled, ResetPending, Spent, ClientSpend
  <2> QED  BY <1>1, <2>1, <2>2 DEF Sorted, RowFirst
<1>4. ASSUME NEW p \in Processes, NEW w \in Writes, Handed(p, w), ~Charge(w), owed' = owed
      PROVE  Sorted' /\ RowFirst' /\ \A k \in Keys : Settled(k)'
  <2>1. ASSUME NEW k \in Keys PROVE Settled(k)'
    <3>1. KeyWeight(k)[w] = 0 /\ ~IsReset(w, k)
      BY <1>4, KeyWeights DEF Charge, IsReset
    <3>2. owed'[k] = owed[k] + KeyWeight(k)[w]
      BY <1>2, <1>4, <3>1
    <3> QED  BY <1>1, <1>4, <3>1, <3>2, SettledHanded
  <2> QED  BY <1>1, <1>4, <2>1, SortedHanded, RowFirstHanded
<1>5. ASSUME NEW p \in Processes, NEW c \in Costs, HandsSpend(p, c)
      PROVE  Sorted' /\ RowFirst' /\ \A k \in Keys : Settled(k)'
  <2> DEFINE w == SpendWrite(KeyAt[day], c)
  <2>1. w \in Writes /\ w.key = KeyAt[day] /\ Handed(p, w) /\ w.kind = "spend"
    BY <1>5 DEF HandsSpend, Handed, SpendWrite
  <2>2. \A k : KeyWeight(k)[w] = IF KeyAt[day] = k THEN c ELSE 0
    BY <1>2, KeyWeights
  <2> HIDE DEF w
  <2>3. ASSUME NEW k \in Keys PROVE Settled(k)'
    <3>1. ~IsReset(w, k)
      BY <2>1 DEF IsReset
    <3>2. owed'[k] = owed[k] + KeyWeight(k)[w]
      BY <1>2, <1>5, <2>2 DEF HandsSpend
    <3> QED  BY <1>1, <2>1, <3>1, <3>2, SettledHanded
  <2> QED  BY <1>1, <2>1, <2>3, SortedHanded, RowFirstHanded
<1>6. ASSUME NEW p \in Processes, HandsReset(p)
      PROVE  Sorted' /\ RowFirst' /\ \A k \in Keys : Settled(k)'
  <2> DEFINE w == ResetWrite(KeyAt[day])
  <2>1. w \in Writes /\ w.key = KeyAt[day] /\ Handed(p, w) /\ w.kind = "reset"
    BY <1>6 DEF HandsReset, Handed, ResetWrite
  <2> HIDE DEF w
  <2>2. ASSUME NEW k \in Keys, k # KeyAt[day] PROVE Settled(k)'
    <3>1. ~IsReset(w, k) /\ KeyWeight(k)[w] = 0
      BY <2>1, <2>2, KeyWeights DEF IsReset
    <3>2. owed'[k] = owed[k] + KeyWeight(k)[w]
      BY <1>2, <1>6, <2>2, <3>1 DEF HandsReset
    <3> QED  BY <1>1, <2>1, <3>1, <3>2, SettledHanded
  <2>3. ASSUME NEW k \in Keys, k = KeyAt[day] PROVE Settled(k)'
    BY <1>6, <2>3, SettledReset
  <2> QED  BY <1>1, <2>1, <2>2, <2>3, SortedHanded, RowFirstHanded
<1>7. ASSUME NEW p \in Processes, NEW i, Takes(p, i)
      PROVE  Sorted' /\ RowFirst' /\ \A k \in Keys : Settled(k)'
  <2>1. /\ 1 \in DOMAIN pending[p] /\ Execute(pending[p][1])
        /\ Shortened(pending, pending', p, 1) /\ owed' = owed
    BY <1>1, <1>7, AloneBefore
  <2> QED  BY <1>1, <2>1, SortedTaken, RowFirstTaken, SettledTaken
<1>8. ASSUME NEW p \in Processes, HandsUsage(p)
      PROVE  Sorted' /\ RowFirst' /\ \A k \in Keys : Settled(k)'
  BY <1>2, <1>4, <1>8 DEF HandsUsage, UsageWrite, Charge
<1>9. ASSUME NEW p \in Processes, HandsDaily(p)
      PROVE  Sorted' /\ RowFirst' /\ \A k \in Keys : Settled(k)'
  BY <1>2, <1>4, <1>9 DEF HandsDaily, DailyWrite, Charge
<1> QED  BY <1>1, <1>3, <1>5, <1>6, <1>7, <1>8, <1>9 DEF Kinds

LEMMA ConvergesFollows ==
  ASSUME ChargesInv, OrderInv
  PROVE  LedgerConverges
<1> SUFFICES ASSUME Written, NothingLost, row # None,
                    InOrder \/ (bounds.resets = 0 /\ day = 0)
             PROVE  row.spent = owed[row.key]
  BY DEF LedgerConverges
<1>0. PICK k : k = row.key
  OBVIOUS
<1>1. k \in Keys /\ Spent(k) = row.spent /\ row.spent \in Nat /\ owed[k] \in Nat
  BY <1>0 DEF ChargesInv, Types, TableTypes, Spent, ClientSpend
<1>2. UnitsOf(pending, KeyWeight(k)) = {}
  BY DEF Written, UnitsOf, Places
<1>3. CASE InOrder
  <2>1. \A x, y \in writers : x = y
    <3> SUFFICES ASSUME NEW x \in writers, NEW y \in writers, x # y PROVE FALSE
      OBVIOUS
    <3>1. {x, y} \in SUBSET writers /\ IsFiniteSet(writers)
      BY DEF ChargesInv
    <3>2. IsFiniteSet({x}) /\ Cardinality({x}) = 1 /\ {x} \cup {y} = {x, y} /\ y \notin {x}
      BY FS_Singleton
    <3>3. Cardinality({x, y}) = 2
      <4>1. Cardinality({x} \cup {y}) = Cardinality({x}) + 1
        BY <3>2, FS_AddElement
      <4> QED  BY <3>2, <4>1
    <3>4. Cardinality({x, y}) <= Cardinality(writers) /\ Cardinality(writers) \in Nat
      BY <3>1, FS_Subset, FS_CardinalityType
    <3> QED  BY <1>3, <3>3, <3>4 DEF InOrder
  <2>2. Settled(k)
    BY <1>1, <1>3, <2>1 DEF OrderInv, Alone, InOrder
  <2>3. ~ResetPending(k)
    BY DEF ResetPending, Written
  <2>4. Cardinality(Live(pending, k)) = 0
    <3>1. Live(pending, k) = {}
      BY <1>2 DEF Live
    <3> QED  BY <3>1, FS_EmptySet
  <2>5. k <= k
    BY <1>1, ConstantTypes
  <2>6. Spent(k) + Cardinality(Live(pending, k)) = owed[k]
    <3>1. row.key <= k
      BY <1>0, <2>5
    <3>2. (IF ResetPending(k) THEN 0 ELSE Spent(k)) + Cardinality(Live(pending, k)) = owed[k]
      BY <2>2, <3>1 DEF Settled
    <3> QED  BY <2>3, <3>2
  <2> QED  BY <1>0, <1>1, <2>4, <2>6
<1>4. CASE bounds.resets = 0 /\ day = 0
  <2>1. k = KeyAt[0]
    BY <1>0, <1>4 DEF ChargesInv, RowKey, Past
  <2>2. Spent(k) + Cardinality(Owing(k)) = owed[k]
    BY <1>1, <1>4, <2>1 DEF ChargesInv, Owed
  <2>3. Cardinality(Owing(k)) = 0
    BY <1>2, FS_EmptySet DEF Owing
  <2> QED  BY <1>0, <1>1, <2>2, <2>3
<1> QED  BY <1>3, <1>4

(* record_client_spend and reset_client_spend (lib.rs), the upserts of     *)
(* persistence.rs: once all is written and nothing was lost, the total is  *)
(* what was recorded in its period since the last reset, for one process   *)
(* on SQLite whatever happens, and for any processes and order of writes   *)
(* as long as there is no reset and no midnight.                           *)
THEOREM Converges == Spec => []LedgerConverges
<1>1. Init => ChargesInv /\ OrderInv
  BY ChargesInit, OrderInit
<1>2. ChargesInv /\ OrderInv /\ [Next]_vars => ChargesInv' /\ OrderInv'
  BY ChargesStep, OrderStep
<1>3. ChargesInv /\ OrderInv => LedgerConverges
  BY ConvergesFollows
<1> QED  BY <1>1, <1>2, <1>3, PTL DEF Spec
=============================================================================
