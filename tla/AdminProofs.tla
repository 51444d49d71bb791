---------------------------- MODULE AdminProofs -----------------------------
(***************************************************************************)
(* Proofs about AdminClients, for any number of handlers, clients, keys    *)
(* and calls: its four tables agree once the changes of a client are done, *)
(* no key outlives its client, spend stays with the organization it is     *)
(* of, and an organization's admin leaves what belongs to others alone.    *)
(*                                                                         *)
(* The argument is local to a name.  What is true of a client's tables is  *)
(* stated by how far the one handler that changes them has come (Midway),  *)
(* and what is on record of overlapping calls (OverlapsSeen) says that it  *)
(* is the only one.  A step keeps what is true of every other name because *)
(* it touches the tables of one name only; so each step has a lemma for    *)
(* what it does (...Does) and one for what it keeps (...Keeps).            *)
(***************************************************************************)
EXTENDS AdminClients, WellFoundedInduction, TLAPS

CallFields == {"operation", "at", "identity", "client", "key", "rotate", "budget", "todo", "rows"}

(* The handler of slot a is in progress, and changes tables of client n.   *)
WriterOf(a, n) == call[a].at # "idle" /\ call[a].operation \in Writers /\ call[a].client.name = n

Scoped(c) == c.identity # Global => c.client.organization = c.identity

(* What a call carries, by the critical section it enters next.            *)
Staged(c) ==
  /\ c = [f \in CallFields |-> c[f]]
  /\ c.at = "idle" => c = IdleCall
  /\ c.at \in {"key", "push"} => c.operation = "create"
  /\ c.at = "rotate" => c.operation = "update"
  /\ c.at = "budget" => c.operation \in {"create", "update"}
  /\ c.at \in {"revoke", "forget"} => c.operation = "delete"
  /\ c.at = "charge" => c.operation = "request" /\ c.identity = Global
  /\ c.at = "zero" => c.operation = "reset"
  /\ c.at \in {"report", "answer"} => c.operation = "list" /\ c.client = None
  /\ c.at \notin {"idle", "report", "answer"} => c.client \in Client /\ Scoped(c)
  /\ c.at = "key" => c.key \in Keys \cup {None}
  /\ c.at \in {"idle", "key", "push", "rotate", "budget", "revoke", "forget",
               "charge", "zero", "report", "answer"}
  /\ c.todo \in Seq(Client) /\ (c.at = "report" => c.todo # <<>>)
  /\ c.rows \in Seq(Row)

CallTypes ==
  /\ call = [a \in Admins |-> call[a]]
  /\ \A a \in Admins : Staged(call[a])

Types ==
  /\ clients \in Seq(Client)
  /\ DOMAIN keys \subseteq Keys /\ \A k \in DOMAIN keys : keys[k] \in KeyEntry
  /\ generated \subseteq Keys /\ DOMAIN keys \subseteq generated
  /\ budgets \in [Names -> Setting \cup {None}]
  /\ spend \in [Names -> SUBSET Organizations]
  /\ CallTypes
  /\ overlapped \subseteq SUBSET Operations

Entries(n) == {clients[i] : i \in Named(n)}
Once(n) == \A i, j \in Named(n) : i = j

(* Calls that are in progress together for one name have been seen to.     *)
OverlapsSeen ==
  \A a, b \in Admins :
    a # b /\ call[a].at # "idle" /\ call[b].at # "idle" /\ Concerns(a) \cap Concerns(b) # {}
      => {call[a].operation, call[b].operation} \in overlapped

(* A key without a client is one whose client is about to be listed, or    *)
(* which is about to be revoked; a key is rotated for a listed client.     *)
Pending(n) ==
  /\ \/ KeysOf(n) = {} \/ Entries(n) # {}
     \/ \E a \in Admins : WriterOf(a, n) /\ call[a].at \in {"push", "revoke"}
  /\ \A a \in Admins : WriterOf(a, n) /\ call[a].at = "rotate" => Entries(n) # {}

(* The tables of a client no writer is at, and those of one a writer is at. *)
OneKey(n, rpm) == \E k \in Keys : KeysOf(n) = {k} /\ keys[k].rpm = rpm
BudgetShown(n, budget) ==
  IF budget = None THEN budgets[n] = None ELSE budgets[n] # None /\ budgets[n].budget = budget

Settled(n) ==
  /\ Entries(n) = {} => KeysOf(n) = {} /\ budgets[n] = None
  /\ \A c \in Entries(n) : OneKey(n, c.rpm) /\ BudgetShown(n, c.budget)

Midway(a, n) ==
  LET c == call[a].client IN
  /\ call[a].at = "key" => Entries(n) = {} /\ KeysOf(n) = {} /\ budgets[n] = None
  /\ call[a].at = "push" => Entries(n) = {} /\ OneKey(n, c.rpm) /\ budgets[n] = None
  /\ call[a].at = "rotate" => Entries(n) = {c} /\ \E k \in Keys : KeysOf(n) = {k}
  /\ call[a].at = "budget" => Entries(n) = {c} /\ OneKey(n, c.rpm)
  /\ call[a].at = "revoke" => Entries(n) = {}
  /\ call[a].at = "forget" => Entries(n) = {} /\ KeysOf(n) = {}

Agrees(n) ==
  /\ Once(n)
  /\ (\A a \in Admins : ~WriterOf(a, n)) => Settled(n)
  /\ \A a \in Admins : WriterOf(a, n) => Midway(a, n)

(* Whose spend a name's total is: while nothing overlaps the creation or   *)
(* the deletion of a client, of the one client of that name.               *)
Undisturbed == \A pair \in overlapped : pair \cap {"create", "delete"} = {}

Belongs(n, organization) == \E c \in Entries(n) : c.organization = organization

Listed(c) ==
  /\ \A i \in DOMAIN c.todo : /\ InScope(c.identity, c.todo[i])
                              /\ Belongs(c.todo[i].name, c.todo[i].organization)
  /\ \A i \in DOMAIN c.rows :
       /\ InScope(c.identity, c.rows[i].client)
       /\ c.rows[i].spent # None => c.rows[i].spent \subseteq {c.rows[i].client.organization}

(* The handler of slot a is in progress for the client named n.            *)
Busy(a, n) == call[a].at # "idle" /\ call[a].operation # "list" /\ call[a].client.name = n

Deleting(a, n) == WriterOf(a, n) /\ call[a].operation = "delete"

Owned(n) ==
  /\ Once(n)
  /\ (\A a \in Admins : ~Deleting(a, n)) => \A o \in spend[n] : Belongs(n, o)
  /\ \A a \in Admins : Busy(a, n) =>
       IF call[a].at \in {"key", "push", "revoke", "forget"} THEN Entries(n) = {}
       ELSE Belongs(n, call[a].client.organization)

AdminInv ==
  /\ Types /\ OverlapsSeen
  /\ ~WroteBeside("update") => \A n \in Names : Pending(n)

WritesApart == \A operation \in Writers : ~WroteBeside(operation)

AgreementInv == WritesApart => \A n \in Names : Agrees(n)

Reported == \A a \in Admins : call[a].at \in {"report", "answer"} => Listed(call[a])

SpendInv == Undisturbed => (\A n \in Names : Owned(n)) /\ Reported

-----------------------------------------------------------------------------
(* What is retained of a sequence.                                         *)
(* The recursion of Retained has a solution: there is no least length      *)
(* without one.                                                            *)
Below == OpToRel(<, Nat)

LEMMA BelowIsLess == ASSUME NEW x \in Nat, NEW y \in Nat, x < y PROVE <<x, y>> \in Below
BY DEF Below, OpToRel

LEMMA LeastElement ==
  ASSUME NEW S \in SUBSET Nat, S # {}
  PROVE  \E m \in S : \A n \in S : m <= n
<1>1. IsWellFoundedOn(Below, Nat)
  BY NatLessThanWellFounded DEF Below
<1>2. IsWellFoundedOn(Below, S)
  BY <1>1, IsWellFoundedOnSubset
<1>3. PICK m \in S : \A n \in S : ~ (<<n, m>> \in Below)
  BY <1>2, WFMin
<1>4. \A n \in S : ~ (n < m)
  BY <1>3, BelowIsLess
<1> QED  BY <1>4

AfterItem(s, S, i, r) == IF i \in S THEN Append(r, s[i]) ELSE r

KeptUpTo(s, S, m, g) == g = [i \in 0..m |-> IF i = 0 THEN <<>> ELSE AfterItem(s, S, i, g[i - 1])]

LEMMA KeptExists ==
  ASSUME NEW s, NEW S, NEW m \in Nat
  PROVE  \E g : KeptUpTo(s, S, m, g)
<1> DEFINE Bad == {n \in Nat : ~ \E g : KeptUpTo(s, S, n, g)}
<1> SUFFICES ASSUME Bad # {} PROVE FALSE
  OBVIOUS
<1>1. PICK least \in Bad : \A n \in Bad : least <= n
  BY LeastElement
<1>2. CASE least = 0
  <2>1. PICK g : g = [n \in 0..0 |-> <<>>]
    OBVIOUS
  <2>2. KeptUpTo(s, S, 0, g)
    BY <2>1 DEF KeptUpTo
  <2> QED  BY <1>2, <2>2
<1>3. CASE least # 0
  <2>1. least \in Nat /\ least - 1 \in Nat /\ least - 1 \notin Bad
    BY <1>1, <1>3
  <2>2. PICK g : KeptUpTo(s, S, least - 1, g)
    BY <2>1
  <2>3. PICK h : h = [n \in 0..least |-> IF n = least THEN AfterItem(s, S, n, g[n - 1]) ELSE g[n]]
    OBVIOUS
  <2>4. \A n \in 0..(least - 1) : g[n] = IF n = 0 THEN <<>> ELSE AfterItem(s, S, n, g[n - 1])
    BY <2>2 DEF KeptUpTo
  <2>5. \A n \in 0..least : n # least => n \in 0..(least - 1) /\ h[n] = g[n]
    BY <2>1, <2>3
  <2>6. \A n \in 0..least : n # 0 => n - 1 \in 0..(least - 1) /\ h[n - 1] = g[n - 1]
    BY <2>1, <2>3
  <2>7. \A n \in 0..least : h[n] = IF n = 0 THEN <<>> ELSE AfterItem(s, S, n, h[n - 1])
    BY <1>3, <2>1, <2>3, <2>4, <2>5, <2>6
  <2>8. KeptUpTo(s, S, least, h)
    BY <2>3, <2>7 DEF KeptUpTo
  <2> QED  BY <2>8
<1> QED  BY <1>2, <1>3

LEMMA RetainedUnfolds ==
  ASSUME NEW s, NEW S, Len(s) \in Nat
  PROVE  \E g : KeptUpTo(s, S, Len(s), g) /\ Retained(s, S) = g[Len(s)]
<1> DEFINE Chosen == CHOOSE g : KeptUpTo(s, S, Len(s), g)
<1>1. KeptUpTo(s, S, Len(s), Chosen)
  BY KeptExists, Zenon
<1>2. Retained(s, S) = Chosen[Len(s)]
  BY DEF Retained, KeptUpTo, AfterItem
<1> QED  BY <1>1, <1>2

(* It has one solution only, and it depends on what is retained alone.     *)
Alike(s, S, t, R, n) == \A i \in 1..n : (i \in S <=> i \in R) /\ (i \in S => s[i] = t[i])

LEMMA KeptAgrees ==
  ASSUME NEW s, NEW S, NEW m \in Nat, NEW g, KeptUpTo(s, S, m, g),
         NEW t, NEW R, NEW l \in Nat, NEW h, KeptUpTo(t, R, l, h),
         NEW n \in Nat, n <= m, n <= l,
         Alike(s, S, t, R, n)
  PROVE  g[n] = h[n]
<1> DEFINE Differ == {i \in Nat : i <= n /\ g[i] # h[i]}
<1> SUFFICES ASSUME Differ # {} PROVE FALSE
  OBVIOUS
<1>1. PICK least \in Differ : \A i \in Differ : least <= i
  BY LeastElement
<1>2. /\ g[0] = <<>> /\ h[0] = <<>>
      /\ \A i \in 1..n : g[i] = AfterItem(s, S, i, g[i - 1]) /\ h[i] = AfterItem(t, R, i, h[i - 1])
  BY DEF KeptUpTo
<1>3. least \in 1..n /\ least - 1 \in Nat /\ least - 1 <= n /\ least - 1 \notin Differ
  BY <1>1, <1>2
<1> QED  BY <1>1, <1>2, <1>3 DEF AfterItem, Alike

LEMMA RetainedAgrees ==
  ASSUME NEW s, NEW S, NEW t, NEW R, Len(s) \in Nat, Len(t) = Len(s),
         Alike(s, S, t, R, Len(s))
  PROVE  Retained(s, S) = Retained(t, R)
<1>1. PICK g : KeptUpTo(s, S, Len(s), g) /\ Retained(s, S) = g[Len(s)]
  BY RetainedUnfolds
<1>2. PICK h : KeptUpTo(t, R, Len(t), h) /\ Retained(t, R) = h[Len(t)]
  BY RetainedUnfolds
<1>3. PICK n \in Nat : n = Len(s)
  OBVIOUS
<1>4. g[n] = h[n]
  <2>1. KeptUpTo(s, S, n, g) /\ KeptUpTo(t, R, n, h)
    BY <1>1, <1>2, <1>3
  <2>2. n <= n /\ Alike(s, S, t, R, n)
    BY <1>3
  <2> QED  BY <2>1, <2>2, KeptAgrees
<1> QED  BY <1>1, <1>2, <1>3, <1>4

LEMMA RetainedAppend ==
  ASSUME NEW T, NEW s \in Seq(T), NEW x \in T, NEW S
  PROVE  Retained(Append(s, x), S) = IF Len(s) + 1 \in S THEN Append(Retained(s, S), x)
                                     ELSE Retained(s, S)
<1>1. PICK t : t = Append(s, x)
  OBVIOUS
<1>2. PICK n \in Nat : n = Len(s)
  OBVIOUS
<1>3. Len(t) = n + 1 /\ t[n + 1] = x /\ \A i \in 1..n : t[i] = s[i]
  BY <1>1, <1>2
<1>4. PICK g : KeptUpTo(s, S, n, g) /\ Retained(s, S) = g[n]
  BY <1>2, RetainedUnfolds
<1>5. PICK h : KeptUpTo(t, S, n + 1, h) /\ Retained(t, S) = h[n + 1]
  BY <1>3, RetainedUnfolds
<1>6. h[n] = g[n]
  <2>1. Alike(s, S, t, S, n) /\ n <= n /\ n <= n + 1 /\ n + 1 \in Nat
    BY <1>3 DEF Alike
  <2> QED  BY <1>3, <1>4, <1>5, <2>1, KeptAgrees
<1>7. h[n + 1] = AfterItem(t, S, n + 1, h[n])
  BY <1>5 DEF KeptUpTo
<1> QED  BY <1>1, <1>2, <1>3, <1>4, <1>5, <1>6, <1>7 DEF AfterItem

(* What is retained stands in the order it had.                            *)
Embeds(T, s, S, m, r, e) ==
  /\ r \in Seq(T) /\ e \in [1..Len(r) -> S \cap (1..m)]
  /\ \A i \in 1..Len(r) : r[i] = s[e[i]]
  /\ \A i, j \in 1..Len(r) : i < j => e[i] < e[j]
  /\ \A k \in S \cap (1..m) : \E i \in 1..Len(r) : e[i] = k

LEMMA RetainedEmbeds ==
  ASSUME NEW T, NEW s \in Seq(T), NEW S
  PROVE  \E e : Embeds(T, s, S, Len(s), Retained(s, S), e)
<1>1. PICK m \in Nat : m = Len(s)
  OBVIOUS
<1>2. PICK g : KeptUpTo(s, S, m, g) /\ Retained(s, S) = g[m]
  BY <1>1, RetainedUnfolds
<1>3. /\ g[0] = <<>>
      /\ \A n \in 1..m : g[n] = AfterItem(s, S, n, g[n - 1])
  BY <1>2 DEF KeptUpTo
<1> DEFINE Bad == {n \in Nat : n <= m /\ ~ \E e : Embeds(T, s, S, n, g[n], e)}
<1>4. Bad = {}
  <2> SUFFICES ASSUME Bad # {} PROVE FALSE
    OBVIOUS
  <2>1. PICK n \in Bad : \A k \in Bad : n <= k
    BY LeastElement
  <2>2. n # 0
    <3>1. Len(g[0]) = 0 /\ g[0] \in Seq(T)
      BY <1>3
    <3>2. PICK e : e = [i \in 1..0 |-> 0]
      OBVIOUS
    <3>3. Embeds(T, s, S, 0, g[0], e)
      BY <3>1, <3>2 DEF Embeds
    <3> QED  BY <2>1, <3>3
  <2>3. n \in 1..m /\ n - 1 \in Nat /\ n - 1 <= m /\ n - 1 \notin Bad
    BY <2>1, <2>2
  <2>4. PICK e : Embeds(T, s, S, n - 1, g[n - 1], e)
    BY <2>3
  <2>5. g[n] = AfterItem(s, S, n, g[n - 1])
    BY <1>3, <2>3
  <2>6. PICK r : r = g[n - 1]
    OBVIOUS
  <2>7. /\ r \in Seq(T) /\ Len(r) \in Nat /\ e \in [1..Len(r) -> S \cap (1..(n - 1))]
        /\ \A i \in 1..Len(r) : r[i] = s[e[i]]
        /\ \A i, j \in 1..Len(r) : i < j => e[i] < e[j]
        /\ \A k \in S \cap (1..(n - 1)) : \E i \in 1..Len(r) : e[i] = k
    BY <2>4, <2>6 DEF Embeds
  <2>8. CASE n \notin S
    <3>1. g[n] = r /\ S \cap (1..(n - 1)) = S \cap (1..n)
      BY <2>3, <2>5, <2>6, <2>8 DEF AfterItem
    <3>2. Embeds(T, s, S, n, g[n], e)
      BY <2>7, <3>1 DEF Embeds
    <3> QED  BY <2>1, <3>2
  <2>9. CASE n \in S
    <3>1. PICK t : t = Append(r, s[n])
      OBVIOUS
    <3>2. g[n] = t /\ S \cap (1..n) = (S \cap (1..(n - 1))) \cup {n} /\ s[n] \in T
      BY <1>1, <2>3, <2>5, <2>6, <2>9, <3>1 DEF AfterItem
    <3>3. /\ t \in Seq(T) /\ Len(t) = Len(r) + 1 /\ t[Len(r) + 1] = s[n]
          /\ \A i \in 1..Len(r) : t[i] = r[i]
      BY <2>7, <3>1, <3>2
    <3>4. PICK f : f = [i \in 1..Len(t) |-> IF i = Len(r) + 1 THEN n ELSE e[i]]
      OBVIOUS
    <3>5. \A i \in 1..Len(t) : i = Len(r) + 1 \/ i \in 1..Len(r)
      BY <2>7, <3>3
    <3>6. /\ f[Len(r) + 1] = n
          /\ \A i \in 1..Len(r) : f[i] = e[i] /\ e[i] \in S \cap (1..(n - 1))
      BY <2>7, <3>3, <3>4
    <3>7. f \in [1..Len(t) -> S \cap (1..n)]
      BY <3>2, <3>4, <3>5, <3>6
    <3>8. \A i \in 1..Len(t) : t[i] = s[f[i]]
      BY <2>7, <3>3, <3>5, <3>6
    <3>9. \A i, j \in 1..Len(t) : i < j => f[i] < f[j]
      <4> SUFFICES ASSUME NEW i \in 1..Len(t), NEW j \in 1..Len(t), i < j PROVE f[i] < f[j]
        OBVIOUS
      <4>1. i \in 1..Len(r)
        BY <2>7, <3>3
      <4>2. CASE j = Len(r) + 1
        BY <2>3, <3>6, <4>1, <4>2
      <4>3. CASE j \in 1..Len(r)
        BY <2>7, <3>6, <4>1, <4>3
      <4> QED  BY <3>5, <4>2, <4>3
    <3>10. \A k \in S \cap (1..n) : \E i \in 1..Len(t) : f[i] = k
      <4> SUFFICES ASSUME NEW k \in S \cap (1..n) PROVE \E i \in 1..Len(t) : f[i] = k
        OBVIOUS
      <4>1. CASE k = n
        BY <2>7, <3>3, <3>6, <4>1
      <4>2. CASE k # n
        <5>1. PICK i \in 1..Len(r) : e[i] = k
          BY <2>7, <3>2, <4>2
        <5>2. i \in 1..Len(t) /\ f[i] = k
          BY <2>7, <3>3, <3>6, <5>1
        <5> QED  BY <5>2
      <4> QED  BY <4>1, <4>2
    <3>11. Embeds(T, s, S, n, t, f)
      BY <3>3, <3>7, <3>8, <3>9, <3>10 DEF Embeds
    <3> QED  BY <2>1, <3>2, <3>11
  <2> QED  BY <2>8, <2>9
<1>5. \E e : Embeds(T, s, S, m, g[m], e)
  BY <1>4
<1> QED  BY <1>1, <1>2, <1>5

(* Retaining all of V from what still has all of V.                        *)
At(s, V) == {i \in DOMAIN s : s[i] \in V}

LEMMA RetainedTwice ==
  ASSUME NEW T, NEW s \in Seq(T), NEW S, NEW V, At(s, V) \subseteq S
  PROVE  Retained(Retained(s, S), At(Retained(s, S), V)) = Retained(s, At(s, V))
<1>1. PICK m \in Nat : m = Len(s) /\ DOMAIN s = 1..m
  OBVIOUS
<1>2. PICK g : KeptUpTo(s, S, m, g) /\ Retained(s, S) = g[m]
  BY <1>1, RetainedUnfolds
<1>3. PICK h : KeptUpTo(s, At(s, V), m, h) /\ Retained(s, At(s, V)) = h[m]
  BY <1>1, RetainedUnfolds
<1>4. /\ g[0] = <<>> /\ h[0] = <<>>
      /\ \A n \in 1..m : /\ g[n] = AfterItem(s, S, n, g[n - 1])
                         /\ h[n] = AfterItem(s, At(s, V), n, h[n - 1])
  BY <1>2, <1>3 DEF KeptUpTo
<1> DEFINE Same(n) == g[n] \in Seq(T) /\ Retained(g[n], At(g[n], V)) = h[n]
           Bad == {n \in Nat : n <= m /\ ~Same(n)}
<1>5. Bad = {}
  <2> SUFFICES ASSUME Bad # {} PROVE FALSE
    OBVIOUS
  <2>1. PICK n \in Bad : \A k \in Bad : n <= k
    BY LeastElement
  <2>2. n # 0
    <3>1. Len(<<>>) = 0 /\ <<>> \in Seq(T)
      OBVIOUS
    <3>2. PICK k : KeptUpTo(<<>>, At(<<>>, V), 0, k) /\ Retained(<<>>, At(<<>>, V)) = k[0]
      BY <3>1, RetainedUnfolds
    <3>3. k[0] = <<>>
      BY <3>2 DEF KeptUpTo
    <3> QED  BY <1>4, <2>1, <3>1, <3>2, <3>3
  <2>3. n \in 1..m /\ n - 1 \in Nat /\ n - 1 <= m /\ n - 1 \notin Bad
    BY <2>1, <2>2
  <2>4. Same(n - 1)
    BY <2>3
  <2>5. PICK r : r = g[n - 1]
    OBVIOUS
  <2>6. r \in Seq(T) /\ Len(r) \in Nat /\ Retained(r, At(r, V)) = h[n - 1]
    BY <2>4, <2>5
  <2>7. CASE n \notin S
    <3>1. n \notin At(s, V) /\ g[n] = r /\ h[n] = h[n - 1]
      BY <1>4, <2>3, <2>5, <2>7 DEF AfterItem
    <3> QED  BY <2>1, <2>6, <3>1
  <2>8. CASE n \in S
    <3>1. PICK x : x = s[n]
      OBVIOUS
    <3>2. PICK t : t = Append(r, x)
      OBVIOUS
    <3>3. g[n] = t /\ x \in T /\ (n \in At(s, V) <=> x \in V)
      <4>1. n \in DOMAIN s /\ x \in T
        BY <1>1, <2>3, <3>1
      <4>2. n \in At(s, V) <=> x \in V
        BY <3>1, <4>1 DEF At
      <4>3. g[n] = AfterItem(s, S, n, r)
        BY <1>4, <2>3, <2>5
      <4>4. g[n] = t
        BY <2>8, <3>1, <3>2, <4>3 DEF AfterItem
      <4> QED  BY <4>1, <4>2, <4>4
    <3>4. /\ t \in Seq(T) /\ Len(t) = Len(r) + 1 /\ t[Len(r) + 1] = x
          /\ \A i \in 1..Len(r) : t[i] = r[i]
          /\ DOMAIN r = 1..Len(r) /\ DOMAIN t = 1..(Len(r) + 1)
      BY <2>6, <3>2, <3>3
    <3>5. Retained(r, At(t, V)) = Retained(r, At(r, V))
      <4>1. Alike(r, At(t, V), r, At(r, V), Len(r))
        BY <2>6, <3>4 DEF At, Alike
      <4> QED  BY <2>6, <4>1, RetainedAgrees
    <3>6. Retained(t, At(t, V)) = IF Len(r) + 1 \in At(t, V) THEN Append(Retained(r, At(t, V)), x)
                                  ELSE Retained(r, At(t, V))
      BY <2>6, <3>2, <3>3, RetainedAppend
    <3>7. Len(r) + 1 \in At(t, V) <=> x \in V
      BY <2>6, <3>4 DEF At
    <3>8. h[n] = IF x \in V THEN Append(h[n - 1], x) ELSE h[n - 1]
      BY <1>4, <2>3, <3>1, <3>3 DEF AfterItem
    <3> QED  BY <2>1, <2>6, <3>3, <3>4, <3>5, <3>6, <3>7, <3>8
  <2> QED  BY <2>7, <2>8
<1>6. Same(m)
  BY <1>5
<1> QED  BY <1>2, <1>3, <1>6

-----------------------------------------------------------------------------
(* The tables, as a step leaves them for a name.                           *)
SameClients(m) == Entries(m)' = Entries(m) /\ (Once(m) => Once(m)')
SameKeys(m) == KeysOf(m)' = KeysOf(m) /\ \A k \in KeysOf(m) : keys'[k] = keys[k]
SameTables(m) == SameClients(m) /\ SameKeys(m) /\ budgets'[m] = budgets[m]

LEMMA ClientsUnchanged ==
  ASSUME clients' = clients, NEW m
  PROVE  SameClients(m)
BY DEF SameClients, Entries, Once, Named

LEMMA KeysUnchanged ==
  ASSUME keys' = keys, NEW m
  PROVE  SameKeys(m)
BY DEF SameKeys, KeysOf

LEMMA ClientPushed ==
  ASSUME clients \in Seq(Client), NEW c \in Client, clients' = Append(clients, c)
  PROVE  /\ clients' \in Seq(Client)
         /\ \A m : m # c.name => SameClients(m)
         /\ Entries(c.name)' = Entries(c.name) \cup {c}
         /\ Entries(c.name) = {} => Once(c.name)'
<1>1. PICK l \in Nat : l = Len(clients)
  OBVIOUS
<1>2. /\ DOMAIN clients = 1..l /\ DOMAIN clients' = 1..(l + 1)
      /\ clients'[l + 1] = c /\ \A i \in 1..l : clients'[i] = clients[i]
      /\ clients' \in Seq(Client)
  BY <1>1
<1>3. ASSUME NEW m, m # c.name PROVE Named(m)' = Named(m)
  BY <1>2, <1>3 DEF Named
<1>4. Named(c.name)' = Named(c.name) \cup {l + 1}
  BY <1>2 DEF Named
<1>5. \A m : Named(m) \subseteq 1..l
  BY <1>2 DEF Named
<1>6. \A m : m # c.name => SameClients(m)
  BY <1>2, <1>3, <1>5 DEF SameClients, Entries, Once
<1>7. Entries(c.name)' = Entries(c.name) \cup {c}
  BY <1>2, <1>4, <1>5 DEF Entries
<1>8. Entries(c.name) = {} => Once(c.name)'
  BY <1>4 DEF Entries, Once
<1> QED  BY <1>2, <1>6, <1>7, <1>8

LEMMA ClientReplaced ==
  ASSUME clients \in Seq(Client), NEW i \in DOMAIN clients, NEW c \in Client,
         c.name = clients[i].name, clients' = [clients EXCEPT ![i] = c]
  PROVE  /\ clients' \in Seq(Client)
         /\ \A m : m # c.name => SameClients(m)
         /\ \A m : Named(m)' = Named(m) /\ (Once(m) => Once(m)')
         /\ Once(c.name) => Entries(c.name)' = {c}
<1>1. /\ DOMAIN clients' = DOMAIN clients /\ clients' \in Seq(Client)
      /\ clients'[i] = c /\ \A j \in DOMAIN clients : j # i => clients'[j] = clients[j]
  OBVIOUS
<1>2. \A m : Named(m)' = Named(m)
  BY <1>1 DEF Named
<1>3. \A m : m # c.name => SameClients(m)
  BY <1>1, <1>2 DEF SameClients, Entries, Once, Named
<1>4. Once(c.name) => Entries(c.name)' = {c}
  <2> SUFFICES ASSUME Once(c.name) PROVE Entries(c.name)' = {c}
    OBVIOUS
  <2>1. Named(c.name) = {i}
    BY DEF Once, Named
  <2>2. Named(c.name)' = {i}
    BY <1>2, <2>1
  <2> QED  BY <1>1, <2>2 DEF Entries
<1> QED  BY <1>1, <1>2, <1>3, <1>4 DEF Once

LEMMA ClientsRemoved ==
  ASSUME clients \in Seq(Client), NEW n, NEW R, R \subseteq Named(n),
         clients' = Retained(clients, DOMAIN clients \ R)
  PROVE  /\ clients' \in Seq(Client)
         /\ \A m : m # n => SameClients(m)
         /\ \A m : Once(m) => Once(m)'
         /\ Entries(n)' = {clients[i] : i \in Named(n) \ R}
<1>1. PICK S : S = DOMAIN clients \ R
  OBVIOUS
<1>2. PICK e : Embeds(Client, clients, S, Len(clients), clients', e)
  BY <1>1, RetainedEmbeds
<1>3. PICK l \in Nat : l = Len(clients')
  BY <1>2 DEF Embeds
<1>4. /\ clients' \in Seq(Client) /\ DOMAIN clients' = 1..l /\ e \in [1..l -> S]
      /\ \A i \in 1..l : clients'[i] = clients[e[i]]
      /\ \A i, j \in 1..l : i < j => e[i] < e[j]
  <2>1. clients' \in Seq(Client) /\ e \in [1..Len(clients') -> S \cap (1..Len(clients))]
    BY <1>2 DEF Embeds
  <2>2. DOMAIN clients' = 1..l
    BY <1>3, <2>1
  <2>4. e \in [1..l -> S]
    <3>1. S \cap (1..Len(clients)) \subseteq S /\ e \in [1..l -> S \cap (1..Len(clients))]
      BY <1>3, <2>1
    <3>2. \A i \in 1..l : e[i] \in S
      BY <3>1
    <3> QED  BY <3>1, <3>2
  <2>3. /\ \A i \in 1..l : clients'[i] = clients[e[i]]
        /\ \A i, j \in 1..l : i < j => e[i] < e[j]
    BY <1>2, <1>3 DEF Embeds
  <2> QED  BY <2>1, <2>2, <2>3, <2>4
<1>5. \A k \in S : \E i \in 1..l : e[i] = k
  <2>1. S \cap (1..Len(clients)) = S
    BY <1>1
  <2> QED  BY <1>2, <1>3, <2>1 DEF Embeds
<1>6. \A i, j \in 1..l : e[i] = e[j] => i = j
  <2> SUFFICES ASSUME NEW i \in 1..l, NEW j \in 1..l, i # j PROVE e[i] # e[j]
    OBVIOUS
  <2>1. S \subseteq Nat
    BY <1>1
  <2>2. e[i] \in Nat /\ e[j] \in Nat
    BY <1>4, <2>1
  <2> QED  BY <1>4, <2>2
<1>7. \A m : Entries(m)' = {clients[i] : i \in Named(m) \cap S}
  <2> SUFFICES ASSUME NEW m PROVE Entries(m)' = {clients[i] : i \in Named(m) \cap S}
    OBVIOUS
  <2>1. \A i \in Named(m)' : i \in 1..l /\ e[i] \in Named(m) \cap S /\ clients'[i] = clients[e[i]]
    BY <1>1, <1>4 DEF Named
  <2>2. ASSUME NEW k \in Named(m) \cap S
        PROVE  \E i \in Named(m)' : clients'[i] = clients[k]
    <3>1. PICK i \in 1..l : e[i] = k
      BY <1>5
    <3>2. clients'[i] = clients[k] /\ clients[k].name = m
      BY <1>4, <3>1 DEF Named
    <3>3. i \in Named(m)'
      BY <1>4, <3>2 DEF Named
    <3> QED  BY <3>2, <3>3
  <2>3. Entries(m)' = {clients'[i] : i \in Named(m)'}
    BY DEF Entries
  <2>4. ASSUME NEW x \in Entries(m)' PROVE x \in {clients[i] : i \in Named(m) \cap S}
    <3>1. PICK i \in Named(m)' : x = clients'[i]
      BY <2>3
    <3>2. e[i] \in Named(m) \cap S /\ x = clients[e[i]]
      BY <2>1, <3>1
    <3> QED  BY <3>2
  <2>5. {clients[i] : i \in Named(m) \cap S} \subseteq Entries(m)'
    BY <2>2, <2>3
  <2> QED  BY <2>4, <2>5
<1>8. \A m : Once(m) => Once(m)'
  <2> SUFFICES ASSUME NEW m, Once(m), NEW i \in Named(m)', NEW j \in Named(m)' PROVE i = j
    BY DEF Once
  <2>1. i \in 1..l /\ j \in 1..l /\ e[i] \in Named(m) /\ e[j] \in Named(m)
    BY <1>1, <1>4 DEF Named
  <2> QED  BY <1>6, <2>1 DEF Once
<1>9. \A m : Named(m) \subseteq DOMAIN clients /\ (m # n => Named(m) \cap S = Named(m))
  BY <1>1 DEF Named
<1>10. Named(n) \cap S = Named(n) \ R
  BY <1>1 DEF Named
<1>11. \A m : m # n => SameClients(m)
  BY <1>7, <1>8, <1>9 DEF SameClients, Entries
<1> QED  BY <1>4, <1>7, <1>8, <1>10, <1>11

-----------------------------------------------------------------------------
(* The calls, and that the tables keep their types.                        *)
OthersKept(a) == \A b \in Admins : b # a => call'[b] = call[b]

LEMMA CallSet ==
  ASSUME CallTypes, NEW a \in Admins, NEW c, Staged(c), call' = [call EXCEPT ![a] = c]
  PROVE  CallTypes' /\ call'[a] = c /\ OthersKept(a)
<1>1. PICK f : f = call
  OBVIOUS
<1>2. f = [b \in Admins |-> f[b]] /\ \A b \in Admins : Staged(f[b])
  BY <1>1 DEF CallTypes
<1>3. call' = [b \in Admins |-> IF b = a THEN c ELSE f[b]]
  BY <1>1, <1>2
<1>4. call' = [b \in Admins |-> call'[b]] /\ call'[a] = c /\ \A b \in Admins : b # a => call'[b] = f[b]
  BY <1>3
<1>5. \A b \in Admins : Staged(call'[b])
  BY <1>2, <1>4
<1> QED  BY <1>1, <1>4, <1>5 DEF CallTypes, OthersKept

LEMMA CallKept ==
  ASSUME CallTypes, call' = call, NEW a
  PROVE  CallTypes' /\ OthersKept(a)
BY DEF CallTypes, OthersKept

(* Calls in progress have an operation.                                    *)
LEMMA BusyOperations ==
  ASSUME CallTypes, NEW b \in Admins, call[b].at # "idle"
  PROVE  call[b].operation \in Operations
<1>1. Staged(call[b])
  BY DEF CallTypes
<1> QED  BY <1>1 DEF Staged, Operations, Writers

LEMMA BegunOverlaps ==
  ASSUME CallTypes, overlapped \subseteq SUBSET Operations, NEW a \in Admins,
         NEW operation \in Operations, NEW name, Begins(a, operation, name)
  PROVE  overlapped' \subseteq SUBSET Operations
<1> DEFINE others == {b \in Admins : call[b].at # "idle"
                                      /\ Concerns(b) \cap About(operation, name) # {}}
<1>1. overlapped' = overlapped \cup {{operation, call[b].operation} : b \in others}
  BY DEF Begins
<1>2. ASSUME NEW b \in others PROVE {operation, call[b].operation} \in SUBSET Operations
  BY BusyOperations
<1> QED  BY <1>1, <1>2

(* What handlers of one organization's admin touch is in its scope.        *)
LEMMA ScopedInScope ==
  ASSUME NEW identity, NEW c, InScope(identity, c)
  PROVE  identity # Global => c.organization = identity
BY DEF InScope

LEMMA InitTypes == Init => Types
<1> SUFFICES ASSUME Init PROVE Types
  OBVIOUS
<1>1. clients \in Seq(Client)
  BY AdminAssumption DEF Init
<1>2. DOMAIN keys \subseteq Keys /\ (\A k \in DOMAIN keys : keys[k] \in KeyEntry)
      /\ generated \subseteq Keys /\ DOMAIN keys \subseteq generated
  <2>1. ASSUME NEW k \in DOMAIN ConfiguredKeys PROVE ConfiguredKeys[k] \in KeyEntry
    <3>1. PICK i \in DOMAIN Configured :
            ConfiguredKeys[k] = [name |-> Configured[i].name, rpm |-> Configured[i].rpm]
      BY AdminAssumption
    <3>2. Configured[i] \in Client
      BY AdminAssumption
    <3> QED  BY <3>1, <3>2 DEF Client, KeyEntry
  <2> QED  BY <2>1, AdminAssumption DEF Init
<1>3. budgets \in [Names -> Setting \cup {None}]
  <2>1. ASSUME NEW n \in Names, Named(n) # {}
        PROVE  SettingOf(clients[CHOOSE i \in Named(n) : TRUE].budget, TRUE) \in Setting \cup {None}
    <3>1. PICK i \in Named(n) : i = CHOOSE j \in Named(n) : TRUE
      BY <2>1
    <3>2. clients[i].budget \in Budgets \cup {None}
      <4>1. i \in DOMAIN clients
        BY <3>1 DEF Named
      <4>2. clients[i] \in Client
        BY <1>1, <4>1
      <4> QED  BY <4>2 DEF Client
    <3> QED  BY <3>1, <3>2 DEF SettingOf, Setting
  <2> QED  BY <2>1 DEF Init
<1>4. spend \in [Names -> SUBSET Organizations]
  BY DEF Init
<1>5. CallTypes
  <2>1. Staged(IdleCall)
    <3>1. IdleCall = [f \in CallFields |-> IdleCall[f]]
      BY DEF IdleCall, CallFields
    <3> QED  BY <3>1 DEF Staged, IdleCall
  <2> QED  BY <2>1 DEF Init, CallTypes
<1>6. overlapped \subseteq SUBSET Operations
  BY DEF Init
<1> QED  BY <1>1, <1>2, <1>3, <1>4, <1>5, <1>6 DEF Types

-----------------------------------------------------------------------------
(* What each step does, to the call it belongs to and to the tables.       *)
Unbegun(a) == call[a].at # "idle" /\ UNCHANGED overlapped

Carries(a, operation, at, c) ==
  call'[a].operation = operation /\ call'[a].at = at /\ call'[a].client = c

LEMMA StagedAnew ==
  ASSUME NEW c, c = [f \in CallFields |-> c[f]], c.todo = <<>>, c.rows = <<>>,
         <<c.operation, c.at>> \in {<<"create", "key">>, <<"update", "rotate">>,
           <<"delete", "revoke">>, <<"request", "charge">>, <<"reset", "zero">>},
         c.client \in Client, Scoped(c), c.key \in Keys \cup {None},
         c.at = "charge" => c.identity = Global
  PROVE  Staged(c)
<1>1. <<>> \in Seq(Client) /\ <<>> \in Seq(Row)
  OBVIOUS
<1>2. c.todo \in Seq(Client) /\ c.rows \in Seq(Row)
  BY <1>1
<1>3. \/ c.operation = "create" /\ c.at = "key"
      \/ c.operation = "update" /\ c.at = "rotate"
      \/ c.operation = "delete" /\ c.at = "revoke"
      \/ c.operation = "request" /\ c.at = "charge"
      \/ c.operation = "reset" /\ c.at = "zero"
  OBVIOUS
<1> QED  BY <1>2, <1>3 DEF Staged

LEMMA CreateCheckNameDoes ==
  ASSUME Types, NEW a \in Admins, NEW identity \in Identities, NEW c \in NewClients,
         NEW key \in Keys \cup {None}, CreateCheckName(a, identity, c, key)
  PROVE  /\ Types' /\ OthersKept(a) /\ c \in Client
         /\ \/ call' = call
            \/ Carries(a, "create", "key", c) /\ Entries(c.name) = {}
<1>1. c \in Client /\ call[a].at = "idle" /\ (identity # Global => c.organization = identity)
  BY AdminAssumption DEF CreateCheckName, Begins
<1>2. UNCHANGED <<clients, keys, budgets, spend, generated>> /\ overlapped' \subseteq SUBSET Operations
  BY BegunOverlaps DEF CreateCheckName, Types, Operations, Writers
<1>3. CASE call' = call
  BY <1>1, <1>2, <1>3, CallKept DEF Types
<1>4. CASE call' # call
  <2> DEFINE next == [IdleCall EXCEPT !.operation = "create", !.at = "key",
                                      !.identity = identity, !.client = c, !.key = key]
  <2>1. Named(c.name) = {} /\ call' = [call EXCEPT ![a] = next]
    BY <1>4 DEF CreateCheckName
  <2>2. /\ next = [f \in CallFields |-> next[f]] /\ next.todo = <<>> /\ next.rows = <<>>
        /\ next.operation = "create" /\ next.at = "key" /\ next.client = c
        /\ next.identity = identity /\ next.key = key
    BY DEF IdleCall, CallFields
  <2> HIDE DEF next
  <2>3. Scoped(next)
    BY <1>1, <2>2 DEF Scoped
  <2>4. Staged(next)
    BY <1>1, <2>2, <2>3, StagedAnew
  <2>5. CallTypes' /\ call'[a] = next /\ OthersKept(a)
    BY <2>1, <2>4, CallSet DEF Types
  <2> QED  BY <1>1, <1>2, <2>1, <2>2, <2>5 DEF Types, Carries, Entries
<1> QED  BY <1>3, <1>4

(* The call of a goes on to another critical section.                      *)
LEMMA CallAdvanced ==
  ASSUME CallTypes, NEW a \in Admins, NEW at, call[a].at # "idle",
         call' = [call EXCEPT ![a].at = at],
         Staged([call[a] EXCEPT !.at = at])
  PROVE  /\ CallTypes' /\ OthersKept(a)
         /\ call'[a] = [call[a] EXCEPT !.at = at]
         /\ call'[a].at = at /\ call'[a].operation = call[a].operation
         /\ call'[a].client = call[a].client /\ call'[a].identity = call[a].identity
<1>1. call' = [call EXCEPT ![a] = [call[a] EXCEPT !.at = at]]
  OBVIOUS
<1>2. CallTypes' /\ OthersKept(a) /\ call'[a] = [call[a] EXCEPT !.at = at]
  BY <1>1, CallSet
<1>3. call[a] = [f \in CallFields |-> call[a][f]]
  BY DEF CallTypes, Staged
<1> QED  BY <1>2, <1>3 DEF CallFields

LEMMA IdleStaged == Staged(IdleCall)
<1>1. IdleCall = [f \in CallFields |-> IdleCall[f]]
  BY DEF IdleCall, CallFields
<1> QED  BY <1>1 DEF Staged, IdleCall

LEMMA CallEnded ==
  ASSUME CallTypes, NEW a \in Admins, call' = [call EXCEPT ![a] = IdleCall]
  PROVE  CallTypes' /\ OthersKept(a) /\ call'[a] = IdleCall /\ call'[a].at = "idle"
<1>1. CallTypes' /\ OthersKept(a) /\ call'[a] = IdleCall
  BY IdleStaged, CallSet
<1> QED  BY <1>1 DEF IdleCall

LEMMA StagedOnward ==
  ASSUME NEW c, Staged(c), NEW at,
         <<c.at, at>> \in {<<"key", "push">>, <<"push", "budget">>, <<"rotate", "budget">>,
                           <<"revoke", "forget">>}
  PROVE  Staged([c EXCEPT !.at = at])
<1> DEFINE d == [c EXCEPT !.at = at]
<1>1. c = [f \in CallFields |-> c[f]]
  BY DEF Staged
<1>2. /\ d = [f \in CallFields |-> d[f]] /\ d.at = at
      /\ d.operation = c.operation /\ d.identity = c.identity /\ d.client = c.client
      /\ d.key = c.key /\ d.todo = c.todo /\ d.rows = c.rows
  BY <1>1 DEF CallFields
<1> HIDE DEF d
<1>3. Staged(d)
  BY <1>2 DEF Staged, Scoped
<1> QED  BY <1>3 DEF d

LEMMA CreateInsertKeyDoes ==
  ASSUME Types, NEW a \in Admins, NEW c, c = call[a].client, CreateInsertKey(a)
  PROVE  /\ Types' /\ OthersKept(a) /\ Unbegun(a) /\ call[a].at = "key" /\ c \in Client
         /\ call[a].operation = "create" /\ UNCHANGED <<clients, budgets, spend>>
         /\ \/ keys' = keys /\ call'[a].at = "idle"
            \/ /\ Carries(a, "create", "push", c)
               /\ \A m : m # c.name => SameKeys(m)
               /\ \E k \in Keys : /\ k \notin DOMAIN keys /\ DOMAIN keys' = DOMAIN keys \cup {k}
                                  /\ \A j \in DOMAIN keys : keys'[j] = keys[j]
                                  /\ keys'[k] = [name |-> c.name, rpm |-> c.rpm]
<1>1. Staged(call[a]) /\ call[a].at = "key" /\ CallTypes
  BY DEF CreateInsertKey, Types, CallTypes
<1>2. call[a].client \in Client /\ call[a].operation = "create" /\ call[a].key \in Keys \cup {None}
  BY <1>1 DEF Staged
<1>3. PICK key \in IF call[a].key = None THEN Keys \ generated ELSE {call[a].key} :
        IF key \in DOMAIN keys
        THEN /\ call' = [call EXCEPT ![a] = IdleCall]
             /\ UNCHANGED <<keys, generated>>
        ELSE /\ keys' = [k \in DOMAIN keys \cup {key} |->
                  IF k = key THEN [name |-> call[a].client.name, rpm |-> call[a].client.rpm]
                  ELSE keys[k]]
             /\ generated' = generated \cup {key}
             /\ call' = [call EXCEPT ![a].at = "push"]
  BY DEF CreateInsertKey
<1>4. key \in Keys /\ UNCHANGED <<clients, budgets, spend, overlapped>>
  BY <1>2, <1>3 DEF CreateInsertKey
<1>5. CASE key \in DOMAIN keys
  <2>1. CallTypes' /\ OthersKept(a) /\ call'[a].at = "idle"
    BY <1>1, <1>3, <1>5, CallEnded
  <2> QED  BY <1>1, <1>2, <1>3, <1>4, <1>5, <2>1 DEF Types, Unbegun
<1>6. CASE key \notin DOMAIN keys
  <2>1. call' = [call EXCEPT ![a].at = "push"] /\ generated' = generated \cup {key}
    BY <1>3, <1>6
  <2>2. CallTypes' /\ OthersKept(a) /\ Carries(a, "create", "push", call[a].client)
    <3>1. Staged([call[a] EXCEPT !.at = "push"]) /\ call[a].at # "idle"
      BY <1>1, StagedOnward
    <3> QED  BY <1>1, <1>2, <2>1, <3>1, CallAdvanced DEF Carries
  <2>3. /\ DOMAIN keys' = DOMAIN keys \cup {key} /\ \A j \in DOMAIN keys : keys'[j] = keys[j]
        /\ keys'[key] = [name |-> call[a].client.name, rpm |-> call[a].client.rpm]
    BY <1>3, <1>6
  <2>4. keys'[key] \in KeyEntry /\ keys'[key].name = call[a].client.name
    BY <1>2, <2>3 DEF Client, KeyEntry
  <2>5. \A m : m # call[a].client.name => SameKeys(m)
    BY <1>6, <2>3, <2>4 DEF SameKeys, KeysOf
  <2>6. /\ DOMAIN keys' \subseteq Keys /\ \A k \in DOMAIN keys' : keys'[k] \in KeyEntry
        /\ generated' \subseteq Keys /\ DOMAIN keys' \subseteq generated'
    BY <1>4, <2>1, <2>3, <2>4 DEF Types
  <2>7. Types'
    BY <1>4, <2>2, <2>6 DEF Types
  <2> QED  BY <1>1, <1>2, <1>4, <1>6, <2>2, <2>3, <2>5, <2>7 DEF Unbegun
<1> QED  BY <1>5, <1>6

LEMMA CreatePushDoes ==
  ASSUME Types, NEW a \in Admins, NEW c, c = call[a].client, CreatePush(a)
  PROVE  /\ Types' /\ OthersKept(a) /\ Unbegun(a) /\ call[a].at = "push" /\ c \in Client
         /\ call[a].operation = "create" /\ UNCHANGED <<keys, budgets, spend>>
         /\ Carries(a, "create", "budget", c)
         /\ clients' = Append(clients, c) /\ clients \in Seq(Client)
<1>1. Staged(call[a]) /\ call[a].at = "push" /\ CallTypes /\ clients \in Seq(Client)
  BY DEF CreatePush, Types, CallTypes
<1>2. call[a].client \in Client /\ call[a].operation = "create"
  BY <1>1 DEF Staged
<1>3. /\ clients' = Append(clients, call[a].client) /\ call' = [call EXCEPT ![a].at = "budget"]
      /\ UNCHANGED <<keys, budgets, spend, calls, generated, overlapped>>
  BY DEF CreatePush
<1>4. CallTypes' /\ OthersKept(a) /\ Carries(a, "create", "budget", call[a].client)
  <2>1. Staged([call[a] EXCEPT !.at = "budget"]) /\ call[a].at # "idle"
    BY <1>1, StagedOnward
  <2> QED  BY <1>1, <1>2, <1>3, <2>1, CallAdvanced DEF Carries
<1>5. clients' \in Seq(Client)
  BY <1>1, <1>2, <1>3
<1> QED  BY <1>1, <1>2, <1>3, <1>4, <1>5 DEF Types, Unbegun

BudgetSet(c) ==
  IF c.budget = None THEN budgets'[c.name] = None
  ELSE budgets'[c.name] # None /\ budgets'[c.name].budget = c.budget

LEMMA SetBudgetDoes ==
  ASSUME Types, NEW a \in Admins, NEW c, c = call[a].client, SetBudget(a)
  PROVE  /\ Types' /\ OthersKept(a) /\ Unbegun(a) /\ call[a].at = "budget" /\ c \in Client
         /\ call[a].operation \in {"create", "update"} /\ UNCHANGED <<clients, keys, spend>>
         /\ call'[a].at = "idle"
         /\ \A m \in Names : m # c.name => budgets'[m] = budgets[m]
         /\ BudgetSet(c)
<1>1. Staged(call[a]) /\ call[a].at = "budget" /\ CallTypes /\ budgets \in [Names -> Setting \cup {None}]
  BY DEF SetBudget, Types, CallTypes
<1>2. call[a].client \in Client /\ call[a].operation \in {"create", "update"}
  BY <1>1 DEF Staged
<1>3. CallTypes' /\ OthersKept(a) /\ call'[a].at = "idle"
  BY <1>1, CallEnded DEF SetBudget
<1>4. c \in Client
  BY <1>2
<1>5. c.name \in Names /\ c.budget \in Budgets \cup {None}
  BY <1>4 DEF Client
<1>6. budgets' = [budgets EXCEPT ![c.name] = SettingOf(c.budget, FALSE)]
  BY <1>4 DEF SetBudget
<1>7. /\ SettingOf(c.budget, FALSE) \in Setting \cup {None}
      /\ c.budget = None => SettingOf(c.budget, FALSE) = None
      /\ c.budget # None => /\ SettingOf(c.budget, FALSE) \in Setting
                            /\ SettingOf(c.budget, FALSE).budget = c.budget
  BY <1>5 DEF SettingOf, Setting
<1>8. budgets' \in [Names -> Setting \cup {None}] /\ budgets'[c.name] = SettingOf(c.budget, FALSE)
      /\ \A m \in Names : m # c.name => budgets'[m] = budgets[m]
  BY <1>1, <1>5, <1>6, <1>7
<1>9. None \notin Setting
  BY AdminAssumption
<1>10. BudgetSet(c)
  BY <1>7, <1>8, <1>9 DEF BudgetSet
<1> QED  BY <1>1, <1>2, <1>3, <1>4, <1>8, <1>10 DEF Types, Unbegun, SetBudget

LEMMA UpdatedClient ==
  ASSUME NEW c \in Client, NEW rpm \in Rates \cup {None}, NEW budget \in Budgets \cup {None, Clear}
  PROVE  LET d == Updated(c, rpm, budget) IN
         d \in Client /\ d.name = c.name /\ d.organization = c.organization
BY AdminAssumption DEF Updated, Client

LEMMA UpdateClientDoes ==
  ASSUME Types, NEW a \in Admins, NEW identity \in Identities, NEW n \in Names,
         NEW rpm \in Rates \cup {None}, NEW budget \in Budgets \cup {None, Clear},
         NEW rotate \in BOOLEAN, UpdateClient(a, identity, n, rpm, budget, rotate)
  PROVE  /\ Types' /\ OthersKept(a) /\ UNCHANGED <<keys, budgets, spend>>
         /\ \/ call' = call /\ clients' = clients
            \/ \E i \in DOMAIN clients, c \in Client :
                 /\ Carries(a, "update", "rotate", c)
                 /\ clients \in Seq(Client) /\ clients' = [clients EXCEPT ![i] = c]
                 /\ clients[i] \in Entries(n) /\ c.name = n /\ c.name = clients[i].name
                 /\ c.organization = clients[i].organization /\ InScope(identity, c)
                 /\ call'[a].identity = identity
<1>1. call[a].at = "idle" /\ clients \in Seq(Client) /\ CallTypes
  BY DEF UpdateClient, Begins, Types
<1>2. UNCHANGED <<keys, budgets, spend, generated>> /\ overlapped' \subseteq SUBSET Operations
  BY BegunOverlaps DEF UpdateClient, Types, Operations, Writers
<1>3. CASE InScopeNamed(identity, n) = {}
  <2>1. UNCHANGED <<clients, call>>
    BY <1>3 DEF UpdateClient
  <2> QED  BY <1>1, <1>2, <2>1, CallKept DEF Types
<1>4. CASE InScopeNamed(identity, n) # {}
  <2>1. PICK i : i = CHOOSE k \in InScopeNamed(identity, n) :
                       \A j \in InScopeNamed(identity, n) : k <= j
    OBVIOUS
  <2>2. InScopeNamed(identity, n) \in SUBSET Nat
    BY <1>1 DEF InScopeNamed, Named
  <2>3. i \in InScopeNamed(identity, n)
    BY <1>4, <2>1, <2>2, LeastElement
  <2>4. i \in DOMAIN clients /\ clients[i].name = n /\ InScope(identity, clients[i])
    BY <2>3 DEF InScopeNamed, Named
  <2>5. clients[i] \in Client /\ clients[i] \in Entries(n)
    BY <1>1, <2>3, <2>4 DEF Entries, InScopeNamed
  <2>6. PICK c : c = Updated(clients[i], rpm, budget)
    OBVIOUS
  <2>7. c \in Client /\ c.name = clients[i].name /\ c.organization = clients[i].organization
    BY <2>5, <2>6, UpdatedClient
  <2>8. InScope(identity, c)
    BY <2>4, <2>7 DEF InScope
  <2> DEFINE next == [IdleCall EXCEPT !.operation = "update", !.at = "rotate", !.identity = identity,
                                      !.client = c, !.rotate = rotate, !.budget = budget]
  <2>9. clients' = [clients EXCEPT ![i] = c] /\ call' = [call EXCEPT ![a] = next]
    BY <1>4, <2>1, <2>6 DEF UpdateClient
  <2>10. /\ next = [f \in CallFields |-> next[f]] /\ next.todo = <<>> /\ next.rows = <<>>
         /\ next.operation = "update" /\ next.at = "rotate" /\ next.client = c
         /\ next.identity = identity /\ next.key = None
    BY DEF IdleCall, CallFields
  <2> HIDE DEF next
  <2>11. Scoped(next)
    BY <2>8, <2>10 DEF Scoped, InScope
  <2>12. Staged(next)
    BY <2>7, <2>10, <2>11, StagedAnew
  <2>13. CallTypes' /\ call'[a] = next /\ OthersKept(a)
    BY <1>1, <2>9, <2>12, CallSet
  <2>14. clients' \in Seq(Client)
    BY <1>1, <2>4, <2>7, <2>9
  <2>15. Types' /\ Carries(a, "update", "rotate", c) /\ call'[a].identity = identity
    BY <1>2, <2>10, <2>13, <2>14 DEF Types, Carries
  <2> QED  BY <1>1, <1>2, <2>4, <2>5, <2>7, <2>8, <2>9, <2>13, <2>15
<1> QED  BY <1>3, <1>4

LEMMA UpdateKeyDoes ==
  ASSUME Types, NEW a \in Admins, NEW c, c = call[a].client, UpdateKey(a)
  PROVE  /\ Types' /\ OthersKept(a) /\ Unbegun(a) /\ call[a].at = "rotate" /\ c \in Client
         /\ call[a].operation = "update" /\ UNCHANGED <<clients, budgets, spend>>
         /\ Carries(a, "update", "budget", c)
         /\ \A m : m # c.name => SameKeys(m)
         /\ (\E k \in Keys : KeysOf(c.name) = {k}) =>
              \E k \in Keys : KeysOf(c.name)' = {k} /\ keys'[k] = [name |-> c.name, rpm |-> c.rpm]
         /\ \A k \in DOMAIN keys' : keys'[k].name = c.name \/ (k \in DOMAIN keys /\ keys'[k] = keys[k])
<1>1. Staged(call[a]) /\ call[a].at = "rotate" /\ CallTypes
  BY DEF UpdateKey, Types, CallTypes
<1>2. c \in Client
  BY <1>1 DEF Staged
<1>3. call[a].operation = "update" /\ UNCHANGED <<clients, budgets, spend, overlapped>>
  BY <1>1 DEF Staged, UpdateKey
<1>4. CallTypes' /\ OthersKept(a) /\ Carries(a, "update", "budget", c)
  <2>1. Staged([call[a] EXCEPT !.at = "budget"]) /\ call[a].at # "idle"
    BY <1>1, StagedOnward
  <2> QED  BY <1>1, <1>2, <1>3, <2>1, CallAdvanced DEF Carries, UpdateKey
<1>5. /\ DOMAIN keys \subseteq Keys /\ generated \subseteq Keys /\ DOMAIN keys \subseteq generated
      /\ \A k \in DOMAIN keys : keys[k] \in KeyEntry
      /\ None \notin Keys
  BY AdminAssumption DEF Types
<1>6. PICK entry : entry = [name |-> c.name, rpm |-> c.rpm]
  OBVIOUS
<1>7. entry \in KeyEntry /\ entry.name = c.name
  BY <1>2, <1>6 DEF Client, KeyEntry
<1>8. PICK old \in IF KeysOf(call[a].client.name) = {} THEN {None} ELSE KeysOf(call[a].client.name) :
        IF call[a].rotate
        THEN \E new \in Keys \ generated :
               /\ keys' = [k \in (DOMAIN keys \ {old}) \cup {new} |->
                            IF k = new THEN EntryAfter(old, call[a].client) ELSE keys[k]]
               /\ generated' = generated \cup {new}
        ELSE /\ keys' = [k \in DOMAIN keys |->
                          IF k = old THEN EntryAfter(old, call[a].client) ELSE keys[k]]
             /\ UNCHANGED generated
  BY DEF UpdateKey
<1>9. EntryAfter(old, call[a].client) = entry
  BY <1>6 DEF EntryAfter
<1>10. KeysOf(c.name) = {k \in DOMAIN keys : keys[k].name = c.name}
  BY DEF KeysOf
<1>11. old \in KeysOf(c.name) \/ (KeysOf(c.name) = {} /\ old \notin DOMAIN keys)
  BY <1>5, <1>8
<1>12. CASE call[a].rotate
  <2>1. PICK new \in Keys \ generated :
          /\ keys' = [k \in (DOMAIN keys \ {old}) \cup {new} |-> IF k = new THEN entry ELSE keys[k]]
          /\ generated' = generated \cup {new}
    BY <1>8, <1>9, <1>12
  <2>2. /\ DOMAIN keys' = (DOMAIN keys \ {old}) \cup {new} /\ new \notin DOMAIN keys
        /\ keys'[new] = entry /\ \A k \in DOMAIN keys \ {old} : keys'[k] = keys[k]
    BY <1>5, <2>1
  <2>3. /\ DOMAIN keys' \subseteq Keys /\ \A k \in DOMAIN keys' : keys'[k] \in KeyEntry
        /\ generated' \subseteq Keys /\ DOMAIN keys' \subseteq generated'
    BY <1>5, <1>7, <2>1, <2>2
  <2>4. \A m : m # c.name => SameKeys(m)
    BY <1>7, <1>10, <1>11, <2>2 DEF SameKeys, KeysOf
  <2>5. ASSUME NEW k \in Keys, KeysOf(c.name) = {k} PROVE KeysOf(c.name)' = {new}
    <3>1. old = k
      BY <1>11, <2>5
    <3>2. \A j \in DOMAIN keys' : keys'[j].name = c.name <=> j = new
      BY <1>7, <1>10, <2>2, <2>5, <3>1
    <3>3. KeysOf(c.name)' = {j \in DOMAIN keys' : keys'[j].name = c.name}
      BY <1>2 DEF KeysOf
    <3> QED  BY <2>2, <3>2, <3>3
  <2>6. Types'
    BY <1>3, <1>4, <2>3 DEF Types
  <2>7. \A k \in DOMAIN keys' : keys'[k].name = c.name \/ (k \in DOMAIN keys /\ keys'[k] = keys[k])
    BY <1>7, <2>2
  <2>8. (\E k \in Keys : KeysOf(c.name) = {k}) =>
          \E k \in Keys : KeysOf(c.name)' = {k} /\ keys'[k] = [name |-> c.name, rpm |-> c.rpm]
    BY <1>6, <2>1, <2>2, <2>5
  <2> QED  BY <1>1, <1>2, <1>3, <1>4, <2>4, <2>6, <2>7, <2>8 DEF Unbegun
<1>13. CASE ~call[a].rotate
  <2>1. /\ DOMAIN keys' = DOMAIN keys /\ generated' = generated
        /\ \A k \in DOMAIN keys : keys'[k] = IF k = old THEN entry ELSE keys[k]
    BY <1>8, <1>9, <1>13
  <2>2. \A k \in DOMAIN keys' : keys'[k] \in KeyEntry
    BY <1>5, <1>7, <2>1
  <2>3. \A m : KeysOf(m)' = KeysOf(m) /\ (m # c.name => SameKeys(m))
    BY <1>7, <1>10, <1>11, <2>1 DEF SameKeys, KeysOf
  <2>4. Types'
    BY <1>3, <1>4, <2>1, <2>2 DEF Types
  <2>5. \A k \in DOMAIN keys' : keys'[k].name = c.name \/ (k \in DOMAIN keys /\ keys'[k] = keys[k])
    BY <1>7, <2>1
  <2>6. ASSUME NEW k \in Keys, KeysOf(c.name) = {k}
        PROVE  KeysOf(c.name)' = {k} /\ keys'[k] = entry
    <3>1. old = k /\ k \in DOMAIN keys
      BY <1>10, <1>11, <2>6
    <3>2. KeysOf(c.name)' = {j \in DOMAIN keys' : keys'[j].name = c.name}
      BY DEF KeysOf
    <3>3. \A j \in DOMAIN keys' : keys'[j].name = c.name <=> j = k
      BY <1>7, <1>10, <2>1, <2>6, <3>1
    <3> QED  BY <2>1, <3>1, <3>2, <3>3
  <2>7. (\E k \in Keys : KeysOf(c.name) = {k}) =>
          \E k \in Keys : KeysOf(c.name)' = {k} /\ keys'[k] = [name |-> c.name, rpm |-> c.rpm]
    BY <1>6, <2>6
  <2> QED  BY <1>1, <1>2, <1>3, <1>4, <2>3, <2>4, <2>5, <2>7 DEF Unbegun
<1> QED  BY <1>12, <1>13

LEMMA DeleteClientDoes ==
  ASSUME Types, NEW a \in Admins, NEW identity \in Identities, NEW n \in Names,
         DeleteClient(a, identity, n)
  PROVE  /\ Types' /\ OthersKept(a) /\ UNCHANGED <<keys, budgets, spend>>
         /\ \A m : m # n => SameClients(m)
         /\ \A m : Once(m) => Once(m)'
         /\ Entries(n)' = {clients[i] : i \in Named(n) \ InScopeNamed(identity, n)}
         /\ \/ call' = call /\ SameClients(n) /\ InScopeNamed(identity, n) = {}
            \/ \E c \in Entries(n) :
                 /\ c \in Client /\ c.name = n /\ InScope(identity, c)
                 /\ Carries(a, "delete", "revoke", c) /\ call'[a].identity = identity
<1>1. call[a].at = "idle" /\ clients \in Seq(Client) /\ CallTypes
  BY DEF DeleteClient, Begins, Types
<1>2. UNCHANGED <<keys, budgets, spend, generated>> /\ overlapped' \subseteq SUBSET Operations
  BY BegunOverlaps DEF DeleteClient, Types, Operations, Writers
<1>3. PICK R : R = InScopeNamed(identity, n)
  OBVIOUS
<1>4. R \subseteq Named(n) /\ \A i \in R : InScope(identity, clients[i])
  BY <1>3 DEF InScopeNamed
<1>5. clients' = Retained(clients, DOMAIN clients \ R)
  BY <1>3 DEF DeleteClient
<1>6. /\ clients' \in Seq(Client)
      /\ \A m : m # n => SameClients(m)
      /\ \A m : Once(m) => Once(m)'
      /\ Entries(n)' = {clients[i] : i \in Named(n) \ R}
  BY <1>1, <1>4, <1>5, ClientsRemoved
<1>7. CASE R = {}
  <2>1. call' = call
    BY <1>3, <1>7 DEF DeleteClient
  <2>2. SameClients(n)
    BY <1>6, <1>7 DEF SameClients, Entries
  <2> QED  BY <1>1, <1>2, <1>3, <1>6, <1>7, <2>1, <2>2, CallKept DEF Types
<1>8. CASE R # {}
  <2>1. PICK i \in R : i = CHOOSE j \in R : TRUE
    BY <1>8
  <2>2. PICK c : c = clients[i]
    OBVIOUS
  <2>3. i \in DOMAIN clients /\ c.name = n /\ InScope(identity, c) /\ c \in Entries(n)
    BY <1>4, <2>2 DEF Named, Entries
  <2>4. c \in Client
    BY <1>1, <2>2, <2>3
  <2> DEFINE next == [IdleCall EXCEPT !.operation = "delete", !.at = "revoke",
                                      !.identity = identity, !.client = c]
  <2>5. call' = [call EXCEPT ![a] = next]
    BY <1>3, <1>8, <2>1, <2>2 DEF DeleteClient
  <2>6. /\ next = [f \in CallFields |-> next[f]] /\ next.todo = <<>> /\ next.rows = <<>>
        /\ next.operation = "delete" /\ next.at = "revoke" /\ next.client = c
        /\ next.identity = identity /\ next.key = None
    BY DEF IdleCall, CallFields
  <2> HIDE DEF next
  <2>7. Scoped(next)
    BY <2>3, <2>6 DEF Scoped, InScope
  <2>8. Staged(next)
    BY <2>4, <2>6, <2>7, StagedAnew
  <2>9. CallTypes' /\ call'[a] = next /\ OthersKept(a)
    BY <1>1, <2>5, <2>8, CallSet
  <2>10. Types'
    BY <1>2, <1>6, <2>9 DEF Types
  <2> QED  BY <1>2, <1>3, <1>6, <2>3, <2>4, <2>6, <2>9, <2>10 DEF Carries
<1> QED  BY <1>7, <1>8

LEMMA DeleteKeysDoes ==
  ASSUME Types, NEW a \in Admins, NEW c, c = call[a].client, DeleteKeys(a)
  PROVE  /\ Types' /\ OthersKept(a) /\ Unbegun(a) /\ call[a].at = "revoke" /\ c \in Client
         /\ call[a].operation = "delete" /\ UNCHANGED <<clients, budgets, spend>>
         /\ Carries(a, "delete", "forget", c)
         /\ \A m : m # c.name => SameKeys(m)
         /\ KeysOf(c.name)' = {}
         /\ \A k \in DOMAIN keys' : k \in DOMAIN keys /\ keys'[k] = keys[k]
<1>1. Staged(call[a]) /\ call[a].at = "revoke" /\ CallTypes
  BY DEF DeleteKeys, Types, CallTypes
<1>2. c \in Client /\ call[a].operation = "delete"
  BY <1>1 DEF Staged
<1>3. CallTypes' /\ OthersKept(a) /\ Carries(a, "delete", "forget", c)
  <2>1. Staged([call[a] EXCEPT !.at = "forget"]) /\ call[a].at # "idle"
    BY <1>1, StagedOnward
  <2> QED  BY <1>1, <1>2, <2>1, CallAdvanced DEF Carries, DeleteKeys
<1>4. /\ DOMAIN keys' = DOMAIN keys \ KeysOf(c.name)
      /\ \A k \in DOMAIN keys' : keys'[k] = keys[k]
  BY DEF DeleteKeys, Revokes
<1>5. \A m : m # c.name => SameKeys(m)
  BY <1>4 DEF SameKeys, KeysOf
<1>6. KeysOf(c.name)' = {}
  <2>1. KeysOf(c.name)' = {k \in DOMAIN keys' : keys'[k].name = c.name}
    BY DEF KeysOf
  <2> QED  BY <1>4, <2>1 DEF KeysOf
<1>7. Types'
  BY <1>3, <1>4 DEF Types, DeleteKeys
<1> QED  BY <1>1, <1>2, <1>3, <1>4, <1>5, <1>6, <1>7 DEF Unbegun, DeleteKeys

LEMMA DeleteBudgetDoes ==
  ASSUME Types, NEW a \in Admins, NEW c, c = call[a].client, DeleteBudget(a)
  PROVE  /\ Types' /\ OthersKept(a) /\ Unbegun(a) /\ call[a].at = "forget" /\ c \in Client
         /\ call[a].operation = "delete" /\ UNCHANGED <<clients, keys>>
         /\ call'[a].at = "idle"
         /\ \A m \in Names : m # c.name => budgets'[m] = budgets[m] /\ spend'[m] = spend[m]
         /\ budgets'[c.name] = None /\ spend'[c.name] = {}
<1>1. Staged(call[a]) /\ call[a].at = "forget" /\ CallTypes
  BY DEF DeleteBudget, Types, CallTypes
<1>2. c \in Client /\ call[a].operation = "delete"
  BY <1>1 DEF Staged
<1>3. CallTypes' /\ OthersKept(a) /\ call'[a].at = "idle"
  BY <1>1, CallEnded DEF DeleteBudget
<1>4. c.name \in Names
  BY <1>2 DEF Client
<1>5. budgets' = [budgets EXCEPT ![c.name] = None] /\ spend' = [spend EXCEPT ![c.name] = {}]
  BY DEF DeleteBudget, Forgotten
<1>6. Types'
  BY <1>3, <1>4, <1>5 DEF Types, DeleteBudget
<1>7. /\ \A m \in Names : m # c.name => budgets'[m] = budgets[m] /\ spend'[m] = spend[m]
      /\ budgets'[c.name] = None /\ spend'[c.name] = {}
  BY <1>4, <1>5 DEF Types
<1> QED  BY <1>1, <1>2, <1>3, <1>6, <1>7 DEF Unbegun, DeleteBudget

LEMMA StartRequestDoes ==
  ASSUME Types, NEW a \in Admins, NEW k \in Keys, StartRequest(a, k)
  PROVE  /\ Types' /\ OthersKept(a) /\ UNCHANGED <<clients, keys, budgets, spend>>
         /\ k \in DOMAIN keys
         /\ \E c \in Entries(keys[k].name) :
              /\ c \in Client /\ c.name = keys[k].name /\ Carries(a, "request", "charge", c)
<1>1. /\ call[a].at = "idle" /\ clients \in Seq(Client) /\ CallTypes
      /\ k \in DOMAIN keys /\ UNCHANGED <<clients, keys, budgets, spend, generated>>
  BY DEF StartRequest, Begins, Types
<1>2. overlapped' \subseteq SUBSET Operations
  BY BegunOverlaps DEF StartRequest, Types, Operations
<1>3. PICK i \in Named(keys[k].name) :
        call' = [call EXCEPT ![a] = [IdleCall EXCEPT !.operation = "request", !.at = "charge",
                                                     !.client = clients[i]]]
  BY DEF StartRequest
<1>4. PICK c : c = clients[i]
  OBVIOUS
<1>5. c \in Entries(keys[k].name) /\ c.name = keys[k].name /\ c \in Client
  BY <1>1, <1>3, <1>4 DEF Named, Entries
<1> DEFINE next == [IdleCall EXCEPT !.operation = "request", !.at = "charge", !.client = c]
<1>6. call' = [call EXCEPT ![a] = next]
  BY <1>3, <1>4
<1>7. /\ next = [f \in CallFields |-> next[f]] /\ next.todo = <<>> /\ next.rows = <<>>
      /\ next.operation = "request" /\ next.at = "charge" /\ next.client = c
      /\ next.identity = Global /\ next.key = None
  BY DEF IdleCall, CallFields
<1> HIDE DEF next
<1>8. Staged(next)
  BY <1>5, <1>7, StagedAnew DEF Scoped
<1>9. CallTypes' /\ call'[a] = next /\ OthersKept(a)
  BY <1>1, <1>6, <1>8, CallSet
<1> QED  BY <1>1, <1>2, <1>5, <1>7, <1>9 DEF Types, Carries

LEMMA ChargeDoes ==
  ASSUME Types, NEW a \in Admins, NEW c, c = call[a].client, Charge(a)
  PROVE  /\ Types' /\ OthersKept(a) /\ Unbegun(a) /\ call[a].at = "charge" /\ c \in Client
         /\ call[a].operation = "request" /\ UNCHANGED <<clients, keys, budgets>>
         /\ call'[a].at = "idle"
         /\ \A m \in Names : m # c.name => spend'[m] = spend[m]
         /\ spend'[c.name] \subseteq spend[c.name] \cup {c.organization}
<1>1. Staged(call[a]) /\ call[a].at = "charge" /\ CallTypes
  BY DEF Charge, Types, CallTypes
<1>2. c \in Client /\ call[a].operation = "request"
  BY <1>1 DEF Staged
<1>3. CallTypes' /\ OthersKept(a) /\ call'[a].at = "idle"
  BY <1>1, CallEnded DEF Charge
<1>4. c.name \in Names /\ c.organization \in Organizations
  BY <1>2 DEF Client
<1>5. \/ spend' = spend
      \/ spend' = [spend EXCEPT ![c.name] = spend[c.name] \cup {c.organization}]
  BY DEF Charge
<1>6. /\ spend' \in [Names -> SUBSET Organizations]
      /\ \A m \in Names : m # c.name => spend'[m] = spend[m]
      /\ spend'[c.name] \subseteq spend[c.name] \cup {c.organization}
  BY <1>4, <1>5 DEF Types
<1>7. Types'
  BY <1>3, <1>6 DEF Types, Charge
<1> QED  BY <1>1, <1>2, <1>3, <1>6, <1>7 DEF Unbegun, Charge

LEMMA StartResetDoes ==
  ASSUME Types, NEW a \in Admins, NEW identity \in Identities, NEW n \in Names,
         StartReset(a, identity, n)
  PROVE  /\ Types' /\ OthersKept(a) /\ UNCHANGED <<clients, keys, budgets, spend>>
         /\ \/ call' = call
            \/ \E c \in Entries(n) :
                 /\ c \in Client /\ c.name = n /\ InScope(identity, c)
                 /\ Carries(a, "reset", "zero", c) /\ call'[a].identity = identity
<1>1. /\ call[a].at = "idle" /\ clients \in Seq(Client) /\ CallTypes
      /\ UNCHANGED <<clients, keys, budgets, spend, generated>>
  BY DEF StartReset, Begins, Types
<1>2. overlapped' \subseteq SUBSET Operations
  BY BegunOverlaps DEF StartReset, Types, Operations
<1>3. PICK R : R = InScopeNamed(identity, n)
  OBVIOUS
<1>4. CASE R = {}
  <2>1. call' = call
    BY <1>3, <1>4 DEF StartReset
  <2> QED  BY <1>1, <1>2, <2>1, CallKept DEF Types
<1>5. CASE R # {}
  <2>1. PICK i \in R : i = CHOOSE j \in R : TRUE
    BY <1>5
  <2>2. PICK c : c = clients[i]
    OBVIOUS
  <2>3. i \in DOMAIN clients /\ c.name = n /\ InScope(identity, c) /\ c \in Entries(n)
    <3>1. i \in Named(n) /\ InScope(identity, clients[i])
      BY <1>3, <2>1 DEF InScopeNamed
    <3> QED  BY <2>2, <3>1 DEF Named, Entries
  <2>4. c \in Client
    BY <1>1, <2>2, <2>3
  <2> DEFINE next == [IdleCall EXCEPT !.operation = "reset", !.at = "zero",
                                      !.identity = identity, !.client = c]
  <2>5. call' = [call EXCEPT ![a] = next]
    BY <1>3, <1>5, <2>1, <2>2 DEF StartReset
  <2>6. /\ next = [f \in CallFields |-> next[f]] /\ next.todo = <<>> /\ next.rows = <<>>
        /\ next.operation = "reset" /\ next.at = "zero" /\ next.client = c
        /\ next.identity = identity /\ next.key = None
    BY DEF IdleCall, CallFields
  <2> HIDE DEF next
  <2>7. Scoped(next)
    BY <2>3, <2>6 DEF Scoped, InScope
  <2>8. Staged(next)
    BY <2>4, <2>6, <2>7, StagedAnew
  <2>9. CallTypes' /\ call'[a] = next /\ OthersKept(a)
    BY <1>1, <2>5, <2>8, CallSet
  <2> QED  BY <1>1, <1>2, <2>3, <2>4, <2>6, <2>9 DEF Types, Carries
<1> QED  BY <1>4, <1>5

LEMMA ResetSpendDoes ==
  ASSUME Types, NEW a \in Admins, NEW c, c = call[a].client, ResetSpend(a)
  PROVE  /\ Types' /\ OthersKept(a) /\ Unbegun(a) /\ call[a].at = "zero" /\ c \in Client
         /\ call[a].operation = "reset" /\ UNCHANGED <<clients, keys, budgets>>
         /\ call'[a].at = "idle"
         /\ \A m \in Names : m # c.name => spend'[m] = spend[m]
         /\ spend'[c.name] \subseteq spend[c.name]
<1>1. Staged(call[a]) /\ call[a].at = "zero" /\ CallTypes
  BY DEF ResetSpend, Types, CallTypes
<1>2. c \in Client /\ call[a].operation = "reset"
  BY <1>1 DEF Staged
<1>3. CallTypes' /\ OthersKept(a) /\ call'[a].at = "idle"
  BY <1>1, CallEnded DEF ResetSpend
<1>4. c.name \in Names
  BY <1>2 DEF Client
<1>5. spend' = spend \/ spend' = [spend EXCEPT ![c.name] = {}]
  BY DEF ResetSpend
<1>6. /\ spend' \in [Names -> SUBSET Organizations]
      /\ \A m \in Names : m # c.name => spend'[m] = spend[m]
      /\ spend'[c.name] \subseteq spend[c.name]
  BY <1>4, <1>5 DEF Types
<1>7. Types'
  BY <1>3, <1>6 DEF Types, ResetSpend
<1> QED  BY <1>1, <1>2, <1>3, <1>6, <1>7 DEF Unbegun, ResetSpend

(* A listing starts with the clients in scope, as they are.                *)
LEMMA ClientsListed ==
  ASSUME Types, NEW identity
  PROVE  LET mine == ClientsOf(identity) IN
         /\ mine \in Seq(Client)
         /\ \A i \in DOMAIN mine : InScope(identity, mine[i]) /\ mine[i] \in Entries(mine[i].name)
<1> DEFINE S == {i \in DOMAIN clients : InScope(identity, clients[i])}
<1>1. clients \in Seq(Client)
  BY DEF Types
<1>2. PICK r : r = Retained(clients, S)
  OBVIOUS
<1>3. PICK e : Embeds(Client, clients, S, Len(clients), r, e)
  BY <1>1, <1>2, RetainedEmbeds
<1>4. r \in Seq(Client) /\ e \in [1..Len(r) -> S \cap (1..Len(clients))]
      /\ \A i \in 1..Len(r) : r[i] = clients[e[i]]
  BY <1>3 DEF Embeds
<1>5. ASSUME NEW i \in DOMAIN r PROVE InScope(identity, r[i]) /\ r[i] \in Entries(r[i].name)
  <2>1. i \in 1..Len(r)
    BY <1>4
  <2>2. e[i] \in DOMAIN clients /\ InScope(identity, clients[e[i]]) /\ r[i] = clients[e[i]]
    BY <1>4, <2>1
  <2> QED  BY <2>2 DEF Entries, Named
<1> QED  BY <1>2, <1>4, <1>5 DEF ClientsOf

LEMMA StartListDoes ==
  ASSUME Types, NEW a \in Admins, NEW identity \in Identities, StartList(a, identity)
  PROVE  /\ Types' /\ OthersKept(a) /\ UNCHANGED <<clients, keys, budgets, spend>>
         /\ \/ call' = call
            \/ /\ Carries(a, "list", "report", None) /\ call'[a].identity = identity
               /\ call'[a].todo = ClientsOf(identity) /\ call'[a].rows = <<>>
<1>1. /\ call[a].at = "idle" /\ CallTypes /\ UNCHANGED <<clients, keys, budgets, spend, generated>>
  BY DEF StartList, Begins, Types
<1>2. overlapped' \subseteq SUBSET Operations
  BY BegunOverlaps DEF StartList, Types, Operations
<1>3. PICK mine : mine = ClientsOf(identity)
  OBVIOUS
<1>4. mine \in Seq(Client)
  BY <1>3, ClientsListed
<1>5. CASE mine = <<>>
  <2>1. call' = call
    BY <1>3, <1>5 DEF StartList
  <2> QED  BY <1>1, <1>2, <2>1, CallKept DEF Types
<1>6. CASE mine # <<>>
  <2> DEFINE next == [IdleCall EXCEPT !.operation = "list", !.at = "report",
                                      !.identity = identity, !.todo = mine]
  <2>1. call' = [call EXCEPT ![a] = next]
    BY <1>3, <1>6 DEF StartList
  <2>2. /\ next = [f \in CallFields |-> next[f]] /\ next.todo = mine /\ next.rows = <<>>
        /\ next.operation = "list" /\ next.at = "report" /\ next.client = None
        /\ next.identity = identity
    BY DEF IdleCall, CallFields
  <2> HIDE DEF next
  <2>3. <<>> \in Seq(Row)
    OBVIOUS
  <2>4. Staged(next)
    BY <1>4, <1>6, <2>2, <2>3 DEF Staged
  <2>5. CallTypes' /\ call'[a] = next /\ OthersKept(a)
    BY <1>1, <2>1, <2>4, CallSet
  <2> QED  BY <1>1, <1>2, <1>3, <2>2, <2>5 DEF Types, Carries
<1> QED  BY <1>5, <1>6

LEMMA ReportClientDoes ==
  ASSUME Types, NEW a \in Admins, NEW c, c = Head(call[a].todo), ReportClient(a)
  PROVE  /\ Types' /\ OthersKept(a) /\ Unbegun(a) /\ call[a].at = "report" /\ c \in Client
         /\ UNCHANGED <<clients, keys, budgets, spend>>
         /\ call[a].operation = "list" /\ call'[a].operation = "list"
         /\ call'[a].at \in {"report", "answer"} /\ call'[a].client = None
         /\ call'[a].identity = call[a].identity
         /\ call[a].todo \in Seq(Client) /\ call[a].todo # <<>> /\ call[a].rows \in Seq(Row)
         /\ call'[a].todo = Tail(call[a].todo)
         /\ call'[a].rows = Append(call[a].rows, [client |-> c, spent |-> client_spend_status(c.name)])
<1>1. Staged(call[a]) /\ call[a].at = "report" /\ CallTypes
  BY DEF ReportClient, Types, CallTypes
<1>2. PICK o : o = call[a]
  OBVIOUS
<1>3. /\ o.operation = "list" /\ o.client = None /\ o.todo \in Seq(Client) /\ o.todo # <<>>
      /\ o.rows \in Seq(Row) /\ o = [f \in CallFields |-> o[f]]
  BY <1>1, <1>2 DEF Staged
<1>4. c \in Client /\ c.name \in Names
  <2>1. PICK t : t = o.todo
    OBVIOUS
  <2>2. t \in Seq(Client) /\ t # <<>> /\ c = Head(t)
    BY <1>2, <1>3, <2>1
  <2>3. c \in Client
    <3>1. Len(t) \in Nat /\ Len(t) # 0
      BY <2>2
    <3>2. Head(t) = t[1] /\ t[1] \in Client
      BY <2>2, <3>1
    <3> QED  BY <2>2, <3>2
  <2> QED  BY <2>3 DEF Client
<1>5. PICK row : row = [client |-> c, spent |-> client_spend_status(c.name)]
  OBVIOUS
<1>6. row \in Row
  BY <1>4, <1>5 DEF Row, client_spend_status, Types
<1> DEFINE next == [o EXCEPT !.todo = Tail(@), !.rows = Append(@, row),
                             !.at = IF Len(o.todo) = 1 THEN "answer" ELSE "report"]
<1>7. call' = [call EXCEPT ![a] = next]
  BY <1>2, <1>5 DEF ReportClient
<1>8. /\ next = [f \in CallFields |-> next[f]] /\ next.todo = Tail(o.todo)
      /\ next.rows = Append(o.rows, row) /\ next.identity = o.identity
      /\ next.operation = "list" /\ next.client = None
      /\ next.at = IF Len(o.todo) = 1 THEN "answer" ELSE "report"
  BY <1>3 DEF CallFields
<1> HIDE DEF next
<1>9. next.todo \in Seq(Client) /\ (Len(o.todo) # 1 => next.todo # <<>>) /\ next.rows \in Seq(Row)
  <2>1. PICK t : t = o.todo
    OBVIOUS
  <2>2. t \in Seq(Client) /\ t # <<>>
    BY <1>3, <2>1
  <2>3. Tail(t) \in Seq(Client) /\ (Len(t) # 1 => Tail(t) # <<>>)
    <3>1. PICK u : u = Tail(t)
      OBVIOUS
    <3>2. PICK l \in Nat : l = Len(t)
      BY <2>2
    <3>3. u \in Seq(Client) /\ Len(u) = l - 1
      BY <2>2, <3>1, <3>2
    <3>4. u = <<>> => Len(u) = 0
      OBVIOUS
    <3> QED  BY <3>1, <3>2, <3>3, <3>4
  <2>4. PICK r : r = o.rows
    OBVIOUS
  <2>5. r \in Seq(Row)
    BY <1>3, <2>4
  <2>6. Append(r, row) \in Seq(Row)
    BY <1>6, <2>5
  <2> QED  BY <1>8, <2>1, <2>3, <2>4, <2>6
<1>10. Staged(next)
  BY <1>8, <1>9 DEF Staged
<1>11. CallTypes' /\ call'[a] = next /\ OthersKept(a)
  BY <1>1, <1>7, <1>10, CallSet
<1> QED  BY <1>1, <1>2, <1>3, <1>4, <1>5, <1>8, <1>11 DEF Types, Unbegun, ReportClient

LEMMA AnswerListDoes ==
  ASSUME Types, NEW a \in Admins, AnswerList(a)
  PROVE  /\ Types' /\ OthersKept(a) /\ Unbegun(a) /\ call[a].at = "answer"
         /\ call[a].operation = "list" /\ UNCHANGED <<clients, keys, budgets, spend>>
         /\ call'[a] = IdleCall /\ call'[a].at = "idle"
<1>1. Staged(call[a]) /\ call[a].at = "answer" /\ CallTypes
  BY DEF AnswerList, Types, CallTypes
<1>2. CallTypes' /\ OthersKept(a) /\ call'[a] = IdleCall /\ call'[a].at = "idle"
  BY <1>1, CallEnded DEF AnswerList
<1> QED  BY <1>1, <1>2 DEF Types, Unbegun, AnswerList, Staged

-----------------------------------------------------------------------------
(* Overlaps are seen: a call that begins notes those in progress, and one  *)
(* that goes on is about the names it began with.                          *)
Continues(a) ==
  /\ OthersKept(a) /\ overlapped' = overlapped
  /\ \/ call'[a].at = "idle"
     \/ /\ call[a].at # "idle" /\ call'[a].operation = call[a].operation
        /\ call'[a].client = call[a].client

Starts(a, operation, name) ==
  /\ OthersKept(a) /\ Begins(a, operation, name)
  /\ \/ call' = call
     \/ /\ call'[a].operation = operation
        /\ operation # "list" => call'[a].client.name = name

LEMMA ContinuedOverlaps ==
  ASSUME OverlapsSeen, NEW a \in Admins, Continues(a)
  PROVE  OverlapsSeen'
<1>1. ASSUME NEW b \in Admins, call'[b].at # "idle"
      PROVE  call[b].at # "idle" /\ call'[b].operation = call[b].operation /\ Concerns(b)' = Concerns(b)
  <2>1. call'[b] = call[b] \/ b = a
    BY DEF Continues, OthersKept
  <2>2. call[b].at # "idle" /\ call'[b].operation = call[b].operation
    BY <1>1, <2>1 DEF Continues
  <2>3. call'[b].client = call[b].client
    BY <1>1, <2>1 DEF Continues
  <2>4. Concerns(b)' = About(call'[b].operation, call'[b].client.name)
    BY DEF Concerns, About
  <2> QED  BY <2>2, <2>3, <2>4 DEF Concerns
<1>2. overlapped' = overlapped
  BY DEF Continues
<1> SUFFICES ASSUME NEW b \in Admins, NEW d \in Admins, b # d,
                    call'[b].at # "idle", call'[d].at # "idle",
                    Concerns(b)' \cap Concerns(d)' # {}
             PROVE  {call'[b].operation, call'[d].operation} \in overlapped'
  BY DEF OverlapsSeen
<1> QED  BY <1>1, <1>2 DEF OverlapsSeen

LEMMA StartedOverlaps ==
  ASSUME OverlapsSeen, NEW a \in Admins, NEW operation, NEW name, Starts(a, operation, name)
  PROVE  OverlapsSeen'
<1> DEFINE others == {b \in Admins : call[b].at # "idle"
                                      /\ Concerns(b) \cap About(operation, name) # {}}
<1>1. /\ call[a].at = "idle"
      /\ overlapped' = overlapped \cup {{operation, call[b].operation} : b \in others}
  BY DEF Starts, Begins
<1>2. ASSUME NEW b \in Admins, b # a
      PROVE  call'[b] = call[b] /\ Concerns(b)' = Concerns(b)
  <2>1. call'[b] = call[b]
    BY <1>2 DEF Starts, OthersKept
  <2>2. Concerns(b)' = About(call'[b].operation, call'[b].client.name)
    BY DEF Concerns, About
  <2> QED  BY <2>1, <2>2 DEF Concerns
<1>3. ASSUME call'[a].at # "idle"
      PROVE  call'[a].operation = operation /\ Concerns(a)' = About(operation, name)
  <2>1. call'[a].operation = operation /\ (operation # "list" => call'[a].client.name = name)
    BY <1>1, <1>3 DEF Starts
  <2>2. Concerns(a)' = About(call'[a].operation, call'[a].client.name)
    BY DEF Concerns, About
  <2> QED  BY <2>1, <2>2 DEF About
<1>4. ASSUME NEW b \in Admins, b # a, call'[a].at # "idle", call'[b].at # "idle",
             Concerns(a)' \cap Concerns(b)' # {}
      PROVE  {call'[a].operation, call'[b].operation} \in overlapped'
  <2>1. b \in others
    BY <1>2, <1>3, <1>4
  <2> QED  BY <1>1, <1>2, <1>3, <1>4, <2>1
<1> SUFFICES ASSUME NEW b \in Admins, NEW d \in Admins, b # d,
                    call'[b].at # "idle", call'[d].at # "idle",
                    Concerns(b)' \cap Concerns(d)' # {}
             PROVE  {call'[b].operation, call'[d].operation} \in overlapped'
  BY DEF OverlapsSeen
<1>5. CASE b = a
  BY <1>4, <1>5
<1>6. CASE d = a
  <2>1. {call'[a].operation, call'[b].operation} \in overlapped'
    BY <1>4, <1>6
  <2>2. {call'[a].operation, call'[b].operation} = {call'[b].operation, call'[a].operation}
    OBVIOUS
  <2> QED  BY <1>6, <2>1, <2>2
<1>7. CASE b # a /\ d # a
  BY <1>1, <1>2, <1>7 DEF OverlapsSeen
<1> QED  BY <1>5, <1>6, <1>7

-----------------------------------------------------------------------------
(* What a step does not disturb.                                           *)
NotWriter(a, m) == ~WriterOf(a, m) /\ ~WriterOf(a, m)'

LEMMA OthersSame ==
  ASSUME NEW a \in Admins, OthersKept(a), NEW m
  PROVE  /\ \A b \in Admins : b # a => call'[b] = call[b]
         /\ \A b \in Admins : b # a => (WriterOf(b, m)' <=> WriterOf(b, m))
         /\ \A b \in Admins : b # a => (Busy(b, m)' <=> Busy(b, m))
         /\ \A b \in Admins : b # a => (Deleting(b, m)' <=> Deleting(b, m))
<1>1. \A b \in Admins : b # a => call'[b] = call[b]
  BY DEF OthersKept
<1> QED  BY <1>1 DEF WriterOf, Busy, Deleting

LEMMA PendingElsewhere ==
  ASSUME NEW a \in Admins, OthersKept(a), NEW m, NotWriter(a, m),
         KeysOf(m)' = KeysOf(m), Entries(m)' = Entries(m), Pending(m)
  PROVE  Pending(m)'
<1>1. \A b \in Admins : WriterOf(b, m)' <=> WriterOf(b, m)
  BY OthersSame DEF NotWriter
<1>2. \A b \in Admins : WriterOf(b, m) => call'[b] = call[b]
  BY OthersSame DEF NotWriter
<1> QED  BY <1>1, <1>2 DEF Pending

LEMMA SameTablesSettled ==
  ASSUME NEW m, SameTables(m)
  PROVE  /\ Entries(m)' = Entries(m) /\ KeysOf(m)' = KeysOf(m)
         /\ \A rpm : OneKey(m, rpm)' <=> OneKey(m, rpm)
         /\ \A budget : BudgetShown(m, budget)' <=> BudgetShown(m, budget)
         /\ Settled(m)' <=> Settled(m)
<1>1. /\ Entries(m)' = Entries(m) /\ KeysOf(m)' = KeysOf(m) /\ budgets'[m] = budgets[m]
      /\ \A k \in KeysOf(m) : keys'[k] = keys[k]
  BY DEF SameTables, SameClients, SameKeys
<1>2. \A rpm : OneKey(m, rpm)' <=> OneKey(m, rpm)
  BY <1>1 DEF OneKey
<1>3. \A budget : BudgetShown(m, budget)' <=> BudgetShown(m, budget)
  BY <1>1 DEF BudgetShown
<1> QED  BY <1>1, <1>2, <1>3 DEF Settled

LEMMA AgreesElsewhere ==
  ASSUME NEW a \in Admins, OthersKept(a), NEW m, NotWriter(a, m), SameTables(m), Agrees(m)
  PROVE  Agrees(m)'
<1>1. \A b \in Admins : WriterOf(b, m)' <=> WriterOf(b, m)
  BY OthersSame DEF NotWriter
<1>2. \A b \in Admins : WriterOf(b, m) => call'[b] = call[b]
  BY OthersSame DEF NotWriter
<1>3. Once(m)'
  BY DEF Agrees, SameTables, SameClients
<1>4. (\A b \in Admins : ~WriterOf(b, m)') => Settled(m)'
  BY <1>1, SameTablesSettled DEF Agrees
<1>5. ASSUME NEW b \in Admins, WriterOf(b, m)' PROVE Midway(b, m)'
  <2>1. Midway(b, m) /\ call'[b] = call[b]
    BY <1>1, <1>2, <1>5 DEF Agrees
  <2>2. budgets'[m] = budgets[m]
    BY DEF SameTables
  <2> QED  BY <2>1, <2>2, SameTablesSettled DEF Midway
<1> QED  BY <1>3, <1>4, <1>5 DEF Agrees

(* ... of which only the step's own client is left, when it is alone.      *)
Alone(a, n) == \A b \in Admins : b # a => ~WriterOf(b, n)

LEMMA AgreesAlone ==
  ASSUME NEW a \in Admins, OthersKept(a), NEW n, Alone(a, n), Once(n)',
         WriterOf(a, n)' => Midway(a, n)', ~WriterOf(a, n)' => Settled(n)'
  PROVE  Agrees(n)'
<1>1. \A b \in Admins : b # a => ~WriterOf(b, n)'
  BY OthersSame DEF Alone
<1> QED  BY <1>1 DEF Agrees

LEMMA AloneSettled ==
  ASSUME NEW a \in Admins, NEW n, Alone(a, n), Agrees(n)
  PROVE  Once(n) /\ (call[a].at = "idle" => Settled(n)) /\ (WriterOf(a, n) => Midway(a, n))
<1>1. call[a].at = "idle" => \A b \in Admins : ~WriterOf(b, n)
  BY DEF Alone, WriterOf
<1> QED  BY <1>1 DEF Agrees

LEMMA OwnedElsewhere ==
  ASSUME NEW a \in Admins, OthersKept(a), NEW m, SameClients(m), spend'[m] = spend[m],
         ~Busy(a, m), ~Busy(a, m)', Owned(m)
  PROVE  Owned(m)'
<1>1. \A b \in Admins : Busy(b, m)' <=> Busy(b, m)
  BY OthersSame
<1>2. \A b \in Admins : Busy(b, m) => call'[b] = call[b]
  BY OthersSame
<1>3. Entries(m)' = Entries(m) /\ Once(m)'
  BY DEF SameClients, Owned
<1>4. \A o : Belongs(m, o)' <=> Belongs(m, o)
  BY <1>3 DEF Belongs
<1>5. \A b \in Admins : Deleting(b, m)' <=> Deleting(b, m)
  <2>1. ~Deleting(a, m) /\ ~Deleting(a, m)'
    BY DEF Deleting, WriterOf, Busy, Writers
  <2> QED  BY <2>1, OthersSame
<1>6. (\A b \in Admins : ~Deleting(b, m)') => \A o \in spend'[m] : Belongs(m, o)'
  BY <1>4, <1>5 DEF Owned
<1>7. ASSUME NEW b \in Admins, Busy(b, m)'
      PROVE  IF call'[b].at \in {"key", "push", "revoke", "forget"} THEN Entries(m)' = {}
             ELSE \E d \in Entries(m)' : d.organization = call'[b].client.organization
  <2>1. Busy(b, m) /\ call'[b] = call[b]
    BY <1>1, <1>2, <1>7
  <2>2. IF call[b].at \in {"key", "push", "revoke", "forget"} THEN Entries(m) = {}
        ELSE \E d \in Entries(m) : d.organization = call[b].client.organization
    BY <2>1 DEF Owned, Belongs
  <2> QED  BY <1>3, <2>1, <2>2
<1> QED  BY <1>3, <1>6, <1>7 DEF Owned, Belongs

(* The same for every name, for the steps whose call is about the client c. *)
OnlyFor(a, name) ==
  /\ call[a].at # "idle" => call[a].operation # "list" /\ call[a].client.name = name
  /\ call'[a].at # "idle" => call'[a].operation # "list" /\ call'[a].client.name = name

LEMMA OnlyForElsewhere ==
  ASSUME NEW a, NEW name, OnlyFor(a, name), NEW m, m # name
  PROVE  NotWriter(a, m) /\ ~Busy(a, m) /\ ~Busy(a, m)'
BY DEF OnlyFor, NotWriter, WriterOf, Busy

-----------------------------------------------------------------------------
(* A step keeps the invariants of every name if it keeps that of the name  *)
(* its call is about.                                                      *)
PendingAt(n) == ~WroteBeside("update")' /\ Pending(n) => Pending(n)'
AgreesAt(n) == WritesApart' /\ Agrees(n) => Agrees(n)'
OwnedAt(n) == Undisturbed' /\ Owned(n) => Owned(n)'
ListingsKept == Undisturbed' /\ (\A n \in Names : Owned(n)) /\ Reported => Reported'

SameFor(m) == SameTables(m) /\ spend'[m] = spend[m]
SameBut(name) == \A m \in Names : m # name => SameFor(m)
SameForAll == \A m \in Names : SameFor(m)

Kept ==
  /\ \A n \in Names : PendingAt(n)
  /\ \A n \in Names : AgreesAt(n)
  /\ \A n \in Names : OwnedAt(n)
  /\ ListingsKept

Keeps == Types' /\ OverlapsSeen' /\ overlapped \subseteq overlapped' /\ Kept

LEMMA KeptElsewhere ==
  ASSUME NEW a \in Admins, OthersKept(a), NEW m, SameFor(m), NotWriter(a, m)
  PROVE  PendingAt(m) /\ AgreesAt(m) /\ (~Busy(a, m) /\ ~Busy(a, m)' => OwnedAt(m))
<1>1. SameTables(m) /\ SameClients(m) /\ spend'[m] = spend[m]
      /\ KeysOf(m)' = KeysOf(m) /\ Entries(m)' = Entries(m)
  BY DEF SameFor, SameTables, SameClients, SameKeys
<1>2. PendingAt(m)
  BY <1>1, PendingElsewhere DEF PendingAt
<1>3. AgreesAt(m)
  BY <1>1, AgreesElsewhere DEF AgreesAt
<1>4. ~Busy(a, m) /\ ~Busy(a, m)' => OwnedAt(m)
  BY <1>1, OwnedElsewhere DEF OwnedAt
<1> QED  BY <1>2, <1>3, <1>4

LEMMA KeptFor ==
  ASSUME NEW a \in Admins, OthersKept(a), NEW name, OnlyFor(a, name), SameBut(name),
         PendingAt(name), AgreesAt(name), OwnedAt(name), ListingsKept
  PROVE  Kept
<1> SUFFICES ASSUME NEW m \in Names, m # name PROVE PendingAt(m) /\ AgreesAt(m) /\ OwnedAt(m)
  BY DEF Kept
<1>1. SameFor(m)
  BY DEF SameBut
<1> QED  BY <1>1, OnlyForElsewhere, KeptElsewhere

(* ... and of every name if it reads only.                                 *)
Reads(a) ==
  /\ call[a].at # "idle" => call[a].operation = "list"
  /\ call'[a].at # "idle" => call'[a].operation = "list"

LEMMA KeptForAll ==
  ASSUME NEW a \in Admins, OthersKept(a), Reads(a), SameForAll, ListingsKept
  PROVE  Kept
<1> SUFFICES ASSUME NEW m \in Names PROVE PendingAt(m) /\ AgreesAt(m) /\ OwnedAt(m)
  BY DEF Kept
<1>1. SameFor(m)
  BY DEF SameForAll
<1>2. NotWriter(a, m) /\ ~Busy(a, m) /\ ~Busy(a, m)'
  BY DEF Reads, NotWriter, WriterOf, Busy, Writers
<1> QED  BY <1>1, <1>2, KeptElsewhere

(* Listings go on while the clients they list stay.                        *)
StillBelong == \A m \in Names : \A o : Belongs(m, o) => Belongs(m, o)'

LEMMA ClientsStay ==
  ASSUME clients' = clients
  PROVE  StillBelong
BY DEF StillBelong, Belongs, Entries, Named

LEMMA ListingStays ==
  ASSUME CallTypes, NEW a \in Admins, OthersKept(a), StillBelong, Reported,
         NEW b \in Admins, call'[b].at \in {"report", "answer"}, b = a => call'[b] = call[b]
  PROVE  Listed(call[b])'
<1>1. call'[b] = call[b]
  BY DEF OthersKept
<1>2. Listed(call[b])
  BY <1>1 DEF Reported
<1>3. PICK o : o = call[b]
  OBVIOUS
<1>4. ASSUME NEW i \in DOMAIN o.todo
      PROVE  InScope(o.identity, o.todo[i]) /\ Belongs(o.todo[i].name, o.todo[i].organization)'
  <2>1. PICK t : t = o.todo
    OBVIOUS
  <2>2. t \in Seq(Client)
    BY <1>3, <2>1 DEF CallTypes, Staged
  <2>3. t[i] \in Client
    BY <2>1, <2>2
  <2>4. o.todo[i].name \in Names
    BY <2>1, <2>3 DEF Client
  <2> QED  BY <1>2, <1>3, <2>4 DEF Listed, StillBelong
<1>5. Listed(o)'
  BY <1>2, <1>3, <1>4 DEF Listed
<1> QED  BY <1>1, <1>3, <1>5 DEF Listed

LEMMA ListingsGoOn ==
  ASSUME CallTypes, NEW a \in Admins, OthersKept(a), StillBelong,
         call'[a].at \in {"report", "answer"} => call'[a] = call[a]
  PROVE  ListingsKept
BY ListingStays DEF ListingsKept, Reported

-----------------------------------------------------------------------------
(* Who is alone.                                                           *)
(* Nobody else is at the client, and nobody lists.                         *)
Solitary(a, n) == \A b \in Admins : b # a => ~Busy(b, n) /\ call[b].at \notin {"report", "answer"}

LEMMA FewerOverlaps ==
  ASSUME overlapped \subseteq overlapped'
  PROVE  /\ \A operation : ~WroteBeside(operation)' => ~WroteBeside(operation)
         /\ WritesApart' => WritesApart
         /\ Undisturbed' => Undisturbed
BY DEF WroteBeside, WritesApart, Undisturbed

LEMMA BeginsNotes ==
  ASSUME NEW a \in Admins, NEW operation, NEW name, Begins(a, operation, name)
  PROVE  /\ overlapped \subseteq overlapped' /\ call[a].at = "idle"
         /\ \A b \in Admins : call[b].at # "idle" /\ Concerns(b) \cap About(operation, name) # {}
              => {operation, call[b].operation} \in overlapped'
BY DEF Begins

LEMMA ConcernsOfWriter ==
  ASSUME NEW b \in Admins, NEW n, Busy(b, n) \/ WriterOf(b, n)
  PROVE  Concerns(b) = {n} /\ call[b].at # "idle"
BY DEF Busy, WriterOf, Writers, Concerns, About

LEMMA ConcernsOfListing ==
  ASSUME CallTypes, NEW b \in Admins, call[b].at \in {"report", "answer"}
  PROVE  Concerns(b) = Names /\ call[b].at # "idle" /\ call[b].operation = "list"
<1>1. Staged(call[b])
  BY DEF CallTypes
<1>2. call[b].operation = "list"
  BY <1>1 DEF Staged
<1> QED  BY <1>2 DEF Concerns, About

LEMMA BeginsAlone ==
  ASSUME NEW a \in Admins, NEW operation \in Writers, NEW name, Begins(a, operation, name),
         WritesApart'
  PROVE  Alone(a, name)
<1> SUFFICES ASSUME NEW b \in Admins, b # a, WriterOf(b, name) PROVE FALSE
  BY DEF Alone
<1>1. Concerns(b) \cap About(operation, name) # {} /\ call[b].operation \in Writers
  BY ConcernsOfWriter DEF About, Writers, WriterOf
<1>2. {operation, call[b].operation} \in overlapped'
  BY <1>1, ConcernsOfWriter, BeginsNotes
<1> QED  BY <1>1, <1>2 DEF WritesApart, WroteBeside

LEMMA BeginsSolitary ==
  ASSUME CallTypes, NEW a \in Admins, NEW operation \in {"create", "delete"}, NEW name \in Names,
         Begins(a, operation, name), Undisturbed'
  PROVE  Solitary(a, name)
<1>1. About(operation, name) = {name}
  BY DEF About
<1>2. ASSUME NEW b \in Admins, call[b].at # "idle", name \in Concerns(b) PROVE FALSE
  <2>1. {operation, call[b].operation} \in overlapped'
    BY <1>1, <1>2, BeginsNotes
  <2>2. {operation, call[b].operation} \cap {"create", "delete"} = {}
    BY <2>1 DEF Undisturbed
  <2> QED  BY <2>2
<1> SUFFICES ASSUME NEW b \in Admins, b # a PROVE ~Busy(b, name) /\ call[b].at \notin {"report", "answer"}
  BY DEF Solitary
<1>3. ~Busy(b, name)
  BY <1>2, ConcernsOfWriter
<1>4. call[b].at \notin {"report", "answer"}
  BY <1>2, ConcernsOfListing
<1> QED  BY <1>3, <1>4

LEMMA WriterAlone ==
  ASSUME OverlapsSeen, NEW a \in Admins, NEW n, WriterOf(a, n), WritesApart
  PROVE  Alone(a, n)
<1> SUFFICES ASSUME NEW b \in Admins, b # a, WriterOf(b, n) PROVE FALSE
  BY DEF Alone
<1>1. Concerns(a) = {n} /\ Concerns(b) = {n} /\ call[a].at # "idle" /\ call[b].at # "idle"
  BY ConcernsOfWriter
<1>2. {call[a].operation, call[b].operation} \in overlapped
  BY <1>1 DEF OverlapsSeen
<1> QED  BY <1>2 DEF WritesApart, WroteBeside, WriterOf

LEMMA CreatorSolitary ==
  ASSUME CallTypes, OverlapsSeen, NEW a \in Admins, NEW n \in Names, WriterOf(a, n),
         call[a].operation \in {"create", "delete"}, Undisturbed
  PROVE  Solitary(a, n)
<1>1. Concerns(a) = {n} /\ call[a].at # "idle"
  BY ConcernsOfWriter
<1>2. ASSUME NEW b \in Admins, b # a, call[b].at # "idle", n \in Concerns(b) PROVE FALSE
  <2>1. {call[a].operation, call[b].operation} \in overlapped
    BY <1>1, <1>2 DEF OverlapsSeen
  <2>2. {call[a].operation, call[b].operation} \cap {"create", "delete"} = {}
    BY <2>1 DEF Undisturbed
  <2> QED  BY <2>2
<1> SUFFICES ASSUME NEW b \in Admins, b # a PROVE ~Busy(b, n) /\ call[b].at \notin {"report", "answer"}
  BY DEF Solitary
<1>3. ~Busy(b, n)
  BY <1>2, ConcernsOfWriter
<1>4. call[b].at \notin {"report", "answer"}
  BY <1>2, ConcernsOfListing
<1> QED  BY <1>3, <1>4

(* A call that is alone leaves its client owned.                           *)
LEMMA OwnedSolitary ==
  ASSUME NEW a \in Admins, OthersKept(a), NEW n, Solitary(a, n), Once(n)',
         ~Deleting(a, n)' => \A o \in spend'[n] : Belongs(n, o)',
         Busy(a, n)' => IF call'[a].at \in {"key", "push", "revoke", "forget"} THEN Entries(n)' = {}
                        ELSE \E d \in Entries(n)' : d.organization = call'[a].client.organization
  PROVE  Owned(n)'
<1>1. \A b \in Admins : b # a => ~Busy(b, n)'
  BY OthersSame DEF Solitary
<1> QED  BY <1>1 DEF Owned, Belongs

LEMMA SolitaryOwned ==
  ASSUME NEW a \in Admins, NEW n, Solitary(a, n), Owned(n), call[a].at = "idle" \/ ~Deleting(a, n)
  PROVE  Once(n) /\ \A o \in spend[n] : Belongs(n, o)
<1>1. \A b \in Admins : ~Deleting(b, n)
  BY DEF Solitary, Deleting, WriterOf, Busy, Writers
<1> QED  BY <1>1 DEF Owned

(* The client stays its organization's, and what is spent is that one's.   *)
SameOwners(n) ==
  /\ Once(n)' /\ (Entries(n)' = {} <=> Entries(n) = {})
  /\ \A o : Belongs(n, o)' <=> Belongs(n, o)

LEMMA SameClientsSameOwners ==
  ASSUME NEW n, SameClients(n), Once(n)
  PROVE  SameOwners(n)
BY DEF SameClients, SameOwners, Belongs

LEMMA OwnedStays ==
  ASSUME NEW a \in Admins, OthersKept(a), NEW n, SameOwners(n), Owned(n),
         ~Deleting(a, n), ~Deleting(a, n)',
         \A o \in spend'[n] : o \in spend[n] \/ Belongs(n, o),
         Busy(a, n)' => IF call'[a].at \in {"key", "push", "revoke", "forget"} THEN Entries(n) = {}
                        ELSE Belongs(n, call'[a].client.organization)
  PROVE  Owned(n)'
<1>1. Once(n)' /\ (Entries(n)' = {} <=> Entries(n) = {}) /\ \A o : Belongs(n, o)' <=> Belongs(n, o)
  BY DEF SameOwners
<1>2. \A o : (\E d \in Entries(n)' : d.organization = o) <=> Belongs(n, o)
  BY <1>1 DEF Belongs
<1>3. \A b \in Admins : Deleting(b, n)' <=> Deleting(b, n)
  BY OthersSame
<1>4. (\A b \in Admins : ~Deleting(b, n)') => \A o \in spend'[n] : Belongs(n, o)'
  BY <1>1, <1>3 DEF Owned
<1>5. ASSUME NEW b \in Admins, Busy(b, n)'
      PROVE  IF call'[b].at \in {"key", "push", "revoke", "forget"} THEN Entries(n)' = {}
             ELSE \E d \in Entries(n)' : d.organization = call'[b].client.organization
  <2>1. CASE b = a
    BY <1>1, <1>2, <1>5, <2>1
  <2>2. CASE b # a
    <3>1. Busy(b, n) /\ call'[b] = call[b]
      BY <1>5, <2>2, OthersSame
    <3> QED  BY <1>1, <1>2, <3>1 DEF Owned
  <2> QED  BY <2>1, <2>2
<1> QED  BY <1>1, <1>4, <1>5 DEF Owned, Belongs

LEMMA SameStillBelong ==
  ASSUME SameForAll
  PROVE  StillBelong
BY DEF SameForAll, SameFor, SameTables, SameClients, StillBelong, Belongs

(* The tables untouched, for what a step does not touch at all.            *)
LEMMA Untouched ==
  ASSUME UNCHANGED <<clients, keys, budgets, spend>>
  PROVE  SameForAll
<1> SUFFICES ASSUME NEW m \in Names PROVE SameFor(m)
  BY DEF SameForAll
<1>1. SameClients(m) /\ SameKeys(m)
  BY ClientsUnchanged, KeysUnchanged
<1> QED  BY <1>1 DEF SameFor, SameTables

LEMMA SameForAllBut ==
  ASSUME SameForAll, NEW name
  PROVE  SameBut(name)
BY DEF SameForAll, SameBut

-----------------------------------------------------------------------------
(* The steps, one by one: first, a call that finds nothing to do.          *)
LEMMA NothingFound ==
  ASSUME Types, Types', OverlapsSeen, NEW a \in Admins, OthersKept(a),
         NEW operation, NEW name, Begins(a, operation, name), call' = call, SameForAll
  PROVE  Keeps
<1>1. Reads(a)
  BY BeginsNotes DEF Reads
<1>2. ListingsKept
  BY SameStillBelong, ListingsGoOn DEF Types
<1>3. Kept
  BY <1>1, <1>2, KeptForAll
<1>4. OverlapsSeen'
  BY StartedOverlaps DEF Starts
<1> QED  BY <1>3, <1>4, BeginsNotes DEF Keeps

LEMMA CreateCheckNameKeeps ==
  ASSUME Types, OverlapsSeen, NEW a \in Admins, NEW identity \in Identities, NEW c \in NewClients,
         NEW key \in Keys \cup {None}, CreateCheckName(a, identity, c, key)
  PROVE  Keeps
<1>1. /\ Types' /\ OthersKept(a) /\ c \in Client
      /\ call' = call \/ (Carries(a, "create", "key", c) /\ Entries(c.name) = {})
  BY CreateCheckNameDoes
<1>2. Begins(a, "create", c.name) /\ UNCHANGED <<clients, keys, budgets, spend>>
  BY DEF CreateCheckName
<1>3. SameForAll
  BY <1>2, Untouched
<1>4. CASE call' = call
  BY <1>1, <1>2, <1>3, <1>4, NothingFound
<1>5. CASE Carries(a, "create", "key", c) /\ Entries(c.name) = {}
  <2>1. PICK n \in Names : n = c.name
    BY <1>1 DEF Client
  <2>2. /\ call[a].at = "idle" /\ overlapped \subseteq overlapped'
        /\ call'[a].operation = "create" /\ call'[a].at = "key" /\ call'[a].client = c
    BY <1>2, <1>5, BeginsNotes DEF Carries
  <2>3. OverlapsSeen'
    BY <1>1, <1>2, <2>2, StartedOverlaps DEF Starts
  <2>4. OnlyFor(a, n)
    BY <2>1, <2>2 DEF OnlyFor
  <2>5. /\ SameTables(n) /\ Entries(n)' = {} /\ KeysOf(n)' = KeysOf(n)
        /\ budgets'[n] = budgets[n] /\ spend'[n] = spend[n]
    BY <1>3, <1>5, <2>1 DEF SameForAll, SameFor, SameTables, SameClients, SameKeys
  <2>6. PendingAt(n)
    <3> SUFFICES ASSUME Pending(n) PROVE Pending(n)'
      BY DEF PendingAt
    <3>1. \A b \in Admins : WriterOf(b, n) => b # a /\ WriterOf(b, n)' /\ call'[b] = call[b]
      BY <1>1, <2>2, OthersSame DEF WriterOf
    <3>2. \A b \in Admins : ~(WriterOf(b, n)' /\ call'[b].at = "rotate" /\ ~WriterOf(b, n))
      BY <1>1, <2>2, OthersSame
    <3> QED  BY <1>5, <2>1, <2>5, <3>1, <3>2 DEF Pending
  <2>7. AgreesAt(n)
    <3> SUFFICES ASSUME WritesApart', Agrees(n) PROVE Agrees(n)'
      BY DEF AgreesAt
    <3>1. Alone(a, n)
      BY <1>2, <2>1, BeginsAlone DEF Writers
    <3>2. Once(n) /\ Settled(n)
      BY <2>2, <3>1, AloneSettled
    <3>3. Once(n)' /\ Entries(n)' = {} /\ KeysOf(n)' = {} /\ budgets'[n] = None
      BY <1>5, <2>1, <2>5, <3>2 DEF Settled, SameTables, SameClients
    <3>4. WriterOf(a, n)' /\ Midway(a, n)'
      BY <2>1, <2>2, <3>3 DEF WriterOf, Writers, Midway
    <3> QED  BY <1>1, <3>1, <3>3, <3>4, AgreesAlone
  <2>8. OwnedAt(n)
    <3> SUFFICES ASSUME Undisturbed', Owned(n) PROVE Owned(n)'
      BY DEF OwnedAt
    <3>1. Solitary(a, n)
      BY <1>2, <2>1, BeginsSolitary DEF Types
    <3>2. Once(n) /\ \A o \in spend[n] : Belongs(n, o)
      BY <2>2, <3>1, SolitaryOwned
    <3>3. Once(n)' /\ \A o \in spend'[n] : Belongs(n, o)'
      BY <1>5, <2>1, <2>5, <3>2 DEF SameTables, SameClients, Belongs
    <3> QED  BY <1>1, <2>2, <2>5, <3>1, <3>3, OwnedSolitary
  <2>9. ListingsKept
    BY <1>1, <1>3, <2>2, SameStillBelong, ListingsGoOn DEF Types
  <2>10. Kept
    BY <1>1, <1>3, <2>4, <2>6, <2>7, <2>8, <2>9, SameForAllBut, KeptFor
  <2> QED  BY <1>1, <2>2, <2>3, <2>10 DEF Keeps
<1> QED  BY <1>1, <1>4, <1>5

(* A call that goes on, and changes nothing but the tables of its client.  *)
LEMMA GoesOn ==
  ASSUME OverlapsSeen, NEW a \in Admins, OthersKept(a), Unbegun(a),
         call[a].operation # "list",
         \/ call'[a].at = "idle"
         \/ Carries(a, call[a].operation, call'[a].at, call[a].client)
  PROVE  /\ OverlapsSeen' /\ overlapped \subseteq overlapped'
         /\ OnlyFor(a, call[a].client.name)
         /\ call[a].operation \in Writers =>
              WriterOf(a, call[a].client.name) /\ (WritesApart' => Alone(a, call[a].client.name))
         /\ Busy(a, call[a].client.name)
<1>1. OverlapsSeen'
  BY ContinuedOverlaps DEF Continues, Unbegun, Carries
<1>2. OnlyFor(a, call[a].client.name)
  BY DEF OnlyFor, Carries
<1>3. call[a].operation \in Writers => WriterOf(a, call[a].client.name)
  BY DEF WriterOf, Unbegun
<1>4. overlapped' = overlapped
  BY DEF Unbegun
<1>5. WritesApart' => WritesApart
  BY <1>4, FewerOverlaps
<1>6. Busy(a, call[a].client.name)
  BY DEF Busy, Unbegun
<1> QED  BY <1>1, <1>2, <1>3, <1>4, <1>5, <1>6, WriterAlone

LEMMA CreatorGoesOn ==
  ASSUME CallTypes, OverlapsSeen, NEW a \in Admins, NEW n \in Names, WriterOf(a, n),
         call[a].operation \in {"create", "delete"}, Unbegun(a), Undisturbed'
  PROVE  Solitary(a, n)
<1>1. Undisturbed
  BY FewerOverlaps DEF Unbegun
<1> QED  BY <1>1, CreatorSolitary

LEMMA CreateInsertKeyKeeps ==
  ASSUME Types, OverlapsSeen, NEW a \in Admins, CreateInsertKey(a)
  PROVE  Keeps
<1>1. PICK c : c = call[a].client
  OBVIOUS
<1>2. /\ Types' /\ OthersKept(a) /\ Unbegun(a) /\ call[a].at = "key" /\ c \in Client
      /\ call[a].operation = "create" /\ UNCHANGED <<clients, budgets, spend>>
      /\ \/ keys' = keys /\ call'[a].at = "idle"
         \/ /\ Carries(a, "create", "push", c)
            /\ \A m : m # c.name => SameKeys(m)
            /\ \E k \in Keys : /\ k \notin DOMAIN keys /\ DOMAIN keys' = DOMAIN keys \cup {k}
                               /\ \A j \in DOMAIN keys : keys'[j] = keys[j]
                               /\ keys'[k] = [name |-> c.name, rpm |-> c.rpm]
  BY <1>1, CreateInsertKeyDoes
<1>3. PICK n \in Names : n = c.name
  BY <1>2 DEF Client
<1>4. /\ OverlapsSeen' /\ overlapped \subseteq overlapped' /\ OnlyFor(a, n)
      /\ WriterOf(a, n) /\ (WritesApart' => Alone(a, n)) /\ Busy(a, n)
  BY <1>1, <1>2, <1>3, GoesOn DEF Carries, Writers
<1>5. /\ \A m : SameClients(m) /\ Entries(m)' = Entries(m)
      /\ \A m : m # n => SameKeys(m)
      /\ call'[a].at = "idle" \/ (call'[a].at = "push" /\ call'[a].client = c)
  BY <1>2, <1>3, ClientsUnchanged, KeysUnchanged DEF SameClients, Carries
<1>6. SameBut(n)
  BY <1>2, <1>5 DEF SameBut, SameFor, SameTables
<1>7. PendingAt(n)
  <2> SUFFICES ASSUME Pending(n) PROVE Pending(n)'
    BY DEF PendingAt
  <2>1. \A b \in Admins : b # a => call'[b] = call[b] /\ (WriterOf(b, n)' <=> WriterOf(b, n))
    BY <1>2, OthersSame
  <2>2. \A b \in Admins : WriterOf(b, n)' /\ call'[b].at = "rotate" => Entries(n)' # {}
    BY <1>5, <2>1 DEF Pending, WriterOf
  <2>3. CASE keys' = keys
    <3>1. KeysOf(n)' = KeysOf(n)
      BY <2>3 DEF KeysOf
    <3> QED  BY <1>2, <1>5, <2>1, <2>2, <3>1 DEF Pending
  <2>4. CASE Carries(a, "create", "push", c)
    <3>1. WriterOf(a, n)' /\ call'[a].at = "push"
      BY <1>3, <2>4 DEF Carries, WriterOf, Writers
    <3> QED  BY <2>2, <3>1 DEF Pending
  <2> QED  BY <1>2, <2>3, <2>4
<1>8. AgreesAt(n)
  <2> SUFFICES ASSUME WritesApart', Agrees(n) PROVE Agrees(n)'
    BY DEF AgreesAt
  <2>1. Alone(a, n) /\ Once(n) /\ Midway(a, n)
    BY <1>4, AloneSettled
  <2>2. Entries(n)' = {} /\ KeysOf(n) = {} /\ budgets'[n] = None /\ Once(n)'
    BY <1>2, <1>5, <2>1 DEF Midway, SameClients
  <2>3. CASE keys' = keys /\ call'[a].at = "idle"
    <3>1. Settled(n)' /\ ~WriterOf(a, n)'
      BY <2>2, <2>3 DEF Settled, KeysOf, WriterOf
    <3> QED  BY <1>2, <2>1, <2>2, <3>1, AgreesAlone
  <2>4. ASSUME Carries(a, "create", "push", c),
               NEW k \in Keys, k \notin DOMAIN keys, DOMAIN keys' = DOMAIN keys \cup {k},
               \A j \in DOMAIN keys : keys'[j] = keys[j],
               keys'[k] = [name |-> c.name, rpm |-> c.rpm]
        PROVE  Agrees(n)'
    <3>1. \A j \in DOMAIN keys' : keys'[j].name = n <=> j = k
      BY <1>3, <2>2, <2>4 DEF KeysOf
    <3>2. KeysOf(n)' = {j \in DOMAIN keys' : keys'[j].name = n}
      BY DEF KeysOf
    <3>3. KeysOf(n)' = {k} /\ keys'[k].rpm = c.rpm
      BY <2>4, <3>1, <3>2
    <3>4. call'[a].at = "push" /\ call'[a].client = c
      BY <2>4 DEF Carries
    <3>5. \E j \in Keys : KeysOf(n)' = {j} /\ keys'[j].rpm = call'[a].client.rpm
      BY <3>3, <3>4
    <3>6. Midway(a, n)' /\ WriterOf(a, n)'
      BY <1>3, <2>2, <2>4, <3>4, <3>5 DEF Midway, WriterOf, Writers, Carries, OneKey
    <3> QED  BY <1>2, <2>1, <2>2, <3>6, AgreesAlone
  <2> QED  BY <1>2, <2>3, <2>4
<1>9. OwnedAt(n)
  <2> SUFFICES ASSUME Undisturbed', Owned(n) PROVE Owned(n)'
    BY DEF OwnedAt
  <2>1. Solitary(a, n)
    BY <1>2, <1>4, CreatorGoesOn DEF Types
  <2>2. Once(n) /\ (\A o \in spend[n] : Belongs(n, o)) /\ Entries(n) = {}
    <3>1. ~Deleting(a, n)
      BY <1>2 DEF Deleting
    <3> QED  BY <1>2, <1>4, <2>1, <3>1, SolitaryOwned DEF Owned
  <2>3. Once(n)' /\ (\A o \in spend'[n] : Belongs(n, o)') /\ Entries(n)' = {}
    BY <1>2, <1>5, <2>2 DEF SameClients, Belongs
  <2>4. Busy(a, n)' => call'[a].at \in {"key", "push", "revoke", "forget"}
    BY <1>5 DEF Busy
  <2> QED  BY <1>2, <2>1, <2>3, <2>4, OwnedSolitary
<1>10. ListingsKept
  BY <1>2, <1>5, ClientsStay, ListingsGoOn DEF Types
<1>11. Kept
  BY <1>2, <1>4, <1>6, <1>7, <1>8, <1>9, <1>10, KeptFor
<1> QED  BY <1>2, <1>4, <1>11 DEF Keeps

LEMMA CreatePushKeeps ==
  ASSUME Types, OverlapsSeen, NEW a \in Admins, CreatePush(a)
  PROVE  Keeps
<1>1. PICK c : c = call[a].client
  OBVIOUS
<1>2. /\ Types' /\ OthersKept(a) /\ Unbegun(a) /\ call[a].at = "push" /\ c \in Client
      /\ call[a].operation = "create" /\ UNCHANGED <<keys, budgets, spend>>
      /\ Carries(a, "create", "budget", c)
      /\ clients' = Append(clients, c) /\ clients \in Seq(Client)
  BY <1>1, CreatePushDoes
<1>3. PICK n \in Names : n = c.name
  BY <1>2 DEF Client
<1>4. /\ OverlapsSeen' /\ overlapped \subseteq overlapped' /\ OnlyFor(a, n)
      /\ WriterOf(a, n) /\ (WritesApart' => Alone(a, n)) /\ Busy(a, n)
  BY <1>1, <1>2, <1>3, GoesOn DEF Carries, Writers
<1>5. /\ \A m : m # n => SameClients(m)
      /\ Entries(n)' = Entries(n) \cup {c}
      /\ Entries(n) = {} => Once(n)'
      /\ \A m : SameKeys(m) /\ KeysOf(m)' = KeysOf(m)
      /\ call'[a].at = "budget" /\ call'[a].operation = "create" /\ call'[a].client = c
  BY <1>2, <1>3, ClientPushed, KeysUnchanged DEF SameKeys, Carries
<1>6. SameBut(n)
  BY <1>2, <1>5 DEF SameBut, SameFor, SameTables
<1>7. PendingAt(n)
  BY <1>5 DEF PendingAt, Pending
<1>8. AgreesAt(n)
  <2> SUFFICES ASSUME WritesApart', Agrees(n) PROVE Agrees(n)'
    BY DEF AgreesAt
  <2>1. Alone(a, n) /\ Once(n) /\ Midway(a, n)
    BY <1>4, AloneSettled
  <2>2. Entries(n)' = {c} /\ Once(n)' /\ OneKey(n, c.rpm)
    BY <1>1, <1>2, <1>5, <2>1 DEF Midway
  <2>3. \E k \in Keys : KeysOf(n)' = {k} /\ keys'[k].rpm = c.rpm
    BY <1>2, <1>5, <2>2 DEF OneKey
  <2>4. Midway(a, n)' /\ WriterOf(a, n)'
    BY <1>3, <1>5, <2>2, <2>3 DEF Midway, WriterOf, Writers, OneKey
  <2> QED  BY <1>2, <2>1, <2>2, <2>4, AgreesAlone
<1>9. OwnedAt(n)
  <2> SUFFICES ASSUME Undisturbed', Owned(n) PROVE Owned(n)'
    BY DEF OwnedAt
  <2>1. Solitary(a, n)
    BY <1>2, <1>4, CreatorGoesOn DEF Types
  <2>2. (\A o \in spend[n] : Belongs(n, o)) /\ Entries(n) = {}
    <3>1. ~Deleting(a, n)
      BY <1>2 DEF Deleting
    <3> QED  BY <1>2, <1>4, <2>1, <3>1, SolitaryOwned DEF Owned
  <2>3. Once(n)' /\ (\A o \in spend'[n] : Belongs(n, o)') /\ Entries(n)' = {c}
    BY <1>2, <1>5, <2>2 DEF Belongs
  <2> QED  BY <1>2, <1>5, <2>1, <2>3, OwnedSolitary
<1>10. ListingsKept
  <2>1. StillBelong
    BY <1>3, <1>5 DEF StillBelong, Belongs, SameClients
  <2> QED  BY <1>2, <1>5, <2>1, ListingsGoOn DEF Types
<1>11. Kept
  BY <1>2, <1>4, <1>6, <1>7, <1>8, <1>9, <1>10, KeptFor
<1> QED  BY <1>2, <1>4, <1>11 DEF Keeps

LEMMA SetBudgetKeeps ==
  ASSUME Types, OverlapsSeen, NEW a \in Admins, SetBudget(a)
  PROVE  Keeps
<1>1. PICK c : c = call[a].client
  OBVIOUS
<1>2. /\ Types' /\ OthersKept(a) /\ Unbegun(a) /\ call[a].at = "budget" /\ c \in Client
      /\ call[a].operation \in {"create", "update"} /\ UNCHANGED <<clients, keys, spend>>
      /\ call'[a].at = "idle"
      /\ \A m \in Names : m # c.name => budgets'[m] = budgets[m]
      /\ BudgetSet(c)
  BY <1>1, SetBudgetDoes
<1>3. PICK n \in Names : n = c.name
  BY <1>2 DEF Client
<1>4. /\ OverlapsSeen' /\ overlapped \subseteq overlapped' /\ OnlyFor(a, n)
      /\ WriterOf(a, n) /\ (WritesApart' => Alone(a, n)) /\ Busy(a, n)
  BY <1>1, <1>2, <1>3, GoesOn DEF Writers
<1>5. /\ \A m : SameClients(m) /\ Entries(m)' = Entries(m)
      /\ \A m : SameKeys(m) /\ KeysOf(m)' = KeysOf(m)
  BY <1>2, ClientsUnchanged, KeysUnchanged DEF SameClients, SameKeys
<1>6. SameBut(n)
  BY <1>2, <1>3, <1>5 DEF SameBut, SameFor, SameTables
<1>7. PendingAt(n)
  <2> SUFFICES ASSUME Pending(n) PROVE Pending(n)'
    BY DEF PendingAt
  <2>1. \A b \in Admins : b # a => call'[b] = call[b] /\ (WriterOf(b, n)' <=> WriterOf(b, n))
    BY <1>2, OthersSame
  <2>2. ~WriterOf(a, n)'
    BY <1>2 DEF WriterOf
  <2> QED  BY <1>2, <1>5, <2>1, <2>2 DEF Pending
<1>8. AgreesAt(n)
  <2> SUFFICES ASSUME WritesApart', Agrees(n) PROVE Agrees(n)'
    BY DEF AgreesAt
  <2>1. Alone(a, n) /\ Once(n) /\ Midway(a, n)
    BY <1>4, AloneSettled
  <2>2. Entries(n)' = {c} /\ Once(n)' /\ OneKey(n, c.rpm)
    BY <1>1, <1>2, <1>5, <2>1 DEF Midway, SameClients
  <2>3. \E k \in Keys : KeysOf(n)' = {k} /\ keys'[k].rpm = c.rpm
    BY <1>2, <1>5, <2>2 DEF OneKey
  <2>4. Settled(n)' /\ ~WriterOf(a, n)'
    BY <1>2, <1>3, <2>2, <2>3 DEF Settled, OneKey, BudgetShown, BudgetSet, WriterOf
  <2> QED  BY <1>2, <2>1, <2>2, <2>4, AgreesAlone
<1>9. OwnedAt(n)
  <2> SUFFICES ASSUME Owned(n) PROVE Owned(n)'
    BY DEF OwnedAt
  <2>1. ~Busy(a, n)' /\ ~Deleting(a, n)' /\ ~Deleting(a, n)
    BY <1>2 DEF Busy, Deleting, WriterOf
  <2>2. SameOwners(n)
    BY <1>5, SameClientsSameOwners DEF Owned
  <2> QED  BY <1>2, <1>3, <2>1, <2>2, OwnedStays
<1>10. ListingsKept
  BY <1>2, ClientsStay, ListingsGoOn DEF Types
<1>11. Kept
  BY <1>2, <1>4, <1>6, <1>7, <1>8, <1>9, <1>10, KeptFor
<1> QED  BY <1>2, <1>4, <1>11 DEF Keeps

LEMMA UpdateClientKeeps ==
  ASSUME Types, OverlapsSeen, NEW a \in Admins, NEW identity \in Identities, NEW n \in Names,
         NEW rpm \in Rates \cup {None}, NEW budget \in Budgets \cup {None, Clear},
         NEW rotate \in BOOLEAN, UpdateClient(a, identity, n, rpm, budget, rotate)
  PROVE  Keeps
<1>1. /\ Types' /\ OthersKept(a) /\ UNCHANGED <<keys, budgets, spend>>
      /\ \/ call' = call /\ clients' = clients
         \/ \E i \in DOMAIN clients, c \in Client :
              /\ Carries(a, "update", "rotate", c)
              /\ clients \in Seq(Client) /\ clients' = [clients EXCEPT ![i] = c]
              /\ clients[i] \in Entries(n) /\ c.name = n /\ c.name = clients[i].name
              /\ c.organization = clients[i].organization
  BY UpdateClientDoes
<1>2. Begins(a, "update", n) /\ call[a].at = "idle" /\ overlapped \subseteq overlapped'
  BY BeginsNotes DEF UpdateClient
<1>3. CASE call' = call /\ clients' = clients
  BY <1>1, <1>2, <1>3, Untouched, NothingFound
<1>4. ASSUME NEW i \in DOMAIN clients, NEW c \in Client,
             Carries(a, "update", "rotate", c),
             clients \in Seq(Client), clients' = [clients EXCEPT ![i] = c],
             clients[i] \in Entries(n), c.name = n, c.name = clients[i].name,
             c.organization = clients[i].organization
      PROVE  Keeps
  <2>1. call'[a].operation = "update" /\ call'[a].at = "rotate" /\ call'[a].client = c
    BY <1>4 DEF Carries
  <2>2. /\ \A m : m # n => SameClients(m)
        /\ Named(n)' = Named(n) /\ (Once(n) => Once(n)' /\ Entries(n)' = {c})
        /\ \A m : SameKeys(m) /\ KeysOf(m)' = KeysOf(m)
    BY <1>1, <1>4, ClientReplaced, KeysUnchanged DEF SameKeys
  <2>3. Entries(n)' # {} /\ (Once(n) => Entries(n) = {clients[i]})
    <3>1. i \in Named(n) /\ i \in Named(n)'
      BY <1>4, <2>2 DEF Named
    <3> QED  BY <3>1 DEF Entries, Once
  <2>4. SameBut(n)
    BY <1>1, <2>2 DEF SameBut, SameFor, SameTables
  <2>5. OverlapsSeen'
    BY <1>1, <1>2, <1>4, <2>1, StartedOverlaps DEF Starts
  <2>6. OnlyFor(a, n)
    BY <1>2, <1>4, <2>1 DEF OnlyFor
  <2>7. PendingAt(n)
    BY <2>3 DEF PendingAt, Pending
  <2>8. AgreesAt(n)
    <3> SUFFICES ASSUME WritesApart', Agrees(n) PROVE Agrees(n)'
      BY DEF AgreesAt
    <3>1. Alone(a, n)
      BY <1>2, BeginsAlone DEF Writers
    <3>2. Once(n) /\ Settled(n)
      BY <1>2, <3>1, AloneSettled
    <3>3. Once(n)' /\ Entries(n)' = {c} /\ \E k \in Keys : KeysOf(n)' = {k}
      BY <1>4, <2>2, <3>2 DEF Settled, OneKey
    <3>4. WriterOf(a, n)' /\ Midway(a, n)'
      BY <1>4, <2>1, <3>3 DEF WriterOf, Writers, Midway
    <3> QED  BY <1>1, <3>1, <3>3, <3>4, AgreesAlone
  <2>9. OwnedAt(n)
    <3> SUFFICES ASSUME Owned(n) PROVE Owned(n)'
      BY DEF OwnedAt
    <3>1. Once(n)' /\ Entries(n)' = {c} /\ Entries(n) = {clients[i]}
      BY <2>2, <2>3 DEF Owned
    <3>2. SameOwners(n) /\ Belongs(n, c.organization)
      BY <1>4, <3>1 DEF SameOwners, Belongs
    <3>3. ~Deleting(a, n) /\ ~Deleting(a, n)'
      BY <1>2, <2>1 DEF Deleting, WriterOf
    <3> QED  BY <1>1, <2>1, <3>2, <3>3, OwnedStays
  <2>10. ListingsKept
    <3> SUFFICES ASSUME Undisturbed', \A m \in Names : Owned(m), Reported PROVE Reported'
      BY DEF ListingsKept
    <3>1. StillBelong
      <4>1. Owned(n)
        OBVIOUS
      <4>2. Entries(n)' = {c} /\ Entries(n) = {clients[i]}
        BY <2>2, <2>3, <4>1 DEF Owned
      <4> QED  BY <1>4, <2>2, <4>2 DEF StillBelong, Belongs, SameClients
    <3>2. ListingsKept
      BY <1>1, <2>1, <3>1, ListingsGoOn DEF Types
    <3> QED  BY <3>2 DEF ListingsKept
  <2>11. Kept
    BY <1>1, <2>4, <2>6, <2>7, <2>8, <2>9, <2>10, KeptFor
  <2> QED  BY <1>1, <1>2, <2>5, <2>11 DEF Keeps
<1> QED  BY <1>1, <1>3, <1>4

LEMMA UpdateKeyKeeps ==
  ASSUME Types, OverlapsSeen, NEW a \in Admins, UpdateKey(a)
  PROVE  Keeps
<1>1. PICK c : c = call[a].client
  OBVIOUS
<1>2. /\ Types' /\ OthersKept(a) /\ Unbegun(a) /\ call[a].at = "rotate" /\ c \in Client
      /\ call[a].operation = "update" /\ UNCHANGED <<clients, budgets, spend>>
      /\ Carries(a, "update", "budget", c)
      /\ \A m : m # c.name => SameKeys(m)
      /\ (\E k \in Keys : KeysOf(c.name) = {k}) =>
           \E k \in Keys : KeysOf(c.name)' = {k} /\ keys'[k] = [name |-> c.name, rpm |-> c.rpm]
  BY <1>1, UpdateKeyDoes
<1>3. PICK n \in Names : n = c.name
  BY <1>2 DEF Client
<1>4. /\ OverlapsSeen' /\ overlapped \subseteq overlapped' /\ OnlyFor(a, n)
      /\ WriterOf(a, n) /\ (WritesApart' => Alone(a, n)) /\ Busy(a, n)
  BY <1>1, <1>2, <1>3, GoesOn DEF Carries, Writers
<1>5. /\ \A m : SameClients(m) /\ Entries(m)' = Entries(m)
      /\ call'[a].at = "budget" /\ call'[a].operation = "update" /\ call'[a].client = c
  BY <1>2, ClientsUnchanged DEF SameClients, Carries
<1>6. SameBut(n)
  BY <1>2, <1>3, <1>5 DEF SameBut, SameFor, SameTables
<1>7. PendingAt(n)
  <2> SUFFICES ASSUME Pending(n) PROVE Pending(n)'
    BY DEF PendingAt
  <2>1. Entries(n)' # {}
    BY <1>2, <1>4, <1>5 DEF Pending
  <2> QED  BY <2>1 DEF Pending
<1>8. AgreesAt(n)
  <2> SUFFICES ASSUME WritesApart', Agrees(n) PROVE Agrees(n)'
    BY DEF AgreesAt
  <2>1. Alone(a, n) /\ Once(n) /\ Midway(a, n)
    BY <1>4, AloneSettled
  <2>2. Entries(n)' = {c} /\ Once(n)' /\ \E k \in Keys : KeysOf(n) = {k}
    BY <1>1, <1>2, <1>5, <2>1 DEF Midway, SameClients
  <2>3. \E k \in Keys : KeysOf(n)' = {k} /\ keys'[k].rpm = c.rpm
    BY <1>2, <1>3, <2>2
  <2>4. Midway(a, n)' /\ WriterOf(a, n)'
    BY <1>3, <1>5, <2>2, <2>3 DEF Midway, WriterOf, Writers, OneKey
  <2> QED  BY <1>2, <2>1, <2>2, <2>4, AgreesAlone
<1>9. OwnedAt(n)
  <2> SUFFICES ASSUME Owned(n) PROVE Owned(n)'
    BY DEF OwnedAt
  <2>1. ~Deleting(a, n)' /\ ~Deleting(a, n)
    BY <1>2, <1>5 DEF Deleting
  <2>2. SameOwners(n)
    BY <1>5, SameClientsSameOwners DEF Owned
  <2>3. Belongs(n, c.organization)
    BY <1>1, <1>2, <1>4 DEF Owned
  <2> QED  BY <1>2, <1>5, <2>1, <2>2, <2>3, OwnedStays
<1>10. ListingsKept
  BY <1>2, <1>5, ClientsStay, ListingsGoOn DEF Types
<1>11. Kept
  BY <1>2, <1>4, <1>6, <1>7, <1>8, <1>9, <1>10, KeptFor
<1> QED  BY <1>2, <1>4, <1>11 DEF Keeps

LEMMA DeleteClientKeeps ==
  ASSUME Types, OverlapsSeen, NEW a \in Admins, NEW identity \in Identities, NEW n \in Names,
         DeleteClient(a, identity, n)
  PROVE  Keeps
<1>1. /\ Types' /\ OthersKept(a) /\ UNCHANGED <<keys, budgets, spend>>
      /\ \A m : m # n => SameClients(m)
      /\ \A m : Once(m) => Once(m)'
      /\ Entries(n)' = {clients[i] : i \in Named(n) \ InScopeNamed(identity, n)}
      /\ \/ call' = call /\ SameClients(n)
         \/ \E c \in Entries(n) :
              /\ c \in Client /\ c.name = n /\ InScope(identity, c)
              /\ Carries(a, "delete", "revoke", c)
  BY DeleteClientDoes
<1>2. Begins(a, "delete", n) /\ call[a].at = "idle" /\ overlapped \subseteq overlapped'
  BY BeginsNotes DEF DeleteClient
<1>3. \A m : SameKeys(m) /\ KeysOf(m)' = KeysOf(m)
  BY <1>1, KeysUnchanged DEF SameKeys
<1>4. CASE call' = call /\ SameClients(n)
  <2>1. SameForAll
    BY <1>1, <1>3, <1>4 DEF SameForAll, SameFor, SameTables
  <2> QED  BY <1>1, <1>2, <1>4, <2>1, NothingFound
<1>5. ASSUME NEW c \in Entries(n), c \in Client, c.name = n, InScope(identity, c),
             Carries(a, "delete", "revoke", c)
      PROVE  Keeps
  <2>1. call'[a].operation = "delete" /\ call'[a].at = "revoke" /\ call'[a].client = c
    BY <1>5 DEF Carries
  <2>2. SameBut(n)
    BY <1>1, <1>3 DEF SameBut, SameFor, SameTables
  <2>3. OverlapsSeen'
    BY <1>1, <1>2, <1>5, <2>1, StartedOverlaps DEF Starts
  <2>4. OnlyFor(a, n) /\ WriterOf(a, n)' /\ Deleting(a, n)'
    BY <1>2, <1>5, <2>1 DEF OnlyFor, WriterOf, Deleting, Writers
  <2>5. Once(n) => Entries(n)' = {}
    <3> SUFFICES ASSUME Once(n) PROVE Named(n) \subseteq InScopeNamed(identity, n)
      BY <1>1
    <3>1. PICK i \in Named(n) : c = clients[i]
      BY DEF Entries
    <3>2. \A j \in Named(n) : j = i
      BY <3>1 DEF Once
    <3> QED  BY <1>5, <3>1, <3>2 DEF InScopeNamed
  <2>6. PendingAt(n)
    <3> SUFFICES ASSUME ~WroteBeside("update")', Pending(n) PROVE Pending(n)'
      BY DEF PendingAt
    <3>1. ASSUME NEW b \in Admins, WriterOf(b, n)', call'[b].at = "rotate" PROVE FALSE
      <4>1. b # a
        BY <2>1, <3>1
      <4>2. WriterOf(b, n) /\ call[b].at = "rotate"
        BY <1>1, <3>1, <4>1, OthersSame
      <4>3. call[b].operation = "update"
        BY <4>2 DEF Types, CallTypes, Staged
      <4>4. Concerns(b) \cap About("delete", n) # {} /\ call[b].at # "idle"
        BY <4>2, ConcernsOfWriter DEF About
      <4>5. {"delete", "update"} \in overlapped'
        BY <1>2, <4>3, <4>4, BeginsNotes
      <4>6. {"delete", "update"} \subseteq Writers /\ "update" \in {"delete", "update"}
        BY DEF Writers
      <4> QED  BY <4>5, <4>6 DEF WroteBeside
    <3> QED  BY <2>1, <2>4, <3>1 DEF Pending
  <2>7. AgreesAt(n)
    <3> SUFFICES ASSUME WritesApart', Agrees(n) PROVE Agrees(n)'
      BY DEF AgreesAt
    <3>1. Alone(a, n)
      BY <1>2, BeginsAlone DEF Writers
    <3>2. Once(n)' /\ Entries(n)' = {}
      BY <1>1, <2>5 DEF Agrees
    <3>3. Midway(a, n)'
      BY <2>1, <3>2 DEF Midway
    <3> QED  BY <1>1, <2>4, <3>1, <3>2, <3>3, AgreesAlone
  <2>8. OwnedAt(n)
    <3> SUFFICES ASSUME Undisturbed', Owned(n) PROVE Owned(n)'
      BY DEF OwnedAt
    <3>1. Solitary(a, n)
      BY <1>2, BeginsSolitary DEF Types
    <3>2. Once(n)' /\ Entries(n)' = {}
      BY <1>1, <2>5 DEF Owned
    <3> QED  BY <1>1, <2>1, <2>4, <3>1, <3>2, OwnedSolitary
  <2>9. ListingsKept
    <3> SUFFICES ASSUME Undisturbed', NEW b \in Admins, call'[b].at \in {"report", "answer"}
                 PROVE  FALSE
      BY DEF ListingsKept, Reported
    <3>1. Solitary(a, n)
      BY <1>2, BeginsSolitary DEF Types
    <3> QED  BY <1>1, <2>1, <3>1 DEF Solitary, OthersKept
  <2>10. Kept
    BY <1>1, <2>2, <2>4, <2>6, <2>7, <2>8, <2>9, KeptFor
  <2> QED  BY <1>1, <1>2, <2>3, <2>10 DEF Keeps
<1> QED  BY <1>1, <1>4, <1>5

LEMMA DeleteKeysKeeps ==
  ASSUME Types, OverlapsSeen, NEW a \in Admins, DeleteKeys(a)
  PROVE  Keeps
<1>1. PICK c : c = call[a].client
  OBVIOUS
<1>2. /\ Types' /\ OthersKept(a) /\ Unbegun(a) /\ call[a].at = "revoke" /\ c \in Client
      /\ call[a].operation = "delete" /\ UNCHANGED <<clients, budgets, spend>>
      /\ Carries(a, "delete", "forget", c)
      /\ \A m : m # c.name => SameKeys(m)
      /\ KeysOf(c.name)' = {}
  BY <1>1, DeleteKeysDoes
<1>3. PICK n \in Names : n = c.name
  BY <1>2 DEF Client
<1>4. /\ OverlapsSeen' /\ overlapped \subseteq overlapped' /\ OnlyFor(a, n)
      /\ WriterOf(a, n) /\ (WritesApart' => Alone(a, n)) /\ Busy(a, n)
  BY <1>1, <1>2, <1>3, GoesOn DEF Carries, Writers
<1>5. /\ \A m : SameClients(m) /\ Entries(m)' = Entries(m)
      /\ KeysOf(n)' = {}
      /\ call'[a].at = "forget" /\ call'[a].operation = "delete" /\ call'[a].client = c
      /\ WriterOf(a, n)' /\ Deleting(a, n)'
  BY <1>2, <1>3, ClientsUnchanged DEF SameClients, Carries, WriterOf, Writers, Deleting
<1>6. SameBut(n)
  BY <1>2, <1>3, <1>5 DEF SameBut, SameFor, SameTables
<1>7. PendingAt(n)
  <2> SUFFICES ASSUME Pending(n) PROVE Pending(n)'
    BY DEF PendingAt
  <2>1. \A b \in Admins : b # a => call'[b] = call[b] /\ (WriterOf(b, n)' <=> WriterOf(b, n))
    BY <1>2, OthersSame
  <2> QED  BY <1>5, <2>1 DEF Pending
<1>8. AgreesAt(n)
  <2> SUFFICES ASSUME WritesApart', Agrees(n) PROVE Agrees(n)'
    BY DEF AgreesAt
  <2>1. Alone(a, n) /\ Once(n) /\ Midway(a, n)
    BY <1>4, AloneSettled
  <2>2. Entries(n)' = {} /\ Once(n)'
    BY <1>2, <1>5, <2>1 DEF Midway, SameClients
  <2>3. Midway(a, n)'
    BY <1>5, <2>2 DEF Midway
  <2> QED  BY <1>2, <1>5, <2>1, <2>2, <2>3, AgreesAlone
<1>9. OwnedAt(n)
  <2> SUFFICES ASSUME Undisturbed', Owned(n) PROVE Owned(n)'
    BY DEF OwnedAt
  <2>1. Solitary(a, n)
    BY <1>2, <1>4, CreatorGoesOn DEF Types
  <2>2. Once(n)' /\ Entries(n)' = {}
    BY <1>2, <1>4, <1>5 DEF Owned, SameClients
  <2> QED  BY <1>2, <1>5, <2>1, <2>2, OwnedSolitary
<1>10. ListingsKept
  BY <1>2, <1>5, ClientsStay, ListingsGoOn DEF Types
<1>11. Kept
  BY <1>2, <1>4, <1>6, <1>7, <1>8, <1>9, <1>10, KeptFor
<1> QED  BY <1>2, <1>4, <1>11 DEF Keeps

LEMMA DeleteBudgetKeeps ==
  ASSUME Types, OverlapsSeen, NEW a \in Admins, DeleteBudget(a)
  PROVE  Keeps
<1>1. PICK c : c = call[a].client
  OBVIOUS
<1>2. /\ Types' /\ OthersKept(a) /\ Unbegun(a) /\ call[a].at = "forget" /\ c \in Client
      /\ call[a].operation = "delete" /\ UNCHANGED <<clients, keys>>
      /\ call'[a].at = "idle"
      /\ \A m \in Names : m # c.name => budgets'[m] = budgets[m] /\ spend'[m] = spend[m]
      /\ budgets'[c.name] = None /\ spend'[c.name] = {}
  BY <1>1, DeleteBudgetDoes
<1>3. PICK n \in Names : n = c.name
  BY <1>2 DEF Client
<1>4. /\ OverlapsSeen' /\ overlapped \subseteq overlapped' /\ OnlyFor(a, n)
      /\ WriterOf(a, n) /\ (WritesApart' => Alone(a, n)) /\ Busy(a, n)
  BY <1>1, <1>2, <1>3, GoesOn DEF Writers
<1>5. /\ \A m : SameClients(m) /\ Entries(m)' = Entries(m)
      /\ \A m : SameKeys(m) /\ KeysOf(m)' = KeysOf(m)
      /\ ~WriterOf(a, n)' /\ ~Busy(a, n)'
  BY <1>2, ClientsUnchanged, KeysUnchanged DEF SameClients, SameKeys, WriterOf, Busy
<1>6. SameBut(n)
  BY <1>2, <1>3, <1>5 DEF SameBut, SameFor, SameTables
<1>7. PendingAt(n)
  <2> SUFFICES ASSUME Pending(n) PROVE Pending(n)'
    BY DEF PendingAt
  <2>1. \A b \in Admins : b # a => call'[b] = call[b] /\ (WriterOf(b, n)' <=> WriterOf(b, n))
    BY <1>2, OthersSame
  <2> QED  BY <1>2, <1>5, <2>1 DEF Pending
<1>8. AgreesAt(n)
  <2> SUFFICES ASSUME WritesApart', Agrees(n) PROVE Agrees(n)'
    BY DEF AgreesAt
  <2>1. Alone(a, n) /\ Once(n) /\ Midway(a, n)
    BY <1>4, AloneSettled
  <2>2. Once(n)' /\ Entries(n)' = {} /\ KeysOf(n)' = {} /\ budgets'[n] = None
    BY <1>2, <1>3, <1>5, <2>1 DEF Midway, SameClients
  <2>3. Settled(n)'
    BY <2>2 DEF Settled
  <2> QED  BY <1>2, <1>5, <2>1, <2>2, <2>3, AgreesAlone
<1>9. OwnedAt(n)
  <2> SUFFICES ASSUME Undisturbed', Owned(n) PROVE Owned(n)'
    BY DEF OwnedAt
  <2>1. Solitary(a, n)
    BY <1>2, <1>4, CreatorGoesOn DEF Types
  <2>2. Once(n)'
    BY <1>5 DEF Owned, SameClients
  <2> QED  BY <1>2, <1>3, <1>5, <2>1, <2>2, OwnedSolitary
<1>10. ListingsKept
  BY <1>2, ClientsStay, ListingsGoOn DEF Types
<1>11. Kept
  BY <1>2, <1>4, <1>6, <1>7, <1>8, <1>9, <1>10, KeptFor
<1> QED  BY <1>2, <1>4, <1>11 DEF Keeps

(* Requests and resets write to none of the client's tables but its spend. *)
LEMMA ReadersKeep ==
  ASSUME NEW a \in Admins, OthersKept(a), NEW n, SameTables(n), NotWriter(a, n)
  PROVE  PendingAt(n) /\ AgreesAt(n)
<1>1. KeysOf(n)' = KeysOf(n) /\ Entries(n)' = Entries(n)
  BY DEF SameTables, SameKeys, SameClients
<1>2. PendingAt(n)
  BY <1>1, PendingElsewhere DEF PendingAt
<1>3. AgreesAt(n)
  BY AgreesElsewhere DEF AgreesAt
<1> QED  BY <1>2, <1>3

LEMMA StartsFor ==
  ASSUME Types, Types', OverlapsSeen, NEW a \in Admins, OthersKept(a),
         NEW operation \in {"request", "reset"}, NEW n \in Names, Begins(a, operation, n),
         UNCHANGED <<clients, keys, budgets, spend>>,
         NEW at \in {"charge", "zero"}, NEW c \in Entries(n), c \in Client, c.name = n,
         Carries(a, operation, at, c)
  PROVE  Keeps
<1>1. /\ call[a].at = "idle" /\ overlapped \subseteq overlapped'
      /\ call'[a].operation = operation /\ call'[a].at = at /\ call'[a].client = c
  BY BeginsNotes DEF Carries
<1>2. SameForAll /\ SameBut(n)
  BY Untouched, SameForAllBut
<1>3. OverlapsSeen'
  BY <1>1, StartedOverlaps DEF Starts
<1>4. OnlyFor(a, n)
  BY <1>1 DEF OnlyFor
<1>5. SameTables(n) /\ SameClients(n) /\ NotWriter(a, n)
  BY <1>1, <1>2 DEF SameForAll, SameFor, SameTables, NotWriter, WriterOf, Writers
<1>6. PendingAt(n) /\ AgreesAt(n)
  BY <1>5, ReadersKeep
<1>7. OwnedAt(n)
  <2> SUFFICES ASSUME Owned(n) PROVE Owned(n)'
    BY DEF OwnedAt
  <2>1. SameOwners(n)
    BY <1>5, SameClientsSameOwners DEF Owned
  <2>2. ~Deleting(a, n) /\ ~Deleting(a, n)' /\ Belongs(n, c.organization)
    BY <1>1 DEF Deleting, WriterOf, Belongs
  <2> QED  BY <1>1, <2>1, <2>2, OwnedStays
<1>8. ListingsKept
  BY <1>1, ClientsStay, ListingsGoOn DEF Types
<1>9. Kept
  BY <1>2, <1>4, <1>6, <1>7, <1>8, KeptFor
<1> QED  BY <1>1, <1>3, <1>9 DEF Keeps

LEMMA StartRequestKeeps ==
  ASSUME Types, OverlapsSeen, NEW a \in Admins, NEW k \in Keys, StartRequest(a, k)
  PROVE  Keeps
<1>1. /\ Types' /\ OthersKept(a) /\ UNCHANGED <<clients, keys, budgets, spend>>
      /\ k \in DOMAIN keys
  BY StartRequestDoes
<1>2. PICK n \in Names : n = keys[k].name
  BY <1>1 DEF Types, KeyEntry
<1>3. PICK c \in Entries(n) : c \in Client /\ c.name = n /\ Carries(a, "request", "charge", c)
  BY <1>2, StartRequestDoes
<1>4. Begins(a, "request", n)
  BY <1>2 DEF StartRequest
<1> QED  BY <1>1, <1>3, <1>4, StartsFor

LEMMA StartResetKeeps ==
  ASSUME Types, OverlapsSeen, NEW a \in Admins, NEW identity \in Identities, NEW n \in Names,
         StartReset(a, identity, n)
  PROVE  Keeps
<1>1. /\ Types' /\ OthersKept(a) /\ UNCHANGED <<clients, keys, budgets, spend>>
      /\ \/ call' = call
         \/ \E c \in Entries(n) : c \in Client /\ c.name = n /\ Carries(a, "reset", "zero", c)
  BY StartResetDoes
<1>2. Begins(a, "reset", n)
  BY DEF StartReset
<1>3. CASE call' = call
  BY <1>1, <1>2, <1>3, Untouched, NothingFound
<1>4. ASSUME NEW c \in Entries(n), c \in Client, c.name = n, Carries(a, "reset", "zero", c)
      PROVE  Keeps
  BY <1>1, <1>2, <1>4, StartsFor
<1> QED  BY <1>1, <1>3, <1>4

LEMMA EndsFor ==
  ASSUME Types, Types', OverlapsSeen, NEW a \in Admins, OthersKept(a), Unbegun(a),
         call[a].operation \in {"request", "reset"}, call[a].at \in {"charge", "zero"},
         call'[a].at = "idle", UNCHANGED <<clients, keys, budgets>>,
         NEW c \in Client, c = call[a].client,
         \A m \in Names : m # c.name => spend'[m] = spend[m],
         spend'[c.name] \subseteq spend[c.name] \cup {c.organization}
  PROVE  Keeps
<1>1. PICK n \in Names : n = c.name
  BY DEF Client
<1>2. OverlapsSeen' /\ overlapped \subseteq overlapped' /\ OnlyFor(a, n) /\ Busy(a, n)
  BY <1>1, GoesOn
<1>3. /\ SameTables(n) /\ SameBut(n) /\ SameClients(n)
  <2>1. \A m : SameClients(m) /\ SameKeys(m)
    BY ClientsUnchanged, KeysUnchanged
  <2> QED  BY <1>1, <2>1 DEF SameTables, SameBut, SameFor
<1>4. NotWriter(a, n) /\ ~Deleting(a, n) /\ ~Deleting(a, n)' /\ ~Busy(a, n)'
  BY DEF NotWriter, WriterOf, Writers, Deleting, Busy
<1>5. PendingAt(n) /\ AgreesAt(n)
  BY <1>3, <1>4, ReadersKeep
<1>6. OwnedAt(n)
  <2> SUFFICES ASSUME Owned(n) PROVE Owned(n)'
    BY DEF OwnedAt
  <2>1. SameOwners(n)
    BY <1>3, SameClientsSameOwners DEF Owned
  <2>2. Belongs(n, c.organization)
    BY <1>2 DEF Owned
  <2>3. \A o \in spend'[n] : o \in spend[n] \/ Belongs(n, o)
    BY <1>1, <2>2
  <2> QED  BY <1>4, <2>1, <2>3, OwnedStays
<1>7. ListingsKept
  BY ClientsStay, ListingsGoOn DEF Types
<1>8. Kept
  BY <1>2, <1>3, <1>5, <1>6, <1>7, KeptFor
<1> QED  BY <1>2, <1>8 DEF Keeps

LEMMA ChargeKeeps ==
  ASSUME Types, OverlapsSeen, NEW a \in Admins, Charge(a)
  PROVE  Keeps
<1>1. PICK c : c = call[a].client
  OBVIOUS
<1> QED  BY <1>1, ChargeDoes, EndsFor

LEMMA ResetSpendKeeps ==
  ASSUME Types, OverlapsSeen, NEW a \in Admins, ResetSpend(a)
  PROVE  Keeps
<1>1. PICK c : c = call[a].client
  OBVIOUS
<1>2. spend'[c.name] \subseteq spend[c.name] \cup {c.organization}
  BY <1>1, ResetSpendDoes
<1> QED  BY <1>1, <1>2, ResetSpendDoes, EndsFor

(* A listing reports to an organization what the names stand for.          *)
LEMMA StartListKeeps ==
  ASSUME Types, OverlapsSeen, NEW a \in Admins, NEW identity \in Identities, StartList(a, identity)
  PROVE  Keeps
<1>1. /\ Types' /\ OthersKept(a) /\ UNCHANGED <<clients, keys, budgets, spend>>
      /\ \/ call' = call
         \/ /\ Carries(a, "list", "report", None) /\ call'[a].identity = identity
            /\ call'[a].todo = ClientsOf(identity) /\ call'[a].rows = <<>>
  BY StartListDoes
<1>2. Begins(a, "list", None)
  BY DEF StartList
<1>3. SameForAll
  BY <1>1, Untouched
<1>4. CASE call' = call
  BY <1>1, <1>2, <1>3, <1>4, NothingFound
<1>5. CASE /\ Carries(a, "list", "report", None) /\ call'[a].identity = identity
           /\ call'[a].todo = ClientsOf(identity) /\ call'[a].rows = <<>>
  <2>1. /\ call[a].at = "idle" /\ overlapped \subseteq overlapped'
        /\ call'[a].operation = "list" /\ call'[a].at = "report"
    BY <1>2, <1>5, BeginsNotes DEF Carries
  <2>2. OverlapsSeen'
    BY <1>1, <1>2, <2>1, StartedOverlaps DEF Starts
  <2>3. Reads(a)
    BY <2>1 DEF Reads
  <2>4. Listed(call[a])'
    <3>1. PICK mine : mine = ClientsOf(identity)
      OBVIOUS
    <3>2. \A i \in DOMAIN mine : InScope(identity, mine[i]) /\ mine[i] \in Entries(mine[i].name)
      BY <3>1, ClientsListed
    <3>3. \A i \in DOMAIN mine : mine[i] \in Entries(mine[i].name)'
      BY <1>1, <3>2 DEF Entries, Named
    <3>4. DOMAIN <<>> = {}
      OBVIOUS
    <3> QED  BY <1>5, <3>1, <3>2, <3>3, <3>4 DEF Listed, Belongs
  <2>5. ListingsKept
    <3>1. StillBelong
      BY <1>3, SameStillBelong
    <3> SUFFICES ASSUME Reported, NEW b \in Admins, call'[b].at \in {"report", "answer"}, b # a
                 PROVE  Listed(call[b])'
      BY <2>4 DEF ListingsKept, Reported
    <3> QED  BY <1>1, <3>1, ListingStays DEF Types
  <2>6. Kept
    BY <1>1, <1>3, <2>3, <2>5, KeptForAll
  <2> QED  BY <1>1, <2>1, <2>2, <2>6 DEF Keeps
<1> QED  BY <1>1, <1>4, <1>5

LEMMA ReportedRows ==
  ASSUME NEW r \in Seq(Row), NEW row \in Row,
         NEW identity, InScope(identity, row.client),
         row.spent # None => row.spent \subseteq {row.client.organization},
         \A i \in DOMAIN r : /\ InScope(identity, r[i].client)
                             /\ r[i].spent # None => r[i].spent \subseteq {r[i].client.organization}
  PROVE  LET s == Append(r, row) IN
         \A i \in DOMAIN s : /\ InScope(identity, s[i].client)
                             /\ s[i].spent # None => s[i].spent \subseteq {s[i].client.organization}
<1>1. PICK s : s = Append(r, row)
  OBVIOUS
<1>2. DOMAIN s = 1..(Len(r) + 1) /\ s[Len(r) + 1] = row /\ \A i \in 1..Len(r) : s[i] = r[i]
      /\ DOMAIN r = 1..Len(r) /\ Len(r) \in Nat
  BY <1>1
<1>3. \A i \in DOMAIN s : i = Len(r) + 1 \/ i \in DOMAIN r
  BY <1>2
<1> QED  BY <1>1, <1>2, <1>3

LEMMA ReportClientKeeps ==
  ASSUME Types, OverlapsSeen, NEW a \in Admins, ReportClient(a)
  PROVE  Keeps
<1>1. PICK c : c = Head(call[a].todo)
  OBVIOUS
<1>2. PICK todo : todo = call[a].todo
  OBVIOUS
<1>3. PICK rows : rows = call[a].rows
  OBVIOUS
<1>4. PICK row : row = [client |-> c, spent |-> client_spend_status(c.name)]
  OBVIOUS
<1>5. PICK identity : identity = call[a].identity
  OBVIOUS
<1>6. /\ Types' /\ OthersKept(a) /\ Unbegun(a) /\ call[a].at = "report" /\ c \in Client
      /\ UNCHANGED <<clients, keys, budgets, spend>>
      /\ call[a].operation = "list" /\ call'[a].operation = "list" /\ call'[a].client = None
      /\ call'[a].identity = identity
      /\ todo \in Seq(Client) /\ todo # <<>> /\ rows \in Seq(Row)
      /\ call'[a].todo = Tail(todo) /\ call'[a].rows = Append(rows, row)
  BY <1>1, <1>2, <1>3, <1>4, <1>5, ReportClientDoes
<1>7. SameForAll /\ StillBelong
  BY <1>6, Untouched, SameStillBelong
<1>8. Reads(a)
  BY <1>6 DEF Reads
<1>9. OverlapsSeen' /\ overlapped \subseteq overlapped'
  <2>1. call[a].client = None
    BY <1>6 DEF Types, CallTypes, Staged
  <2> QED  BY <1>6, <2>1, ContinuedOverlaps DEF Continues, Unbegun
<1>10. ASSUME Undisturbed', \A n \in Names : Owned(n), Reported PROVE Listed(call[a])'
  <2>1. Listed(call[a])
    BY <1>6, <1>10 DEF Reported
  <2>2. /\ \A i \in DOMAIN todo : InScope(identity, todo[i]) /\ Belongs(todo[i].name, todo[i].organization)
        /\ \A i \in DOMAIN rows : /\ InScope(identity, rows[i].client)
                                  /\ rows[i].spent # None => rows[i].spent \subseteq {rows[i].client.organization}
    BY <1>2, <1>3, <1>5, <2>1 DEF Listed
  <2>3. PICK l \in Nat : l = Len(todo)
    BY <1>6
  <2>4. l # 0 /\ c = todo[1] /\ 1 \in DOMAIN todo
    BY <1>1, <1>2, <1>6, <2>3
  <2>5. /\ DOMAIN Tail(todo) = 1..(l - 1)
        /\ \A i \in 1..(l - 1) : Tail(todo)[i] = todo[i + 1] /\ i + 1 \in DOMAIN todo
    BY <1>6, <2>3, <2>4
  <2>6. InScope(identity, c) /\ Belongs(c.name, c.organization)
    BY <2>2, <2>4
  <2>7. PICK n \in Names : n = c.name
    BY <1>6 DEF Client
  <2>8. Undisturbed
    BY <1>6, <1>10, FewerOverlaps DEF Unbegun
  <2>9. \A b \in Admins : ~Deleting(b, n)
    <3> SUFFICES ASSUME NEW b \in Admins, Deleting(b, n) PROVE FALSE
      OBVIOUS
    <3>1. b # a /\ call[b].operation = "delete" /\ WriterOf(b, n)
      BY <1>6 DEF Deleting
    <3>2. Solitary(b, n)
      BY <2>8, <3>1, CreatorSolitary DEF Types
    <3> QED  BY <1>6, <3>1, <3>2 DEF Solitary
  <2>10. spend[n] \subseteq {c.organization}
    <3>1. Owned(n)
      BY <1>10
    <3>2. ASSUME NEW o \in spend[n] PROVE o = c.organization
      <4>1. Once(n) /\ Belongs(n, o) /\ Belongs(n, c.organization)
        BY <2>6, <2>7, <2>9, <3>1 DEF Owned
      <4> QED  BY <4>1 DEF Belongs, Entries, Once
    <3> QED  BY <3>2
  <2>11. row \in Row /\ row.client = c /\ (row.spent # None => row.spent \subseteq {c.organization})
    BY <1>4, <1>6, <2>7, <2>10 DEF Row, client_spend_status, Types
  <2>12. PICK s : s = Append(rows, row)
    OBVIOUS
  <2>13. \A i \in DOMAIN s : /\ InScope(identity, s[i].client)
                             /\ s[i].spent # None => s[i].spent \subseteq {s[i].client.organization}
    BY <1>6, <2>2, <2>6, <2>11, <2>12, ReportedRows
  <2>14. PICK t : t = Tail(todo)
    OBVIOUS
  <2>15. ASSUME NEW i \in DOMAIN t
         PROVE  InScope(identity, t[i]) /\ Belongs(t[i].name, t[i].organization)'
    <3>1. i \in 1..(l - 1) /\ t[i] = todo[i + 1] /\ i + 1 \in DOMAIN todo
      BY <2>5, <2>14, <2>15
    <3>2. PICK d : d = todo[i + 1]
      OBVIOUS
    <3>3. d \in Client
      BY <1>6, <3>1, <3>2
    <3>4. d.name \in Names /\ InScope(identity, d) /\ Belongs(d.name, d.organization)
      BY <2>2, <3>1, <3>2, <3>3 DEF Client
    <3> QED  BY <1>7, <3>1, <3>2, <3>4 DEF StillBelong
  <2> QED  BY <1>6, <2>12, <2>13, <2>14, <2>15 DEF Listed
<1>11. ListingsKept
  <2> SUFFICES ASSUME Undisturbed', \A n \in Names : Owned(n), Reported,
                      NEW b \in Admins, call'[b].at \in {"report", "answer"}, b # a
               PROVE  Listed(call[b])'
    BY <1>10 DEF ListingsKept, Reported
  <2> QED  BY <1>6, <1>7, ListingStays DEF Types
<1>12. Kept
  BY <1>6, <1>7, <1>8, <1>11, KeptForAll
<1> QED  BY <1>6, <1>9, <1>12 DEF Keeps

LEMMA AnswerListKeeps ==
  ASSUME Types, OverlapsSeen, NEW a \in Admins, AnswerList(a)
  PROVE  Keeps
<1>1. /\ Types' /\ OthersKept(a) /\ Unbegun(a) /\ call[a].at = "answer"
      /\ call[a].operation = "list" /\ UNCHANGED <<clients, keys, budgets, spend>>
      /\ call'[a].at = "idle"
  BY AnswerListDoes
<1>2. SameForAll /\ Reads(a)
  BY <1>1, Untouched DEF Reads
<1>3. OverlapsSeen' /\ overlapped \subseteq overlapped'
  BY <1>1, ContinuedOverlaps DEF Continues, Unbegun
<1>4. ListingsKept
  BY <1>1, ClientsStay, ListingsGoOn DEF Types
<1>5. Kept
  BY <1>1, <1>2, <1>4, KeptForAll
<1> QED  BY <1>1, <1>3, <1>5 DEF Keeps

-----------------------------------------------------------------------------
(* Every step keeps them.                                                  *)
LEMMA EveryStepKeeps ==
  ASSUME Types, OverlapsSeen, [Next]_vars
  PROVE  Types' /\ OverlapsSeen' /\ overlapped \subseteq overlapped'
         /\ (UNCHANGED vars \/ Kept)
<1>1. CASE Next
  <2>1. PICK a \in Admins :
          \/ \E identity \in Identities :
               \/ \E c \in NewClients, key \in Keys \cup {None} : CreateCheckName(a, identity, c, key)
               \/ \E n \in Names, rpm \in Rates \cup {None}, budget \in Budgets \cup {None, Clear},
                    rotate \in BOOLEAN : UpdateClient(a, identity, n, rpm, budget, rotate)
               \/ \E n \in Names : DeleteClient(a, identity, n) \/ StartReset(a, identity, n)
               \/ StartList(a, identity)
          \/ \E k \in Keys : StartRequest(a, k)
          \/ CreateInsertKey(a) \/ CreatePush(a) \/ UpdateKey(a) \/ SetBudget(a)
          \/ DeleteKeys(a) \/ DeleteBudget(a)
          \/ Charge(a) \/ ResetSpend(a) \/ ReportClient(a) \/ AnswerList(a)
    BY <1>1, Zenon DEF Next
  <2>2. ASSUME NEW identity \in Identities, NEW c \in NewClients, NEW key \in Keys \cup {None},
               CreateCheckName(a, identity, c, key)
        PROVE  Keeps
    BY <2>2, CreateCheckNameKeeps
  <2>3. ASSUME NEW identity \in Identities, NEW n \in Names, NEW rpm \in Rates \cup {None},
               NEW budget \in Budgets \cup {None, Clear}, NEW rotate \in BOOLEAN,
               UpdateClient(a, identity, n, rpm, budget, rotate)
        PROVE  Keeps
    BY <2>3, UpdateClientKeeps
  <2>4. ASSUME NEW identity \in Identities, NEW n \in Names, DeleteClient(a, identity, n)
        PROVE  Keeps
    BY <2>4, DeleteClientKeeps
  <2>5. ASSUME NEW identity \in Identities, NEW n \in Names, StartReset(a, identity, n)
        PROVE  Keeps
    BY <2>5, StartResetKeeps
  <2>6. ASSUME NEW identity \in Identities, StartList(a, identity) PROVE Keeps
    BY <2>6, StartListKeeps
  <2>7. ASSUME NEW k \in Keys, StartRequest(a, k) PROVE Keeps
    BY <2>7, StartRequestKeeps
  <2>8. CASE CreateInsertKey(a)
    BY <2>8, CreateInsertKeyKeeps DEF Keeps
  <2>9. CASE CreatePush(a)
    BY <2>9, CreatePushKeeps DEF Keeps
  <2>10. CASE UpdateKey(a)
    BY <2>10, UpdateKeyKeeps DEF Keeps
  <2>11. CASE SetBudget(a)
    BY <2>11, SetBudgetKeeps DEF Keeps
  <2>12. CASE DeleteKeys(a)
    BY <2>12, DeleteKeysKeeps DEF Keeps
  <2>13. CASE DeleteBudget(a)
    BY <2>13, DeleteBudgetKeeps DEF Keeps
  <2>14. CASE Charge(a)
    BY <2>14, ChargeKeeps DEF Keeps
  <2>15. CASE ResetSpend(a)
    BY <2>15, ResetSpendKeeps DEF Keeps
  <2>16. CASE ReportClient(a)
    BY <2>16, ReportClientKeeps DEF Keeps
  <2>17. CASE AnswerList(a)
    BY <2>17, AnswerListKeeps DEF Keeps
  <2> QED  BY <2>1, <2>2, <2>3, <2>4, <2>5, <2>6, <2>7, <2>8, <2>9, <2>10, <2>11, <2>12, <2>13,
              <2>14, <2>15, <2>16, <2>17 DEF Keeps
<1>2. CASE UNCHANGED vars
  <2>1. Types'
    BY <1>2 DEF vars, Types, CallTypes
  <2>2. OverlapsSeen'
    <3>1. \A a \in Admins : Concerns(a)' = Concerns(a)
      BY <1>2 DEF vars, Concerns, About
    <3> QED  BY <1>2, <3>1 DEF vars, OverlapsSeen
  <2> QED  BY <1>2, <2>1, <2>2 DEF vars
<1> QED  BY <1>1, <1>2

PendingInv == ~WroteBeside("update") => \A n \in Names : Pending(n)

LEMMA InvariantsUnchanged ==
  ASSUME UNCHANGED vars
  PROVE  /\ PendingInv => PendingInv'
         /\ AgreementInv => AgreementInv'
         /\ SpendInv => SpendInv'
<1>1. /\ UNCHANGED <<clients, keys, budgets, spend, call, overlapped>>
  BY DEF vars
<1>2. PendingInv => PendingInv'
  BY <1>1 DEF PendingInv, WroteBeside, Pending, KeysOf, Entries, Named, WriterOf
<1>3. SameForAll /\ \A n : SameTables(n) /\ SameClients(n)
  <2>1. \A n : SameClients(n) /\ SameKeys(n)
    BY <1>1, ClientsUnchanged, KeysUnchanged
  <2> QED  BY <1>1, <2>1 DEF SameForAll, SameFor, SameTables
<1>4. AgreementInv => AgreementInv'
  <2>1. WritesApart' <=> WritesApart
    BY <1>1 DEF WritesApart, WroteBeside
  <2>2. ASSUME NEW n \in Names, Agrees(n) PROVE Agrees(n)'
    <3>1. Once(n)'
      BY <1>3, <2>2 DEF Agrees, SameClients
    <3>2. \A b \in Admins : WriterOf(b, n)' <=> WriterOf(b, n)
      BY <1>1 DEF WriterOf
    <3>3. Settled(n)' <=> Settled(n)
      BY <1>3, SameTablesSettled
    <3>4. \A b \in Admins : Midway(b, n) => Midway(b, n)'
      BY <1>1, <1>3, SameTablesSettled DEF Midway
    <3> QED  BY <2>2, <3>1, <3>2, <3>3, <3>4 DEF Agrees
  <2> QED  BY <2>1, <2>2 DEF AgreementInv
<1>5. SpendInv => SpendInv'
  <2>1. Undisturbed' <=> Undisturbed
    BY <1>1 DEF Undisturbed
  <2>2. \A m, o : Belongs(m, o)' <=> Belongs(m, o)
    BY <1>1 DEF Belongs, Entries, Named
  <2>3. Reported => Reported'
    BY <1>1 DEF Reported, Listed, Belongs, Entries, Named
  <2>4. ASSUME NEW n \in Names, Owned(n) PROVE Owned(n)'
    BY <1>1, <2>4 DEF Owned, Once, Belongs, Entries, Named, Deleting, WriterOf, Busy
  <2> QED  BY <2>1, <2>3, <2>4 DEF SpendInv
<1> QED  BY <1>2, <1>4, <1>5

LEMMA InvariantsKept ==
  ASSUME Types, OverlapsSeen, [Next]_vars
  PROVE  /\ PendingInv => PendingInv'
         /\ AgreementInv => AgreementInv'
         /\ SpendInv => SpendInv'
<1>1. CASE UNCHANGED vars
  BY <1>1, InvariantsUnchanged
<1>2. CASE Kept
  <2>1. /\ ~WroteBeside("update")' => ~WroteBeside("update")
        /\ WritesApart' => WritesApart
        /\ Undisturbed' => Undisturbed
    BY EveryStepKeeps, FewerOverlaps
  <2>2. PendingInv => PendingInv'
    BY <1>2, <2>1 DEF PendingInv, Kept, PendingAt
  <2>3. AgreementInv => AgreementInv'
    BY <1>2, <2>1 DEF AgreementInv, Kept, AgreesAt
  <2>4. SpendInv => SpendInv'
    BY <1>2, <2>1 DEF SpendInv, Kept, OwnedAt, ListingsKept
  <2> QED  BY <2>2, <2>3, <2>4
<1> QED  BY <1>1, <1>2, EveryStepKeeps

-----------------------------------------------------------------------------
(* At startup.                                                             *)
(* Hypotheses on config.toml that nothing at startup checks: the names of  *)
(* its clients are distinct, and each has one key.                         *)
ConfiguredApart ==
  \A i, j \in DOMAIN Configured : Configured[i].name = Configured[j].name => i = j

ConfiguredWithKeys ==
  \A i \in DOMAIN Configured :
    \E k \in DOMAIN ConfiguredKeys :
      /\ ConfiguredKeys[k].rpm = Configured[i].rpm
      /\ \A j \in DOMAIN ConfiguredKeys : ConfiguredKeys[j].name = Configured[i].name <=> j = k

LEMMA InitIdle ==
  ASSUME Init
  PROVE  /\ \A a \in Admins : call[a].at = "idle"
         /\ \A a \in Admins : \A n : ~WriterOf(a, n) /\ ~Busy(a, n) /\ ~Deleting(a, n)
         /\ overlapped = {} /\ clients = Configured /\ keys = ConfiguredKeys
<1>1. \A a \in Admins : call[a].at = "idle"
  BY DEF Init, IdleCall
<1> QED  BY <1>1 DEF Init, WriterOf, Busy, Deleting

LEMMA InitOverlapsSeen == Init => OverlapsSeen
BY InitIdle DEF OverlapsSeen

LEMMA InitPending == Init => PendingInv
<1> SUFFICES ASSUME Init, NEW n \in Names PROVE Pending(n)
  BY DEF PendingInv
<1>1. ASSUME NEW k \in KeysOf(n) PROVE Entries(n) # {}
  <2>1. k \in DOMAIN ConfiguredKeys /\ ConfiguredKeys[k].name = n
    BY InitIdle DEF KeysOf
  <2>2. PICK i \in DOMAIN Configured :
          ConfiguredKeys[k] = [name |-> Configured[i].name, rpm |-> Configured[i].rpm]
    BY <2>1, AdminAssumption
  <2>3. i \in Named(n)
    BY <2>1, <2>2, InitIdle DEF Named
  <2> QED  BY <2>3 DEF Entries
<1> QED  BY <1>1, InitIdle DEF Pending

LEMMA InitOnce ==
  ASSUME Init, ConfiguredApart, NEW n
  PROVE  Once(n)
BY InitIdle DEF ConfiguredApart, Once, Named

LEMMA InitAgreement == ASSUME ConfiguredApart, ConfiguredWithKeys PROVE Init => AgreementInv
<1> SUFFICES ASSUME Init, NEW n \in Names PROVE Agrees(n)
  BY DEF AgreementInv
<1>1. Once(n)
  BY InitOnce
<1>2. Entries(n) = {} => KeysOf(n) = {} /\ budgets[n] = None
  <2> SUFFICES ASSUME Entries(n) = {} PROVE KeysOf(n) = {} /\ budgets[n] = None
    OBVIOUS
  <2>1. Named(n) = {}
    BY DEF Entries
  <2>2. budgets[n] = None
    BY <2>1 DEF Init
  <2>3. ASSUME NEW k \in KeysOf(n) PROVE FALSE
    <3>1. k \in DOMAIN ConfiguredKeys /\ ConfiguredKeys[k].name = n
      BY InitIdle DEF KeysOf
    <3>2. PICK i \in DOMAIN Configured :
            ConfiguredKeys[k] = [name |-> Configured[i].name, rpm |-> Configured[i].rpm]
      BY <3>1, AdminAssumption
    <3>3. i \in Named(n)
      BY <3>1, <3>2, InitIdle DEF Named
    <3> QED  BY <2>1, <3>3
  <2> QED  BY <2>2, <2>3
<1>3. ASSUME NEW c \in Entries(n) PROVE OneKey(n, c.rpm) /\ BudgetShown(n, c.budget)
  <2>1. PICK i \in Named(n) : c = clients[i]
    BY DEF Entries
  <2>2. i \in DOMAIN Configured /\ c = Configured[i] /\ c.name = n
    BY <2>1, InitIdle DEF Named
  <2>3. c \in Client
    BY <2>2, AdminAssumption
  <2>4. OneKey(n, c.rpm)
    <3>1. PICK k \in DOMAIN ConfiguredKeys :
            /\ ConfiguredKeys[k].rpm = Configured[i].rpm
            /\ \A j \in DOMAIN ConfiguredKeys : ConfiguredKeys[j].name = Configured[i].name <=> j = k
      BY <2>2 DEF ConfiguredWithKeys
    <3>2. KeysOf(n) = {k} /\ keys[k].rpm = c.rpm /\ k \in Keys
      BY <2>2, <3>1, InitIdle, AdminAssumption DEF KeysOf
    <3> QED  BY <3>2 DEF OneKey
  <2>5. budgets[n] = SettingOf(c.budget, TRUE)
    <3>1. Named(n) # {} /\ \A j \in Named(n) : j = i
      BY <1>1, <2>1 DEF Once
    <3>2. (CHOOSE j \in Named(n) : TRUE) = i
      BY <3>1
    <3> QED  BY <2>1, <3>1, <3>2 DEF Init
  <2>6. c.budget \in Budgets \cup {None} /\ None \notin Setting
    BY <2>3, AdminAssumption DEF Client
  <2>7. BudgetShown(n, c.budget)
    <3>1. c.budget # None => SettingOf(c.budget, TRUE) \in Setting /\ SettingOf(c.budget, TRUE).budget = c.budget
      BY <2>6 DEF SettingOf, Setting
    <3> QED  BY <2>5, <2>6, <3>1 DEF BudgetShown, SettingOf
  <2> QED  BY <2>4, <2>7
<1>4. Settled(n)
  BY <1>2, <1>3 DEF Settled
<1> QED  BY <1>1, <1>4, InitIdle DEF Agrees

LEMMA InitSpend == ASSUME ConfiguredApart PROVE Init => SpendInv
<1> SUFFICES ASSUME Init PROVE (\A n \in Names : Owned(n)) /\ Reported
  BY DEF SpendInv
<1>1. ASSUME NEW n \in Names PROVE Owned(n)
  <2>1. Once(n) /\ spend[n] = {}
    BY InitOnce DEF Init
  <2> QED  BY <2>1, InitIdle DEF Owned
<1>2. Reported
  BY InitIdle DEF Reported
<1> QED  BY <1>1, <1>2

-----------------------------------------------------------------------------
(* The calls and the tables have their types, and calls in progress        *)
(* together for one name are on record, in every state.                    *)
THEOREM OverlapsAreSeen == Spec => [](Types /\ OverlapsSeen)
<1>1. Init => Types /\ OverlapsSeen
  BY InitTypes, InitOverlapsSeen
<1>2. Types /\ OverlapsSeen /\ [Next]_vars => Types' /\ OverlapsSeen'
  BY EveryStepKeeps
<1> QED  BY <1>1, <1>2, PTL DEF Spec

(* As long as no PATCH overlaps another change of its client, every key is *)
(* that of a listed client once the changes are done: a DELETE leaves none *)
(* behind, whatever overlaps it.  No hypothesis on the configuration is    *)
(* needed: a key is only ever configured with a client.                    *)
THEOREM KeysAlwaysHaveClients == Spec => [](~Writing => KeysHaveClients)
<1>1. Init => PendingInv
  BY InitPending
<1>2. Types /\ OverlapsSeen /\ [Next]_vars /\ PendingInv => PendingInv'
  BY InvariantsKept
<1>3. Types /\ PendingInv => (~Writing => KeysHaveClients)
  <2> SUFFICES ASSUME Types, PendingInv, ~Writing, ~WroteBeside("update"), NEW k \in DOMAIN keys
               PROVE  Named(keys[k].name) # {}
    BY DEF KeysHaveClients
  <2>1. PICK n \in Names : n = keys[k].name
    BY DEF Types, KeyEntry
  <2>2. Pending(n) /\ k \in KeysOf(n)
    BY <2>1 DEF PendingInv, KeysOf
  <2>3. \A a \in Admins : ~WriterOf(a, n)
    BY DEF Writing, WriterOf
  <2>4. Entries(n) # {}
    BY <2>2, <2>3 DEF Pending
  <2> QED  BY <2>1, <2>4 DEF Entries
<1> QED  BY <1>1, <1>2, <1>3, OverlapsAreSeen, PTL DEF Spec

(* Changes of one client that do not overlap leave the list, the keys and  *)
(* the budgets of the router in agreement, whatever else runs beside them  *)
(* and however the changes of other clients are interleaved with theirs.   *)
THEOREM ClientTablesInSync == ASSUME ConfiguredApart, ConfiguredWithKeys PROVE Spec => []TablesInSync
<1>1. Init => AgreementInv
  BY InitAgreement
<1>2. Types /\ OverlapsSeen /\ [Next]_vars /\ AgreementInv => AgreementInv'
  BY InvariantsKept
<1>3. Types /\ AgreementInv /\ (~Writing => KeysHaveClients) => TablesInSync
  <2> SUFFICES ASSUME Types, AgreementInv, ~Writing, WritesApart PROVE InAgreement
    BY DEF TablesInSync, WritesApart
  <2>1. ASSUME NEW n \in Names PROVE Once(n) /\ Settled(n)
    <3>1. \A a \in Admins : ~WriterOf(a, n)
      BY DEF Writing, WriterOf
    <3> QED  BY <3>1 DEF AgreementInv, Agrees
  <2>2. ASSUME NEW i \in DOMAIN clients
        PROVE  LET c == clients[i] IN OneKey(c.name, c.rpm) /\ BudgetShown(c.name, c.budget)
    <3>1. clients[i].name \in Names
      <4>1. clients[i] \in Client
        BY DEF Types
      <4> QED  BY <4>1 DEF Client
    <3>2. clients[i] \in Entries(clients[i].name)
      BY DEF Entries, Named
    <3> QED  BY <2>1, <3>1, <3>2 DEF Settled
  <2>3. ASSUME NEW n \in Names, Named(n) = {} PROVE budgets[n] = None
    <3>1. Entries(n) = {}
      BY <2>3 DEF Entries
    <3> QED  BY <2>1, <3>1 DEF Settled
  <2> QED  BY <2>1, <2>2, <2>3 DEF InAgreement, Once, OneKey, BudgetShown
<1> QED  BY <1>1, <1>2, <1>3, OverlapsAreSeen, KeysAlwaysHaveClients, PTL DEF Spec

LEMMA GroupsAreApart ==
  ASSUME NEW rows \in Seq(Row)
  PROVE  LET groups == Grouped(rows) IN
         /\ \A i, j \in DOMAIN groups : i # j => groups[i].organization # groups[j].organization
         /\ \A i \in DOMAIN groups :
              /\ \E k \in DOMAIN rows : rows[k].client.organization = groups[i].organization
              /\ \A j \in DOMAIN groups[i].clients : \E k \in DOMAIN rows :
                   /\ groups[i].clients[j] = rows[k]
                   /\ rows[k].client.organization = groups[i].organization
<1> DEFINE SameAs(i) == {j \in DOMAIN rows : rows[j].client.organization = rows[i].client.organization}
           F == {i \in DOMAIN rows : \A j \in SameAs(i) : i <= j}
           first == Retained([i \in DOMAIN rows |-> i], F)
           groups == Grouped(rows)
<1>1. PICK m \in Nat : m = Len(rows) /\ DOMAIN rows = 1..m
  OBVIOUS
<1>2. PICK s : s = [i \in DOMAIN rows |-> i]
  OBVIOUS
<1>3. s \in Seq(Nat) /\ Len(s) = m /\ \A i \in 1..m : s[i] = i
  BY <1>1, <1>2
<1>4. PICK e : Embeds(Nat, s, F, m, first, e)
  BY <1>2, <1>3, RetainedEmbeds
<1>5. PICK f : f = first
  OBVIOUS
<1>6. PICK l \in Nat : l = Len(f) /\ DOMAIN f = 1..l
  <2>1. f \in Seq(Nat)
    BY <1>4, <1>5 DEF Embeds
  <2> QED  BY <2>1
<1>7. /\ \A g \in 1..l : f[g] = e[g] /\ e[g] \in F /\ e[g] \in 1..m
      /\ \A g, h \in 1..l : g < h => e[g] < e[h]
  <2>1. e \in [1..l -> F \cap (1..m)]
    BY <1>4, <1>5, <1>6 DEF Embeds
  <2>2. \A g \in 1..l : e[g] \in F \cap (1..m)
    BY <2>1
  <2>3. \A g \in 1..l : f[g] = s[e[g]]
    BY <1>4, <1>5, <1>6 DEF Embeds
  <2>4. \A g, h \in 1..l : g < h => e[g] < e[h]
    BY <1>4, <1>5, <1>6 DEF Embeds
  <2> QED  BY <1>3, <2>2, <2>3, <2>4
<1>8. /\ DOMAIN groups = 1..l
      /\ \A g \in 1..l : /\ groups[g].organization = rows[f[g]].client.organization
                         /\ groups[g].clients = Retained(rows, SameAs(f[g]))
  BY <1>5, <1>6 DEF Grouped
<1> HIDE DEF groups, first
<1>9. ASSUME NEW g \in 1..l, NEW h \in 1..l, g < h
      PROVE  groups[g].organization # groups[h].organization
  <2> SUFFICES ASSUME groups[g].organization = groups[h].organization PROVE FALSE
    OBVIOUS
  <2>1. /\ e[g] \in F /\ e[h] \in F /\ e[g] \in DOMAIN rows /\ e[h] \in DOMAIN rows
        /\ e[g] < e[h] /\ e[g] \in Nat /\ e[h] \in Nat
    BY <1>1, <1>7, <1>9
  <2>2. rows[e[g]].client.organization = rows[e[h]].client.organization
    BY <1>7, <1>8
  <2>3. e[g] \in SameAs(e[h])
    BY <2>1, <2>2
  <2>4. e[h] <= e[g]
    BY <2>1, <2>3
  <2> QED  BY <2>1, <2>4
<1>10. ASSUME NEW g \in 1..l, NEW j \in DOMAIN groups[g].clients
       PROVE  \E k \in DOMAIN rows : /\ groups[g].clients[j] = rows[k]
                                     /\ rows[k].client.organization = groups[g].organization
  <2>1. PICK r : r = Retained(rows, SameAs(f[g]))
    OBVIOUS
  <2>2. PICK d : Embeds(Row, rows, SameAs(f[g]), Len(rows), r, d)
    BY <2>1, RetainedEmbeds
  <2>3. r \in Seq(Row) /\ d \in [1..Len(r) -> SameAs(f[g]) \cap (1..m)]
        /\ \A i \in 1..Len(r) : r[i] = rows[d[i]]
    BY <1>1, <2>2 DEF Embeds
  <2>4. r = groups[g].clients /\ j \in 1..Len(r)
    BY <1>8, <2>1, <2>3
  <2>5. d[j] \in SameAs(f[g]) /\ groups[g].clients[j] = rows[d[j]]
    BY <2>3, <2>4
  <2> QED  BY <1>8, <2>5
<1>11. ASSUME NEW i \in 1..l, NEW j \in 1..l, i # j
       PROVE  groups[i].organization # groups[j].organization
  <2>1. CASE i < j
    BY <1>9, <2>1
  <2>2. CASE j < i
    BY <1>9, <2>2
  <2> QED  BY <1>11, <2>1, <2>2
<1>12. \A i \in 1..l : \E k \in DOMAIN rows : rows[k].client.organization = groups[i].organization
  BY <1>1, <1>7, <1>8
<1> QED  BY <1>8, <1>10, <1>11, <1>12 DEF groups

(* Unless the creation or the deletion of a client overlaps something else *)
(* for its name, what is spent under a name is spent by the organization   *)
(* of the client that has it, and that is what listings show: of the       *)
(* caller's scope only, and every organization once.                       *)
THEOREM SpendIsOwn == ASSUME ConfiguredApart PROVE Spec => []SpendStaysInOrganization
<1>1. Init => SpendInv
  BY InitSpend
<1>2. Types /\ OverlapsSeen /\ [Next]_vars /\ SpendInv => SpendInv'
  BY InvariantsKept
<1>3. Types /\ SpendInv => SpendStaysInOrganization
  <2> SUFFICES ASSUME Types, Undisturbed, \A n \in Names : Owned(n), Reported
               PROVE  SpendStaysInOrganization
    BY DEF SpendInv, SpendStaysInOrganization, Undisturbed
  <2>1. ASSUME ~Writing, NEW i \in DOMAIN clients
        PROVE  spend[clients[i].name] \subseteq {clients[i].organization}
    <3>1. PICK n \in Names : n = clients[i].name
      <4>1. clients[i] \in Client
        BY DEF Types
      <4> QED  BY <4>1 DEF Client
    <3>2. \A a \in Admins : ~Deleting(a, n)
      BY <2>1 DEF Writing, Deleting, WriterOf
    <3>3. Once(n) /\ \A o \in spend[n] : Belongs(n, o)
      BY <3>2 DEF Owned
    <3>4. i \in Named(n)
      BY <3>1 DEF Named
    <3>5. \A o \in spend[n] : o = clients[i].organization
      BY <3>3, <3>4 DEF Belongs, Entries, Once
    <3> QED  BY <3>1, <3>5
  <2>2. ASSUME NEW a \in Admins, call[a].at = "answer"
        PROVE  LET groups == Grouped(call[a].rows) IN
               /\ \A i, j \in DOMAIN groups : i # j => groups[i].organization # groups[j].organization
               /\ \A i \in DOMAIN groups :
                    /\ call[a].identity \in {Global, groups[i].organization}
                    /\ \A j \in DOMAIN groups[i].clients : groups[i].clients[j].spent # None =>
                         groups[i].clients[j].spent \subseteq {groups[i].organization}
    <3>1. PICK rows : rows = call[a].rows
      OBVIOUS
    <3>2. rows \in Seq(Row)
      BY <3>1 DEF Types, CallTypes, Staged
    <3>3. PICK groups : groups = Grouped(rows)
      OBVIOUS
    <3>4. /\ \A i, j \in DOMAIN groups : i # j => groups[i].organization # groups[j].organization
          /\ \A i \in DOMAIN groups :
               /\ \E k \in DOMAIN rows : rows[k].client.organization = groups[i].organization
               /\ \A j \in DOMAIN groups[i].clients : \E k \in DOMAIN rows :
                    /\ groups[i].clients[j] = rows[k]
                    /\ rows[k].client.organization = groups[i].organization
      BY <3>2, <3>3, GroupsAreApart
    <3>5. \A k \in DOMAIN rows :
            /\ InScope(call[a].identity, rows[k].client)
            /\ rows[k].spent # None => rows[k].spent \subseteq {rows[k].client.organization}
      BY <2>2, <3>1 DEF Reported, Listed
    <3> QED  BY <3>1, <3>3, <3>4, <3>5 DEF InScope
  <2> QED  BY <2>1, <2>2 DEF SpendStaysInOrganization
<1> QED  BY <1>1, <1>2, <1>3, OverlapsAreSeen, PTL DEF Spec

-----------------------------------------------------------------------------
(* What is outside of an organization.                                     *)
Foreign(o) == Retained(clients, {i \in DOMAIN clients : clients[i].organization # o})
ForeignNames(o) == {Foreign(o)[i].name : i \in DOMAIN Foreign(o)}

SameFields(m) == SameKeys(m) /\ budgets'[m] = budgets[m] /\ spend'[m] = spend[m]

LEMMA OutsideKept ==
  ASSUME NEW o, Foreign(o)' = Foreign(o), \A m \in ForeignNames(o) : SameFields(m)
  PROVE  Outside(o)' = Outside(o)
<1>1. PICK names : names = ForeignNames(o)
  OBVIOUS
<1>2. ForeignNames(o)' = names
  BY <1>1 DEF ForeignNames
<1>3. \A m \in names : /\ KeysOf(m)' = KeysOf(m) /\ \A k \in KeysOf(m) : keys'[k] = keys[k]
                       /\ budgets'[m] = budgets[m] /\ spend'[m] = spend[m]
  BY <1>1 DEF SameFields, SameKeys
<1>4. PICK K : K = {k \in DOMAIN keys : keys[k].name \in names}
  OBVIOUS
<1>5. PICK L : L = {k \in DOMAIN keys' : keys'[k].name \in names}
  OBVIOUS
<1>6. L = K /\ \A k \in K : keys'[k] = keys[k]
  BY <1>3, <1>4, <1>5 DEF KeysOf
<1>7. [k \in L |-> keys'[k]] = [k \in K |-> keys[k]]
  BY <1>6
<1>8. [n \in names |-> <<budgets'[n], spend'[n]>>] = [n \in names |-> <<budgets[n], spend[n]>>]
  BY <1>3
<1>9. Outside(o) = <<Foreign(o), [k \in K |-> keys[k]], [n \in names |-> <<budgets[n], spend[n]>>]>>
  BY <1>1, <1>4 DEF Outside, Foreign, ForeignNames
<1>10. Outside(o)' = <<Foreign(o)', [k \in L |-> keys'[k]], [n \in names |-> <<budgets'[n], spend'[n]>>]>>
  BY <1>2, <1>5 DEF Outside, Foreign, ForeignNames
<1> QED  BY <1>7, <1>8, <1>9, <1>10

LEMMA ForeignKept ==
  ASSUME clients' = clients, NEW o
  PROVE  Foreign(o)' = Foreign(o)
BY DEF Foreign

LEMMA UntouchedOutside ==
  ASSUME UNCHANGED <<clients, keys, budgets, spend>>, NEW o
  PROVE  Outside(o)' = Outside(o)
BY ForeignKept, KeysUnchanged, OutsideKept DEF SameFields

LEMMA ForeignHas ==
  ASSUME clients \in Seq(Client), NEW o, NEW m \in ForeignNames(o)
  PROVE  \E d \in Entries(m) : d.organization # o
<1> DEFINE S == {i \in DOMAIN clients : clients[i].organization # o}
<1>1. PICK r : r = Foreign(o)
  OBVIOUS
<1>2. PICK e : Embeds(Client, clients, S, Len(clients), r, e)
  BY <1>1, RetainedEmbeds DEF Foreign
<1>3. r \in Seq(Client) /\ e \in [1..Len(r) -> S \cap (1..Len(clients))]
      /\ \A i \in 1..Len(r) : r[i] = clients[e[i]]
  BY <1>2 DEF Embeds
<1>4. PICK i \in DOMAIN r : m = r[i].name
  BY <1>1 DEF ForeignNames
<1>5. i \in 1..Len(r)
  BY <1>3, <1>4
<1>6. e[i] \in S /\ r[i] = clients[e[i]]
  BY <1>3, <1>5
<1> QED  BY <1>4, <1>6 DEF Entries, Named

(* The client a call is about is its own organization's, and nobody else's *)
(* client has its name.                                                    *)
LEMMA ActsForOwn ==
  ASSUME Types, Types', NEW a \in Admins, NEW c, c = call[a].client,
         call[a].at \notin {"idle", "report", "answer"},
         \/ call'[a].at = "idle"
         \/ call'[a].client = c /\ call'[a].at \notin {"report", "answer"},
         NEW o \in Organizations, o \in {call[a].identity, call'[a].identity}
  PROVE  c.organization = o
<1>1. Staged(call[a]) /\ Staged(call[a])'
  BY DEF Types, CallTypes
<1>2. o # Global
  BY AdminAssumption
<1>3. CASE o = call[a].identity
  BY <1>1, <1>2, <1>3 DEF Staged, Scoped
<1>4. CASE o = call'[a].identity
  <2>1. call'[a].at # "idle"
    BY <1>1, <1>2, <1>4 DEF Staged, IdleCall
  <2>2. Scoped(call'[a])
    BY <1>1, <2>1 DEF Staged, Scoped
  <2> QED  BY <1>2, <1>4, <2>1, <2>2 DEF Scoped
<1> QED  BY <1>3, <1>4

LEMMA OwnName ==
  ASSUME Types, NEW a \in Admins, NEW c \in Client, c = call[a].client, Busy(a, c.name),
         Owned(c.name)
  PROVE  c.name \notin ForeignNames(c.organization)
<1> SUFFICES ASSUME c.name \in ForeignNames(c.organization) PROVE FALSE
  OBVIOUS
<1>1. PICK d \in Entries(c.name) : d.organization # c.organization
  BY ForeignHas DEF Types
<1>2. Once(c.name) /\ Belongs(c.name, c.organization)
  BY <1>1 DEF Owned
<1> QED  BY <1>1, <1>2 DEF Belongs, Entries, Once

OwnTablesOnly(n) == \A m \in Names : m # n => SameFields(m)

LEMMA OwnTables ==
  ASSUME Types, Types', NEW a \in Admins, NEW c \in Client, c = call[a].client,
         call[a].at \notin {"idle", "report", "answer"},
         \/ call'[a].at = "idle"
         \/ call'[a].client = c /\ call'[a].at \notin {"report", "answer"},
         NEW o \in Organizations, o \in {call[a].identity, call'[a].identity},
         Owned(c.name), OwnTablesOnly(c.name), c.organization = o => Foreign(o)' = Foreign(o)
  PROVE  Outside(o)' = Outside(o)
<1>1. c.organization = o
  BY ActsForOwn
<1>2. Busy(a, c.name)
  <2>1. call[a].operation # "list"
    BY DEF Types, CallTypes, Staged
  <2> QED  BY <2>1 DEF Busy
<1>3. c.name \notin ForeignNames(o)
  BY <1>1, <1>2, OwnName
<1>4. ASSUME NEW m \in ForeignNames(o) PROVE m \in Names
  <2>1. PICK d \in Entries(m) : d.organization # o
    BY ForeignHas DEF Types
  <2>2. PICK i \in DOMAIN clients : clients[i].name = m
    BY <2>1 DEF Entries, Named
  <2>3. clients[i] \in Client
    BY <2>2 DEF Types
  <2> QED  BY <2>2, <2>3 DEF Client
<1>5. \A m \in ForeignNames(o) : SameFields(m)
  BY <1>3, <1>4 DEF OwnTablesOnly
<1> QED  BY <1>1, <1>5, OutsideKept

LEMMA ForeignPushed ==
  ASSUME clients \in Seq(Client), NEW c \in Client, NEW o, c.organization = o,
         clients' = Append(clients, c)
  PROVE  Foreign(o)' = Foreign(o)
<1>1. PICK l \in Nat : l = Len(clients)
  OBVIOUS
<1>2. PICK d : d = clients'
  OBVIOUS
<1>3. /\ DOMAIN clients = 1..l /\ DOMAIN d = 1..(l + 1) /\ d[l + 1] = c
      /\ \A i \in 1..l : d[i] = clients[i]
  BY <1>1, <1>2
<1>4. PICK S : S = {i \in DOMAIN d : d[i].organization # o}
  OBVIOUS
<1>5. S = {i \in DOMAIN clients : clients[i].organization # o} /\ l + 1 \notin S
  BY <1>3, <1>4
<1>6. Retained(Append(clients, c), S) = Retained(clients, S)
  BY <1>1, <1>5, RetainedAppend
<1> QED  BY <1>2, <1>4, <1>5, <1>6 DEF Foreign

LEMMA ForeignReplaced ==
  ASSUME clients \in Seq(Client), NEW i \in DOMAIN clients, NEW c \in Client,
         clients' = [clients EXCEPT ![i] = c], NEW o,
         c.organization = o, clients[i].organization = o
  PROVE  Foreign(o)' = Foreign(o)
<1>1. PICK d : d = clients'
  OBVIOUS
<1>2. PICK s : s = clients
  OBVIOUS
<1>3. /\ DOMAIN d = DOMAIN s /\ d[i] = c /\ \A j \in DOMAIN s : j # i => d[j] = s[j]
      /\ Len(s) \in Nat /\ Len(d) = Len(s) /\ DOMAIN s = 1..Len(s)
  BY <1>1, <1>2
<1>4. PICK S : S = {j \in DOMAIN s : s[j].organization # o}
  OBVIOUS
<1>5. {j \in DOMAIN d : d[j].organization # o} = S /\ i \notin S
  BY <1>2, <1>3, <1>4
<1>6. Retained(d, S) = Retained(s, S)
  <2>1. Alike(d, S, s, S, Len(d))
    BY <1>3, <1>4, <1>5 DEF Alike
  <2> QED  BY <1>3, <2>1, RetainedAgrees
<1> QED  BY <1>1, <1>2, <1>4, <1>5, <1>6 DEF Foreign

LEMMA ForeignRemain ==
  ASSUME clients \in Seq(Client), NEW R, NEW o, \A i \in R : clients[i].organization = o,
         clients' = Retained(clients, DOMAIN clients \ R), clients' \in Seq(Client)
  PROVE  Foreign(o)' = Foreign(o)
<1>1. PICK V : V = {c \in Client : c.organization # o}
  OBVIOUS
<1>2. PICK s : s = clients
  OBVIOUS
<1>3. PICK d : d = clients'
  OBVIOUS
<1>4. s \in Seq(Client) /\ d \in Seq(Client) /\ d = Retained(s, DOMAIN s \ R)
  BY <1>2, <1>3
<1>5. ASSUME NEW t \in Seq(Client) PROVE At(t, V) = {i \in DOMAIN t : t[i].organization # o}
  <2>1. \A i \in DOMAIN t : t[i] \in Client
    OBVIOUS
  <2> QED  BY <1>1, <2>1 DEF At
<1>6. At(s, V) \subseteq DOMAIN s \ R
  <2>1. \A i \in At(s, V) : i \in DOMAIN s /\ s[i].organization # o
    BY <1>4, <1>5
  <2> QED  BY <1>2, <2>1
<1>7. Retained(d, At(d, V)) = Retained(s, At(s, V))
  BY <1>4, <1>6, RetainedTwice
<1>8. Retained(d, {i \in DOMAIN d : d[i].organization # o}) = Retained(s, {i \in DOMAIN s : s[i].organization # o})
  BY <1>4, <1>5, <1>7
<1> QED  BY <1>2, <1>3, <1>8 DEF Foreign

(* The steps that go on with a call.                                       *)
LEMMA GoingOnRespects ==
  ASSUME Types, \A n \in Names : Owned(n), NEW a \in Admins,
         \/ CreateInsertKey(a) \/ CreatePush(a) \/ UpdateKey(a) \/ SetBudget(a)
         \/ DeleteKeys(a) \/ DeleteBudget(a) \/ Charge(a) \/ ResetSpend(a),
         NEW o \in Organizations, o \in {call[a].identity, call'[a].identity}
  PROVE  Outside(o)' = Outside(o)
<1>1. PICK c : c = call[a].client
  OBVIOUS
<1>2. clients' = clients => Foreign(o)' = Foreign(o)
  BY ForeignKept
<1>3. ASSUME Types', c \in Client, call[a].at \notin {"idle", "report", "answer"},
             \/ call'[a].at = "idle"
             \/ call'[a].client = c /\ call'[a].at \notin {"report", "answer"},
             OwnTablesOnly(c.name), c.organization = o => Foreign(o)' = Foreign(o)
      PROVE  Outside(o)' = Outside(o)
  <2>1. Owned(c.name)
    BY <1>3 DEF Client
  <2> QED  BY <1>1, <1>3, <2>1, OwnTables
<1>4. CASE CreateInsertKey(a)
  <2>1. /\ Types' /\ call[a].at = "key" /\ c \in Client /\ UNCHANGED <<clients, budgets, spend>>
        /\ \/ keys' = keys /\ call'[a].at = "idle"
           \/ call'[a].at = "push" /\ call'[a].client = c /\ \A m : m # c.name => SameKeys(m)
    BY <1>1, <1>4, CreateInsertKeyDoes DEF Carries
  <2>2. OwnTablesOnly(c.name)
    BY <2>1, KeysUnchanged DEF OwnTablesOnly, SameFields
  <2> QED  BY <1>2, <1>3, <2>1, <2>2
<1>5. CASE CreatePush(a)
  <2>1. /\ Types' /\ call[a].at = "push" /\ c \in Client /\ UNCHANGED <<keys, budgets, spend>>
        /\ call'[a].at = "budget" /\ call'[a].client = c
        /\ clients' = Append(clients, c) /\ clients \in Seq(Client)
    BY <1>1, <1>5, CreatePushDoes DEF Carries
  <2>2. OwnTablesOnly(c.name)
    BY <2>1, KeysUnchanged DEF OwnTablesOnly, SameFields
  <2>3. c.organization = o => Foreign(o)' = Foreign(o)
    BY <2>1, ForeignPushed
  <2> QED  BY <1>3, <2>1, <2>2, <2>3
<1>6. CASE UpdateKey(a)
  <2>1. /\ Types' /\ call[a].at = "rotate" /\ c \in Client /\ UNCHANGED <<clients, budgets, spend>>
        /\ call'[a].at = "budget" /\ call'[a].client = c /\ \A m : m # c.name => SameKeys(m)
    BY <1>1, <1>6, UpdateKeyDoes DEF Carries
  <2>2. OwnTablesOnly(c.name)
    BY <2>1 DEF OwnTablesOnly, SameFields
  <2> QED  BY <1>2, <1>3, <2>1, <2>2
<1>7. CASE SetBudget(a)
  <2>1. /\ Types' /\ call[a].at = "budget" /\ c \in Client /\ UNCHANGED <<clients, keys, spend>>
        /\ call'[a].at = "idle" /\ \A m \in Names : m # c.name => budgets'[m] = budgets[m]
    BY <1>1, <1>7, SetBudgetDoes
  <2>2. OwnTablesOnly(c.name)
    BY <2>1, KeysUnchanged DEF OwnTablesOnly, SameFields
  <2> QED  BY <1>2, <1>3, <2>1, <2>2
<1>8. CASE DeleteKeys(a)
  <2>1. /\ Types' /\ call[a].at = "revoke" /\ c \in Client /\ UNCHANGED <<clients, budgets, spend>>
        /\ call'[a].at = "forget" /\ call'[a].client = c /\ \A m : m # c.name => SameKeys(m)
    BY <1>1, <1>8, DeleteKeysDoes DEF Carries
  <2>2. OwnTablesOnly(c.name)
    BY <2>1 DEF OwnTablesOnly, SameFields
  <2> QED  BY <1>2, <1>3, <2>1, <2>2
<1>9. CASE DeleteBudget(a)
  <2>1. /\ Types' /\ call[a].at = "forget" /\ c \in Client /\ UNCHANGED <<clients, keys>>
        /\ call'[a].at = "idle"
        /\ \A m \in Names : m # c.name => budgets'[m] = budgets[m] /\ spend'[m] = spend[m]
    BY <1>1, <1>9, DeleteBudgetDoes
  <2>2. OwnTablesOnly(c.name)
    BY <2>1, KeysUnchanged DEF OwnTablesOnly, SameFields
  <2> QED  BY <1>2, <1>3, <2>1, <2>2
<1>10. CASE Charge(a)
  <2>1. /\ Types' /\ call[a].at = "charge" /\ c \in Client /\ UNCHANGED <<clients, keys, budgets>>
        /\ call'[a].at = "idle" /\ \A m \in Names : m # c.name => spend'[m] = spend[m]
    BY <1>1, <1>10, ChargeDoes
  <2>2. OwnTablesOnly(c.name)
    BY <2>1, KeysUnchanged DEF OwnTablesOnly, SameFields
  <2> QED  BY <1>2, <1>3, <2>1, <2>2
<1>11. CASE ResetSpend(a)
  <2>1. /\ Types' /\ call[a].at = "zero" /\ c \in Client /\ UNCHANGED <<clients, keys, budgets>>
        /\ call'[a].at = "idle" /\ \A m \in Names : m # c.name => spend'[m] = spend[m]
    BY <1>1, <1>11, ResetSpendDoes
  <2>2. OwnTablesOnly(c.name)
    BY <2>1, KeysUnchanged DEF OwnTablesOnly, SameFields
  <2> QED  BY <1>2, <1>3, <2>1, <2>2
<1> QED  BY <1>4, <1>5, <1>6, <1>7, <1>8, <1>9, <1>10, <1>11

(* What an update does to the list: nothing, or it replaces one client by  *)
(* another of its organization.                                            *)
ReplacesOne(a, identity) ==
  \/ call' = call /\ clients' = clients
  \/ \E i \in DOMAIN clients, c \in Client :
       /\ clients' = [clients EXCEPT ![i] = c]
       /\ c.organization = clients[i].organization /\ InScope(identity, c)
       /\ call'[a].identity = identity

LEMMA UpdateReplacesOne ==
  ASSUME Types, NEW a \in Admins, NEW identity \in Identities, NEW n \in Names,
         NEW rpm \in Rates \cup {None}, NEW budget \in Budgets \cup {None, Clear},
         NEW rotate \in BOOLEAN, UpdateClient(a, identity, n, rpm, budget, rotate)
  PROVE  ReplacesOne(a, identity)
<1>1. \/ call' = call /\ clients' = clients
      \/ \E i \in DOMAIN clients, c \in Client :
           /\ Carries(a, "update", "rotate", c)
           /\ clients \in Seq(Client) /\ clients' = [clients EXCEPT ![i] = c]
           /\ clients[i] \in Entries(n) /\ c.name = n /\ c.name = clients[i].name
           /\ c.organization = clients[i].organization /\ InScope(identity, c)
           /\ call'[a].identity = identity
  BY UpdateClientDoes
<1> QED  BY <1>1, Zenon DEF ReplacesOne

(* The steps that change the list under the lock that reads it.            *)
LEMMA StartingRespects ==
  ASSUME Types, NEW a \in Admins, NEW identity \in Identities, NEW n \in Names,
         NEW o \in Organizations, o \in {call[a].identity, call'[a].identity},
         \/ \E rpm \in Rates \cup {None}, budget \in Budgets \cup {None, Clear},
              rotate \in BOOLEAN : UpdateClient(a, identity, n, rpm, budget, rotate)
         \/ DeleteClient(a, identity, n)
  PROVE  Outside(o)' = Outside(o)
<1>1. o # Global /\ clients \in Seq(Client)
  BY AdminAssumption DEF Types
<1>2. call[a].at = "idle" /\ UNCHANGED <<keys, budgets, spend>>
  BY DEF UpdateClient, DeleteClient, Begins
<1>3. call[a].identity = Global /\ call'[a].identity = o
  <2>1. call[a] = IdleCall
    BY <1>2 DEF Types, CallTypes, Staged
  <2> QED  BY <1>1, <2>1 DEF IdleCall
<1>4. \A m : SameFields(m)
  BY <1>2, KeysUnchanged DEF SameFields
<1>5. SUFFICES Foreign(o)' = Foreign(o)
  BY <1>4, OutsideKept
<1>6. ASSUME NEW rpm \in Rates \cup {None}, NEW budget \in Budgets \cup {None, Clear},
             NEW rotate \in BOOLEAN, UpdateClient(a, identity, n, rpm, budget, rotate)
      PROVE  Foreign(o)' = Foreign(o)
  <2>1. \/ call' = call /\ clients' = clients
        \/ \E i \in DOMAIN clients, c \in Client :
             /\ clients' = [clients EXCEPT ![i] = c]
             /\ c.organization = clients[i].organization /\ InScope(identity, c)
             /\ call'[a].identity = identity
    <3>1. ReplacesOne(a, identity)
      BY <1>6, UpdateReplacesOne, Zenon
    <3> QED  BY <3>1 DEF ReplacesOne
  <2>2. CASE clients' = clients
    BY <2>2, ForeignKept
  <2>3. ASSUME NEW i \in DOMAIN clients, NEW c \in Client,
               clients' = [clients EXCEPT ![i] = c],
               c.organization = clients[i].organization, InScope(identity, c),
               call'[a].identity = identity
        PROVE  Foreign(o)' = Foreign(o)
    <3>1. c.organization = o /\ clients[i].organization = o
      BY <1>1, <1>3, <2>3 DEF InScope
    <3> QED  BY <1>1, <2>3, <3>1, ForeignReplaced
  <2> QED  BY <2>1, <2>2, <2>3
<1>7. ASSUME DeleteClient(a, identity, n) PROVE Foreign(o)' = Foreign(o)
  <2>1. /\ clients' = Retained(clients, DOMAIN clients \ InScopeNamed(identity, n))
        /\ clients' \in Seq(Client)
    BY <1>7, DeleteClientDoes DEF DeleteClient, Types
  <2>2. call' # call
    BY <1>1, <1>3
  <2>3. call'[a].identity = identity
    BY <1>7, <2>2, DeleteClientDoes
  <2>4. \A i \in InScopeNamed(identity, n) : clients[i].organization = o
    BY <1>1, <1>3, <2>3 DEF InScopeNamed, InScope
  <2> QED  BY <1>1, <2>1, <2>4, ForeignRemain
<1> QED  BY <1>6, <1>7

(* A step of an organization's admin leaves what belongs to the others as  *)
(* it was, unless calls for one name overlap.                              *)
THEOREM ScopeIsRespected == ASSUME ConfiguredApart PROVE Spec => ScopeRespected
<1> DEFINE Respects == overlapped = {} => \A a \in Admins, o \in Organizations :
                         (call'[a] # call[a] /\ o \in {call[a].identity, call'[a].identity})
                         => Outside(o)' = Outside(o)
<1>1. Types /\ SpendInv /\ Next => Respects
  <2> SUFFICES ASSUME Types, SpendInv, overlapped = {}, Next,
                      NEW b \in Admins, NEW o \in Organizations,
                      call'[b] # call[b], o \in {call[b].identity, call'[b].identity}
               PROVE  Outside(o)' = Outside(o)
    OBVIOUS
  <2>1. \A n \in Names : Owned(n)
    BY DEF SpendInv, Undisturbed
  <2>2. PICK a \in Admins :
          \/ \E identity \in Identities :
               \/ \E c \in NewClients, key \in Keys \cup {None} : CreateCheckName(a, identity, c, key)
               \/ \E n \in Names, rpm \in Rates \cup {None}, budget \in Budgets \cup {None, Clear},
                    rotate \in BOOLEAN : UpdateClient(a, identity, n, rpm, budget, rotate)
               \/ \E n \in Names : DeleteClient(a, identity, n) \/ StartReset(a, identity, n)
               \/ StartList(a, identity)
          \/ \E k \in Keys : StartRequest(a, k)
          \/ CreateInsertKey(a) \/ CreatePush(a) \/ UpdateKey(a) \/ SetBudget(a)
          \/ DeleteKeys(a) \/ DeleteBudget(a)
          \/ Charge(a) \/ ResetSpend(a) \/ ReportClient(a) \/ AnswerList(a)
    BY Zenon DEF Next
  <2>3. CASE \/ \E identity \in Identities :
                  \/ \E c \in NewClients, key \in Keys \cup {None} : CreateCheckName(a, identity, c, key)
                  \/ \E n \in Names : StartReset(a, identity, n)
                  \/ StartList(a, identity)
             \/ \E k \in Keys : StartRequest(a, k)
             \/ ReportClient(a) \/ AnswerList(a)
    <3>1. UNCHANGED <<clients, keys, budgets, spend>>
      BY <2>3 DEF CreateCheckName, StartReset, StartList, StartRequest, ReportClient, AnswerList
    <3> QED  BY <3>1, UntouchedOutside
  <2>4. ASSUME NEW identity \in Identities, NEW n \in Names,
               \/ \E rpm \in Rates \cup {None}, budget \in Budgets \cup {None, Clear},
                    rotate \in BOOLEAN : UpdateClient(a, identity, n, rpm, budget, rotate)
               \/ DeleteClient(a, identity, n)
        PROVE  Outside(o)' = Outside(o)
    <3>1. OthersKept(a)
      <4>1. ASSUME NEW rpm \in Rates \cup {None}, NEW budget \in Budgets \cup {None, Clear},
                   NEW rotate \in BOOLEAN, UpdateClient(a, identity, n, rpm, budget, rotate)
            PROVE  OthersKept(a)
        BY <4>1, UpdateClientDoes
      <4>2. CASE DeleteClient(a, identity, n)
        BY <4>2, DeleteClientDoes
      <4> QED  BY <2>4, <4>1, <4>2
    <3>2. b = a
      BY <3>1 DEF OthersKept
    <3> QED  BY <2>4, <3>2, StartingRespects
  <2>5. CASE \/ CreateInsertKey(a) \/ CreatePush(a) \/ UpdateKey(a) \/ SetBudget(a)
             \/ DeleteKeys(a) \/ DeleteBudget(a) \/ Charge(a) \/ ResetSpend(a)
    <3>1. PICK c : c = call[a].client
      OBVIOUS
    <3>2. OthersKept(a)
      BY <2>5, <3>1, CreateInsertKeyDoes, CreatePushDoes, UpdateKeyDoes, SetBudgetDoes,
         DeleteKeysDoes, DeleteBudgetDoes, ChargeDoes, ResetSpendDoes
    <3>3. b = a
      BY <3>2 DEF OthersKept
    <3> QED  BY <2>1, <2>5, <3>3, GoingOnRespects
  <2> QED  BY <2>2, <2>3, <2>4, <2>5
<1>2. Types /\ SpendInv /\ [Next]_vars => [Respects]_vars
  BY <1>1
<1>3. Init => SpendInv
  BY InitSpend
<1>4. Types /\ OverlapsSeen /\ [Next]_vars /\ SpendInv => SpendInv'
  BY InvariantsKept
<1> QED  BY <1>2, <1>3, <1>4, OverlapsAreSeen, PTL DEF Spec, ScopeRespected
=============================================================================
