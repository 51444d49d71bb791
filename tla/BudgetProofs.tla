---------------------------- MODULE BudgetProofs -----------------------------
(***************************************************************************)
(* Theorems about client budgets in memory, for every number of requests   *)
(* and administrator calls, every budget and warning, every cost, retry    *)
(* policy and assignment of period keys to days: first ClientBudget's      *)
(* invariants, then what WebhookDelivery adds, that no event is lost       *)
(* before its attempts are used up, and that changing a budget that never  *)
(* ends a period leaves the tracked spend alone.                           *)
(***************************************************************************)
EXTENDS WebhookDelivery, FiniteSetTheorems, SequenceTheorems, TLAPS

(* The key of any period on any day is one of Keys, and keys are integers. *)
LEMMA KeysAreInts ==
  /\ Keys \subseteq Int
  /\ \A p \in Periods, d \in Days : PeriodKeyAt[p][d] \in Keys
BY PeriodAssumption DEF Keys

(* What `or_default` and roll_period_if_needed leave is a spend entry of   *)
(* the requested period.                                                   *)
LEMMA RolledType ==
  ASSUME NEW k \in Keys, client_spend \in SpendState \cup {None}
  PROVE  /\ Rolled(k) \in SpendState
         /\ Rolled(k).period_key = k
         /\ Rolled(k).spent_usd \in Nat
BY KeysAreInts DEF Rolled, Current, SpendState

(* Copying the setting in force and computing its key keeps both types.    *)
LEMMA CopyType ==
  ASSUME TypeOK, NEW c \in Callers, client_budgets # None, Copy(c)
  PROVE  /\ setting' \in [Callers -> Setting \cup {None}]
         /\ setting'[c] = client_budgets /\ setting'[c] \in Setting
         /\ current_key' \in [Callers -> Keys \cup {0}]
         /\ current_key'[c] \in Keys
         /\ \A o \in Callers \ {c} : setting'[o] = setting[o]
                                     /\ current_key'[o] = current_key[o]
<1>1. client_budgets \in Setting
  BY DEF TypeOK
<1>2. PeriodKeyAt[client_budgets.period][day] \in Keys
  BY <1>1, KeysAreInts DEF TypeOK, Setting
<1>. QED
  BY <1>1, <1>2 DEF TypeOK, Copy

(* The types, and where each caller may be, are preserved by every step.   *)
LEMMA TypeStep == TypeOK /\ [Next]_vars => TypeOK'
<1> SUFFICES ASSUME TypeOK, [Next]_vars PROVE TypeOK'
  OBVIOUS
<1> USE BudgetAssumption, CallerAssumption DEF Callers, Copied, Phases
<1>1. ASSUME NEW r \in Requests, AdmitUnrestricted(r) PROVE TypeOK'
  BY <1>1 DEF AdmitUnrestricted, Goto, TypeOK
<1>2. ASSUME NEW r \in Requests, CheckBudget(r) PROVE TypeOK'
  <2>1. client_budgets # None /\ Copy(r)
    BY <1>2 DEF CheckBudget
  <2>. QED
    BY <1>2, <2>1, CopyType DEF CheckBudget, Goto, TypeOK
<1>3. ASSUME NEW r \in Requests, CheckSpend(r) PROVE TypeOK'
  <2>1. current_key[r] \in Keys
    BY <1>3 DEF CheckSpend, TypeOK
  <2>2. client_spend' \in SpendState
    BY <1>3, <2>1, RolledType DEF CheckSpend, TypeOK
  <2>3. notified' \in [exceeded : Nat, warning : Nat]
    BY <1>3 DEF CheckSpend, NotifiedAfterRoll, NothingSent, TypeOK
  <2>4. /\ setting' \in [Callers -> Setting \cup {None}]
        /\ current_key' \in [Callers -> Keys \cup {0}]
        /\ \A o \in Callers \ {r} : setting'[o] = setting[o]
                                    /\ current_key'[o] = current_key[o]
    BY <1>3 DEF CheckSpend, Drop, TypeOK
  <2>. QED
    BY <1>3, <2>2, <2>3, <2>4 DEF CheckSpend, Goto, TypeOK
<1>4. ASSUME NEW r \in Requests, NEW c \in 0..MaxCost, PricedAnswer(r, c)
      PROVE TypeOK'
  BY <1>4 DEF PricedAnswer, Goto, TypeOK
<1>5. ASSUME NEW r \in Requests, EndRequest(r) PROVE TypeOK'
  BY <1>5 DEF EndRequest, Goto, TypeOK
<1>6. ASSUME NEW r \in Requests, SkipRecord(r) PROVE TypeOK'
  BY <1>6 DEF SkipRecord, Goto, TypeOK
<1>7. ASSUME NEW r \in Requests, StartRecord(r) PROVE TypeOK'
  <2>1. client_budgets # None /\ Copy(r)
    BY <1>7 DEF StartRecord
  <2>. QED
    BY <1>7, <2>1, CopyType DEF StartRecord, Goto, TypeOK
<1>8. ASSUME NEW r \in Requests, RecordSpend(r) PROVE TypeOK'
  <2>1. current_key[r] \in Keys /\ current_key[r] \in Int
    BY <1>8, KeysAreInts DEF RecordSpend, TypeOK
  <2>2. client_spend' \in SpendState
    BY <1>8, <2>1, RolledType DEF RecordSpend, SpendState, TypeOK
  <2>3. notified' \in [exceeded : Nat, warning : Nat]
    <3>1. NotifiedAfterRoll(current_key[r]) \in [exceeded : Nat, warning : Nat]
      BY DEF NotifiedAfterRoll, NothingSent, TypeOK
    <3>. QED
      BY <1>8, <3>1 DEF RecordSpend
  <2>4. /\ setting' \in [Callers -> Setting \cup {None}]
        /\ current_key' \in [Callers -> Keys \cup {0}]
        /\ \A o \in Callers \ {r} : setting'[o] = setting[o]
                                    /\ current_key'[o] = current_key[o]
    BY <1>8 DEF RecordSpend, Drop, TypeOK
  <2>5. charged' \in [Keys -> Nat]
    BY <1>8, <2>1 DEF RecordSpend, TypeOK
  <2>6. /\ cost' \in [Requests -> 0..MaxCost]
        /\ chunks' \in [Requests -> 0..MaxChunks]
        /\ \A o \in Requests \ {r} : chunks'[o] = chunks[o]
    BY <1>8 DEF RecordSpend, TypeOK
  <2>. QED
    BY <1>8, <2>2, <2>3, <2>4, <2>5, <2>6 DEF RecordSpend, Goto, TypeOK
<1>9. ASSUME NEW a \in Admins, StartReset(a) PROVE TypeOK'
  <2>1. client_budgets # None /\ Copy(a)
    BY <1>9 DEF StartReset
  <2>. QED
    BY <1>9, <2>1, CopyType DEF StartReset, Goto, TypeOK
<1>10. ASSUME NEW a \in Admins, ResetSpend(a) PROVE TypeOK'
  <2>1. current_key[a] \in Keys /\ current_key[a] \in Int
    BY <1>10, KeysAreInts DEF ResetSpend, TypeOK
  <2>2. /\ setting' \in [Callers -> Setting \cup {None}]
        /\ current_key' \in [Callers -> Keys \cup {0}]
        /\ \A o \in Callers \ {a} : setting'[o] = setting[o]
                                    /\ current_key'[o] = current_key[o]
    BY <1>10 DEF ResetSpend, Drop, TypeOK
  <2>. QED
    BY <1>10, <2>1, <2>2
    DEF ResetSpend, Goto, NothingSent, SpendState, TypeOK
<1>11. ASSUME NEW a \in Admins, StartReport(a) PROVE TypeOK'
  <2>1. client_budgets # None /\ Copy(a)
    BY <1>11 DEF StartReport
  <2>. QED
    BY <1>11, <2>1, CopyType DEF StartReport, Goto, TypeOK
<1>12. ASSUME NEW a \in Admins, ReportSpend(a) PROVE TypeOK'
  <2>1. current_key[a] \in Keys
    BY <1>12 DEF ReportSpend, TypeOK
  <2>2. client_spend' \in SpendState
    BY <1>12, <2>1, RolledType DEF ReportSpend, TypeOK
  <2>3. notified' \in [exceeded : Nat, warning : Nat]
    BY <1>12 DEF ReportSpend, NotifiedAfterRoll, NothingSent, TypeOK
  <2>4. /\ setting' \in [Callers -> Setting \cup {None}]
        /\ current_key' \in [Callers -> Keys \cup {0}]
        /\ \A o \in Callers \ {a} : setting'[o] = setting[o]
                                    /\ current_key'[o] = current_key[o]
    BY <1>12 DEF ReportSpend, Drop, TypeOK
  <2>. QED
    BY <1>12, <2>2, <2>3, <2>4 DEF ReportSpend, Goto, TypeOK
<1>13. CASE Tick
  BY <1>13 DEF Tick, Days, TypeOK
<1>14. CASE UNCHANGED vars
  BY <1>14 DEF vars, TypeOK
<1>. QED
  BY <1>1, <1>2, <1>3, <1>4, <1>5, <1>6, <1>7, <1>8, <1>9, <1>10, <1>11,
     <1>12, <1>13, <1>14
  DEF Next, RequestNext, AdminNext

(* They hold at the start, and so in every reachable state.                *)
THEOREM TypeInvariant == Spec => []TypeOK
<1>1. Init => TypeOK
  BY BudgetAssumption, CallerAssumption
  DEF Init, TypeOK, Days, Callers, Copied, Phases, NothingSent
<1>. QED
  BY <1>1, TypeStep, PTL DEF Spec

-----------------------------------------------------------------------------
(* No step of ClientBudget changes the setting, so a caller's copy is the  *)
(* setting in force; and no charge exceeds what its request may record.    *)
CopyInForce ==
  \A c \in Callers :
    Copied(c) => setting[c] = client_budgets /\ client_budgets # None

(* The bound of OvershootBounded is about the cardinality of a finite set. *)
LEMMA ChargesFinite ==
  /\ IsFiniteSet(Charges) /\ Cardinality(Charges) \in Nat
  /\ \A S \in SUBSET Charges :
       /\ IsFiniteSet(S) /\ Cardinality(S) \in Nat
       /\ Cardinality(S) <= Cardinality(Charges)
<1>1. IsFiniteSet(Charges)
  <2>1. IsFiniteSet(1..MaxChunks)
    BY FS_Interval, BudgetAssumption
  <2>2. IsFiniteSet(Requests)
    BY CallerAssumption
  <2>. QED
    BY <2>1, <2>2, FS_Product, Zenon DEF Charges
<1>2. ASSUME NEW S \in SUBSET Charges
      PROVE  /\ IsFiniteSet(S) /\ Cardinality(S) \in Nat
             /\ Cardinality(S) <= Cardinality(Charges)
  BY <1>1, FS_Subset, FS_CardinalityType
<1>. QED
  BY <1>1, <1>2, FS_CardinalityType

(* Multiplying by a natural number keeps the order.                        *)
LEMMA TimesMonotone ==
  ASSUME NEW m \in Nat, NEW a \in Nat, NEW b \in Nat, a <= b
  PROVE  m * a <= m * b /\ m * a \in Nat /\ m * b \in Nat
OBVIOUS

(* A step that admits nobody and records nothing leaves no more charges    *)
(* outstanding than before.                                                *)
LEMMA OutstandingShrinks ==
  ASSUME Outstanding' \subseteq Outstanding
  PROVE  MaxCost * Cardinality(Outstanding')
           <= MaxCost * Cardinality(Outstanding)
<1>1. Outstanding \subseteq Charges
  BY DEF Outstanding
<1>2. /\ IsFiniteSet(Outstanding) /\ Cardinality(Outstanding) \in Nat
  BY <1>1, ChargesFinite
<1>3. Cardinality(Outstanding') \in Nat
  BY <1>1, ChargesFinite
<1>4. Cardinality(Outstanding') <= Cardinality(Outstanding)
  BY <1>2, FS_Subset
<1>. QED
  BY <1>2, <1>3, <1>4, TimesMonotone, BudgetAssumption

(* However many charges are outstanding, they fit in the slots.            *)
LEMMA OutstandingFits ==
  /\ MaxCost * Cardinality(Outstanding) <= MaxCost * Cardinality(Charges)
  /\ MaxCost * Cardinality(Outstanding) \in Nat
  /\ MaxCost * Cardinality(Charges) \in Nat
<1>1. Outstanding \subseteq Charges
  BY DEF Outstanding
<1>. QED
  BY <1>1, ChargesFinite, TimesMonotone, BudgetAssumption

OvershootInv == TypeOK /\ CopyInForce /\ OvershootBounded

(* Recording a charge takes it from the outstanding ones.                  *)
LEMMA RecordUsesCharge ==
  ASSUME TypeOK, NEW r \in Requests, RecordSpend(r)
  PROVE  cost[r] + MaxCost * Cardinality(Outstanding')
           <= MaxCost * Cardinality(Outstanding)
<1> DEFINE x == <<r, chunks[r] + 1>>
<1>1. /\ chunks[r] \in Nat /\ chunks[r] < MaxChunks /\ pc[r] = "recording"
      /\ cost[r] \in 0..MaxCost
  BY BudgetAssumption DEF RecordSpend, TypeOK
<1>2. x \in Outstanding
  BY <1>1, BudgetAssumption DEF Outstanding, Charges, InFlight
<1>3. /\ pc' = [pc EXCEPT ![r] = "dispatching"]
      /\ chunks' = [chunks EXCEPT ![r] = @ + 1]
  BY DEF RecordSpend, Goto
<1>4. Outstanding' = Outstanding \ {x}
  <2>1. ASSUME NEW y \in Charges
        PROVE  y \in Outstanding' <=> y \in Outstanding \ {x}
    <3>1. PICK o \in Requests, i \in 1..MaxChunks : y = <<o, i>>
      BY DEF Charges
    <3>2. /\ y \in Outstanding' <=> InFlight(o)' /\ chunks'[o] < i
          /\ y \in Outstanding <=> InFlight(o) /\ chunks[o] < i
      BY <2>1, <3>1 DEF Outstanding
    <3>3. CASE o = r
      <4>1. InFlight(o) /\ InFlight(o)' /\ chunks'[o] = chunks[r] + 1
        BY <1>1, <1>3, <3>3 DEF InFlight, TypeOK, Callers
      <4>2. y = x <=> i = chunks[r] + 1
        BY <3>1, <3>3
      <4>. QED
        BY <1>1, <3>2, <3>3, <4>1, <4>2, BudgetAssumption
    <3>4. CASE o # r
      <4>1. (InFlight(o)' <=> InFlight(o)) /\ chunks'[o] = chunks[o] /\ y # x
        BY <1>3, <3>1, <3>4 DEF InFlight, TypeOK, Callers
      <4>. QED
        BY <3>2, <4>1
    <3>. QED
      BY <3>3, <3>4
  <2>2. Outstanding \subseteq Charges /\ Outstanding' \subseteq Charges
    BY DEF Outstanding, Charges
  <2>. QED
    BY <2>1, <2>2
<1>5. /\ IsFiniteSet(Outstanding) /\ Cardinality(Outstanding) \in Nat
  BY ChargesFinite DEF Outstanding
<1>6. /\ Cardinality(Outstanding') = Cardinality(Outstanding) - 1
      /\ Cardinality(Outstanding) - 1 \in Nat
  <2>1. Cardinality(Outstanding') = Cardinality(Outstanding) - 1
    BY <1>2, <1>4, <1>5, FS_RemoveElement
  <2>2. Cardinality(Outstanding') \in Nat
    BY ChargesFinite DEF Outstanding, Charges
  <2>. QED
    BY <2>1, <2>2
<1>7. \A n \in Nat : MaxCost * n = MaxCost * (n + 1) - MaxCost
  BY BudgetAssumption
<1>8. MaxCost * (Cardinality(Outstanding) - 1)
        = MaxCost * Cardinality(Outstanding) - MaxCost
  BY <1>5, <1>6, <1>7
<1>9. MaxCost * Cardinality(Outstanding) \in Nat
  BY OutstandingFits
<1>. QED
  BY <1>1, <1>6, <1>8, <1>9, BudgetAssumption

(* Copies stay in force: only the caller's own step makes or drops one.    *)
LEMMA CopyInForceStep ==
  ASSUME TypeOK, CopyInForce, [Next]_vars
  PROVE  CopyInForce' /\ client_budgets' = client_budgets
<1> USE DEF Callers, Copied
<1>1. ASSUME NEW r \in Requests, AdmitUnrestricted(r)
      PROVE CopyInForce' /\ client_budgets' = client_budgets
  BY <1>1 DEF AdmitUnrestricted, Goto, CopyInForce, TypeOK
<1>2. ASSUME NEW r \in Requests, CheckBudget(r)
      PROVE CopyInForce' /\ client_budgets' = client_budgets
  BY <1>2, CopyType DEF CheckBudget, Goto, CopyInForce, TypeOK
<1>3. ASSUME NEW r \in Requests, CheckSpend(r)
      PROVE CopyInForce' /\ client_budgets' = client_budgets
  BY <1>3 DEF CheckSpend, Drop, Goto, CopyInForce, TypeOK
<1>4. ASSUME NEW r \in Requests, NEW c \in 0..MaxCost, PricedAnswer(r, c)
      PROVE CopyInForce' /\ client_budgets' = client_budgets
  BY <1>4 DEF PricedAnswer, Goto, CopyInForce, TypeOK
<1>5. ASSUME NEW r \in Requests, EndRequest(r) \/ SkipRecord(r)
      PROVE CopyInForce' /\ client_budgets' = client_budgets
  BY <1>5 DEF EndRequest, SkipRecord, Goto, CopyInForce, TypeOK
<1>6. ASSUME NEW r \in Requests, StartRecord(r)
      PROVE CopyInForce' /\ client_budgets' = client_budgets
  BY <1>6, CopyType DEF StartRecord, Goto, CopyInForce, TypeOK
<1>7. ASSUME NEW r \in Requests, RecordSpend(r)
      PROVE CopyInForce' /\ client_budgets' = client_budgets
  BY <1>7 DEF RecordSpend, Drop, Goto, CopyInForce, TypeOK
<1>8. ASSUME NEW a \in Admins, StartReset(a) \/ StartReport(a)
      PROVE CopyInForce' /\ client_budgets' = client_budgets
  BY <1>8, CopyType DEF StartReset, StartReport, Goto, CopyInForce, TypeOK
<1>9. ASSUME NEW a \in Admins, ResetSpend(a) \/ ReportSpend(a)
      PROVE CopyInForce' /\ client_budgets' = client_budgets
  BY <1>9 DEF ResetSpend, ReportSpend, Drop, Goto, CopyInForce, TypeOK
<1>10. CASE Tick \/ UNCHANGED vars
  BY <1>10 DEF Tick, vars, CopyInForce
<1>. QED
  BY <1>1, <1>2, <1>3, <1>4, <1>5, <1>6, <1>7, <1>8, <1>9, <1>10
  DEF Next, RequestNext, AdminNext

(* The steps other than an admission and a charge leave the outstanding    *)
(* charges alone or give some up.                                          *)
LEMMA QuietSteps ==
  ASSUME TypeOK,
         \/ \E r \in Requests : CheckBudget(r) \/ EndRequest(r)
                                \/ SkipRecord(r) \/ StartRecord(r)
         \/ \E r \in Requests : CheckSpend(r) /\ Blocked(r)
         \/ \E r \in Requests : \E c \in 0..MaxCost : PricedAnswer(r, c)
         \/ \E a \in Admins : AdminNext(a)
         \/ Tick
         \/ UNCHANGED vars
  PROVE  Outstanding' \subseteq Outstanding
<1> USE DEF Callers, Outstanding, Charges, InFlight
<1>1. ASSUME NEW r \in Requests, CheckBudget(r) \/ StartRecord(r)
      PROVE Outstanding' \subseteq Outstanding
  BY <1>1 DEF CheckBudget, StartRecord, Goto, TypeOK
<1>2. ASSUME NEW r \in Requests, EndRequest(r)
      PROVE Outstanding' \subseteq Outstanding
  BY <1>2 DEF EndRequest, Goto, TypeOK
<1>3. ASSUME NEW r \in Requests, SkipRecord(r)
      PROVE Outstanding' \subseteq Outstanding
  <2>1. /\ pc' = [pc EXCEPT ![r] = "dispatching"] /\ pc[r] = "priced"
        /\ chunks' = [chunks EXCEPT ![r] = @ + 1]
    BY <1>3 DEF SkipRecord, Goto
  <2>2. \A o \in Requests : /\ InFlight(o)' => InFlight(o)
                            /\ chunks[o] \in Nat /\ chunks'[o] \in Nat
                            /\ chunks[o] <= chunks'[o]
    BY <2>1, BudgetAssumption DEF TypeOK
  <2>3. \A o \in Requests, i \in 1..MaxChunks :
          InFlight(o)' /\ chunks'[o] < i => InFlight(o) /\ chunks[o] < i
    BY <2>2, BudgetAssumption
  <2>. QED
    BY <2>3
<1>4. ASSUME NEW r \in Requests, CheckSpend(r), Blocked(r)
      PROVE Outstanding' \subseteq Outstanding
  BY <1>4 DEF CheckSpend, Goto, TypeOK
<1>5. ASSUME NEW r \in Requests, NEW c \in 0..MaxCost, PricedAnswer(r, c)
      PROVE Outstanding' \subseteq Outstanding
  BY <1>5 DEF PricedAnswer, Goto, TypeOK
<1>6. ASSUME NEW a \in Admins, AdminNext(a)
      PROVE Outstanding' \subseteq Outstanding
  BY <1>6, CallerAssumption
  DEF AdminNext, StartReset, ResetSpend, StartReport, ReportSpend, Goto, TypeOK
<1>7. CASE Tick \/ UNCHANGED vars
  BY <1>7 DEF Tick, vars
<1>. QED
  BY <1>1, <1>2, <1>3, <1>4, <1>5, <1>6, <1>7

(* A spend total that restarted from zero is within the bound.             *)
LEMMA FreshSpendBounded ==
  ASSUME TypeOK, client_budgets # None, client_budgets.budget_usd > 0
  PROVE  /\ client_budgets.budget_usd \in Nat
         /\ MaxCost * Cardinality(Outstanding)
              < client_budgets.budget_usd + MaxCost * Cardinality(Charges)
<1>1. client_budgets.budget_usd \in Nat
  BY BudgetAssumption DEF TypeOK, Setting
<1>2. \A a, b, c \in Nat : a <= b /\ c > 0 => a < c + b
  OBVIOUS
<1>. QED
  BY <1>1, <1>2, OutstandingFits

(* Tracked spend overshoots the budget by less than what every request     *)
(* slot could record once: for every number of slots, budgets and costs.   *)
THEOREM OvershootIsBounded == Spec => []OvershootBounded
<1>1. Init => OvershootInv
  <2> SUFFICES ASSUME Init PROVE OvershootInv
    OBVIOUS
  <2>1. TypeOK
    BY BudgetAssumption, CallerAssumption
    DEF Init, TypeOK, Days, Callers, Copied, Phases, NothingSent
  <2>. QED
    BY <2>1 DEF Init, OvershootInv, CopyInForce, Copied, OvershootBounded
<1>2. TypeOK' /\ OvershootInv /\ [Next]_vars => OvershootInv'
  <2> SUFFICES ASSUME TypeOK', OvershootInv, [Next]_vars,
                      client_budgets' # None, client_budgets'.budget_usd > 0,
                      client_spend' # None
               PROVE  client_spend'.spent_usd + MaxCost * Cardinality(Outstanding')
                        < client_budgets'.budget_usd
                          + MaxCost * Cardinality(Charges)
    BY CopyInForceStep DEF OvershootInv, OvershootBounded, Charges
  <2> DEFINE Bound == client_budgets.budget_usd + MaxCost * Cardinality(Charges)
  <2>1. /\ TypeOK /\ CopyInForce /\ OvershootBounded
        /\ client_budgets' = client_budgets
    BY CopyInForceStep DEF OvershootInv
  <2>2. /\ client_budgets.budget_usd \in Nat
        /\ MaxCost * Cardinality(Outstanding) < Bound
        /\ MaxCost * Cardinality(Outstanding) \in Nat
        /\ Bound \in Nat
    BY <2>1, FreshSpendBounded, OutstandingFits
  <2>3. /\ MaxCost * Cardinality(Outstanding') \in Nat
        /\ MaxCost * Cardinality(Outstanding') <= MaxCost * Cardinality(Charges)
    <3>1. Outstanding' \subseteq Charges
      BY DEF Outstanding, Charges
    <3>. QED
      BY <3>1, ChargesFinite, TimesMonotone, BudgetAssumption
  <2>4. client_spend # None =>
          /\ client_spend.spent_usd \in Nat
          /\ client_spend.spent_usd + MaxCost * Cardinality(Outstanding) < Bound
    BY <2>1 DEF OvershootBounded, TypeOK, SpendState
  <2>5. client_spend'.spent_usd \in Nat
    BY DEF TypeOK, SpendState
  <2>6. ASSUME Outstanding' \subseteq Outstanding,
               client_spend' = client_spend \/ client_spend'.spent_usd = 0
        PROVE  client_spend'.spent_usd + MaxCost * Cardinality(Outstanding')
                 < Bound
    BY <2>2, <2>3, <2>4, <2>5, <2>6, OutstandingShrinks
  <2>7. ASSUME NEW r \in Requests, CheckSpend(r)
        PROVE  client_spend'.spent_usd + MaxCost * Cardinality(Outstanding')
                 < Bound
    <3>1. client_spend' = client_spend \/ client_spend'.spent_usd = 0
      BY <2>7 DEF CheckSpend, Rolled
    <3>2. CASE Blocked(r)
      <4>1. Outstanding' \subseteq Outstanding
        BY <2>1, <2>7, <3>2, QuietSteps
      <4>. QED
        BY <2>6, <3>1, <4>1
    <3>3. CASE ~Blocked(r)
      <4>1. setting[r] = client_budgets
        BY <2>1, <2>7 DEF CheckSpend, CopyInForce, Callers, Copied
      <4>2. client_spend'.spent_usd < client_budgets.budget_usd
        BY <2>2, <2>5, <2>7, <3>3, <4>1 DEF CheckSpend, Blocked
      <4>. QED
        BY <2>2, <2>3, <2>5, <4>2, OutstandingFits
    <3>. QED
      BY <3>2, <3>3
  <2>8. ASSUME NEW r \in Requests, RecordSpend(r)
        PROVE  client_spend'.spent_usd + MaxCost * Cardinality(Outstanding')
                 < Bound
    <3>1. cost[r] + MaxCost * Cardinality(Outstanding')
            <= MaxCost * Cardinality(Outstanding) /\ cost[r] \in Nat
      BY <2>1, <2>8, RecordUsesCharge, BudgetAssumption DEF TypeOK
    <3>2. CASE Current(current_key[r])
      <4>1. client_spend'.spent_usd = client_spend.spent_usd + cost[r]
            /\ client_spend # None
        BY <2>8, <3>2 DEF RecordSpend, Rolled, Current
      <4>. QED
        BY <2>2, <2>3, <2>4, <3>1, <4>1
    <3>3. CASE ~Current(current_key[r])
      <4>1. client_spend'.spent_usd = 0 + cost[r]
        BY <2>8, <3>3 DEF RecordSpend, Rolled
      <4>. QED
        BY <2>2, <2>3, <3>1, <4>1
    <3>. QED
      BY <3>2, <3>3
  <2>9. ASSUME NEW r \in Requests, AdmitUnrestricted(r) PROVE FALSE
    BY <2>1, <2>9 DEF AdmitUnrestricted
  <2>10. ASSUME NEW a \in Admins, AdminNext(a)
         PROVE  client_spend'.spent_usd + MaxCost * Cardinality(Outstanding')
                  < Bound
    <3>1. Outstanding' \subseteq Outstanding
      BY <2>1, <2>10, QuietSteps
    <3>2. client_spend' = client_spend \/ client_spend'.spent_usd = 0
      BY <2>10 DEF AdminNext, StartReset, ResetSpend, StartReport,
                   ReportSpend, Rolled
    <3>. QED
      BY <2>6, <3>1, <3>2
  <2>11. ASSUME \/ \E r \in Requests : CheckBudget(r) \/ EndRequest(r)
                                      \/ SkipRecord(r) \/ StartRecord(r)
                \/ \E r \in Requests : \E c \in 0..MaxCost : PricedAnswer(r, c)
                \/ Tick
                \/ UNCHANGED vars
         PROVE  client_spend'.spent_usd + MaxCost * Cardinality(Outstanding')
                  < Bound
    <3>1. Outstanding' \subseteq Outstanding
      BY <2>1, <2>11, QuietSteps
    <3>2. client_spend' = client_spend
      BY <2>11 DEF CheckBudget, EndRequest, SkipRecord, StartRecord,
                   PricedAnswer, Tick, vars
    <3>. QED
      BY <2>6, <3>1, <3>2
  <2>. QED
    BY <2>1, <2>7, <2>8, <2>9, <2>10, <2>11 DEF Next, RequestNext
<1>3. OvershootInv => OvershootBounded
  BY DEF OvershootInv
<1>. QED
  BY <1>1, <1>2, <1>3, TypeInvariant, PTL DEF Spec

-----------------------------------------------------------------------------
(* No request is ever refused for money that was not recorded in the       *)
(* period it is checked against: for every interleaving of requests,       *)
(* resets and midnights.                                                   *)
THEOREM SpendIsNeverOverstated == Spec => []NeverOverstated
<1>1. Init => NeverOverstated
  BY DEF Init, NeverOverstated
<1>2. TypeOK /\ TypeOK' /\ NeverOverstated /\ [Next]_vars => NeverOverstated'
  <2> SUFFICES ASSUME TypeOK, TypeOK', NeverOverstated, [Next]_vars
               PROVE  NeverOverstated'
    OBVIOUS
  <2>1. ASSUME client_spend' = client_spend, charged' = charged
        PROVE  NeverOverstated'
    BY <2>1 DEF NeverOverstated, Keys, Days
  <2>2. ASSUME NEW c \in Callers,
               \/ c \in Requests /\ CheckSpend(c)
               \/ c \in Admins /\ ReportSpend(c)
        PROVE  NeverOverstated'
    <3>1. /\ current_key[c] \in Keys /\ charged' = charged
          /\ client_spend' = Rolled(current_key[c])
      BY <2>2 DEF CheckSpend, ReportSpend, TypeOK, Copied
    <3>2. CASE Current(current_key[c])
      BY <2>1, <3>1, <3>2 DEF Rolled
    <3>3. CASE ~Current(current_key[c])
      <4>1. client_spend' = [period_key |-> current_key[c], spent_usd |-> 0]
        BY <3>1, <3>3 DEF Rolled
      <4>2. charged'[current_key[c]] \in Nat
        BY <3>1 DEF TypeOK
      <4>. QED
        BY <3>1, <4>1, <4>2 DEF NeverOverstated, Keys, Days
    <3>. QED
      BY <3>2, <3>3
  <2>3. ASSUME NEW r \in Requests, RecordSpend(r) PROVE NeverOverstated'
    <3> DEFINE k == current_key[r]
    <3>1. /\ k \in Keys /\ cost[r] \in Nat
          /\ charged[k] \in Nat /\ charged'[k] = charged[k] + cost[r]
          /\ client_spend' = [period_key |-> k,
                              spent_usd |-> Rolled(k).spent_usd + cost[r]]
      BY <2>3, BudgetAssumption DEF RecordSpend, TypeOK, Callers, Copied
    <3>2. Rolled(k).spent_usd \in Nat /\ Rolled(k).spent_usd <= charged[k]
      <4>1. CASE Current(k)
        BY <3>1, <4>1 DEF Current, Rolled, NeverOverstated, TypeOK, SpendState
      <4>2. CASE ~Current(k)
        BY <3>1, <4>2 DEF Rolled
      <4>. QED
        BY <4>1, <4>2
    <3>. QED
      BY <3>1, <3>2 DEF NeverOverstated, Keys, Days
  <2>4. ASSUME NEW a \in Admins, ResetSpend(a) PROVE NeverOverstated'
    <3>1. /\ current_key[a] \in Keys
          /\ client_spend' = [period_key |-> current_key[a], spent_usd |-> 0]
      BY <2>4 DEF ResetSpend, TypeOK, Callers, Copied
    <3>2. charged'[current_key[a]] \in Nat
      BY <3>1 DEF TypeOK, Keys, Days
    <3>. QED
      BY <3>1, <3>2 DEF NeverOverstated, Keys, Days
  <2>5. CASE \/ \E r \in Requests :
                  \/ AdmitUnrestricted(r) \/ CheckBudget(r) \/ EndRequest(r)
                  \/ SkipRecord(r) \/ StartRecord(r)
             \/ \E r \in Requests : \E c \in 0..MaxCost : PricedAnswer(r, c)
             \/ \E a \in Admins : StartReset(a) \/ StartReport(a)
             \/ Tick \/ UNCHANGED vars
    BY <2>1, <2>5 DEF AdmitUnrestricted, CheckBudget, EndRequest, SkipRecord,
                      StartRecord, PricedAnswer, StartReset, StartReport, Tick,
                      vars
  <2>. QED
    BY <2>2, <2>3, <2>4, <2>5 DEF Next, RequestNext, AdminNext, Callers
<1>. QED
  BY <1>1, <1>2, TypeInvariant, PTL DEF Spec

-----------------------------------------------------------------------------
NotifyInv == TypeOK /\ CopyInForce /\ NotifiedOncePerCrossing

(* After a roll, the history of events fits the rolled total.              *)
LEMMA RolledNotified ==
  ASSUME TypeOK, NotifiedOncePerCrossing, client_budgets # None, NEW k \in Keys
  PROVE  LET s == Rolled(k).spent_usd
             n == NotifiedAfterRoll(k)
         IN /\ client_budgets.budget_usd > 0 =>
                 n.exceeded = IF s >= client_budgets.budget_usd THEN 1 ELSE 0
            /\ client_budgets.warning \notin {None, 0} =>
                 n.warning = IF s >= client_budgets.warning THEN 1 ELSE 0
<1>1. /\ client_budgets.budget_usd \in Nat
      /\ client_budgets.warning # None => client_budgets.warning \in Nat
  BY BudgetAssumption DEF TypeOK, Setting
<1>2. CASE Current(k)
  BY <1>1, <1>2
  DEF Current, Rolled, NotifiedAfterRoll, NotifiedOncePerCrossing, Crossed
<1>3. CASE ~Current(k)
  BY <1>1, <1>3 DEF Rolled, NotifiedAfterRoll, NothingSent
<1>. QED
  BY <1>2, <1>3

(* Every crossing of the budget and of the warning threshold is notified   *)
(* exactly once, whatever the interleaving of charges, resets and          *)
(* midnights.                                                              *)
THEOREM CrossingNotifiedOnce == Spec => []NotifiedOncePerCrossing
<1>1. Init => NotifyInv
  <2> SUFFICES ASSUME Init PROVE NotifyInv
    OBVIOUS
  <2>1. TypeOK
    BY BudgetAssumption, CallerAssumption
    DEF Init, TypeOK, Days, Callers, Copied, Phases, NothingSent
  <2>. QED
    BY <2>1 DEF Init, NotifyInv, CopyInForce, Copied, NotifiedOncePerCrossing
<1>2. TypeOK' /\ NotifyInv /\ [Next]_vars => NotifyInv'
  <2> SUFFICES ASSUME TypeOK', NotifyInv, [Next]_vars
               PROVE  NotifiedOncePerCrossing'
    BY CopyInForceStep DEF NotifyInv
  <2>1. /\ TypeOK /\ CopyInForce /\ NotifiedOncePerCrossing
        /\ client_budgets' = client_budgets
    BY CopyInForceStep DEF NotifyInv
  <2>2. client_budgets # None =>
          /\ client_budgets.budget_usd \in Nat
          /\ client_budgets.warning # None => client_budgets.warning \in Nat
    BY <2>1, BudgetAssumption DEF TypeOK, Setting
  <2>3. ASSUME client_spend' = client_spend, notified' = notified
        PROVE  NotifiedOncePerCrossing'
    BY <2>1, <2>3 DEF NotifiedOncePerCrossing, Crossed
  <2>4. ASSUME NEW c \in Callers,
               \/ c \in Requests /\ CheckSpend(c)
               \/ c \in Admins /\ ReportSpend(c)
        PROVE  NotifiedOncePerCrossing'
    <3>1. /\ current_key[c] \in Keys /\ client_budgets # None
          /\ client_spend' = Rolled(current_key[c])
          /\ notified' = NotifiedAfterRoll(current_key[c])
      BY <2>1, <2>4 DEF CheckSpend, ReportSpend, CopyInForce, TypeOK, Copied
    <3>. QED
      BY <2>1, <3>1, RolledNotified DEF NotifiedOncePerCrossing, Crossed
  <2>5. ASSUME NEW r \in Requests, RecordSpend(r)
        PROVE  NotifiedOncePerCrossing'
    <3> DEFINE k == current_key[r]
               s == Rolled(k).spent_usd
               n == NotifiedAfterRoll(k)
    <3>1. /\ k \in Keys /\ client_budgets # None /\ cost[r] \in Nat
          /\ setting[r] = client_budgets
      BY <2>1, <2>5, BudgetAssumption
      DEF RecordSpend, CopyInForce, TypeOK, Callers, Copied
    <3>2. s \in Nat
      BY <2>1, <3>1, RolledType DEF TypeOK
    <3>3. /\ client_spend'.spent_usd = s + cost[r]
          /\ notified'.exceeded =
               IF Crosses(s, cost[r], client_budgets.budget_usd)
               THEN n.exceeded + 1 ELSE n.exceeded
          /\ notified'.warning =
               IF /\ client_budgets.warning # None
                  /\ Crosses(s, cost[r], client_budgets.warning)
               THEN n.warning + 1 ELSE n.warning
      BY <2>5, <3>1 DEF RecordSpend
    <3>4. /\ client_budgets.budget_usd > 0 =>
               n.exceeded = IF s >= client_budgets.budget_usd THEN 1 ELSE 0
          /\ client_budgets.warning \notin {None, 0} =>
               n.warning = IF s >= client_budgets.warning THEN 1 ELSE 0
      BY <2>1, <3>1, RolledNotified
    <3> HIDE DEF s, n
    <3>5. client_budgets.budget_usd > 0 =>
            notified'.exceeded =
              IF s + cost[r] >= client_budgets.budget_usd THEN 1 ELSE 0
      BY <2>2, <3>1, <3>2, <3>3, <3>4 DEF Crosses
    <3>6. client_budgets.warning \notin {None, 0} =>
            notified'.warning =
              IF s + cost[r] >= client_budgets.warning THEN 1 ELSE 0
      BY <2>2, <3>1, <3>2, <3>3, <3>4 DEF Crosses
    <3>. QED
      BY <2>1, <3>3, <3>5, <3>6 DEF NotifiedOncePerCrossing, Crossed
  <2>6. ASSUME NEW a \in Admins, ResetSpend(a)
        PROVE  NotifiedOncePerCrossing'
    <3>1. notified' = NothingSent /\ client_spend'.spent_usd = 0
      BY <2>6 DEF ResetSpend
    <3>. QED
      BY <2>1, <2>2, <3>1
      DEF NotifiedOncePerCrossing, Crossed, NothingSent
  <2>7. CASE \/ \E r \in Requests :
                  \/ AdmitUnrestricted(r) \/ CheckBudget(r) \/ EndRequest(r)
                  \/ SkipRecord(r) \/ StartRecord(r)
             \/ \E r \in Requests : \E c \in 0..MaxCost : PricedAnswer(r, c)
             \/ \E a \in Admins : StartReset(a) \/ StartReport(a)
             \/ Tick \/ UNCHANGED vars
    BY <2>3, <2>7 DEF AdmitUnrestricted, CheckBudget, EndRequest, SkipRecord,
                      StartRecord, PricedAnswer, StartReset, StartReport, Tick,
                      vars
  <2>. QED
    BY <2>4, <2>5, <2>6, <2>7 DEF Next, RequestNext, AdminNext, Callers
<1>3. NotifyInv => NotifiedOncePerCrossing
  BY DEF NotifyInv
<1>. QED
  BY <1>1, <1>2, <1>3, TypeInvariant, PTL DEF Spec

-----------------------------------------------------------------------------
(* What is known of a delivery wherever it stands: attempt n is being made *)
(* after n posts and none of them was final, a backoff follows attempt n   *)
(* only after a failure that may be retried, and the task ends with a      *)
(* final answer or its last attempt.                                       *)
Posting(task) ==
  task.at = "posting" => task.posts = task.attempt /\ task.last \notin Final

Sleeping(task) ==
  task.at = "sleeping" => /\ task.posts = task.attempt + 1
                          /\ task.last = "failed" /\ task.attempt < MaxRetries

Ended(task) ==
  task.at = "ended" => /\ task.posts = task.attempt + 1
                       /\ task.last \in Final \/ task.attempt = MaxRetries

KnownDelivery ==
  {task \in Delivery : /\ Posting(task) /\ Sleeping(task) /\ Ended(task)
                       /\ ~task.repeated
                       /\ task.last = "success" => task.handled}

KnownDeliveries == deliveries \in Seq(KnownDelivery)

(* A new task is such a delivery, so what a charge or a reset sends is a   *)
(* sequence of them.                                                       *)
LEMMA SendKnown ==
  ASSUME NEW event \in WebhookEvent
  PROVE  Send(event) \in Seq(KnownDelivery)
<1> DEFINE task == [event |-> event, at |-> "posting", attempt |-> 0,
                    backoff |-> InitialBackoff, posts |-> 0, last |-> None,
                    repeated |-> FALSE, handled |-> FALSE]
<1>1. task \in Delivery
  BY WebhookAssumption DEF Delivery
<1>2. task \in KnownDelivery
  BY <1>1, WebhookAssumption DEF KnownDelivery, Posting, Sleeping, Ended, Final
<1>. QED
  BY <1>2 DEF Send

LEMMA NotificationsKnown ==
  ASSUME NEW r \in Requests
  PROVE  Notifications(r) \in Seq(KnownDelivery)
<1>1. /\ notify_budget_exceeded \in Seq(KnownDelivery)
      /\ notify_budget_warning \in Seq(KnownDelivery)
  BY SendKnown DEF notify_budget_exceeded, notify_budget_warning, WebhookEvent
<1>2. <<>> \in Seq(KnownDelivery)
  BY EmptySeq
<1> DEFINE exceeded(p) == IF p THEN notify_budget_exceeded ELSE <<>>
           warning(p) == IF p THEN notify_budget_warning ELSE <<>>
<1>3. \A p \in BOOLEAN, q \in BOOLEAN :
        exceeded(p) \o warning(q) \in Seq(KnownDelivery)
  <2> SUFFICES ASSUME NEW p \in BOOLEAN, NEW q \in BOOLEAN
               PROVE  exceeded(p) \o warning(q) \in Seq(KnownDelivery)
    OBVIOUS
  <2>1. exceeded(p) \in Seq(KnownDelivery) /\ warning(q) \in Seq(KnownDelivery)
    BY <1>1, <1>2
  <2> HIDE DEF exceeded, warning
  <2>. QED
    BY <2>1, ConcatProperties
<1>. QED
  BY <1>3 DEF Notifications

(* Replacing one delivery by another such delivery.                        *)
LEMMA ReplacedKnown ==
  ASSUME KnownDeliveries, NEW i \in DOMAIN deliveries, NEW new \in KnownDelivery,
         deliveries' = [deliveries EXCEPT ![i] = new]
  PROVE  KnownDeliveries'
BY ExceptSeq DEF KnownDeliveries

(* The answer to a post: the task is told apart by whether it gives up.    *)
LEMMA AnsweredKnown ==
  ASSUME KnownDeliveries, NEW i \in DOMAIN deliveries, NEW outcome \in Outcomes,
         Answered(i, outcome)
  PROVE  KnownDeliveries'
<1> DEFINE task == deliveries[i]
           posts == IF task.posts > MaxRetries + 1 THEN task.posts ELSE task.posts + 1
           last == IF outcome \in Final THEN outcome ELSE "failed"
           repeated == task.repeated \/ task.last \in Final
           handled == task.handled \/ outcome \in {"success", "answer_lost"}
           at == IF GivesUp(task, outcome) THEN "ended" ELSE "sleeping"
           new == [task EXCEPT !.posts = posts, !.last = last, !.repeated = repeated,
                               !.handled = handled, !.at = at]
<1>1. task \in KnownDelivery /\ task \in Delivery
  BY DEF KnownDeliveries, KnownDelivery
<1>2. task.posts = task.attempt /\ task.last \notin Final /\ task.at = "posting"
  BY <1>1 DEF Answered, KnownDelivery, Posting
<1>3. task.attempt \in 0..MaxRetries /\ MaxRetries \in Nat
  BY <1>1, WebhookAssumption DEF Delivery
<1>4. posts \in 0..(MaxRetries + 2) /\ posts = task.attempt + 1
  BY <1>2, <1>3
<1>5. /\ last \in {None, "success", "client_error", "failed"}
      /\ last \in Final \/ last = "failed"
      /\ last = "success" => outcome = "success"
  BY DEF Final
<1>6. repeated \in BOOLEAN /\ ~repeated
  BY <1>1, <1>2, Zenon DEF KnownDelivery
<1>7. handled \in BOOLEAN /\ (outcome = "success" => handled)
  BY Zenon
<1>8. /\ at \in {"ended", "sleeping"}
      /\ at = "ended" => last \in Final \/ task.attempt = MaxRetries
      /\ at = "sleeping" => last = "failed" /\ task.attempt < MaxRetries
  BY <1>3 DEF GivesUp, Retryable, Outcomes, Final
<1>9. deliveries' = [deliveries EXCEPT ![i] = new]
  <2>1. deliveries' = [deliveries EXCEPT ![i].posts = posts, ![i].last = last,
                         ![i].repeated = repeated, ![i].handled = handled, ![i].at = at]
    BY Zenon DEF Answered
  <2> HIDE DEF posts, last, repeated, handled, at
  <2> QED  BY <2>1
<1> HIDE DEF posts, last, repeated, handled, at
<1>10. new \in Delivery
  BY <1>1, <1>4, <1>5, <1>6, <1>7, <1>8 DEF Delivery
<1>11. /\ new.posts = posts /\ new.last = last /\ new.repeated = repeated
       /\ new.handled = handled /\ new.at = at /\ new.attempt = task.attempt
  BY <1>1 DEF Delivery
<1> HIDE DEF new, task
<1>12. new \in KnownDelivery
  <2>1. Posting(new) /\ Sleeping(new) /\ Ended(new)
    BY <1>4, <1>5, <1>8, <1>11 DEF Posting, Sleeping, Ended
  <2>2. ~new.repeated /\ (new.last = "success" => new.handled)
    BY <1>5, <1>6, <1>7, <1>11, Zenon
  <2>. QED
    BY <1>10, <2>1, <2>2, Zenon DEF KnownDelivery
<1>. QED
  BY <1>9, <1>12, ReplacedKnown

(* The end of a backoff: the next attempt starts with nothing final.       *)
LEMMA RetryKnown ==
  ASSUME KnownDeliveries, NEW i \in DOMAIN deliveries, Retry(i)
  PROVE  KnownDeliveries'
<1> DEFINE task == deliveries[i]
           backoff == NextBackoff(task.backoff)
           attempt == IF task.attempt < MaxRetries THEN task.attempt + 1 ELSE task.attempt
           new == [task EXCEPT !.at = "posting", !.backoff = backoff,
                               !.attempt = attempt]
<1>1. task \in KnownDelivery /\ task \in Delivery
  BY DEF KnownDeliveries, KnownDelivery
<1>2. /\ task.posts = task.attempt + 1 /\ task.last = "failed"
      /\ task.attempt < MaxRetries /\ task.attempt \in 0..MaxRetries
      /\ MaxRetries \in Nat
  BY <1>1, WebhookAssumption DEF Retry, KnownDelivery, Sleeping, Delivery
<1>3. backoff \in Nat
  BY <1>1, WebhookAssumption DEF Delivery, NextBackoff
<1>4. attempt = task.attempt + 1 /\ attempt \in 0..MaxRetries
  BY <1>2
<1>5. deliveries' = [deliveries EXCEPT ![i] = new]
  BY DEF Retry
<1> HIDE DEF backoff, attempt
<1>6. new \in Delivery
  BY <1>1, <1>3, <1>4 DEF Delivery
<1>7. /\ new.at = "posting" /\ new.posts = task.posts /\ new.attempt = attempt
      /\ new.last = task.last /\ new.repeated = task.repeated
  BY <1>1 DEF Delivery
<1>8. ~task.repeated
  BY <1>1 DEF KnownDelivery
<1> HIDE DEF new, task
<1>9. new \in KnownDelivery
  <2>1. Posting(new) /\ Sleeping(new) /\ Ended(new)
    BY <1>2, <1>4, <1>7 DEF Posting, Sleeping, Ended, Final
  <2>2. ~new.repeated /\ new.last # "success"
    BY <1>2, <1>7, <1>8
  <2>. QED
    BY <1>6, <2>1, <2>2, Zenon DEF KnownDelivery
<1>. QED
  BY <1>5, <1>9, ReplacedKnown

(* No event is given up early or posted after its last word: proved of     *)
(* WebhookNotifier::send for every retry policy.                           *)
THEOREM EventsAreNotLost == SpecWebhook => []LostOnlyIfExhausted
<1>1. InitWebhook => KnownDeliveries
  BY EmptySeq DEF InitWebhook, KnownDeliveries
<1>2. KnownDeliveries /\ [NextWebhook]_deliveryVars => KnownDeliveries'
  <2> SUFFICES ASSUME KnownDeliveries, [NextWebhook]_deliveryVars
               PROVE  KnownDeliveries'
    OBVIOUS
  <2>1. CASE Silent \/ UNCHANGED deliveryVars
    BY <2>1 DEF Silent, deliveryVars, KnownDeliveries
  <2>2. ASSUME NEW r \in Requests, RecordAndNotify(r) PROVE KnownDeliveries'
    BY <2>2, NotificationsKnown, ConcatProperties DEF RecordAndNotify, KnownDeliveries
  <2>3. ASSUME NEW a \in Admins, ResetAndNotify(a) PROVE KnownDeliveries'
    <3>1. notify_budget_reset \in Seq(KnownDelivery)
      BY SendKnown DEF notify_budget_reset, WebhookEvent
    <3>. QED
      BY <2>3, <3>1, ConcatProperties DEF ResetAndNotify, KnownDeliveries
  <2>4. ASSUME NEW i \in 1..MaxEvents, Deliver(i) PROVE KnownDeliveries'
    BY <2>4, AnsweredKnown, RetryKnown DEF Deliver
  <2>. QED
    BY <2>1, <2>2, <2>3, <2>4 DEF NextWebhook
<1>3. KnownDeliveries => LostOnlyIfExhausted
  <2> SUFFICES ASSUME KnownDeliveries, NEW i \in DOMAIN deliveries
               PROVE  /\ deliveries[i].at = "ended" /\ ~deliveries[i].handled =>
                           \/ deliveries[i].last = "client_error"
                           \/ deliveries[i].posts = MaxRetries + 1
                      /\ deliveries[i].posts <= MaxRetries + 1
                      /\ ~deliveries[i].repeated
    BY Zenon DEF LostOnlyIfExhausted
  <2>1. deliveries[i] \in KnownDelivery
    BY DEF KnownDeliveries
  <2>. QED
    BY <2>1, WebhookAssumption
    DEF KnownDelivery, Delivery, Posting, Sleeping, Ended, Final
<1>. QED
  BY <1>1, <1>2, <1>3, PTL DEF SpecWebhook

-----------------------------------------------------------------------------
(* Under SpecWebhook the budget's own steps are those of ClientBudget, and *)
(* those of an administrator who changes or removes the budget.            *)
LEMMA BudgetSteps ==
  ASSUME [NextWebhook]_deliveryVars
  PROVE  \/ [Next]_vars
         \/ \E b \in Budgets, p \in Periods : SetBudget(b, p)
         \/ ClearBudget
         \/ \E a \in Removals : RemovalNext(a)
<1>1. CASE Silent
  BY <1>1 DEF Silent, NextAdmin
<1>2. ASSUME NEW r \in Requests, RecordAndNotify(r) PROVE Next
  BY <1>2 DEF RecordAndNotify, Next, RequestNext
<1>3. ASSUME NEW a \in Admins, ResetAndNotify(a) PROVE Next
  BY <1>3 DEF ResetAndNotify, Next, AdminNext
<1>4. ASSUME NEW i \in 1..MaxEvents, Deliver(i) PROVE UNCHANGED vars
  BY <1>4 DEF Deliver, Answered, Retry, allVars
<1>5. CASE UNCHANGED deliveryVars
  BY <1>5 DEF deliveryVars, allVars
<1>. QED
  BY <1>1, <1>2, <1>3, <1>4, <1>5 DEF NextWebhook

(* The tracked entry is of some period's key, whoever wrote it: every      *)
(* caller under the mutex holds a key it computed.                         *)
EntryKeyed == client_spend # None => client_spend.period_key \in Keys

BudgetInv == TypeOK /\ EntryKeyed

LEMMA EntryKeyedStep ==
  ASSUME TypeOK, EntryKeyed, [Next]_vars
  PROVE  EntryKeyed'
<1>1. ASSUME NEW r \in Requests, CheckSpend(r) PROVE EntryKeyed'
  BY <1>1, RolledType DEF CheckSpend, TypeOK, Copied, Callers, EntryKeyed
<1>2. ASSUME NEW r \in Requests, RecordSpend(r) PROVE EntryKeyed'
  BY <1>2 DEF RecordSpend, TypeOK, Copied, Callers, EntryKeyed
<1>3. ASSUME NEW a \in Admins, ResetSpend(a) PROVE EntryKeyed'
  BY <1>3 DEF ResetSpend, TypeOK, Copied, Callers, EntryKeyed
<1>4. ASSUME NEW a \in Admins, ReportSpend(a) PROVE EntryKeyed'
  BY <1>4, RolledType DEF ReportSpend, TypeOK, Copied, Callers, EntryKeyed
<1>5. CASE UNCHANGED client_spend
  BY <1>5 DEF EntryKeyed
<1>. QED
  BY <1>1, <1>2, <1>3, <1>4, <1>5
  DEF Next, RequestNext, AdminNext, AdmitUnrestricted, CheckBudget, PricedAnswer,
      EndRequest, SkipRecord, StartRecord, StartReset, StartReport, Tick, vars

(* Both survive the administrator's steps too: the entry is then untouched *)
(* or gone, and a caller keeps the setting it copied.                      *)
LEMMA BudgetInvStep ==
  ASSUME BudgetInv, [NextWebhook]_deliveryVars
  PROVE  BudgetInv'
<1>1. CASE [Next]_vars
  BY <1>1, TypeStep, EntryKeyedStep DEF BudgetInv
<1>2. ASSUME NEW b \in Budgets, NEW p \in Periods, SetBudget(b, p)
      PROVE  BudgetInv'
  BY <1>2 DEF SetBudget, Unlocked, BudgetInv, TypeOK, EntryKeyed, Setting, Copied
<1>3. CASE ClearBudget
  BY <1>3 DEF ClearBudget, Unlocked, BudgetInv, TypeOK, EntryKeyed, Copied
<1>4. ASSUME NEW a \in Removals, RemovalNext(a) PROVE BudgetInv'
  BY <1>4 DEF RemovalNext, RemoveSetting, RemoveSpend, Unlocked, NothingSent,
              BudgetInv, TypeOK, EntryKeyed, Copied
<1>. QED
  BY <1>1, <1>2, <1>3, <1>4, BudgetSteps

(* With one key for all time, rolling the entry never restarts it, so no   *)
(* step of a request or a report lowers what is tracked.                   *)
LEMMA SpendOnlyReset ==
  ASSUME BudgetInv, NEW k, Keys = {k}, [Next]_vars,
         Spent(client_spend') < Spent(client_spend)
  PROVE  \E a \in Admins : ResetSpend(a)
<1> USE DEF BudgetInv, EntryKeyed
<1>1. ASSUME client_spend' = client_spend PROVE FALSE
  <2>1. Spent(client_spend) \in Nat
    BY DEF Spent, TypeOK, SpendState
  <2>. QED
    BY <1>1, <2>1
<1>2. ASSUME NEW key \in Keys
      PROVE  /\ Rolled(key).spent_usd = Spent(client_spend)
             /\ Rolled(key).spent_usd \in Nat /\ Rolled(key) # None
  BY KeysAreInts, BudgetAssumption DEF Rolled, Current, Spent, TypeOK, SpendState
<1>3. ASSUME NEW r \in Requests, CheckSpend(r) PROVE FALSE
  BY <1>2, <1>3 DEF CheckSpend, TypeOK, Copied, Callers, Spent
<1>4. ASSUME NEW a \in Admins, ReportSpend(a) PROVE FALSE
  BY <1>2, <1>4 DEF ReportSpend, TypeOK, Copied, Callers, Spent
<1>5. ASSUME NEW r \in Requests, RecordSpend(r) PROVE FALSE
  <2>1. current_key[r] \in Keys /\ cost[r] \in Nat
    BY <1>5, BudgetAssumption DEF RecordSpend, TypeOK, Copied, Callers
  <2>2. client_spend' = [period_key |-> current_key[r],
                         spent_usd |-> Rolled(current_key[r]).spent_usd + cost[r]]
    BY <1>5 DEF RecordSpend
  <2>3. client_spend' \in SpendState
    BY <1>2, <2>1, <2>2, KeysAreInts DEF SpendState
  <2>4. Spent(client_spend') = Spent(client_spend) + cost[r]
    BY <1>2, <2>1, <2>2, <2>3, BudgetAssumption DEF Spent
  <2>. QED
    BY <1>2, <2>1, <2>4
<1>. QED
  BY <1>1, <1>3, <1>4, <1>5
  DEF Next, RequestNext, AdminNext, AdmitUnrestricted, CheckBudget, PricedAnswer,
      EndRequest, SkipRecord, StartRecord, StartReset, StartReport, Tick, vars

(* While all days share one key (a "total" budget, or any budget within    *)
(* one of its periods), nothing an administrator does to the budget itself *)
(* lowers the tracked spend, for every number of callers: only             *)
(* reset_client_spend and remove_client do.                                *)
THEOREM SpendSurvives ==
  ASSUME NEW k, Keys = {k}
  PROVE  SpecWebhook => SpendSurvivesBudgetChange
<1>1. InitWebhook => BudgetInv
  BY BudgetAssumption, CallerAssumption
  DEF InitWebhook, InitAdmin, Init, BudgetInv, EntryKeyed, TypeOK, Days, Callers,
      Copied, Phases, NothingSent
<1>2. BudgetInv /\ [NextWebhook]_deliveryVars => BudgetInv'
  BY BudgetInvStep
<1>3. BudgetInv /\ [NextWebhook]_deliveryVars
        => [Spent(client_spend') < Spent(client_spend) =>
              \/ \E a \in Admins : ResetSpend(a)
              \/ \E a \in Removals : RemoveSpend(a)]_allVars
  <2> SUFFICES ASSUME BudgetInv, [NextWebhook]_deliveryVars,
                      Spent(client_spend') < Spent(client_spend)
               PROVE  \/ \E a \in Admins : ResetSpend(a)
                      \/ \E a \in Removals : RemoveSpend(a)
    OBVIOUS
  <2>1. CASE [Next]_vars
    BY <2>1, SpendOnlyReset
  <2>2. ASSUME client_spend' = client_spend PROVE FALSE
    <3>1. Spent(client_spend) \in Nat
      BY DEF BudgetInv, Spent, TypeOK, SpendState
    <3>. QED
      BY <2>2, <3>1
  <2>3. CASE \/ \E b \in Budgets, p \in Periods : SetBudget(b, p)
             \/ ClearBudget
    BY <2>2, <2>3 DEF SetBudget, ClearBudget, Unlocked
  <2>4. CASE \E a \in Removals : RemovalNext(a)
    BY <2>2, <2>4 DEF RemovalNext, RemoveSetting, Unlocked
  <2>. QED
    BY <2>1, <2>3, <2>4, BudgetSteps
<1>. QED
  BY <1>1, <1>2, <1>3, PTL DEF SpecWebhook, SpendSurvivesBudgetChange
=============================================================================
