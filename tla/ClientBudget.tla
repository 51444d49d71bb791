---------------------------- MODULE ClientBudget ----------------------------
(***************************************************************************)
(* The spend budget of one named client, kept in memory (no               *)
(* `[persistence]`): check_client_budget before a request is dispatched,  *)
(* record_client_spend for every priced answer or stream chunk, and the   *)
(* administrator's reset_client_spend and client_spend_status, all        *)
(* running concurrently.                                                  *)
(*                                                                        *)
(* Each of the four copies the budget setting and computes the period    *)
(* key first, and takes the client_spend mutex afterwards: these are two  *)
(* steps here, and every other request, reset and tick of the clock may   *)
(* come between them.  Every map of the code is keyed by client name and  *)
(* no operation reads another client's entry, so one client is modelled.  *)
(*                                                                        *)
(* Money is counted in integer units (the code uses f64).                 *)
(***************************************************************************)
EXTENDS Integers, FiniteSets

CONSTANTS
  Requests,     (* Concurrent request slots of this client; reused.        *)
  Admins,       (* Concurrent administrator calls (reset, spend status).   *)
  Budgets,      (* Values of budget_usd.                                   *)
  Warnings,     (* Values of warning_threshold * budget_usd.               *)
  Periods,      (* The budget periods.                                     *)
  MaxDay,       (* Bound on the clock.                                     *)
  PeriodKeyAt,  (* PeriodKeyAt[period][day]: the key of that day's period. *)
  MaxCost,      (* Largest cost of one answer or chunk.                    *)
  MaxChunks,    (* Largest number of priced chunks of one answer.          *)
  None          (* Absent entry.                                           *)

Days == 0..MaxDay
Keys == UNION { {PeriodKeyAt[p][d] : d \in Days} : p \in Periods }
Setting == [budget_usd : Budgets, warning : Warnings \cup {None}, period : Periods]
SpendState == [period_key : Int, spent_usd : Nat]
Callers == Requests \cup Admins

ASSUME CallerAssumption ==
  /\ IsFiniteSet(Requests) /\ Requests \cap Admins = {}
ASSUME BudgetAssumption ==
  /\ Budgets \subseteq Nat /\ Warnings \subseteq Nat
  /\ MaxCost \in Nat /\ MaxChunks \in Nat /\ MaxDay \in Nat
  /\ None \notin Setting /\ None \notin SpendState /\ None \notin Warnings
ASSUME PeriodAssumption ==
  \A p \in Periods : PeriodKeyAt[p] \in [Days -> Int]

VARIABLES
  day,            (* The clock, as far as period keys tell it.             *)
  client_budgets, (* This client's ClientBudgetSetting, or None.           *)
  client_spend,   (* This client's SpendState, or None.                    *)
  pc,             (* Where each request or reset is.                       *)
  setting,        (* The setting each caller copied.                       *)
  current_key,    (* The period key each caller computed.                  *)
  cost,           (* The cost each request is about to record.             *)
  chunks,         (* Priced chunks each request has recorded.              *)
  charged,        (* History: cost recorded under each key since a reset.  *)
  notified        (* History: webhook events since spend last restarted.   *)

vars == <<day, client_budgets, client_spend, pc, setting, current_key, cost,
          chunks, charged, notified>>

Phases == {"idle", "checking", "dispatching", "priced", "recording", "resetting",
           "reporting"}

(* A caller between its copy and its lock.                                 *)
Copied(c) == pc[c] \in {"checking", "recording", "resetting", "reporting"}

TypeOK ==
  /\ day \in Days
  /\ client_budgets \in Setting \cup {None}
  /\ client_spend \in SpendState \cup {None}
  /\ pc \in [Callers -> Phases]
  /\ \A r \in Admins : pc[r] \in {"idle", "resetting", "reporting"}
  /\ setting \in [Callers -> Setting \cup {None}]
  /\ \A c \in Callers : Copied(c) => setting[c] \in Setting
  /\ current_key \in [Callers -> Keys \cup {0}]
  /\ \A c \in Callers : Copied(c) => current_key[c] \in Keys
  /\ cost \in [Requests -> 0..MaxCost]
  /\ chunks \in [Requests -> 0..MaxChunks]
  /\ \A r \in Requests : pc[r] \in {"priced", "recording"} => chunks[r] < MaxChunks
  /\ charged \in [Keys -> Nat]
  /\ notified \in [exceeded : Nat, warning : Nat]

NothingSent == [exceeded |-> 0, warning |-> 0]

Init ==
  /\ day = 0
  /\ client_budgets \in Setting \cup {None}
  /\ client_spend = None
  /\ pc = [c \in Callers |-> "idle"]
  /\ setting = [c \in Callers |-> None]
  /\ current_key = [c \in Callers |-> 0]
  /\ cost = [r \in Requests |-> 0]
  /\ chunks = [r \in Requests |-> 0]
  /\ charged = [k \in Keys |-> 0]
  /\ notified = NothingSent

-----------------------------------------------------------------------------
(* The entry as `entry().or_default()` followed by roll_period_if_needed   *)
(* leaves it: spend restarts from zero unless it is of period key k.       *)
Current(k) == client_spend # None /\ client_spend.period_key = k

RolledKeepingSpend(k) == IF client_spend # None   \* slip: total not zeroed
                         THEN [client_spend EXCEPT !.period_key = k]
                         ELSE [period_key |-> k, spent_usd |-> 0]

Rolled(k) == IF Current(k) THEN client_spend
             ELSE [period_key |-> k, spent_usd |-> 0]

NotifiedAfterRoll(k) == IF Current(k) THEN notified ELSE NothingSent

Copy(c) ==
  /\ setting' = [setting EXCEPT ![c] = client_budgets]
  /\ current_key' = [current_key EXCEPT
                       ![c] = PeriodKeyAt[client_budgets.period][day]]

(* The caller's copies go out of scope.                                    *)
Drop(c) ==
  /\ setting' = [setting EXCEPT ![c] = None]
  /\ current_key' = [current_key EXCEPT ![c] = 0]

Goto(c, phase) == pc' = [pc EXCEPT ![c] = phase]

(* check_client_budget for a client with no budget: admitted, unchecked.   *)
AdmitUnrestricted(r) ==
  /\ pc[r] = "idle" /\ client_budgets = None
  /\ Goto(r, "dispatching")
  /\ UNCHANGED <<day, client_budgets, client_spend, setting, current_key,
                 cost, chunks, charged, notified>>

(* check_client_budget up to the lock: copy the setting, compute the key.  *)
CheckBudget(r) ==
  /\ pc[r] = "idle" /\ client_budgets # None
  /\ Copy(r)
  /\ Goto(r, "checking")
  /\ UNCHANGED <<day, client_budgets, client_spend, cost, chunks, charged,
                 notified>>

(* spent_usd_for under the mutex, and the comparison: 402 or dispatch.     *)
BlockedAbove(r) ==   \* slip: `>` for `>=`
  Rolled(current_key[r]).spent_usd > setting[r].budget_usd

Blocked(r) == Rolled(current_key[r]).spent_usd >= setting[r].budget_usd

CheckSpend(r) ==
  /\ pc[r] = "checking"
  /\ client_spend' = Rolled(current_key[r])
  /\ notified' = NotifiedAfterRoll(current_key[r])
  /\ Goto(r, IF Blocked(r) THEN "idle" ELSE "dispatching")
  /\ Drop(r)
  /\ UNCHANGED <<day, client_budgets, cost, chunks, charged>>

(* The dispatch returns an answer, or the stream a chunk, with a cost.     *)
PricedAnswer(r, c) ==
  /\ pc[r] = "dispatching" /\ chunks[r] < MaxChunks
  /\ cost' = [cost EXCEPT ![r] = c]
  /\ Goto(r, "priced")
  /\ UNCHANGED <<day, client_budgets, client_spend, setting, current_key,
                 chunks, charged, notified>>

(* Error, unpriced answer, end of stream, or the caller hung up.           *)
EndRequest(r) ==
  /\ pc[r] = "dispatching"
  /\ Goto(r, "idle")
  /\ chunks' = [chunks EXCEPT ![r] = 0]
  /\ UNCHANGED <<day, client_budgets, client_spend, setting, current_key,
                 cost, charged, notified>>

(* record_client_spend for a client whose budget is gone: nothing to do.   *)
SkipRecord(r) ==
  /\ pc[r] = "priced" /\ client_budgets = None
  /\ Goto(r, "dispatching")
  /\ chunks' = [chunks EXCEPT ![r] = @ + 1]
  /\ cost' = [cost EXCEPT ![r] = 0]
  /\ UNCHANGED <<day, client_budgets, client_spend, setting, current_key,
                 charged, notified>>

(* record_client_spend up to the lock.                                     *)
StartRecord(r) ==
  /\ pc[r] = "priced" /\ client_budgets # None
  /\ Copy(r)
  /\ Goto(r, "recording")
  /\ UNCHANGED <<day, client_budgets, client_spend, cost, chunks, charged,
                 notified>>

(* Does adding `amount` to `before` cross `limit` from below?              *)
CrossesAgain(before, amount, limit) ==   \* slip: `before <= limit`
  before <= limit /\ before + amount >= limit

Crosses(before, amount, limit) == before < limit /\ before + amount >= limit

(* record_client_spend under the mutex, with the webhook events it queues  *)
(* right after the unlock (each only spawns a delivery task).              *)
RecordSpend(r) ==
  LET k == current_key[r]
      before == Rolled(k).spent_usd
      sent == NotifiedAfterRoll(k)
      limit == setting[r].warning
  IN
  /\ pc[r] = "recording"
  /\ client_spend' = [period_key |-> k, spent_usd |-> before + cost[r]]
  /\ notified' =
       [exceeded |-> IF Crosses(before, cost[r], setting[r].budget_usd)
                     THEN sent.exceeded + 1 ELSE sent.exceeded,
        warning |-> IF limit # None /\ Crosses(before, cost[r], limit)
                    THEN sent.warning + 1 ELSE sent.warning]
  /\ charged' = [charged EXCEPT ![k] = @ + cost[r]]
  /\ chunks' = [chunks EXCEPT ![r] = @ + 1]
  /\ cost' = [cost EXCEPT ![r] = 0]
  /\ Goto(r, "dispatching")
  /\ Drop(r)
  /\ UNCHANGED <<day, client_budgets>>

(* reset_client_spend: a no-op without a budget, else copy and overwrite.  *)
StartReset(a) ==
  /\ pc[a] = "idle" /\ client_budgets # None
  /\ Copy(a)
  /\ Goto(a, "resetting")
  /\ UNCHANGED <<day, client_budgets, client_spend, cost, chunks, charged,
                 notified>>

ResetSpend(a) ==
  /\ pc[a] = "resetting"
  /\ client_spend' = [period_key |-> current_key[a], spent_usd |-> 0]
  /\ charged' = [charged EXCEPT ![current_key[a]] = 0]
  /\ notified' = NothingSent
  /\ Goto(a, "idle")
  /\ Drop(a)
  /\ UNCHANGED <<day, client_budgets, cost, chunks>>

(* client_spend_status, for GET /v1/admin/clients: its spent_usd_for rolls  *)
(* the entry too.                                                          *)
StartReport(a) ==
  /\ pc[a] = "idle" /\ client_budgets # None
  /\ Copy(a)
  /\ Goto(a, "reporting")
  /\ UNCHANGED <<day, client_budgets, client_spend, cost, chunks, charged,
                 notified>>

ReportSpend(a) ==
  /\ pc[a] = "reporting"
  /\ client_spend' = Rolled(current_key[a])
  /\ notified' = NotifiedAfterRoll(current_key[a])
  /\ Goto(a, "idle")
  /\ Drop(a)
  /\ UNCHANGED <<day, client_budgets, cost, chunks, charged>>

(* Midnight (UTC) passes.                                                  *)
Tick ==
  /\ day < MaxDay
  /\ day' = day + 1
  /\ UNCHANGED <<client_budgets, client_spend, pc, setting, current_key, cost,
                 chunks, charged, notified>>

RequestNext(r) ==
  \/ AdmitUnrestricted(r)
  \/ CheckBudget(r)
  \/ CheckSpend(r)
  \/ \E c \in 0..MaxCost : PricedAnswer(r, c)
  \/ EndRequest(r)
  \/ SkipRecord(r)
  \/ StartRecord(r)
  \/ RecordSpend(r)

AdminNext(a) ==
  \/ StartReset(a)
  \/ ResetSpend(a)
  \/ StartReport(a)
  \/ ReportSpend(a)

Next ==
  \/ \E r \in Requests : RequestNext(r)
  \/ \E a \in Admins : AdminNext(a)
  \/ Tick

Spec == Init /\ [][Next]_vars

-----------------------------------------------------------------------------
(* Charges that admitted requests may still record, as <<request, chunk>>. *)
Charges == Requests \X (1..MaxChunks)

InFlight(r) == pc[r] \in {"dispatching", "priced", "recording"}

Outstanding == { x \in Charges : InFlight(x[1]) /\ chunks[x[1]] < x[2] }

(* The overshoot of a budget is bounded by what was in flight when it was  *)
(* reached: tracked spend, plus everything admitted requests can still     *)
(* record, stays below the budget plus what all the slots can record once, *)
(* however often the slots are reused.  (check_client_budget comes before  *)
(* dispatch and record_client_spend after it.)                             *)
OvershootBounded ==
  client_budgets # None /\ client_budgets.budget_usd > 0 /\ client_spend # None
    => client_spend.spent_usd + MaxCost * Cardinality(Outstanding)
         < client_budgets.budget_usd + MaxCost * Cardinality(Charges)

(* Since tracked spend last restarted from zero, budget_exceeded was sent  *)
(* exactly once if it has reached the budget and not at all otherwise, and *)
(* budget_warning likewise for its threshold: concurrent charges at the    *)
(* boundary neither repeat an event nor lose it.                           *)
Crossed(limit) == IF client_spend.spent_usd >= limit THEN 1 ELSE 0

NotifiedOncePerCrossing ==
  client_budgets # None /\ client_spend # None =>
    /\ client_budgets.budget_usd > 0 =>
         notified.exceeded = Crossed(client_budgets.budget_usd)
    /\ client_budgets.warning \notin {None, 0} =>
         notified.warning = Crossed(client_budgets.warning)

(* The tracked spend of a period is never more than what was recorded      *)
(* under that period's key: no request is refused for money spent in       *)
(* another period or before a reset.                                       *)
NeverOverstated ==
  client_spend # None =>
    client_spend.spent_usd <=
      IF client_spend.period_key \in Keys
      THEN charged[client_spend.period_key] ELSE 0

(* README.md:1209-1211: once the spend of the current period reaches the   *)
(* budget, further requests get 402 until the period resets: no request is *)
(* admitted in a period whose recorded cost has reached the budget.        *)
AdmittedToday(r) ==
  /\ pc[r] = "checking" /\ pc'[r] = "dispatching"
  /\ current_key[r] = PeriodKeyAt[setting[r].period][day]

ExhaustedStaysBlocked ==
  [][\A r \in Requests :
       AdmittedToday(r) => charged[current_key[r]] < setting[r].budget_usd]_vars

=============================================================================
