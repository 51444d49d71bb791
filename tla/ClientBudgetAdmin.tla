------------------------- MODULE ClientBudgetAdmin --------------------------
(***************************************************************************)
(* ClientBudget with the administrator changing the client's budget while  *)
(* requests run: set_client_budget (POST and PATCH /v1/admin/clients) and  *)
(* remove_client (DELETE), whose two maps are under two locks.             *)
(***************************************************************************)
EXTENDS ClientBudget

CONSTANTS
  Removals,    (* Concurrent remove_client calls.                          *)
  MaxCharged   (* Bound on the cost recorded under one key.                *)

VARIABLES
  removal    (* Where each remove_client call is.                          *)

allVars == <<vars, removal>>

RemovalPhases == {"idle", "budget_removed"}

TypeOKAdmin ==
  /\ TypeOK
  /\ removal \in [Removals -> RemovalPhases]

InitAdmin ==
  /\ Init
  /\ removal = [a \in Removals |-> "idle"]

Unlocked == <<day, client_spend, pc, setting, current_key, cost, chunks,
              charged, notified>>

(* set_client_budget(Some(..)): the setting alone, without a threshold.    *)
SetBudgetClearingSpend(b, p) ==   \* slip: also forgets the spend
  /\ client_budgets' = [budget_usd |-> b, warning |-> None, period |-> p]
  /\ client_spend' = None
  /\ UNCHANGED <<day, pc, setting, current_key, cost, chunks, charged,
                 notified, removal>>

SetBudget(b, p) ==
  /\ client_budgets' = [budget_usd |-> b, warning |-> None, period |-> p]
  /\ UNCHANGED <<Unlocked, removal>>

(* set_client_budget(None).                                                *)
ClearBudget ==
  /\ client_budgets' = None
  /\ UNCHANGED <<Unlocked, removal>>

(* remove_client: the setting first, then the tracked spend.               *)
RemoveSetting(a) ==
  /\ removal[a] = "idle"
  /\ client_budgets' = None
  /\ removal' = [removal EXCEPT ![a] = "budget_removed"]
  /\ UNCHANGED Unlocked

RemoveSpend(a) ==
  /\ removal[a] = "budget_removed"
  /\ client_spend' = None
  /\ notified' = NothingSent
  /\ removal' = [removal EXCEPT ![a] = "idle"]
  /\ UNCHANGED <<day, client_budgets, pc, setting, current_key, cost, chunks,
                 charged>>

RemovalNext(a) == RemoveSetting(a) \/ RemoveSpend(a)

NextAdmin ==
  \/ /\ Next /\ UNCHANGED removal
     /\ \A k \in Keys : charged'[k] <= MaxCharged
  \/ \E b \in Budgets, p \in Periods : SetBudget(b, p)
  \/ ClearBudget
  \/ \E a \in Removals : RemovalNext(a)

SpecAdmin == InitAdmin /\ [][NextAdmin]_allVars

-----------------------------------------------------------------------------
(* Tracked spend goes down only because the clock moved on to a period     *)
(* (or a call still holds the key of an earlier or later one), or because  *)
(* an administrator reset or removed it.                                   *)
Spent(entry) == IF entry = None THEN 0 ELSE entry.spent_usd

(* lib.rs:1655-1661 (set_client_budget): "Doesn't touch tracked spend      *)
(* either way, so re-adding a budget after clearing it picks up wherever   *)
(* the client's spend already was": within one day, nothing but a reset or *)
(* a removal lowers the tracked spend.                                     *)
SpendSurvivesBudgetChange ==
  [][Spent(client_spend') < Spent(client_spend) =>
       \/ \E a \in Admins : ResetSpend(a)
       \/ \E a \in Removals : RemoveSpend(a)]_allVars
=============================================================================
