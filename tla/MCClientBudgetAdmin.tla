------------------------ MODULE MCClientBudgetAdmin -------------------------
(* WebhookDelivery on a small instance, with the keys of real days.      *)
EXTENDS WebhookDelivery, TLC

Cal == INSTANCE PeriodKeys

CONSTANT FirstDay   \* The day since 1970-01-01 at which the clock starts.

MCPeriodKeyAt ==
  [p \in Cal!BudgetPeriod |-> [d \in 0..MaxDay |->
     Cal!period_key_at(p, (FirstDay + d) * Cal!SecondsPerDay)]]

Slots == Permutations(Requests)
=============================================================================
