--------------------------- MODULE WebhookDelivery ---------------------------
(***************************************************************************)
(* The webhook events of a client's budget on their way to the receiver:   *)
(* ClientBudgetAdmin with [webhook] set.  A charge that crosses the budget *)
(* or its warning threshold, and a reset, each spawn a task that posts the *)
(* event, waits for the answer and tries again after a backoff when the    *)
(* receiver failed or could not be reached.                                *)
(***************************************************************************)
EXTENDS ClientBudgetAdmin, Sequences

CONSTANTS
  MaxEvents,       (* Bound on the events.                                 *)
  MaxRetries,      (* webhook.max_retries                                  *)
  InitialBackoff,  (* webhook.retry_backoff_secs                           *)
  MaxBackoff       (* webhook.retry_backoff_max_secs                       *)

ASSUME WebhookAssumption ==
  /\ {MaxEvents, MaxRetries, InitialBackoff, MaxBackoff} \subseteq Nat
  /\ None \notin {"success", "client_error", "failed"}

VARIABLE
  deliveries    (* The tasks, in the order they were spawned.              *)

deliveryVars == <<allVars, deliveries>>

WebhookEvent == {"budget_exceeded", "budget_reset", "budget_warning"}

(* What comes of a post: an answer with a status, or none (the connection  *)
(* fails, or the timeout passes), where the receiver may have handled the  *)
(* event nevertheless.                                                     *)
Outcomes == {"success", "client_error", "server_error", "unreachable", "answer_lost"}

(* at: "posting", "sleeping" or "ended".  The rest is history: the posts   *)
(* so far (up to one too many), what came of the last one, whether one     *)
(* after a success or a refusal, and whether the receiver has the event.   *)
Delivery == [event : WebhookEvent, at : {"posting", "sleeping", "ended"},
             attempt : 0..MaxRetries, backoff : Nat,
             posts : 0..(MaxRetries + 2), last : {None, "success", "client_error", "failed"},
             repeated : BOOLEAN, handled : BOOLEAN]

TypeOKWebhook == TypeOKAdmin /\ deliveries \in Seq(Delivery)

InitWebhook == InitAdmin /\ deliveries = <<>>

(* WebhookNotifier::send: the task is spawned, and nobody waits for it.    *)
Send(event) == <<[event |-> event, at |-> "posting", attempt |-> 0,
                  backoff |-> InitialBackoff, posts |-> 0, last |-> None,
                  repeated |-> FALSE, handled |-> FALSE]>>

notify_budget_exceeded == Send("budget_exceeded")
notify_budget_warning == Send("budget_warning")
notify_budget_reset == Send("budget_reset")

(* The events of the charge r is about to record, in the order of the code. *)
Notifications(r) ==
  LET before == Rolled(current_key[r]).spent_usd
      limit == setting[r].warning
  IN (IF Crosses(before, cost[r], setting[r].budget_usd) THEN notify_budget_exceeded ELSE <<>>)
     \o (IF limit # None /\ Crosses(before, cost[r], limit) THEN notify_budget_warning ELSE <<>>)

RecordAndNotify(r) ==
  /\ RecordSpend(r)
  /\ deliveries' = deliveries \o Notifications(r)
  /\ \A k \in Keys : charged'[k] <= MaxCharged
  /\ UNCHANGED removal

ResetAndNotify(a) ==
  /\ ResetSpend(a)
  /\ deliveries' = deliveries \o notify_budget_reset
  /\ UNCHANGED removal

(* Every other step of ClientBudgetAdmin sends nothing.                    *)
Silent ==
  /\ NextAdmin
  /\ \A c \in Callers : pc[c] \in {"recording", "resetting"} => pc'[c] = pc[c]
  /\ UNCHANGED deliveries

-----------------------------------------------------------------------------
(* Worth another try: the receiver failed, or nobody knows.                *)
RetryableUnreached(outcome) ==   \* slip: a 5xx is final
  outcome \in {"unreachable", "answer_lost"}
Retryable(outcome) == outcome \in {"server_error", "unreachable", "answer_lost"}

GivesUpNever(task, outcome) == ~Retryable(outcome)   \* slip: no last attempt
GivesUp(task, outcome) == ~Retryable(outcome) \/ task.attempt >= MaxRetries

Final == {"success", "client_error"}

(* A post is answered, or fails within the client's timeout.               *)
Answered(i, outcome) ==
  /\ deliveries[i].at = "posting"
  /\ deliveries' = [deliveries EXCEPT
       ![i].posts = IF @ > MaxRetries + 1 THEN @ ELSE @ + 1,
       ![i].last = IF outcome \in Final THEN outcome ELSE "failed",
       ![i].repeated = @ \/ deliveries[i].last \in Final,
       ![i].handled = @ \/ outcome \in {"success", "answer_lost"},
       ![i].at = IF GivesUp(deliveries[i], outcome) THEN "ended" ELSE "sleeping"]
  /\ UNCHANGED allVars

NextBackoff(current) == IF 2 * current < MaxBackoff THEN 2 * current ELSE MaxBackoff

(* The backoff has passed.                                                 *)
Retry(i) ==
  /\ deliveries[i].at = "sleeping"
  /\ deliveries' = [deliveries EXCEPT
       ![i].at = "posting",
       ![i].backoff = NextBackoff(@),
       ![i].attempt = IF @ < MaxRetries THEN @ + 1 ELSE @]
  /\ UNCHANGED allVars

Deliver(i) ==
  /\ i \in DOMAIN deliveries
  /\ (\E outcome \in Outcomes : Answered(i, outcome)) \/ Retry(i)

NextWebhook ==
  \/ Silent
  \/ /\ \/ \E r \in Requests : RecordAndNotify(r)
        \/ \E a \in Admins : ResetAndNotify(a)
     /\ Len(deliveries') <= MaxEvents
  \/ \E i \in 1..MaxEvents : Deliver(i)

(* Tokio runs the tasks, and the client's timeout ends every post.         *)
SpecWebhook == InitWebhook /\ [][NextWebhook]_deliveryVars
                 /\ \A i \in 1..MaxEvents : WF_deliveryVars(Deliver(i))

-----------------------------------------------------------------------------
(* Property: whatever happens to the posts of an event, its task ends      *)
(* without the receiver having handled it only if the receiver refused it  *)
(* or every attempt that was granted failed; and it is posted again only   *)
(* after a failure, so that the receiver handles it twice only if an       *)
(* answer was lost.                                                        *)
LostOnlyIfExhausted ==
  \A i \in DOMAIN deliveries :
    LET task == deliveries[i]
    IN /\ task.at = "ended" /\ ~task.handled =>
            task.last = "client_error" \/ task.posts = MaxRetries + 1
       /\ task.posts <= MaxRetries + 1
       /\ ~task.repeated

(* Property: every event is delivered or given up, however long the        *)
(* receiver fails; no task retries for ever.                               *)
DeliveriesConclude ==
  \A i \in 1..MaxEvents :
    (i \in DOMAIN deliveries) ~> (i \in DOMAIN deliveries /\ deliveries[i].at = "ended")
=============================================================================
