---------------------------- MODULE SpendLedger -----------------------------
(***************************************************************************)
(* `[persistence]` (persistence.rs and its callers in lib.rs): processes   *)
(* that share one database for usage, daily history and the spend of a     *)
(* budgeted client.  No caller waits for a write: it goes to the queue of  *)
(* a writer thread (SQLite, in order) or to a task of its own (Postgres,   *)
(* in any order).  Budget checks and webhook events read the shared row,   *)
(* GET /v1/usage the shared table or, when that cannot be read, the memory *)
(* of the process.                                                         *)
(*                                                                         *)
(* One client is modelled, money is in integer units, and a row of the     *)
(* usage tables is its number of requests: tokens and cost are added by    *)
(* the same statement.                                                     *)
(***************************************************************************)
EXTENDS Naturals, Sequences, SequencesExt, FiniteSetsExt

CONSTANTS
  Processes,    (* The processes sharing the database.                     *)
  Slots,        (* Concurrent requests, as <<process, number>>.            *)
  Backends,     (* Values of [persistence].backend.                        *)
  Budget,       (* budget_usd.                                             *)
  Limit,        (* The amounts with an event: event -> amount.             *)
  Costs,        (* Costs of a priced answer.                               *)
  MaxDay,       (* Bound on the clock.                                     *)
  KeyAt,        (* The period key of each day.                             *)
  MaxRequests, MaxResets, MaxMishaps,   (* Bounds; a mishap is a restart or *)
                                        (*   a failing read or write.       *)
  None

Days == 0..MaxDay
Keys == {KeyAt[d] : d \in Days}
Events == DOMAIN Limit

(* The rows of usage_stats and client_daily_usage.                         *)
Rows == {<<"usage", 0>>} \cup ({"daily"} \X Days)

(* SqliteWrite: what a caller hands over, for Postgres as well.            *)
Write == [kind : {"usage", "daily", "spend", "reset"}, key : Keys \cup Days,
          cost : Costs \cup {0}]

ASSUME LedgerAssumption ==
  /\ Slots \subseteq Processes \X Nat /\ Backends \subseteq {"sqlite", "postgres"}
  /\ Budget \in Nat \ {0} /\ Costs \subseteq Nat \ {0} /\ Limit \in [Events -> Nat \ {0}]
  /\ MaxDay \in Nat /\ KeyAt \in [Days -> Nat]
  /\ \A d, e \in Days : d <= e => KeyAt[d] <= KeyAt[e]   (* No period returns. *)
  /\ None \notin Nat \cup [key : Keys, spent : Nat]

VARIABLES
  backend,  (* The configured backend.                                     *)
  day,      (* The clock.                                                  *)
  row,      (* This client's row of client_spend: [key, spent], or None.   *)
  counts,   (* requests of each row of the other two tables.               *)
  pending,  (* The writes each process has not applied yet.                *)
  writer,   (* The SQLite writer thread of each process.                   *)
  memory,   (* Router.usage: the requests each process knows of.           *)
  slot,     (* The request each slot serves.                               *)
  readers,  (* The tasks reading spend back for the webhook.               *)
  events,   (* Events handed to the webhook.                               *)
  recorded, (* History: requests recorded, for each row.                   *)
  owed,     (* History: cost recorded under each key since its last reset. *)
  writers,  (* History: processes that changed the spend so far.           *)
  bounds    (* Requests, resets and mishaps so far.                        *)

vars == <<backend, day, row, counts, pending, writer, memory, slot, readers, events,
          recorded, owed, writers, bounds>>

(* key, cost: local variables.                                             *)
Request == [at : {"idle", "checking", "dispatching", "answered", "priced"},
            key : Keys \cup {0}, cost : Costs \cup {0, None}]
IdleRequest == [at |-> "idle", key |-> 0, cost |-> 0]

Reader == [process : Processes, key : Keys, cost : Costs, id : 1..MaxRequests]

TypeOK ==
  /\ backend \in Backends /\ writers \subseteq Processes
  /\ day \in Days
  /\ row = None \/ row \in [key : Keys, spent : Nat]
  /\ counts \in [Rows -> Nat] /\ recorded \in [Rows -> Nat]
  /\ pending \in [Processes -> Seq(Write)]
  /\ writer \in [Processes -> {"opening", "running", "gone"}]
  /\ memory \in [Processes -> Nat]
  /\ slot \in [Slots -> Request]
  /\ \A s \in Slots : slot[s].at = "priced" => slot[s].cost \in Costs
  /\ readers \subseteq Reader
  /\ events \in [Events -> Nat]
  /\ owed \in [Keys -> Nat]
  /\ bounds \in [requests : 0..MaxRequests, resets : 0..MaxResets, mishaps : 0..MaxMishaps]

Init ==
  /\ backend \in Backends /\ writers = {}
  /\ day = 0 /\ row = None
  /\ counts = [r \in Rows |-> 0] /\ recorded = [r \in Rows |-> 0]
  /\ pending = [p \in Processes |-> <<>>]
  /\ writer = [p \in Processes |-> "opening"]
  /\ memory = [p \in Processes |-> 0]
  /\ slot = [s \in Slots |-> IdleRequest]
  /\ readers = {} /\ events = [e \in Events |-> 0]
  /\ owed = [k \in Keys |-> 0]
  /\ bounds = [requests |-> 0, resets |-> 0, mishaps |-> 0]

(* A restart, or a read or write that does not reach the database.         *)
Mishap == bounds.mishaps < MaxMishaps /\ bounds' = [bounds EXCEPT !.mishaps = @ + 1]

UsageWrite == [kind |-> "usage", key |-> 0, cost |-> 0]
DailyWrite(d) == [kind |-> "daily", key |-> d, cost |-> 0]
SpendWrite(k, cost) == [kind |-> "spend", key |-> k, cost |-> cost]
ResetWrite(k) == [kind |-> "reset", key |-> k, cost |-> 0]

(* The facade hands a write to its backend.  SQLite: to the channel of the *)
(* writer thread, which drops it once the thread is gone.                  *)
Enqueue(p, w) ==
  pending' = IF writer[p] = "gone" THEN pending ELSE [pending EXCEPT ![p] = Append(@, w)]

-----------------------------------------------------------------------------
(* check_client_budget: compute the key, then await the row.               *)
StartCheck(s) ==
  /\ slot[s].at = "idle" /\ bounds.requests < MaxRequests
  /\ bounds' = [bounds EXCEPT !.requests = @ + 1]
  /\ slot' = [slot EXCEPT ![s] = [IdleRequest EXCEPT !.at = "checking", !.key = KeyAt[day]]]
  /\ UNCHANGED <<backend, day, row, counts, pending, writer, memory, readers, events,
                 recorded, owed, writers>>

(* The row as a reader sees it, also one of a past period.                 *)
ClientSpend == row

(* What counts of it in the period key.                                    *)
Spent(key) ==
  IF ClientSpend # None /\ ClientSpend.key = key THEN ClientSpend.spent ELSE 0

(* 402 or dispatch; a row that cannot be read counts as unspent.           *)
FinishCheck(s) ==
  /\ slot[s].at = "checking"
  /\ \/ /\ slot' = [slot EXCEPT ![s] = IF Spent(slot[s].key) >= Budget THEN IdleRequest
                                       ELSE [IdleRequest EXCEPT !.at = "dispatching"]]
        /\ UNCHANGED bounds
     \/ /\ Mishap
        /\ slot' = [slot EXCEPT ![s] = [IdleRequest EXCEPT !.at = "dispatching"]]
  /\ UNCHANGED <<backend, day, row, counts, pending, writer, memory, readers, events,
                 recorded, owed, writers>>

(* No answer, or one without usage.                                        *)
NoAnswer(s) ==
  /\ slot[s].at = "dispatching"
  /\ slot' = [slot EXCEPT ![s] = IdleRequest]
  /\ UNCHANGED <<backend, day, row, counts, pending, writer, memory, readers, events,
                 recorded, owed, bounds, writers>>

(* record_usage, inside the dispatch; cost None is an unpriced model.      *)
Answer(s, cost) ==
  /\ slot[s].at = "dispatching"
  /\ Enqueue(s[1], UsageWrite)
  /\ memory' = [memory EXCEPT ![s[1]] = @ + 1]
  /\ recorded' = [recorded EXCEPT ![<<"usage", 0>>] = @ + 1]
  /\ slot' = [slot EXCEPT ![s] = [IdleRequest EXCEPT !.at = "answered", !.cost = cost]]
  /\ UNCHANGED <<backend, day, row, counts, writer, readers, events, owed, bounds,
                 writers>>

AfterDaily(request) ==
  IF request.cost = None THEN IdleRequest ELSE [request EXCEPT !.at = "priced"]

(* record_client_daily_usage, for every named client.                      *)
RecordDaily(s) ==
  /\ slot[s].at = "answered"
  /\ Enqueue(s[1], DailyWrite(day))
  /\ recorded' = [recorded EXCEPT ![<<"daily", day>>] = @ + 1]
  /\ slot' = [slot EXCEPT ![s] = AfterDaily(slot[s])]
  /\ UNCHANGED <<backend, day, row, counts, writer, memory, readers, events, owed, bounds,
                 writers>>

(* record_client_spend: hand the charge over, and start a task that reads  *)
(* the total back.  It reads the clock anew: midnight may have passed.     *)
RecordSpend(s) ==
  LET key == KeyAt[day]
      cost == slot[s].cost
      free == {i \in 1..MaxRequests : \A r \in readers : r.id # i}
  IN
  /\ slot[s].at = "priced"
  /\ Enqueue(s[1], SpendWrite(key, cost))
  /\ owed' = [owed EXCEPT ![key] = @ + cost]
  /\ writers' = writers \cup {s[1]}
  /\ readers' = readers \cup {[process |-> s[1], key |-> key, cost |-> cost, id |-> Min(free)]}
  /\ slot' = [slot EXCEPT ![s] = IdleRequest]
  /\ UNCHANGED <<backend, day, row, counts, writer, memory, events, recorded, bounds>>

(* The task: an event when the total, without this charge, was below the   *)
(* amount.  A failed read ends it.                                         *)
ReadsAnyPeriod(r) == row # None   \* slip: key not compared
ReadsItsPeriod(r) == row # None /\ row.key = r.key
CrossedBy(r, e) ==
  ReadsItsPeriod(r) /\ row.spent < Limit[e] + r.cost /\ row.spent >= Limit[e]

ReadBack(r) ==
  /\ readers' = readers \ {r}
  /\ \/ /\ events' = [e \in Events |-> IF CrossedBy(r, e) THEN events[e] + 1 ELSE events[e]]
        /\ UNCHANGED bounds
     \/ Mishap /\ UNCHANGED events
  /\ UNCHANGED <<backend, day, row, counts, pending, writer, memory, slot, recorded, owed,
                 writers>>

(* reset_client_spend, answered before the write is applied.               *)
Reset(p) ==
  /\ bounds.resets < MaxResets /\ bounds' = [bounds EXCEPT !.resets = @ + 1]
  /\ Enqueue(p, ResetWrite(KeyAt[day]))
  /\ owed' = [owed EXCEPT ![KeyAt[day]] = 0]
  /\ writers' = writers \cup {p}
  /\ UNCHANGED <<backend, day, row, counts, writer, memory, slot, readers, events,
                 recorded>>

-----------------------------------------------------------------------------
(* The database executes one write: the two upserts of client_spend and    *)
(* those of the usage tables.                                              *)
SpendRowKeptByReset(w) ==   \* slip: a reset of the same period keeps the total
  [key |-> w.key, spent |-> Spent(w.key) + w.cost]
SpendRow(w) ==
  [key |-> w.key, spent |-> IF w.kind = "reset" THEN 0 ELSE Spent(w.key) + w.cost]

CountReplaced(n) == 1   \* slip: the upsert overwrites
CountAdded(n) == n + 1

Execute(w) ==
  IF w.kind \in {"spend", "reset"} THEN row' = SpendRow(w) /\ UNCHANGED counts
  ELSE counts' = [counts EXCEPT ![<<w.kind, w.key>>] = CountAdded(@)] /\ UNCHANGED row

(* A write takes effect, or fails and is only logged.                      *)
Lands(w) ==
  \/ Execute(w) /\ UNCHANGED bounds
  \/ Mishap /\ UNCHANGED <<row, counts>>

(* SQLite's writer thread opens a connection of its own; when it cannot,   *)
(* it ends, and what was queued or comes later is dropped.                 *)
OpenWriter(p) ==
  /\ backend = "sqlite" /\ writer[p] = "opening"
  /\ \/ writer' = [writer EXCEPT ![p] = "running"] /\ UNCHANGED <<pending, bounds>>
     \/ /\ Mishap
        /\ writer' = [writer EXCEPT ![p] = "gone"]
        /\ pending' = [pending EXCEPT ![p] = <<>>]
  /\ UNCHANGED <<backend, day, row, counts, memory, slot, readers, events,
                 recorded, owed, writers>>

(* It executes what it receives, in order.                                 *)
WriterStep(p) ==
  /\ writer[p] = "running" /\ pending[p] # <<>>
  /\ pending' = [pending EXCEPT ![p] = Tail(@)]
  /\ Lands(Head(pending[p]))
  /\ UNCHANGED <<backend, day, writer, memory, slot, readers, events, recorded, owed, writers>>

(* Postgres: every write is a task of its own.                             *)
Task(p, i, kind) ==
  /\ backend = "postgres" /\ pending[p][i].kind = kind
  /\ pending' = [pending EXCEPT ![p] = RemoveAt(@, i)]
  /\ Lands(pending[p][i])
  /\ UNCHANGED <<backend, day, writer, memory, slot, readers, events, recorded, owed, writers>>

UsageTask(p, i) == Task(p, i, "usage")
DailyTask(p, i) == Task(p, i, "daily")
SpendTask(p, i) == Task(p, i, "spend")
ResetTask(p, i) == Task(p, i, "reset")

Apply(p) ==
  \/ OpenWriter(p) \/ WriterStep(p)
  \/ \E i \in DOMAIN pending[p] :
       UsageTask(p, i) \/ DailyTask(p, i) \/ SpendTask(p, i) \/ ResetTask(p, i)

(* A process stops (nothing waits for its writes) and starts again, with   *)
(* the usage table in memory.                                              *)
LoadAll == counts[<<"usage", 0>>]

Restart(p) ==
  /\ Mishap
  /\ pending' = [pending EXCEPT ![p] = <<>>]
  /\ writer' = [writer EXCEPT ![p] = "opening"]
  /\ memory' = [memory EXCEPT ![p] = LoadAll]
  /\ slot' = [s \in Slots |-> IF s[1] = p THEN IdleRequest ELSE slot[s]]
  /\ readers' = {r \in readers : r.process # p}
  /\ UNCHANGED <<backend, day, row, counts, events, recorded, owed, writers>>

Tick ==
  /\ day < MaxDay /\ day' = day + 1
  /\ UNCHANGED <<backend, row, counts, pending, writer, memory, slot, readers, events,
                 recorded, owed, bounds, writers>>

Next ==
  \/ \E s \in Slots :
       \/ StartCheck(s) \/ FinishCheck(s) \/ NoAnswer(s)
       \/ \E cost \in Costs \cup {None} : Answer(s, cost)
       \/ RecordDaily(s) \/ RecordSpend(s)
  \/ \E r \in readers : ReadBack(r)
  \/ \E p \in Processes : Apply(p) \/ Reset(p) \/ Restart(p)
  \/ Tick

Spec == Init /\ [][Next]_vars

-----------------------------------------------------------------------------
Written == \A p \in Processes : pending[p] = <<>>
NothingLost == bounds.mishaps = 0

(* GET /v1/usage, as p answers it.                                         *)
UsageSnapshot(p, readable) == IF readable THEN LoadAll ELSE memory[p]

(* GET /v1/admin/clients/{name}/usage-history over the last n days, oldest *)
(* first; a day without usage has no row.                                  *)
DailyRows(since) ==
  LET kept == {d \in Days : d >= since /\ counts[<<"daily", d>>] > 0}
  IN [i \in 1..Cardinality(kept) |->
        LET d == CHOOSE d \in kept : Cardinality({e \in kept : e <= d}) = i
        IN [day |-> d, requests |-> counts[<<"daily", d>>]]]
ClientUsageHistory(n) == DailyRows(day - (n - 1))

(* admin_client_usage_history, for the days asked for, or None.            *)
DefaultHistoryDays == 30
MaxHistoryDays == 90
AdminUsageHistory(asked) ==
  LET days == IF asked = None THEN DefaultHistoryDays ELSE asked
  IN ClientUsageHistory(IF days < 1 THEN 1 ELSE Min({days, MaxHistoryDays}))

(* The writes of a row on their way, and the requests processes remember.   *)
Waiting(r) == UNION {{p} \X {i \in DOMAIN pending[p] :
                              <<pending[p][i].kind, pending[p][i].key>> = r} : p \in Processes}
Remembered == UNION {{p} \X (1..memory[p]) : p \in Processes}

(* README.md, "Persistence": without a stop or a failing write, every      *)
(* recorded request is in the usage tables or still on its way: none is    *)
(* lost and none counted twice, by whichever process it came, whatever the *)
(* order of the writes.  Whatever happens, no process reports usage that   *)
(* nobody recorded, and after a start without mishap none forgets its own; *)
(* the history lists each of the days asked for once (of none, today),     *)
(* with no more than its requests, and today's whenever there are any.     *)
HistoryIsComplete ==
  /\ NothingLost => \A r \in Rows : counts[r] + Cardinality(Waiting(r)) = recorded[r]
  /\ \A p \in Processes, readable \in BOOLEAN :
       UsageSnapshot(p, readable) <= recorded[<<"usage", 0>>]
  /\ NothingLost => Cardinality(Remembered) = recorded[<<"usage", 0>>]
  /\ \A asked \in {None, 0, 1, MaxDay + 1} :
       LET history == AdminUsageHistory(asked) IN
       /\ \A i, j \in DOMAIN history : i < j => history[i].day < history[j].day
       /\ \A i \in DOMAIN history :
            /\ history[i].requests <= recorded[<<"daily", history[i].day>>]
            /\ asked \in {0, 1} => history[i].day = day
       /\ counts[<<"daily", day>>] > 0 => \E i \in DOMAIN history : history[i].day = day

(* The writes to the shared row cannot overtake each other across a reset  *)
(* or across midnight, where their order matters.                          *)
InOrder == backend = "sqlite" /\ Cardinality(writers) <= 1

(* Once every write is applied, the shared total is what was recorded in   *)
(* its period since the last reset: a reset forgets all spend from before  *)
(* it and none from after it.  This needs an order among the writes only   *)
(* where there was a reset or a midnight; without either, it holds in any  *)
(* order and for any number of processes.                                  *)
LedgerConverges ==
  Written /\ NothingLost /\ row # None
    /\ (InOrder \/ (bounds.resets = 0 /\ day = 0))
    => row.spent = owed[row.key]

(* Without resets, a request is refused only if the cost recorded in its   *)
(* own period has reached the budget, and an event is sent only for an     *)
(* amount that the recorded cost of the charge's own period has reached:   *)
(* never for another period's spend, whatever was lost or came late.  (A   *)
(* reset that is still on its way may be ignored, see README.)             *)
Refused(s) == slot[s].at = "checking" /\ slot'[s].at = "idle"
ActsOnlyOnOwed ==
  [][bounds.resets = 0 =>
       /\ \A s \in Slots : (Refused(s) /\ bounds'.mishaps = bounds.mishaps) =>
            Budget <= owed[slot[s].key]
       /\ \A e \in Events : events'[e] > events[e] =>
            \E r \in readers \ readers' : owed[r.key] >= Limit[e]]_vars
=============================================================================
