---------------------------- MODULE AdminClients ----------------------------
(***************************************************************************)
(* The admin API: clients created, changed, deleted, listed and their      *)
(* spend reset at runtime by handlers that run at the same time, beside    *)
(* requests of these clients.  A client is spread over four tables with a  *)
(* lock each: the list the admin API shows, the API keys requests are      *)
(* authenticated with, and the budgets and the spend the router keeps      *)
(* under the client's name.  A handler takes the locks one after the       *)
(* other, and each critical section is a step.                             *)
(***************************************************************************)
EXTENDS Naturals, Sequences

CONSTANTS
  Admins,        (* Slots for the calls and requests in progress.          *)
  MaxCalls,      (* Bound on the calls made.                               *)
  Names, Organizations, Keys,
  Budgets,       (* Values of budget_usd.                                  *)
  Rates,         (* Values of requests_per_minute.                         *)
  NewClients,    (* Clients that POST bodies describe.                     *)
  Configured,    (* The [[clients]] of config.toml, in order.              *)
  ConfiguredKeys,(* Their keys: key -> [name, rpm].                        *)
  Global,        (* The identity of the admin key.                         *)
  None, Clear

Client == [name : Names, organization : Organizations, role : {"client", "admin"},
           rpm : Rates, budget : Budgets \cup {None}]
KeyEntry == [name : Names, rpm : Rates]
Setting == [budget : Budgets, warning : BOOLEAN]   (* warning: has a threshold *)

Writers == {"create", "update", "delete"}
Operations == Writers \cup {"request", "reset", "list"}

ASSUME AdminAssumption ==
  /\ MaxCalls \in Nat /\ NewClients \subseteq Client
  /\ Configured \in Seq(Client)
  /\ DOMAIN ConfiguredKeys \subseteq Keys
  /\ \A k \in DOMAIN ConfiguredKeys : \E i \in DOMAIN Configured :
       ConfiguredKeys[k] = [name |-> Configured[i].name, rpm |-> Configured[i].rpm]
  /\ Global \notin Organizations /\ Clear \notin Budgets \cup {None}
  /\ None \notin Budgets \cup Keys \cup Names \cup Rates \cup Setting

VARIABLES
  clients,    (* AppState.clients, a sequence.                             *)
  keys,       (* AppState.client_keys: key -> [name, rpm].                 *)
  budgets,    (* Router.client_budgets: name -> Setting or None.           *)
  spend,      (* Router.client_spend: name -> the organizations whose       *)
              (*   clients' charges are in the total; {} is zero.          *)
  call,       (* The handler each slot runs.                               *)
  calls,      (* Calls made so far.                                        *)
  generated,  (* Keys handed out so far: a generated one is never repeated. *)
  overlapped  (* History: pairs of operations that were in progress        *)
              (*   together for the same name.                             *)

vars == <<clients, keys, budgets, spend, call, calls, generated, overlapped>>

(* at: "idle" or the critical section the handler enters next; identity:   *)
(* Global, or the organization of a scoped admin.  The other fields are    *)
(* the request's; None stands for a field that was left out, and Clear   *)
(* for a budget_usd of null.  todo, rows: of a listing, the copied clients *)
(* it has not reported yet, and its rows so far.                           *)
Row == [client : Client, spent : (SUBSET Organizations) \cup {None}]
Call == [operation : Operations \cup {None},
         at : {"idle", "key", "push", "rotate", "revoke", "budget", "forget",
               "charge", "zero", "report", "answer"},
         identity : Organizations \cup {Global}, client : Client \cup {None},
         key : Keys \cup {None}, rotate : BOOLEAN,
         budget : Budgets \cup {None, Clear}, todo : Seq(Client), rows : Seq(Row)]

IdleCall == [operation |-> None, at |-> "idle", identity |-> Global, client |-> None, key |-> None,
             rotate |-> FALSE, budget |-> None, todo |-> <<>>, rows |-> <<>>]

TypeOK ==
  /\ clients \in Seq(Client)
  /\ DOMAIN keys \subseteq Keys /\ \A k \in DOMAIN keys : keys[k] \in KeyEntry
  /\ budgets \in [Names -> Setting \cup {None}]
  /\ call \in [Admins -> Call]
  /\ calls \in 0..MaxCalls
  /\ generated \subseteq Keys /\ DOMAIN keys \subseteq generated
  /\ spend \in [Names -> SUBSET Organizations]
  /\ overlapped \subseteq SUBSET Operations

(* The elements of s at the positions S, in their order.                   *)
Retained(s, S) ==
  LET kept[i \in 0..Len(s)] ==
        IF i = 0 THEN <<>> ELSE IF i \in S THEN Append(kept[i - 1], s[i]) ELSE kept[i - 1]
  IN kept[Len(s)]

Named(n) == {i \in DOMAIN clients : clients[i].name = n}
KeysOf(n) == {k \in DOMAIN keys : keys[k].name = n}

SettingOf(budget, warning) ==
  IF budget = None THEN None ELSE [budget |-> budget, warning |-> warning]

(* Startup: configured budgets have a warning threshold.                   *)
Init ==
  /\ clients = Configured
  /\ keys = ConfiguredKeys
  /\ budgets = [n \in Names |->
       IF Named(n) = {} THEN None
       ELSE SettingOf(clients[CHOOSE i \in Named(n) : TRUE].budget, TRUE)]
  /\ spend = [n \in Names |-> {}]
  /\ call = [a \in Admins |-> IdleCall]
  /\ calls = 0
  /\ generated = DOMAIN ConfiguredKeys
  /\ overlapped = {}

InScope(identity, c) == identity = Global \/ c.organization = identity

(* check_admin_auth: the admin key, or the key of an admin-role client,    *)
(* which stands for the client's organization.                             *)
Identities ==
  {Global} \cup {clients[i].organization :
                  i \in {i \in DOMAIN clients : /\ clients[i].role = "admin"
                                               /\ KeysOf(clients[i].name) # {}}}

(* The names an operation is about: a listing may show any.                *)
About(operation, name) == IF operation = "list" THEN Names ELSE {name}
Concerns(b) == About(call[b].operation, call[b].client.name)

Begins(a, operation, name) ==
  /\ call[a].at = "idle"
  /\ calls < MaxCalls /\ calls' = calls + 1
  /\ LET others == {b \in Admins : call[b].at # "idle"
                                   /\ Concerns(b) \cap About(operation, name) # {}}
     IN overlapped' = overlapped \cup {{operation, call[b].operation} : b \in others}

-----------------------------------------------------------------------------
(* admin_create_client: under the read lock of the list, 409 for a taken   *)
(* name.  A scoped admin's own organization is pinned on the client.       *)
CreateCheckName(a, identity, c, key) ==
  /\ Begins(a, "create", c.name)
  /\ identity # Global => c.organization = identity
  /\ call' = IF Named(c.name) # {} THEN call
             ELSE [call EXCEPT ![a] = [IdleCall EXCEPT
                     !.operation = "create", !.at = "key", !.identity = identity, !.client = c, !.key = key]]
  /\ UNCHANGED <<clients, keys, budgets, spend, generated>>

(* Under the lock of the keys: 409 for a taken key; a key that was left out *)
(* is generated.                                                           *)
CreateInsertKey(a) ==
  /\ call[a].at = "key"
  /\ \E key \in IF call[a].key = None THEN Keys \ generated ELSE {call[a].key} :
       IF key \in DOMAIN keys
       THEN /\ call' = [call EXCEPT ![a] = IdleCall]
            /\ UNCHANGED <<keys, generated>>
       ELSE /\ keys' = [k \in DOMAIN keys \cup {key} |->
                 IF k = key THEN [name |-> call[a].client.name, rpm |-> call[a].client.rpm]
                 ELSE keys[k]]
            /\ generated' = generated \cup {key}
            /\ call' = [call EXCEPT ![a].at = "push"]
  /\ UNCHANGED <<clients, budgets, spend, calls, overlapped>>

CreatePush(a) ==
  /\ call[a].at = "push"
  /\ clients' = Append(clients, call[a].client)
  /\ call' = [call EXCEPT ![a].at = "budget"]
  /\ UNCHANGED <<keys, budgets, spend, calls, generated, overlapped>>

(* set_client_budget, the end of a create and of an update: a setting      *)
(* without a warning threshold, or none.                                   *)
SetBudget(a) ==
  /\ call[a].at = "budget"
  /\ budgets' = [budgets EXCEPT ![call[a].client.name] = SettingOf(call[a].client.budget, FALSE)]
  /\ call' = [call EXCEPT ![a] = IdleCall]
  /\ UNCHANGED <<clients, keys, spend, calls, generated, overlapped>>

(* What a PATCH makes of a client: a null budget clears it, one not sent   *)
(* leaves it.                                                              *)
Updated(c, rpm, budget) ==
  [c EXCEPT !.rpm = IF rpm = None THEN @ ELSE rpm,
            !.budget = IF budget = None THEN @ ELSE IF budget = Clear THEN None ELSE budget]

(* admin_update_client: under the write lock of the list, the first client *)
(* of that name in scope, 404 without one; a copy of the result is kept.   *)
AnyNamed(identity, n) == Named(n)   \* slip: the organization is not checked
InScopeNamed(identity, n) == {i \in Named(n) : InScope(identity, clients[i])}

UpdateClient(a, identity, n, rpm, budget, rotate) ==
  /\ Begins(a, "update", n)
  /\ LET found == InScopeNamed(identity, n) IN
     IF found = {} THEN UNCHANGED <<clients, call>>
     ELSE LET i == CHOOSE i \in found : \A j \in found : i <= j
              c == Updated(clients[i], rpm, budget)
          IN /\ clients' = [clients EXCEPT ![i] = c]
             /\ call' = [call EXCEPT ![a] = [IdleCall EXCEPT
                           !.operation = "update", !.at = "rotate",
                           !.identity = identity, !.client = c, !.rotate = rotate,
                           !.budget = budget]]
  /\ UNCHANGED <<keys, budgets, spend, generated>>

(* Under the lock of the keys: some key of that name is replaced by a      *)
(* generated one, or takes the new limit.                                  *)
EntryOfCurrentKey(old, c) ==   \* slip: a rotated key keeps the old limit
  IF old = None THEN [name |-> c.name, rpm |-> c.rpm] ELSE keys[old]
EntryAfter(old, c) == [name |-> c.name, rpm |-> c.rpm]

UpdateKey(a) ==
  /\ call[a].at = "rotate"
  /\ LET n == call[a].client.name
     IN \E old \in IF KeysOf(n) = {} THEN {None} ELSE KeysOf(n) :
          LET entry == EntryAfter(old, call[a].client) IN
          IF call[a].rotate
          THEN \E new \in Keys \ generated :
                 /\ keys' = [k \in (DOMAIN keys \ {old}) \cup {new} |->
                               IF k = new THEN entry ELSE keys[k]]
                 /\ generated' = generated \cup {new}
          ELSE /\ keys' = [k \in DOMAIN keys |-> IF k = old THEN entry ELSE keys[k]]
               /\ UNCHANGED generated
  /\ call' = [call EXCEPT ![a].at = "budget"]
  /\ UNCHANGED <<clients, budgets, spend, calls, overlapped>>

(* admin_delete_client: every client of that name in scope leaves the      *)
(* list; then its keys are revoked; then its budget is forgotten.          *)
DeleteClient(a, identity, n) ==
  /\ Begins(a, "delete", n)
  /\ clients' = Retained(clients, DOMAIN clients \ InScopeNamed(identity, n))
  /\ call' = IF InScopeNamed(identity, n) = {} THEN call
             ELSE [call EXCEPT ![a] = [IdleCall EXCEPT
                     !.operation = "delete", !.at = "revoke",
                     !.identity = identity,
                     !.client = clients[CHOOSE i \in InScopeNamed(identity, n) : TRUE]]]
  /\ UNCHANGED <<keys, budgets, spend, generated>>

RevokesOne(n) ==   \* slip: the first key of that name, as an update takes it
  IF KeysOf(n) = {} THEN {} ELSE {CHOOSE k \in KeysOf(n) : TRUE}
Revokes(n) == KeysOf(n)

DeleteKeys(a) ==
  /\ call[a].at = "revoke"
  /\ keys' = [k \in DOMAIN keys \ Revokes(call[a].client.name) |-> keys[k]]
  /\ call' = [call EXCEPT ![a].at = "forget"]
  /\ UNCHANGED <<clients, budgets, spend, calls, generated, overlapped>>

Forgotten(n) ==
  budgets' = [budgets EXCEPT ![n] = None] /\ spend' = [spend EXCEPT ![n] = {}]

DeleteBudget(a) ==
  /\ call[a].at = "forget"
  /\ Forgotten(call[a].client.name)
  /\ call' = [call EXCEPT ![a] = IdleCall]
  /\ UNCHANGED <<clients, keys, calls, generated, overlapped>>

-----------------------------------------------------------------------------
(* A request of a listed client is admitted, and later its answer charged  *)
(* to whoever has a budget under its name by then.                         *)
StartRequest(a, k) ==
  /\ k \in DOMAIN keys
  /\ Begins(a, "request", keys[k].name)
  /\ \E i \in Named(keys[k].name) :
       call' = [call EXCEPT ![a] = [IdleCall EXCEPT !.operation = "request", !.at = "charge",
                                                    !.client = clients[i]]]
  /\ UNCHANGED <<clients, keys, budgets, spend, generated>>

Charge(a) ==
  LET n == call[a].client.name IN
  /\ call[a].at = "charge"
  /\ spend' = IF budgets[n] = None THEN spend
              ELSE [spend EXCEPT ![n] = @ \cup {call[a].client.organization}]
  /\ call' = [call EXCEPT ![a] = IdleCall]
  /\ UNCHANGED <<clients, keys, budgets, calls, generated, overlapped>>

(* admin_reset_client_spend: 404 without a client of that name in scope,   *)
(* then the router resets by name, or there is no budget: 404 again.       *)
StartReset(a, identity, n) ==
  /\ Begins(a, "reset", n)
  /\ LET found == InScopeNamed(identity, n) IN
     call' = IF found = {} THEN call
             ELSE [call EXCEPT ![a] = [IdleCall EXCEPT
                     !.operation = "reset", !.at = "zero", !.identity = identity,
                     !.client = clients[CHOOSE i \in found : TRUE]]]
  /\ UNCHANGED <<clients, keys, budgets, spend, generated>>

ResetSpend(a) ==
  LET n == call[a].client.name IN
  /\ call[a].at = "zero"
  /\ spend' = IF budgets[n] = None THEN spend ELSE [spend EXCEPT ![n] = {}]
  /\ call' = [call EXCEPT ![a] = IdleCall]
  /\ UNCHANGED <<clients, keys, budgets, calls, generated, overlapped>>

(* admin_list_clients: the clients in scope are copied under the lock of   *)
(* the list; then the spend of each is asked for by its name.              *)
AllClients(identity) == clients   \* slip: the scope is not looked at
ClientsOf(identity) == Retained(clients, {i \in DOMAIN clients : InScope(identity, clients[i])})

StartList(a, identity) ==
  /\ Begins(a, "list", None)
  /\ LET mine == ClientsOf(identity) IN
     call' = IF mine = <<>> THEN call
             ELSE [call EXCEPT ![a] = [IdleCall EXCEPT
                     !.operation = "list", !.at = "report", !.identity = identity, !.todo = mine]]
  /\ UNCHANGED <<clients, keys, budgets, spend, generated>>

client_spend_status(n) == IF budgets[n] = None THEN None ELSE spend[n]

ReportClient(a) ==
  LET c == Head(call[a].todo) IN
  /\ call[a].at = "report"
  /\ call' = [call EXCEPT ![a].todo = Tail(@),
                          ![a].rows = Append(@, [client |-> c, spent |-> client_spend_status(c.name)]),
                          ![a].at = IF Len(call[a].todo) = 1 THEN "answer" ELSE "report"]
  /\ UNCHANGED <<clients, keys, budgets, spend, calls, generated, overlapped>>

(* admin_list_organizations groups the same rows, in the order in which    *)
(* the organizations first occur.                                          *)
Grouped(rows) ==
  LET SameAs(i) == {j \in DOMAIN rows : rows[j].client.organization = rows[i].client.organization}
      first == Retained([i \in DOMAIN rows |-> i], {i \in DOMAIN rows : \A j \in SameAs(i) : i <= j})
  IN [g \in DOMAIN first |-> [organization |-> rows[first[g]].client.organization,
                              clients |-> Retained(rows, SameAs(first[g]))]]

AnswerList(a) ==
  /\ call[a].at = "answer"
  /\ call' = [call EXCEPT ![a] = IdleCall]
  /\ UNCHANGED <<clients, keys, budgets, spend, calls, generated, overlapped>>

Next ==
  \E a \in Admins :
    \/ \E identity \in Identities :
         \/ \E c \in NewClients, key \in Keys \cup {None} : CreateCheckName(a, identity, c, key)
         \/ \E n \in Names, rpm \in Rates \cup {None}, budget \in Budgets \cup {None, Clear},
              rotate \in BOOLEAN : UpdateClient(a, identity, n, rpm, budget, rotate)
         \/ \E n \in Names : DeleteClient(a, identity, n) \/ StartReset(a, identity, n)
         \/ StartList(a, identity)
    \/ \E k \in Keys : StartRequest(a, k)
    \/ CreateInsertKey(a) \/ CreatePush(a) \/ UpdateKey(a) \/ SetBudget(a)
    \/ DeleteKeys(a) \/ DeleteBudget(a)
    \/ Charge(a) \/ ResetSpend(a) \/ ReportClient(a) \/ AnswerList(a)

Spec == Init /\ [][Next]_vars

-----------------------------------------------------------------------------
Writing == \E a \in Admins : call[a].operation \in Writers

(* Two of the operations that write were in progress for one name, one of  *)
(* them `operation`.                                                       *)
WroteBeside(operation) ==
  \E pair \in overlapped : operation \in pair /\ pair \subseteq Writers

(* As long as no PATCH overlaps another change of its client, no key       *)
(* authenticates a name that is not on the list once the changes are done: *)
(* DELETE "removes a client entirely, immediately revoking its key"        *)
(* (README.md), also a key that a second, racing POST gave it.             *)
KeysHaveClients ==
  ~WroteBeside("update") => \A k \in DOMAIN keys : Named(keys[k].name) # {}

(* Changes of different clients, and changes of one client that do not     *)
(* overlap, leave the tables in agreement when they are done: names are    *)
(* unique, every client has one key with its own limit, every key and      *)
(* budget has a client, and the router enforces the budgets the list       *)
(* shows.  Of changes that overlap, only a PATCH can leave a key behind.   *)
InAgreement ==
  /\ \A n \in Names : \A i, j \in Named(n) : i = j
  /\ \A i \in DOMAIN clients :
       LET c == clients[i] IN
       /\ \E k \in Keys : KeysOf(c.name) = {k} /\ keys[k].rpm = c.rpm
       /\ IF c.budget = None THEN budgets[c.name] = None
          ELSE budgets[c.name] # None /\ budgets[c.name].budget = c.budget
  /\ \A n \in Names : Named(n) = {} => budgets[n] = None

TablesInSync ==
  ~Writing =>
    /\ KeysHaveClients
    /\ (\A operation \in Writers : ~WroteBeside(operation)) => InAgreement

(* Unless a POST or a DELETE of a client overlaps something else for its   *)
(* name, spend is never attributed to the wrong organization, although all *)
(* the router knows is the name: a client is charged, and blocked, for its *)
(* own requests alone, also when an organization reuses the name of a      *)
(* deleted client, and a listing shows every organization's admin its own  *)
(* clients, each once, with the spend of that organization.                *)
SpendStaysInOrganization ==
  (\A pair \in overlapped : pair \cap {"create", "delete"} = {}) =>
    /\ ~Writing => \A i \in DOMAIN clients :
         spend[clients[i].name] \subseteq {clients[i].organization}
    /\ \A a \in Admins : call[a].at = "answer" =>
         LET groups == Grouped(call[a].rows) IN
         /\ \A i, j \in DOMAIN groups : i # j => groups[i].organization # groups[j].organization
         /\ \A i \in DOMAIN groups :
              /\ call[a].identity \in {Global, groups[i].organization}
              /\ \A j \in DOMAIN groups[i].clients : groups[i].clients[j].spent # None =>
                   groups[i].clients[j].spent \subseteq {groups[i].organization}

(* A step of an organization's admin leaves the clients, keys, budgets and *)
(* spend of the other organizations as they were, whatever name it asks    *)
(* for and whatever runs beside it, unless calls for one name overlap:     *)
(* then a delete can revoke the key, and a reset erase the spend, of a     *)
(* client created anew elsewhere.                                          *)
Outside(organization) ==
  LET foreign == Retained(clients, {i \in DOMAIN clients : clients[i].organization # organization})
      names == {foreign[i].name : i \in DOMAIN foreign}
  IN <<foreign, [k \in {k \in DOMAIN keys : keys[k].name \in names} |-> keys[k]],
       [n \in names |-> <<budgets[n], spend[n]>>]>>
ScopeRespected ==
  [][overlapped = {} => \A a \in Admins, o \in Organizations :
       (call'[a] # call[a] /\ o \in {call[a].identity, call'[a].identity})
       => Outside(o)' = Outside(o)]_vars
=============================================================================
