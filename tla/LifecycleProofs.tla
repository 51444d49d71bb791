--------------------------- MODULE LifecycleProofs ---------------------------
(***************************************************************************)
(* The safety properties of the server's lifecycle, proved for any files,  *)
(* environments, upstreams, documents and fields: the gateway's map, what  *)
(* rp-cli reports, and the files of other programs rp-cli setup merges     *)
(* into.  The merge is a recursion over the fields; what it preserves is   *)
(* proved by the least number of fields after which it would not.          *)
(***************************************************************************)
EXTENDS ServerLifecycle, WellFoundedInduction, TLAPS

(* The gateway's map and its supervisors.  (A supervisor's counters may be *)
(* anything: whatever the file sets.)                                      *)
SupervisorFields == {"at", "conn", "attempts", "backoff"}

Supervised ==
  /\ peers = [u \in Upstreams |-> peers[u]]
  /\ supervisor = [u \in Upstreams |-> supervisor[u]]
  /\ \A u \in Upstreams : supervisor[u] = [f \in SupervisorFields |-> supervisor[u][f]]

PeersInv == Supervised /\ PeersAreCurrent

(* Nothing is connected, at first and after the process has ended.         *)
LEMMA NobodySupervised ==
  ASSUME peers = [u \in Upstreams |-> 0], supervisor = [u \in Upstreams |-> NoSupervisor]
  PROVE  PeersInv
BY DEF PeersInv, Supervised, PeersAreCurrent, NoSupervisor, SupervisorFields

(* A supervisor that is replaced as a whole, and its entry of the map.     *)
LEMMA Replaced ==
  ASSUME PeersInv, NEW u, NEW s, NEW p,
         s = [f \in SupervisorFields |-> s[f]],
         p = IF s.at \in {"waiting", "dropped"} THEN s.conn ELSE 0,
         supervisor' = [supervisor EXCEPT ![u] = s], peers' = [peers EXCEPT ![u] = p]
  PROVE  PeersInv'
BY DEF PeersInv, Supervised, PeersAreCurrent

LEMMA OthersKeepPeers ==
  ASSUME PeersInv, UNCHANGED <<peers, supervisor>>
  PROVE  PeersInv'
BY DEF PeersInv, Supervised, PeersAreCurrent

(* One lemma for each action that changes the map or a supervisor.         *)
LEMMA ConnectKeepsPeers ==
  ASSUME PeersInv, NEW u, NEW reachable, Connect(u, reachable)
  PROVE  PeersInv'
<1>1. CASE reachable
  <2>1. PICK s : s = [NoSupervisor EXCEPT !.at = "waiting", !.conn = 1]
    OBVIOUS
  <2>2. s = [f \in SupervisorFields |-> s[f]] /\ s.at = "waiting" /\ s.conn = 1
    BY <2>1 DEF NoSupervisor, SupervisorFields
  <2>3. supervisor' = [supervisor EXCEPT ![u] = s] /\ peers' = [peers EXCEPT ![u] = 1]
    BY <1>1, <2>1, Zenon DEF Connect
  <2> QED  BY <2>2, <2>3, Replaced
<1>2. CASE ~reachable
  BY <1>2, OthersKeepPeers DEF Connect
<1> QED  BY <1>1, <1>2

LEMMA NoticeDropKeepsPeers ==
  ASSUME PeersInv, NEW u \in Upstreams, NoticeDrop(u)
  PROVE  PeersInv'
BY DEF PeersInv, Supervised, PeersAreCurrent, NoticeDrop, SupervisorFields

LEMMA RemovePeerKeepsPeers ==
  ASSUME PeersInv, NEW u \in Upstreams, RemovePeer(u)
  PROVE  PeersInv'
<1>1. PICK s : s = [supervisor[u] EXCEPT !.at = "retry", !.attempts = 0, !.backoff = policy.initial]
  OBVIOUS
<1>2. s = [f \in SupervisorFields |-> s[f]] /\ s.at = "retry"
  BY <1>1 DEF PeersInv, Supervised, SupervisorFields
<1>3. supervisor' = [supervisor EXCEPT ![u] = s]
  BY <1>1 DEF RemovePeer, PeersInv, Supervised
<1>4. peers' = [peers EXCEPT ![u] = 0]
  BY DEF RemovePeer
<1> QED  BY <1>2, <1>3, <1>4, Replaced

LEMMA GiveUpKeepsPeers ==
  ASSUME PeersInv, NEW u \in Upstreams, GiveUp(u)
  PROVE  PeersInv'
BY DEF PeersInv, Supervised, PeersAreCurrent, GiveUp, SupervisorFields

LEMMA AttemptKeepsPeers ==
  ASSUME PeersInv, NEW u \in Upstreams, NEW reachable, Attempt(u, reachable)
  PROVE  PeersInv'
<1>1. PICK s : /\ s = [supervisor[u] EXCEPT !.attempts = IF policy.limit = None THEN 0 ELSE @ + 1]
               /\ IF reachable THEN supervisor' = [supervisor EXCEPT ![u] = [s EXCEPT !.at = "connected", !.conn = @ + 1]]
                  ELSE supervisor' = [supervisor EXCEPT ![u] = [s EXCEPT !.backoff = NextBackoff(@)]]
  BY Zenon DEF Attempt
<1>2. s = [f \in SupervisorFields |-> s[f]] /\ s.at = "retry"
  BY <1>1 DEF Attempt, PeersInv, Supervised, SupervisorFields
<1>3. peers' = [peers EXCEPT ![u] = 0]
  BY DEF Attempt, PeersInv, Supervised, PeersAreCurrent
<1>4. CASE reachable
  <2>1. PICK c : c = [s EXCEPT !.at = "connected", !.conn = @ + 1]
    OBVIOUS
  <2>2. c = [f \in SupervisorFields |-> c[f]] /\ c.at = "connected"
    BY <2>1, <1>2 DEF SupervisorFields
  <2>3. supervisor' = [supervisor EXCEPT ![u] = c]
    BY <1>1, <1>4, <2>1, Zenon
  <2> QED  BY <1>3, <2>2, <2>3, Replaced
<1>5. CASE ~reachable
  <2>1. PICK c : c = [s EXCEPT !.backoff = NextBackoff(@)]
    OBVIOUS
  <2>2. c = [f \in SupervisorFields |-> c[f]] /\ c.at = "retry"
    BY <2>1, <1>2 DEF SupervisorFields
  <2>3. supervisor' = [supervisor EXCEPT ![u] = c]
    BY <1>1, <1>5, <2>1, Zenon
  <2> QED  BY <1>3, <2>2, <2>3, Replaced
<1> QED  BY <1>4, <1>5

LEMMA InsertPeerKeepsPeers ==
  ASSUME PeersInv, NEW u \in Upstreams, InsertPeer(u)
  PROVE  PeersInv'
BY DEF PeersInv, Supervised, PeersAreCurrent, InsertPeer, Inserted, SupervisorFields

LEMMA SupervisorStepKeepsPeers ==
  ASSUME PeersInv, NEW u \in Upstreams, NEW reachable, SupervisorStep(u, reachable)
  PROVE  PeersInv'
BY NoticeDropKeepsPeers, RemovePeerKeepsPeers, GiveUpKeepsPeers, AttemptKeepsPeers,
   InsertPeerKeepsPeers DEF SupervisorStep

(* A step of the whole is a step of connect() or of a supervisor, the      *)
(* death of the gateway, or leaves the map and the supervisors alone.      *)
LEMMA StepsOfPeers ==
  ASSUME [Next]_vars
  PROVE  \/ \E reachable : Connect(Head(connecting), reachable)
         \/ \E u \in Upstreams, reachable \in BOOLEAN : SupervisorStep(u, reachable)
         \/ GatewayDies
         \/ UNCHANGED <<peers, supervisor>>
<1> DEFINE Goal == \/ \E reachable : Connect(Head(connecting), reachable)
                   \/ \E u \in Upstreams, reachable \in BOOLEAN : SupervisorStep(u, reachable)
                   \/ GatewayDies
                   \/ UNCHANGED <<peers, supervisor>>
<1> SUFFICES Goal  OBVIOUS
<1>1. CASE vars' = vars
  BY <1>1 DEF vars, gateway
<1>2. CASE \E f \in DOMAIN Files, e \in Environments : Edit(f, e)
  BY <1>2 DEF Edit, gateway
<1>3. CASE Report \/ SetUpTool \/ Launch
  BY <1>3 DEF Report, SetUpTool, Launch, gateway
<1>4. CASE StartUp
  BY <1>4 DEF StartUp, Load, BuildRouter, BuildState, ConnectNext, Connected, Serve, Refuse, gateway
<1>5. CASE Exit
  BY <1>5 DEF Exit
<1>6. CASE \E u \in Upstreams : GatewayTask(u)
  BY <1>6 DEF GatewayTask, Reachable
<1>7. CASE \E l \in Listers : Listed(l)
  BY <1>7 DEF Listed, ListStep, EnterList, ListAnswer, FinishList
<1>8. CASE \E c \in Callers : Called(c)
  BY <1>8 DEF Called, CallStep, EnterCall, AnswerCall
<1>9. CASE ToolRequest
  BY <1>9 DEF ToolRequest, Request, StartList, StartCall
<1>10. CASE World
  BY <1>10 DEF World, Outside, GoDown, ComeUp, Cut
<1> QED  BY <1>1, <1>2, <1>3, <1>4, <1>5, <1>6, <1>7, <1>8, <1>9, <1>10 DEF Next

(* Whatever connects, drops, is retried, given up or taken down with the   *)
(* process, the map lists exactly the connections their supervisors wait   *)
(* on or have yet to take out (mcp/src/gateway.rs, spawn_supervisor).      *)
THEOREM PeersStayCurrent == Spec => []PeersAreCurrent
<1>1. Init => PeersInv
  BY NobodySupervised DEF Init, GatewayInit, Empty
<1>2. PeersInv /\ [Next]_vars => PeersInv'
  <2> SUFFICES ASSUME PeersInv, [Next]_vars PROVE PeersInv'
    OBVIOUS
  <2>1. CASE \E reachable : Connect(Head(connecting), reachable)
    BY <2>1, ConnectKeepsPeers
  <2>2. CASE \E u \in Upstreams, reachable \in BOOLEAN : SupervisorStep(u, reachable)
    BY <2>2, SupervisorStepKeepsPeers
  <2>3. CASE GatewayDies
    BY <2>3 DEF GatewayDies, PeersInv, Supervised, PeersAreCurrent, NoSupervisor, SupervisorFields
  <2>4. CASE UNCHANGED <<peers, supervisor>>
    BY <2>4, OthersKeepPeers
  <2> QED  BY <2>1, <2>2, <2>3, <2>4, StepsOfPeers
<1>3. PeersInv => PeersAreCurrent
  BY DEF PeersInv
<1> QED  BY <1>1, <1>2, <1>3, PTL DEF Spec

-----------------------------------------------------------------------------
(* The reports of rp-cli about a configuration and an environment, and the *)
(* server that main() makes of the same two.                               *)
IsSet(c, e, label) == \E row \in KeyReports(c, e) : row.label = label /\ row.set

(* A row of key_env_reports says "set" when its variable resolves.         *)
LEMMA SetMeansResolved ==
  ASSUME NEW c, NEW e, NEW label
  PROVE  IsSet(c, e, label) <=> \E row \in KeyRows(c) : row[1] = label /\ row[2] # None /\ Resolves(e, row[2])
<1>1. ASSUME IsSet(c, e, label)
      PROVE  \E row \in KeyRows(c) : row[1] = label /\ row[2] # None /\ Resolves(e, row[2])
  <2>1. PICK line \in KeyReports(c, e) : line.label = label /\ line.set
    BY <1>1 DEF IsSet
  <2>2. PICK row \in KeyRows(c) :
          row[2] # None /\ line = [label |-> row[1], env_var |-> row[2], set |-> Resolves(e, row[2])]
    BY <2>1 DEF KeyReports
  <2>3. row[1] = label
    BY <2>1, <2>2
  <2>4. line.set = Resolves(e, row[2])
    BY <2>2
  <2> QED  BY <2>1, <2>2, <2>3, <2>4
<1>2. ASSUME NEW row \in KeyRows(c), row[1] = label, row[2] # None, Resolves(e, row[2])
      PROVE  IsSet(c, e, label)
  <2> DEFINE line == [label |-> row[1], env_var |-> row[2], set |-> Resolves(e, row[2])]
  <2>1. line \in KeyReports(c, e)
    BY <1>2 DEF KeyReports
  <2>2. line.label = label /\ line.set
    BY <1>2
  <2> QED  BY <2>1, <2>2 DEF IsSet
<1> QED  BY <1>1, <1>2

(* The labels of different tables differ, and a section has one row.       *)
LEMMA ServerRow ==
  ASSUME NEW c, NEW e, NEW field \in {"api_key_env", "admin_key_env"}, IsSet(c, e, <<"server", field>>)
  PROVE  Resolves(e, c.server[field])
BY SetMeansResolved DEF KeyRows, Field

LEMMA SectionRow ==
  ASSUME NEW c, NEW e,
         NEW section \in {"webhook", "moderation", "web_search"},
         NEW field \in {"auth_header_env", "api_key_env"},
         (section = "webhook") <=> (field = "auth_header_env")
  PROVE  IsSet(c, e, <<section, field>>) <=> c[section] # None /\ Resolves(e, c[section][field])
<1>1. ASSUME NEW row \in KeyRows(c), row[1] = <<section, field>>
      PROVE  row \in Field(c, section, field)
  BY <1>1 DEF KeyRows, Field
<1>2. Field(c, section, field) \subseteq KeyRows(c)
  BY DEF KeyRows
<1>3. \A row \in Field(c, section, field) :
        c[section] # None /\ row[1] = <<section, field>> /\ row[2] = c[section][field]
  BY DEF Field
<1>4. c[section] # None /\ Resolves(e, c[section][field]) =>
        c[section][field] # None /\ <<<<section, field>>, c[section][field]>> \in Field(c, section, field)
  BY DEF Field, Resolves, Var
<1> QED  BY <1>1, <1>2, <1>3, <1>4, SetMeansResolved

(* A row of a client stands for one of the [[clients]].                    *)
LEMMA ClientRow ==
  ASSUME NEW c, NEW e, NEW row \in KeyReports(c, e), row.label[1] = "clients"
  PROVE  \E i \in DOMAIN c.clients : row.env_var = c.clients[i].api_key_env /\ row.set = Resolves(e, row.env_var)
BY DEF KeyReports, KeyRows, Field

(* The fields of a Router and an AppState that the reports are about.      *)
LEMMA RouterFields ==
  ASSUME NEW c, NEW e, NEW db, NEW r, r = Router(c, e, db, Stored)
  PROVE  /\ DOMAIN r.providers = ConfiguredProviders(c, e)
         /\ r.guardrails = Guardrails(c)
         /\ r.moderation = Backend(c.moderation, e)
         /\ r.web_search = Backend(c.web_search, e)
         /\ r.webhook = Webhook(c, e)
BY DEF Router

LEMMA StateFields ==
  ASSUME NEW c, NEW e, NEW r, NEW s, s = AppState(c, e, r)
  PROVE  /\ s.router = r
         /\ s.api_key = Var(e, c.server.api_key_env) /\ s.admin_key = Var(e, c.server.admin_key_env)
         /\ s.client_keys = ClientKeys(c, e)
         /\ s.jwt = JwtMode(c, e)
BY DEF AppState

LEMMA CheckFields ==
  ASSUME NEW c, NEW e, NEW check, check = ConfigCheck(c, e)
  PROVE  /\ check.providers = ProviderReports(c, e) /\ check.guardrails = CheckGuardrails(c)
         /\ check.jwt = IF c.jwt = None THEN None
                        ELSE IF c.jwt.hs256_secret_env # None THEN "hs256"
                        ELSE IF c.jwt.jwks_url # None THEN "jwks" ELSE None
BY DEF ConfigCheck

(* The keys the server accepts are the values that resolve.                *)
LEMMA AcceptedKeys ==
  ASSUME NEW c, NEW e
  PROVE  /\ \A i \in DOMAIN c.clients :
              Resolves(e, c.clients[i].api_key_env)
              => Var(e, c.clients[i].api_key_env) \in DOMAIN ClientKeys(c, e)
         /\ \A v \in DOMAIN ClientKeys(c, e) :
              \E i \in DOMAIN c.clients :
                Resolves(e, c.clients[i].api_key_env) /\ v = Var(e, c.clients[i].api_key_env)
<1> DEFINE keyed == [i \in DOMAIN c.clients |-> [key |-> Var(e, c.clients[i].api_key_env), client |-> c.clients[i]]]
           usable == {i \in DOMAIN c.clients : Resolves(e, c.clients[i].api_key_env)}
<1>1. DOMAIN ClientKeys(c, e) = DOMAIN ByNameAt(keyed, usable, "key")
  BY DEF ClientKeys
<1>2. DOMAIN ByNameAt(keyed, usable, "key") = {keyed[i]["key"] : i \in usable}
  BY DEF ByNameAt
<1>3. \A i \in usable : keyed[i]["key"] = Var(e, c.clients[i].api_key_env)
  OBVIOUS
<1> HIDE DEF keyed
<1>4. ASSUME NEW i \in DOMAIN c.clients, Resolves(e, c.clients[i].api_key_env)
      PROVE  Var(e, c.clients[i].api_key_env) \in DOMAIN ClientKeys(c, e)
  <2>1. i \in usable
    BY <1>4
  <2> QED  BY <1>1, <1>2, <1>3, <2>1
<1>5. ASSUME NEW v \in DOMAIN ClientKeys(c, e)
      PROVE  \E i \in DOMAIN c.clients :
               Resolves(e, c.clients[i].api_key_env) /\ v = Var(e, c.clients[i].api_key_env)
  <2>1. PICK i \in usable : v = keyed[i]["key"]
    BY <1>1, <1>2
  <2> QED  BY <1>3, <2>1
<1> QED  BY <1>4, <1>5

(* What ReportMatchesServer asks of a configuration, an environment and an *)
(* AppState.                                                               *)
Agree(c, e, s) ==
  LET check == ConfigCheck(c, e)
      keys == KeyReports(c, e)
      active == {n \in DOMAIN check.providers : check.providers[n].active}
  IN /\ active = DOMAIN s.router.providers
     /\ {i \in DOMAIN check.guardrails : check.guardrails[i].valid} = DOMAIN s.router.guardrails
     /\ IsSet(c, e, <<"moderation", "api_key_env">>) <=> s.router.moderation
     /\ IsSet(c, e, <<"web_search", "api_key_env">>) <=> s.router.web_search
     /\ s.router.webhook # None =>
          (IsSet(c, e, <<"webhook", "auth_header_env">>) <=> s.router.webhook.authorized)
     /\ IsSet(c, e, <<"server", "api_key_env">>) => s.api_key # None
     /\ IsSet(c, e, <<"server", "admin_key_env">>) => AdminApiEnabled(s)
     /\ \A row \in keys : row.label[1] = "clients" =>
          (row.set <=> Var(e, row.env_var) \in DOMAIN s.client_keys)
     /\ s.jwt # None => check.jwt # None
     /\ PricedModels(s.router) = {m \in DOMAIN s.router.pricing : m[1] \in active}

(* The reports and the server agree on any configuration and environment.  *)
LEMMA SameInputsAgree ==
  ASSUME NEW c, NEW e, NEW db, NEW s, s = AppState(c, e, Router(c, e, db, Stored))
  PROVE  Agree(c, e, s)
<1>1. PICK r : r = Router(c, e, db, Stored)
  OBVIOUS
<1>2. PICK check : check = ConfigCheck(c, e)
  OBVIOUS
<1> DEFINE active == {n \in DOMAIN check.providers : check.providers[n].active}
<1>3. s = AppState(c, e, r)
  BY <1>1
<1>4. s.router = r
  BY <1>3, StateFields
<1>5. active = DOMAIN s.router.providers
  <2>1. check.providers = ProviderReports(c, e)
    BY <1>2, CheckFields
  <2>2. DOMAIN s.router.providers = ConfiguredProviders(c, e)
    BY <1>1, <1>4, RouterFields
  <2> QED  BY <2>1, <2>2 DEF ProviderReports, ConfiguredProviders
<1>6. {i \in DOMAIN check.guardrails : check.guardrails[i].valid} = DOMAIN s.router.guardrails
  <2>1. check.guardrails = CheckGuardrails(c)
    BY <1>2, CheckFields
  <2>2. s.router.guardrails = Guardrails(c)
    BY <1>1, <1>4, RouterFields
  <2> QED  BY <2>1, <2>2 DEF CheckGuardrails, Guardrails
<1>7. /\ IsSet(c, e, <<"moderation", "api_key_env">>) <=> s.router.moderation
      /\ IsSet(c, e, <<"web_search", "api_key_env">>) <=> s.router.web_search
  <2>1. s.router.moderation = Backend(c.moderation, e) /\ s.router.web_search = Backend(c.web_search, e)
    BY <1>1, <1>4, RouterFields
  <2>2. /\ IsSet(c, e, <<"moderation", "api_key_env">>) <=> Backend(c.moderation, e)
        /\ IsSet(c, e, <<"web_search", "api_key_env">>) <=> Backend(c.web_search, e)
    BY SectionRow DEF Backend
  <2> QED  BY <2>1, <2>2, Zenon
<1>8. s.router.webhook # None =>
        (IsSet(c, e, <<"webhook", "auth_header_env">>) <=> s.router.webhook.authorized)
  <2>1. s.router.webhook = Webhook(c, e)
    BY <1>1, <1>4, RouterFields
  <2>2. IsSet(c, e, <<"webhook", "auth_header_env">>)
          <=> c.webhook # None /\ Resolves(e, c.webhook.auth_header_env)
    BY SectionRow
  <2>3. Webhook(c, e) # None => c.webhook # None /\ Webhook(c, e).authorized = Resolves(e, c.webhook.auth_header_env)
    BY DEF Webhook
  <2> QED  BY <2>1, <2>2, <2>3, Zenon
<1>9. IsSet(c, e, <<"server", "api_key_env">>) => s.api_key # None
  <2>1. s.api_key = Var(e, c.server.api_key_env)
    BY <1>3, StateFields
  <2> QED  BY <2>1, ServerRow DEF Resolves
<1>10. IsSet(c, e, <<"server", "admin_key_env">>) => AdminApiEnabled(s)
  <2>1. s.admin_key = Var(e, c.server.admin_key_env)
    BY <1>3, StateFields
  <2> QED  BY <2>1, ServerRow DEF Resolves, AdminApiEnabled
<1>11. ASSUME NEW row \in KeyReports(c, e), row.label[1] = "clients"
       PROVE  row.set <=> Var(e, row.env_var) \in DOMAIN s.client_keys
  <2>1. DOMAIN s.client_keys = DOMAIN ClientKeys(c, e)
    BY <1>3, StateFields
  <2>2. PICK i \in DOMAIN c.clients : row.env_var = c.clients[i].api_key_env /\ row.set = Resolves(e, row.env_var)
    BY <1>11, ClientRow
  <2>3. ASSUME Resolves(e, row.env_var)
        PROVE  Var(e, row.env_var) \in DOMAIN s.client_keys
    <3>1. Resolves(e, c.clients[i].api_key_env)
      BY <2>2, <2>3
    <3>2. Var(e, c.clients[i].api_key_env) \in DOMAIN ClientKeys(c, e)
      BY <3>1, AcceptedKeys
    <3> QED  BY <2>1, <2>2, <3>2
  <2>4. ASSUME Var(e, row.env_var) \in DOMAIN s.client_keys
        PROVE  Resolves(e, row.env_var)
    <3>1. PICK j \in DOMAIN c.clients :
            /\ Resolves(e, c.clients[j].api_key_env)
            /\ Var(e, row.env_var) = Var(e, c.clients[j].api_key_env)
      BY <2>1, <2>4, AcceptedKeys
    <3> QED  BY <3>1 DEF Resolves
  <2> QED  BY <2>2, <2>3, <2>4, Zenon
<1>12. s.jwt # None => check.jwt # None
  <2>1. s.jwt = JwtMode(c, e)
    BY <1>3, StateFields
  <2>2. check.jwt = IF c.jwt = None THEN None
                    ELSE IF c.jwt.hs256_secret_env # None THEN "hs256"
                    ELSE IF c.jwt.jwks_url # None THEN "jwks" ELSE None
    BY <1>2, CheckFields
  <2> QED  BY <2>1, <2>2, LifecycleAssumption DEF JwtMode, Var
<1>13. PricedModels(s.router) = {m \in DOMAIN s.router.pricing : m[1] \in active}
  BY <1>5 DEF PricedModels
<1> HIDE DEF active
<1>14. active = {n \in DOMAIN ConfigCheck(c, e).providers : ConfigCheck(c, e).providers[n].active}
  BY <1>2 DEF active
<1> QED  BY <1>2, <1>5, <1>6, <1>7, <1>8, <1>9, <1>10, <1>11, <1>12, <1>13, <1>14, Zenon DEF Agree

(* While main() runs, its inputs are the operator's: they cannot be edited *)
(* before the process ends.                                                *)
Starting == {"load", "router", "state"}
StartInv ==
  /\ phase \in Starting \cup {"stopped"} => state = None
  /\ phase # "stopped" => launched = env
  /\ phase \notin {"stopped", "load"} => config = FromFile(Files[file])
  /\ phase \notin {"stopped", "load", "router"} => \E db : router = Router(config, launched, db, Stored)
  /\ phase \notin Starting \cup {"stopped"} => state = AppState(config, launched, router)

LEMMA StartInvKept == StartInv /\ [Next]_vars => StartInv'
<1> SUFFICES ASSUME StartInv, [Next]_vars PROVE StartInv'
  OBVIOUS
<1>1. CASE vars' = vars
  BY <1>1 DEF vars, server, operator, StartInv, Starting
<1>2. ASSUME NEW f, NEW e, Edit(f, e) PROVE StartInv'
  BY <1>2 DEF Edit, server, StartInv, Starting
<1>3. CASE Report
  BY <1>3 DEF Report, server, StartInv, Starting
<1>4. CASE SetUpTool
  BY <1>4 DEF SetUpTool, server, operator, StartInv, Starting
<1>5. CASE Launch
  BY <1>5 DEF Launch, StartInv, Starting
<1>6. CASE Load
  BY <1>6 DEF Load, operator, StartInv, Starting
<1>7. ASSUME NEW db, BuildRouter(db) PROVE StartInv'
  BY <1>7 DEF BuildRouter, operator, StartInv, Starting
<1>8. CASE BuildState
  BY <1>8 DEF BuildState, operator, StartInv, Starting
<1>9. CASE ConnectNext
  BY <1>9 DEF ConnectNext, server, operator, StartInv, Starting
<1>10. CASE Connected
  BY <1>10 DEF Connected, operator, StartInv, Starting
<1>11. ASSUME NEW bound \in BOOLEAN, Serve(bound) PROVE StartInv'
  BY <1>11 DEF Serve, operator, StartInv, Starting
<1>12. CASE Exit \/ \E bound \in BOOLEAN : Refuse(bound)
  BY <1>12 DEF Exit, Refuse, Stopped, operator, StartInv, Starting
<1>13. CASE (\E u \in Upstreams : GatewayTask(u)) \/ (\E l \in Listers : Listed(l)) \/ (\E c \in Callers : Called(c))
  BY <1>13 DEF GatewayTask, Listed, Called, server, operator, StartInv, Starting
<1>14. CASE ToolRequest \/ World
  BY <1>14 DEF ToolRequest, World, server, operator, StartInv, Starting
<1> QED  BY <1>1, <1>2, <1>3, <1>4, <1>5, <1>6, <1>7, <1>8, <1>9, <1>10, <1>11, <1>12, <1>13, <1>14
         DEF Next, StartUp

(* What rp-cli reports of a file and an environment is what the server     *)
(* started on them does, whatever is in the file ("this report never       *)
(* disagrees with what the real server would do", cli/src/lib.rs).         *)
THEOREM ReportsAreTrue == Spec => []ReportMatchesServer
<1>1. Init => StartInv
  BY DEF Init, StartInv, Starting
<1>2. StartInv => ReportMatchesServer
  <2> SUFFICES ASSUME StartInv, state # None PROVE ReportMatchesServer
    BY DEF ReportMatchesServer
  <2>1. /\ launched = env /\ config = FromFile(Files[file])
        /\ \E db : state = AppState(config, launched, Router(config, launched, db, Stored))
    BY DEF StartInv, Starting
  <2>2. Agree(FromFile(Files[file]), env, state)
    BY <2>1, SameInputsAgree
  <2> QED  BY <2>2, Zenon DEF Agree, IsSet, ReportMatchesServer
<1> QED  BY <1>1, <1>2, StartInvKept, PTL DEF Spec

-----------------------------------------------------------------------------
(* The merge of rp-cli setup, field after field.  Its recursion has a      *)
(* solution: there is no least number of fields without one.               *)
Below == OpToRel(<, Nat)

LEMMA BelowIsLess == ASSUME NEW x \in Nat, NEW y \in Nat, x < y PROVE <<x, y>> \in Below
BY DEF Below, OpToRel

LEMMA LeastElement ==
  ASSUME NEW S \in SUBSET Nat, S # {}
  PROVE  \E m \in S : \A n \in S : m <= n
<1>1. IsWellFoundedOn(Below, Nat)
  BY NatLessThanWellFounded DEF Below
<1>2. IsWellFoundedOn(Below, S)
  BY <1>1, IsWellFoundedOnSubset
<1>3. PICK m \in S : \A n \in S : ~ (<<n, m>> \in Below)
  BY <1>2, WFMin
<1>4. \A n \in S : ~ (n < m)
  BY <1>3, BelowIsLess
<1> QED  BY <1>4

(* The merge's recursion, up to a field.                                   *)
AfterField(n, doc, base_url, api_key_env) ==
  IF Applicable(Fields[n], api_key_env)
  THEN SetPath(doc, Fields[n].path, RenderValue(Fields[n], base_url, api_key_env)) ELSE doc

MergedUpTo(m, file0, base_url, api_key_env, g) ==
  g = [n \in 0..m |-> IF n = 0 THEN Root(file0) ELSE AfterField(n, g[n - 1], base_url, api_key_env)]

(* The recursion has a solution for every number of fields.                *)
LEMMA MergeExists ==
  ASSUME NEW file0, NEW b, NEW k, NEW m \in Nat
  PROVE  \E g : MergedUpTo(m, file0, b, k, g)
<1> DEFINE Bad == {n \in Nat : ~ \E g : MergedUpTo(n, file0, b, k, g)}
<1> SUFFICES ASSUME Bad # {} PROVE FALSE
  OBVIOUS
<1>1. PICK least \in Bad : \A n \in Bad : least <= n
  BY LeastElement
<1>2. CASE least = 0
  <2>1. PICK g : g = [n \in 0..0 |-> Root(file0)]
    OBVIOUS
  <2>2. MergedUpTo(0, file0, b, k, g)
    BY <2>1 DEF MergedUpTo
  <2> QED  BY <1>2, <2>2
<1>3. CASE least # 0
  <2>1. least \in Nat /\ least - 1 \in Nat /\ least - 1 \notin Bad
    BY <1>1, <1>3
  <2>2. PICK g : MergedUpTo(least - 1, file0, b, k, g)
    BY <2>1
  <2>3. PICK h : h = [n \in 0..least |-> IF n = least THEN AfterField(n, g[n - 1], b, k) ELSE g[n]]
    OBVIOUS
  <2>4. \A n \in 0..(least - 1) :
          g[n] = IF n = 0 THEN Root(file0) ELSE AfterField(n, g[n - 1], b, k)
    BY <2>2 DEF MergedUpTo
  <2>5. \A n \in 0..least : n # least => n \in 0..(least - 1) /\ h[n] = g[n]
    BY <2>1, <2>3
  <2>6. \A n \in 0..least : n # 0 => n - 1 \in 0..(least - 1) /\ h[n - 1] = g[n - 1]
    BY <2>1, <2>3
  <2>7. \A n \in 0..least : h[n] = IF n = 0 THEN Root(file0) ELSE AfterField(n, h[n - 1], b, k)
    BY <1>3, <2>1, <2>3, <2>4, <2>5, <2>6
  <2>8. MergedUpTo(least, file0, b, k, h)
    BY <2>3, <2>7 DEF MergedUpTo
  <2> QED  BY <2>8
<1> QED  BY <1>2, <1>3

(* What the merge computes.                                                *)
LEMMA MergeUnfolds ==
  ASSUME NEW file0, NEW b, NEW k
  PROVE  \E g : MergedUpTo(Len(Fields), file0, b, k, g) /\ Merged(file0, b, k) = g[Len(Fields)]
<1> DEFINE Chosen == CHOOSE g : MergedUpTo(Len(Fields), file0, b, k, g)
<1>1. Len(Fields) \in Nat
  BY SetupAssumption
<1>2. MergedUpTo(Len(Fields), file0, b, k, Chosen)
  BY <1>1, MergeExists, Zenon
<1>3. Merged(file0, b, k) = Chosen[Len(Fields)]
  BY DEF Merged, MergedUpTo, AfterField
<1> QED  BY <1>2, <1>3

(* A document that is an error stays one.                                  *)
LEMMA MergeOfClash ==
  ASSUME NEW file0, NEW b, NEW k, Root(file0) = Clash
  PROVE  Merged(file0, b, k) = Clash
<1>1. PICK g : MergedUpTo(Len(Fields), file0, b, k, g) /\ Merged(file0, b, k) = g[Len(Fields)]
  BY MergeUnfolds
<1>2. PICK m : m = Len(Fields)
  OBVIOUS
<1>3. m \in Nat
  BY <1>2, SetupAssumption
<1>4. /\ g[0] = Root(file0)
      /\ \A n \in 1..m : g[n] = AfterField(n, g[n - 1], b, k)
  BY <1>1, <1>2, <1>3 DEF MergedUpTo
<1>5. \A n \in 1..m : g[n - 1] = Clash => g[n] = Clash
  BY <1>4 DEF AfterField, SetPath
<1> DEFINE Other == {n \in Nat : n <= m /\ g[n] # Clash}
<1>6. Other = {}
  <2> SUFFICES ASSUME Other # {} PROVE FALSE
    OBVIOUS
  <2>1. PICK least \in Other : \A n \in Other : least <= n
    BY LeastElement
  <2>2. least \in 1..m /\ least - 1 \in Nat /\ least - 1 <= m /\ least - 1 \notin Other
    BY <1>3, <1>4, <2>1
  <2> QED  BY <1>5, <2>1, <2>2
<1> QED  BY <1>1, <1>2, <1>3, <1>6

(* A setting below no field's path is left as it is.                       *)
HasLeaf(doc, p, v) == p \in DOMAIN doc /\ doc[p] = v

LEMMA SetPathKeeps ==
  ASSUME NEW doc, NEW p, NEW v, NEW i \in DOMAIN Fields, NEW value,
         ~IsPrefix(Fields[i].path, p), HasLeaf(doc, p, v),
         SetPath(doc, Fields[i].path, value) # Clash
  PROVE  HasLeaf(SetPath(doc, Fields[i].path, value), p, v)
<1> DEFINE path == Fields[i].path
<1>1. path \in Seq(STRING)
  <2>1. PICK spec : spec = FieldSpec
    OBVIOUS
  <2>2. Fields[i] \in spec
    BY <2>1, SetupAssumption
  <2> QED  BY <2>1, <2>2 DEF FieldSpec
<1>2. p # path
  BY <1>1 DEF IsPrefix
<1> HIDE DEF path
<1>3. SetPath(doc, path, value) =
        [q \in {q \in DOMAIN doc : ~IsPrefix(path, q)} \cup {path} |-> IF q = path THEN value ELSE doc[q]]
  BY DEF SetPath, path
<1> QED  BY <1>2, <1>3 DEF HasLeaf, path

(* The settings of `doc` the merge has no business with.                   *)
KeepsUnrelated(doc, other) == \A p \in Unrelated(doc) : HasLeaf(other, p, doc[p])

(* A merge that succeeds leaves them as they were.                         *)
LEMMA MergeKeeps ==
  ASSUME NEW doc, NEW file0, NEW b, NEW k, KeepsUnrelated(doc, Root(file0)), Merged(file0, b, k) # Clash
  PROVE  KeepsUnrelated(doc, Merged(file0, b, k))
<1>1. PICK g : MergedUpTo(Len(Fields), file0, b, k, g) /\ Merged(file0, b, k) = g[Len(Fields)]
  BY MergeUnfolds
<1>2. PICK m : m = Len(Fields)
  OBVIOUS
<1>3. m \in Nat /\ DOMAIN Fields = 1..m
  BY <1>2, SetupAssumption
<1>4. /\ g[0] = Root(file0)
      /\ \A n \in 1..m : g[n] = AfterField(n, g[n - 1], b, k)
  BY <1>1, <1>2, <1>3 DEF MergedUpTo
<1>5. \A n \in 1..m : g[n] # Clash => g[n - 1] # Clash
  BY <1>4 DEF AfterField, SetPath
<1>6. \A n \in 1..m : g[n] # Clash /\ KeepsUnrelated(doc, g[n - 1]) => KeepsUnrelated(doc, g[n])
  <2> SUFFICES ASSUME NEW n \in 1..m, g[n] # Clash, KeepsUnrelated(doc, g[n - 1])
               PROVE  KeepsUnrelated(doc, g[n])
    OBVIOUS
  <2>1. CASE ~Applicable(Fields[n], k)
    BY <2>1, <1>4 DEF AfterField
  <2>2. CASE Applicable(Fields[n], k)
    <3>1. g[n] = SetPath(g[n - 1], Fields[n].path, RenderValue(Fields[n], b, k))
      BY <2>2, <1>4 DEF AfterField
    <3>2. n \in DOMAIN Fields
      BY <1>3
    <3>3. ASSUME NEW p \in Unrelated(doc) PROVE HasLeaf(g[n], p, doc[p])
      BY <3>1, <3>2, SetPathKeeps DEF Unrelated, KeepsUnrelated
    <3> QED  BY <3>3 DEF KeepsUnrelated
  <2> QED  BY <2>1, <2>2
(* An error stays one, so there was none on the way; and no first field    *)
(* after which something is lost.                                          *)
<1> DEFINE Clashed == {n \in Nat : n <= m /\ g[m - n] = Clash}
           Lost == {n \in Nat : n <= m /\ ~KeepsUnrelated(doc, g[n])}
<1>7. \A n \in 0..m : g[n] # Clash
  <2>1. Clashed = {}
    <3> SUFFICES ASSUME Clashed # {} PROVE FALSE
      OBVIOUS
    <3>1. PICK least \in Clashed : \A n \in Clashed : least <= n
      BY LeastElement
    <3>2. least # 0
      BY <1>1, <1>2, <1>3, <3>1
    <3>3. m - least \in 0..(m - 1) /\ least - 1 \in Nat /\ m - (least - 1) = (m - least) + 1
      BY <1>3, <3>1, <3>2
    <3>4. PICK n \in 1..m : n = (m - least) + 1
      BY <1>3, <3>3
    <3>5. g[n] = Clash
      BY <1>5, <3>1, <3>3, <3>4
    <3>6. least - 1 \in Clashed
      BY <1>3, <3>3, <3>4, <3>5
    <3> QED  BY <3>1, <3>6
  <2> SUFFICES ASSUME NEW n \in 0..m, g[n] = Clash PROVE FALSE
    OBVIOUS
  <2>2. m - n \in Nat /\ m - n <= m /\ m - (m - n) = n
    BY <1>3
  <2> QED  BY <2>1, <2>2
<1>8. Lost = {}
  <2> SUFFICES ASSUME Lost # {} PROVE FALSE
    OBVIOUS
  <2>1. PICK least \in Lost : \A n \in Lost : least <= n
    BY LeastElement
  <2>2. least # 0
    BY <1>4, <2>1
  <2>3. least \in 1..m /\ least - 1 \in Nat /\ least - 1 <= m /\ least - 1 \notin Lost
    BY <1>3, <2>1, <2>2
  <2> QED  BY <1>6, <1>7, <2>1, <2>3
<1> QED  BY <1>1, <1>2, <1>3, <1>8

-----------------------------------------------------------------------------
(* Where a command has got to, the file or its backup still has the tool's *)
(* own settings: at first the file, and once it is copied the backup; what *)
(* is being written has them too.  Only a TOML file that is torn may be    *)
(* taken for an empty one.                                                 *)
Counts == original # NoFile /\ (Format = "json" \/ ~crashed)
RecoverInv ==
  /\ original = NoFile \/ original = File(original.doc, FALSE)
  /\ command.at \in {"idle", "backup", "write", "fill"}
  /\ command = [at |-> command.at, before |-> command.before, after |-> command.after]
  /\ Counts =>
       /\ command.at = "idle" => \/ Keeps(disk, original.doc)
                                 \/ disk = Torn /\ Format = "json" /\ Keeps(backup, original.doc)
       /\ command.at = "backup" => Keeps(disk, original.doc) /\ command.before = disk
       /\ command.at = "write" => Keeps(disk, original.doc) /\ Keeps(backup, original.doc)
       /\ command.at = "fill" => disk = Torn /\ Keeps(backup, original.doc)
       /\ command.at # "idle" => Keeps(command.after, original.doc)

(* Keeps, in terms of the leaves.                                          *)
LEMMA KeepsMeans ==
  ASSUME NEW f, NEW doc
  PROVE  Keeps(f, doc) <=> f.is = "whole" /\ KeepsUnrelated(doc, f.doc)
BY DEF Keeps, KeepsUnrelated, HasLeaf

LEMMA FileIsWhole == \A doc, r : File(doc, r).is = "whole" /\ File(doc, r).doc = doc
BY DEF File

LEMMA OwnSettings == \A doc, r : Keeps(File(doc, r), doc)
BY KeepsMeans, FileIsWhole DEF KeepsUnrelated, Unrelated, HasLeaf

(* One step for each action of the command and of the tool.                *)
LEMMA SetupStepRecovers ==
  ASSUME RecoverInv, SetupStep
  PROVE  RecoverInv'
<1>1. ASSUME NEW b, NEW k, StartApply(b, k) PROVE RecoverInv'
  <2>1. PICK doc : doc = Merged(disk, b, k)
    OBVIOUS
  <2>2. /\ command.at = "idle" /\ UNCHANGED <<disk, backup, original, crashed>>
        /\ command' = IF doc = Clash \/ disk = File(doc, TRUE) THEN IdleCommand
                       ELSE [at |-> "backup", before |-> disk, after |-> File(doc, TRUE)]
    BY <1>1, <2>1, Zenon DEF StartApply
  <2>3. CASE doc = Clash \/ disk = File(doc, TRUE)
    BY <2>2, <2>3 DEF RecoverInv, IdleCommand, Counts
  <2>4. CASE ~(doc = Clash \/ disk = File(doc, TRUE))
    <3>1. command' = [at |-> "backup", before |-> disk, after |-> File(doc, TRUE)]
      BY <2>2, <2>4
    <3>2. command'.at = "backup" /\ command'.before = disk /\ command'.after = File(doc, TRUE)
      BY <3>1
    <3>3. ASSUME Counts PROVE Keeps(disk, original.doc) /\ Keeps(File(doc, TRUE), original.doc)
      <4>1. ~(disk = Torn /\ Format = "json")
        <5> SUFFICES ASSUME disk = Torn, Format = "json" PROVE FALSE
          OBVIOUS
        <5>1. Root(disk) = Clash
          BY DEF Root, Torn, NoFile
        <5>2. Merged(disk, b, k) = Clash
          BY <5>1, MergeOfClash
        <5> QED  BY <2>1, <2>4, <5>2
      <4>2. Keeps(disk, original.doc)
        BY <2>2, <3>3, <4>1 DEF RecoverInv
      <4>3. Root(disk) = disk.doc
        BY <4>2 DEF Keeps, Root, NoFile, Torn
      <4>4. KeepsUnrelated(original.doc, doc)
        BY <2>1, <2>4, <4>2, <4>3, KeepsMeans, MergeKeeps
      <4> QED  BY <4>2, <4>4, KeepsMeans, FileIsWhole
    <3> QED  BY <2>2, <3>1, <3>2, <3>3 DEF RecoverInv, Counts
  <2> QED  BY <2>3, <2>4
<1>2. CASE CopyBackup
  <2>1. Counts => command.before = disk /\ disk # NoFile
    BY <1>2, KeepsMeans DEF CopyBackup, RecoverInv, NoFile
  <2>2. Counts => backup' = disk
    BY <1>2, <2>1 DEF CopyBackup, Copied
  <2> QED  BY <1>2, <2>2 DEF CopyBackup, RecoverInv, Counts
<1>3. CASE Truncate
  BY <1>3 DEF Truncate, RecoverInv, Counts
<1>4. CASE Fill
  BY <1>4 DEF Fill, RecoverInv, Counts, IdleCommand
<1>5. CASE EndEarly
  BY <1>5 DEF EndEarly, RecoverInv, Counts, IdleCommand
<1>6. ASSUME NEW doc, ToolSaves(doc) PROVE RecoverInv'
  <2>1. disk' = original' /\ original' = File(original'.doc, FALSE)
    BY <1>6, FileIsWhole DEF ToolSaves
  <2>2. Keeps(disk', original'.doc)
    BY <2>1, OwnSettings
  <2> QED  BY <1>6, <2>1, <2>2 DEF ToolSaves, RecoverInv, Counts
<1> QED  BY <1>1, <1>2, <1>3, <1>4, <1>5, <1>6 DEF SetupStep

(* Wherever a command ends and however often it is run again, the tool's   *)
(* own settings are in its file or in the backup (ADR-0004), whatever the  *)
(* fields, documents and addresses.                                        *)
THEOREM AlwaysRecoverable == Spec => []Recoverable
<1>1. Init => RecoverInv
  BY DEF Init, SetupInit, RecoverInv, Counts, IdleCommand
<1>2. RecoverInv /\ [Next]_vars => RecoverInv'
  <2> SUFFICES ASSUME RecoverInv, [Next]_vars PROVE RecoverInv'
    OBVIOUS
  <2>1. SetupStep \/ UNCHANGED setup
    BY DEF Next, StartUp, vars, Edit, Report, SetUpTool, Launch, Load, BuildRouter, BuildState,
           ConnectNext, Connected, Serve, Refuse, Exit, GatewayTask, Listed, Called, ToolRequest, World
  <2>2. CASE UNCHANGED setup
    BY <2>2 DEF setup, RecoverInv, Counts
  <2> QED  BY <2>1, <2>2, SetupStepRecovers
<1>3. RecoverInv => Recoverable
  BY DEF RecoverInv, Counts, Recoverable
<1> QED  BY <1>1, <1>2, <1>3, PTL DEF Spec
=============================================================================
