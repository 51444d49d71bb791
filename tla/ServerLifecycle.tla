--------------------------- MODULE ServerLifecycle ---------------------------
(***************************************************************************)
(* rp-server from exec to exit, with the MCP gateway it connects while it  *)
(* starts, and the operator around it: who edits the configuration file    *)
(* and the environment, looks at both with rp-cli, and starts the server.  *)
(***************************************************************************)
EXTENDS GatewayConfig, McpGateway, ToolSetup

CONSTANTS
  Files,         (* Files config.toml can be: name -> its tables.          *)
  Environments,  (* Environments the operator sets up.                     *)
  Stored,        (* usage rows of the database.                            *)
  MaxEdits,      (* Bound on the edits between two starts.                 *)
  MaxStarts      (* Bound on the starts.                                   *)

ASSUME LifecycleAssumption ==
  /\ Environments \subseteq Environment
  /\ None \notin {"hs256", "jwks"}
  /\ MaxEdits \in Nat /\ MaxStarts \in Nat

VARIABLES
  file,       (* The configuration file: a name of Files.                  *)
  env,        (* The environment the operator's commands inherit.          *)
  report,     (* Whether rp-cli has looked at both since they changed.     *)
  edits, starts,
  phase,      (* Where main() is.                                          *)
  launched,   (* The environment of the server process.                    *)
  config,     (* The Config it loaded.                                     *)
  router,     (* Its Router, as from_config built it.                      *)
  state       (* Its AppState.                                             *)

operator == <<file, env, report, edits, starts>>
server == <<phase, launched, config, router, state>>
vars == <<gateway, setup, operator, server>>

Phases == {"stopped", "load", "router", "state", "mcp", "serve", "http", "stdio"}
Serving == phase \in {"http", "stdio"}

Init ==
  /\ GatewayInit
  /\ SetupInit
  /\ file \in DOMAIN Files /\ env \in Environments
  /\ report = FALSE /\ edits = 0 /\ starts = 0
  /\ phase = "stopped"
  /\ launched = None /\ config = None /\ router = None /\ state = None

TypeOKLifecycle ==
  /\ TypeOK
  /\ phase \in Phases /\ file \in DOMAIN Files /\ env \in Environments
  /\ report \in BOOLEAN /\ edits \in 0..MaxEdits /\ starts \in 0..MaxStarts
  /\ config # None => config.mcp = None \/ config.mcp.enabled \in BOOLEAN
  /\ state # None => state.router = router /\ Endpoints(state) # {}

-----------------------------------------------------------------------------
(* The operator, while the server is stopped: edits, and asks rp-cli what  *)
(* it makes of the file and the environment (a file that does not parse is *)
(* an error message).                                                      *)
Edit(f, e) ==
  /\ phase = "stopped" /\ edits < MaxEdits /\ edits' = edits + 1
  /\ file' = f /\ env' = e /\ report' = FALSE
  /\ UNCHANGED <<gateway, setup, starts, server>>

Report ==
  /\ phase = "stopped" /\ FromFile(Files[file]) # None
  /\ report' = TRUE
  /\ UNCHANGED <<gateway, setup, file, env, edits, starts, server>>

(* rp-cli setup shares nothing with the server: it is only modelled before *)
(* the first start.                                                        *)
SetUpTool ==
  /\ phase = "stopped" /\ starts = 0 /\ SetupStep
  /\ UNCHANGED <<gateway, operator, server>>

-----------------------------------------------------------------------------
(* main(): the process inherits the environment.                           *)
Launch ==
  /\ phase = "stopped" /\ starts < MaxStarts /\ applies = 0 /\ disk = NoFile
  /\ starts' = starts + 1 /\ edits' = 0
  /\ phase' = "load" /\ launched' = env
  /\ UNCHANGED <<gateway, setup, file, env, report, config, router, state>>

(* The one thing that refuses to start the server is its file.             *)
Load ==
  /\ phase = "load"
  /\ config' = FromFile(Files[file])
  /\ phase' = IF config' = None THEN "stopped" ELSE "router"
  /\ UNCHANGED <<gateway, setup, operator, launched, router, state>>

BuildRouter(db) ==
  /\ phase = "router"
  /\ router' = Router(config, launched, db, Stored)
  /\ phase' = "state"
  /\ UNCHANGED <<gateway, setup, operator, launched, config, state>>

(* The keys, the JWT verifier and the rest of AppState; rp_mcp::build,     *)
(* which connects the upstreams one after the other, is awaited first.     *)
BuildState ==
  /\ phase = "state"
  /\ state' = AppState(config, launched, router)
  /\ IF McpEnabled(config)
     THEN /\ phase' = "mcp"
          /\ connecting' = [i \in DOMAIN config.mcp.upstreams |-> config.mcp.upstreams[i].name]
          /\ policy' = [initial |-> config.mcp.reconnect_backoff_secs,
                        max |-> config.mcp.reconnect_backoff_max_secs,
                        limit |-> config.mcp.max_reconnect_attempts]
     ELSE /\ phase' = "serve"
          /\ UNCHANGED <<connecting, policy>>
  /\ UNCHANGED <<peers, supervisor, queue, served, world, setup, operator, launched, config, router>>

(* connect_one: the upstream is up, and its bearer token is in the         *)
(* environment.                                                            *)
UpstreamConfig(u) ==
  config.mcp.upstreams[CHOOSE i \in DOMAIN config.mcp.upstreams : config.mcp.upstreams[i].name = u]
Reachable(u) ==
  /\ u \in up
  /\ UpstreamConfig(u).bearer_token_env # None => Var(launched, UpstreamConfig(u).bearer_token_env) # None

ConnectNext ==
  /\ phase = "mcp" /\ connecting # <<>>
  /\ Connect(Head(connecting), Reachable(Head(connecting)))
  /\ UNCHANGED <<setup, operator, server>>

Connected ==
  /\ phase = "mcp" /\ connecting = <<>>
  /\ phase' = "serve"
  /\ UNCHANGED <<gateway, setup, operator, launched, config, router, state>>

Stopped ==
  /\ phase' = "stopped"
  /\ launched' = None /\ config' = None /\ router' = None /\ state' = None

(* MCP_STDIO serves the MCP endpoint on stdin and stdout instead of HTTP,  *)
(* if there is one; the listener may not get its address.                  *)
Serve(bound) ==
  /\ phase = "serve"
  /\ IF Var(launched, "MCP_STDIO") # None
     THEN state.mcp /\ phase' = "stdio" /\ UNCHANGED <<launched, config, router, state>>
     ELSE bound /\ phase' = "http" /\ UNCHANGED <<launched, config, router, state>>
  /\ UNCHANGED <<gateway, setup, operator>>

Refuse(bound) ==
  /\ phase = "serve"
  /\ IF Var(launched, "MCP_STDIO") # None THEN ~state.mcp ELSE ~bound
  /\ Stopped /\ GatewayDies /\ UNCHANGED <<setup, operator>>

(* The process ends, and every task and connection with it.                *)
Exit ==
  /\ Serving
  /\ Stopped /\ GatewayDies /\ UNCHANGED <<setup, operator>>

-----------------------------------------------------------------------------
(* The gateway's tasks run from the moment they are spawned; requests for  *)
(* tools come in once the endpoint is mounted.                             *)
GatewayTask(u) ==
  /\ phase # "stopped" /\ SupervisorStep(u, Reachable(u))
  /\ UNCHANGED <<setup, operator, server>>
Listed(l) == ListStep(l) /\ UNCHANGED <<setup, operator, server>>
Called(c) == CallStep(c) /\ UNCHANGED <<setup, operator, server>>
ToolRequest == Serving /\ state.mcp /\ Request /\ UNCHANGED <<setup, operator, server>>
World == state # None /\ Outside /\ UNCHANGED <<setup, operator, server>>

StartUp ==
  \/ Load \/ (\E db \in {"fails", "unreadable", "readable"} : BuildRouter(db)) \/ BuildState
  \/ ConnectNext \/ Connected \/ (\E bound \in BOOLEAN : Serve(bound) \/ Refuse(bound))

Next ==
  \/ \E f \in DOMAIN Files, e \in Environments : Edit(f, e)
  \/ Report \/ SetUpTool \/ Launch \/ StartUp \/ Exit
  \/ \E u \in Upstreams : GatewayTask(u)
  \/ \E l \in Listers : Listed(l)
  \/ \E c \in Callers : Called(c)
  \/ ToolRequest \/ World

(* The executor runs every ready task, and an upstream with a live         *)
(* connection answers what it is asked (the gateway sets no timeout).      *)
Fairness ==
  /\ \A u \in Upstreams : WF_vars(GatewayTask(u))
  /\ \A l \in Listers : WF_vars(Listed(l))
  /\ \A c \in Callers : WF_vars(Called(c))

Spec == Init /\ [][Next]_vars /\ Fairness

-----------------------------------------------------------------------------
(* Property: what rp-cli reports is what a server started on the same file *)
(* and environment does: providers, guardrails, the keys it would accept   *)
(* and the backends it would use ("this report never disagrees with what   *)
(* the real server would do", cli/src/lib.rs), and it lists the priced     *)
(* models of the active providers.  (A server key, admin key or JWT secret *)
(* that is set to nothing is reported as not set, yet used.)               *)
ReportMatchesServer ==
  state # None /\ report =>
    LET check == ConfigCheck(FromFile(Files[file]), env)
        keys == KeyReports(FromFile(Files[file]), env)
        active == {n \in DOMAIN check.providers : check.providers[n].active}
        Set(label) == \E row \in keys : row.label = label /\ row.set
    IN /\ active = DOMAIN state.router.providers
       /\ {i \in DOMAIN check.guardrails : check.guardrails[i].valid} = DOMAIN state.router.guardrails
       /\ Set(<<"moderation", "api_key_env">>) <=> state.router.moderation
       /\ Set(<<"web_search", "api_key_env">>) <=> state.router.web_search
       /\ state.router.webhook # None =>
            (Set(<<"webhook", "auth_header_env">>) <=> state.router.webhook.authorized)
       /\ Set(<<"server", "api_key_env">>) => state.api_key # None
       /\ Set(<<"server", "admin_key_env">>) => AdminApiEnabled(state)
       /\ \A row \in keys : row.label[1] = "clients" =>
            (row.set <=> Var(env, row.env_var) \in DOMAIN state.client_keys)
       /\ state.jwt # None => check.jwt # None
       /\ PricedModels(state.router) = {m \in DOMAIN state.router.pricing : m[1] \in active}

(* Property: a tools/list or tools/call that was accepted is answered, also *)
(* while supervisors wait for the lock, upstreams drop and reconnections   *)
(* fail: nobody keeps the lock across a reconnection.                      *)
CallsConclude ==
  /\ \A l \in Listers : (listing[l].at # "idle") ~> (listing[l].at = "idle")
  /\ \A c \in Callers : (calling[c].at # "idle") ~> (calling[c].at = "idle")

(* Property: without a limit on the attempts, an upstream that connected   *)
(* at startup and is finally up is finally listed with a live connection,  *)
(* however often it was lost before ("recovers on its own", docs/MCP.md).  *)
UpstreamsComeBack ==
  \A u \in Upstreams :
    <>[](Serving /\ policy.limit = None /\ u \in up /\ supervisor[u].at # "absent")
      => <>[](peers[u] # 0 /\ peers[u] = link[u])
=============================================================================
