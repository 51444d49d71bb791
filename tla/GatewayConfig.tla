---------------------------- MODULE GatewayConfig ----------------------------
(***************************************************************************)
(* config.toml: the sections the server and rp-cli read, with serde's      *)
(* defaults.  A table of the file is a record or function of the fields it *)
(* writes; a schema names the fields that must be written and the values   *)
(* of the others.  Parsing fills every table in, or fails as a whole.      *)
(* Fields no check of this project can tell apart (texts, addresses) keep  *)
(* their default only.                                                     *)
(***************************************************************************)
EXTENDS Naturals, Sequences, FiniteSets, SequencesExt

CONSTANTS
  None,            (* Option::None: a field or section that was left out.  *)
  EnvVars,         (* The variables the configurations name.               *)
  ValidPatterns,   (* Guardrail patterns the regex crate compiles.         *)
  ValidOrigins     (* Origins that are valid header values.                *)

Schema(required, defaults) == [required |-> required, defaults |-> defaults]

ServerConfig == Schema({},
  [host |-> "0.0.0.0", port |-> 8080, max_body_bytes |-> 20 * 1024 * 1024,
   api_key_env |-> None, default_rate_limit_rpm |-> None, admin_key_env |-> None,
   max_concurrent_requests |-> None, cors_allowed_origins |-> None])

ProviderKind == {"openai", "anthropic", "gemini"}
ProviderConfig == Schema({"kind", "base_url", "api_key_env"},
  [timeout_secs |-> 300, zdr |-> FALSE, no_training |-> FALSE, requests_per_minute |-> None])

RouteStrategy == {"fallback", "fusion"}
RouteAlias == Schema({"alias", "chain"},
  [strategy |-> "fallback", judge |-> None, fusion_timeout_secs |-> 30])

PricingEntry == Schema({"model", "prompt_per_million"},
  [completion_per_million |-> 0, cache_read_per_million |-> None,
   cache_write_per_million |-> None, context_length |-> None, quality_score |-> None])

(* A free tier resets monthly, a client's budget never, unless they say so. *)
FreeTierEntry == Schema({"model", "monthly_free_tokens"}, [period |-> "monthly"])

ClientConfig == Schema({"name", "api_key_env", "requests_per_minute"},
  [budget_usd |-> None, budget_period |-> "total", budget_warning_threshold |-> None,
   organization |-> None, workspace |-> None, role |-> "member"])

ClientRole == {"member", "admin"}
BudgetPeriod == {"total", "daily", "weekly", "monthly"}

PersistenceBackend == {"sqlite", "postgres"}
PostgresTlsMode == {"disable", "require"}
PersistenceConfig == Schema({},
  [backend |-> "sqlite", sqlite_path |-> None, postgres_url_env |-> None,
   postgres_tls |-> "disable"])

McpConfig == Schema({},
  [enabled |-> FALSE, path |-> "/mcp", upstreams |-> <<>>, reconnect_backoff_secs |-> 1,
   reconnect_backoff_max_secs |-> 60, max_reconnect_attempts |-> None])

(* A stdio upstream has a command, an http one a url.                      *)
McpUpstreamTransport(t) ==
  IF "transport" \notin DOMAIN t THEN {"transport"}
  ELSE IF t.transport = "stdio" THEN {"command"} ELSE {"url"}
McpUpstreamConfig(t) == Schema({"name", "transport"} \cup McpUpstreamTransport(t),
  [args |-> <<>>, bearer_token_env |-> None])

JwtConfig == Schema({},
  [jwks_url |-> None, hs256_secret_env |-> None, issuer |-> None, audience |-> None,
   jwks_cache_secs |-> 300, client_claim |-> None])

AutoRoutingConfig == Schema({"simple_model", "medium_model", "complex_model"},
  [simple_max_score |-> 200, medium_max_score |-> 800])

(* The sampling parameters a preset may set are one field here.            *)
PresetConfig == Schema({"name"},
  [model |-> None, system_prompt |-> None, provider |-> None, sampling |-> None])

GuardrailAction == {"block", "redact"}
GuardrailConfig == Schema({"name", "pattern", "action"}, [replacement |-> "[redacted]"])

WebhookConfig == Schema({"url"},
  [auth_header_env |-> None, timeout_secs |-> 10, signing_secret_env |-> None,
   retry_backoff_secs |-> 1, retry_backoff_max_secs |-> 30, max_retries |-> 3])

ModerationConfig == Schema({"api_key_env"},
  [base_url |-> "https://api.openai.com/v1", model |-> "omni-moderation-latest",
   timeout_secs |-> 10])

WebSearchConfig == Schema({"api_key_env"},
  [base_url |-> "https://api.search.brave.com/res/v1/web/search", max_results |-> 5,
   timeout_secs |-> 10])

CacheMode == {"exact", "semantic"}
CacheConfig == Schema({},
  [ttl_secs |-> 300, max_entries |-> 1000, mode |-> "exact",
   similarity_threshold_percent |-> 85, embedding_model |-> None])

-----------------------------------------------------------------------------
(* The sections of a file: one table, an optional one, tables by name, and *)
(* arrays of tables.                                                       *)
Optional == [persistence |-> PersistenceConfig, webhook |-> WebhookConfig,
             auto_routing |-> AutoRoutingConfig, moderation |-> ModerationConfig,
             web_search |-> WebSearchConfig, cache |-> CacheConfig, jwt |-> JwtConfig,
             mcp |-> McpConfig]
Arrays == [routes |-> RouteAlias, pricing |-> PricingEntry, clients |-> ClientConfig,
           guardrails |-> GuardrailConfig, presets |-> PresetConfig,
           free_tiers |-> FreeTierEntry]

(* A closed vocabulary: any other word fails the parse.                    *)
Words == [kind |-> ProviderKind, strategy |-> RouteStrategy, role |-> ClientRole,
          budget_period |-> BudgetPeriod, period |-> BudgetPeriod,
          backend |-> PersistenceBackend, postgres_tls |-> PostgresTlsMode,
          action |-> GuardrailAction, mode |-> CacheMode, transport |-> {"stdio", "http"}]

Matches(schema, t) ==
  /\ schema.required \subseteq DOMAIN t
  /\ \A f \in DOMAIN t \cap DOMAIN Words : t[f] \in Words[f]

(* Unknown fields are ignored.                                             *)
Filled(schema, t) ==
  [f \in schema.required \cup DOMAIN schema.defaults |->
     IF f \in DOMAIN t THEN t[f] ELSE schema.defaults[f]]

Written(file, section, absent) ==
  IF section \in DOMAIN file THEN file[section] ELSE absent

UpstreamTables(file) ==
  IF "mcp" \in DOMAIN file /\ "upstreams" \in DOMAIN file.mcp THEN file.mcp.upstreams ELSE <<>>

Parses(file) ==
  /\ Matches(ServerConfig, Written(file, "server", [x \in {} |-> None]))
  /\ \A n \in DOMAIN Written(file, "providers", <<>>) :
       Matches(ProviderConfig, file.providers[n])
  /\ \A s \in DOMAIN Optional \cap DOMAIN file : Matches(Optional[s], file[s])
  /\ \A s \in DOMAIN Arrays \cap DOMAIN file :
       \A i \in DOMAIN file[s] : Matches(Arrays[s], file[s][i])
  /\ \A i \in DOMAIN UpstreamTables(file) :
       Matches(McpUpstreamConfig(UpstreamTables(file)[i]), UpstreamTables(file)[i])

(* Config: every section the file leaves out is None, or empty.            *)
FilledMcp(file) ==
  [Filled(McpConfig, file.mcp) EXCEPT !.upstreams =
     [i \in DOMAIN @ |-> Filled(McpUpstreamConfig(@[i]), @[i])]]

Config(file) ==
  LET providers == Written(file, "providers", <<>>)
  IN [s \in DOMAIN Optional \cup DOMAIN Arrays \cup {"server", "providers"} |->
       IF s = "server" THEN Filled(ServerConfig, Written(file, s, [x \in {} |-> None]))
       ELSE IF s = "providers"
       THEN [n \in DOMAIN providers |-> Filled(ProviderConfig, providers[n])]
       ELSE IF s \in DOMAIN Arrays
       THEN LET a == Written(file, s, <<>>) IN [i \in DOMAIN a |-> Filled(Arrays[s], a[i])]
       ELSE IF s \notin DOMAIN file THEN None
       ELSE IF s = "mcp" THEN FilledMcp(file) ELSE Filled(Optional[s], file[s])]

(* Config::from_file: None for a file that is missing or does not parse.   *)
FromFile(file) == IF file = None \/ ~Parses(file) THEN None ELSE Config(file)

-----------------------------------------------------------------------------
(***************************************************************************)
(* What a configuration and an environment make of the program:            *)
(* Router::from_config, the AppState of rp-server's main, the endpoints of *)
(* build_app, and the reports rp-cli prints about the same two inputs.     *)
(* Whatever cannot be resolved is left out with a warning; nothing here    *)
(* refuses to start.                                                       *)
(*                                                                         *)
(* A "provider/model" is <<provider, model>>; an entry without a slash is  *)
(* a sequence of one.                                                      *)
(***************************************************************************)

(* The environment: a variable is unset, set to nothing, or set to a value. *)
Environment == [EnvVars -> {None, ""} \cup {"k1", "k2"}]

Var(env, var) == IF var = None THEN None ELSE env[var]       (* env::var().ok() *)
Resolves(env, var) == Var(env, var) \notin {None, ""}

(* Of the entries at `places`, by name: later ones overwrite earlier ones, *)
(* as in a HashMap.                                                        *)
LastOf(seq, places, f, n) == seq[CHOOSE i \in places : seq[i][f] = n /\
                                   \A j \in places : seq[j][f] = n => j <= i]
ByNameAt(seq, places, f) == [n \in {seq[i][f] : i \in places} |-> LastOf(seq, places, f, n)]
ByName(seq, f) == ByNameAt(seq, DOMAIN seq, f)

-----------------------------------------------------------------------------
ProvidersIfPresent(config, env) ==   \* slip: an empty variable counts as a key
  {n \in DOMAIN config.providers : Var(env, config.providers[n].api_key_env) # None}

(* A provider whose api_key_env does not resolve is skipped, and the gauge *)
(* provider_configured says so.                                            *)
ConfiguredProviders(config, env) ==
  {n \in DOMAIN config.providers : Resolves(env, config.providers[n].api_key_env)}

(* Chain entries that name a provider the file has no table for.           *)
UnresolvedRouteProviders(config) ==
  UNION {{<<route.alias, entry>> : entry \in {e \in ToSet(route.chain) :
             Len(e) > 1 /\ e[1] \notin DOMAIN config.providers}} : route \in ToSet(config.routes)}

(* A fusion route needs a judge; without one it stays a fallback chain.    *)
FusionRoutes(config) ==
  ByNameAt(config.routes,
           {i \in DOMAIN config.routes :
              config.routes[i].strategy = "fusion" /\ config.routes[i].judge # None}, "alias")

(* What [persistence] connects to: a file, or a database whose url resolves. *)
PersistenceTarget(persistence, env) ==
  IF persistence.backend = "sqlite"
  THEN IF persistence.sqlite_path = None THEN None ELSE "sqlite"
  ELSE IF Resolves(env, persistence.postgres_url_env) THEN "postgres" ELSE None

(* db: "fails" to open, opens but is "unreadable", or is "readable".        *)
Persistence(config, env, db) ==
  IF config.persistence = None \/ db = "fails" THEN None
  ELSE PersistenceTarget(config.persistence, env)
UsageAtStart(persistence, db, stored) ==
  IF persistence # None /\ db = "readable" THEN stored ELSE [m \in {} |-> 0]

ClientBudgets(config) ==
  LET budgeted == {i \in DOMAIN config.clients : config.clients[i].budget_usd # None}
      last == ByNameAt(config.clients, budgeted, "name")
  IN [n \in DOMAIN last |-> [budget |-> last[n].budget_usd, period |-> last[n].budget_period,
                             warning |-> last[n].budget_warning_threshold]]

(* The webhook is used even when its header or its secret does not resolve. *)
Webhook(config, env) ==
  IF config.webhook = None THEN None
  ELSE [authorized |-> Resolves(env, config.webhook.auth_header_env),
        signed |-> Resolves(env, config.webhook.signing_secret_env)]

(* The guardrails in use, each at its place in the file.                   *)
Compiles(guardrail) == guardrail.pattern \in ValidPatterns
Guardrails(config) ==
  [i \in {i \in DOMAIN config.guardrails : Compiles(config.guardrails[i])} |-> config.guardrails[i]]

(* [moderation] and [web_search]: on when their key resolves.              *)
Backend(section, env) == section # None /\ Resolves(env, section.api_key_env)

(* Semantic mode needs an embedding model of a configured provider and     *)
(* falls back to exact matching.                                           *)
CacheInUse(config, configured) ==
  IF config.cache = None THEN None
  ELSE IF /\ config.cache.mode = "semantic" /\ config.cache.embedding_model # None
          /\ Len(config.cache.embedding_model) > 1
          /\ config.cache.embedding_model[1] \in configured
  THEN "semantic" ELSE "exact"

PriceRates(p) ==
  [prompt |-> p.prompt_per_million, completion |-> p.completion_per_million,
   cache_read |-> IF p.cache_read_per_million = None THEN p.prompt_per_million
                  ELSE p.cache_read_per_million,
   cache_write |-> IF p.cache_write_per_million = None THEN p.prompt_per_million
                   ELSE p.cache_write_per_million,
   context_length |-> p.context_length, quality_score |-> p.quality_score]

FreeTiers(config) ==
  LET last == ByName(config.free_tiers, "model")
  IN [m \in DOMAIN last |-> [tokens |-> last[m].monthly_free_tokens, period |-> last[m].period]]

(* The part of Router that is fixed at startup; the averages, the usage    *)
(* of this process, the spend and the bounded caches all start empty.      *)
Router(config, env, db, stored) ==
  LET configured == ConfiguredProviders(config, env)
      persistence == Persistence(config, env, db)
      limited == {n \in DOMAIN config.providers : config.providers[n].requests_per_minute # None}
      prices == ByName(config.pricing, "model")
  IN [providers |-> [n \in configured |-> config.providers[n].kind],
      routes |-> ByName(config.routes, "alias"),
      fusion_routes |-> FusionRoutes(config),
      pricing |-> [m \in DOMAIN prices |-> PriceRates(prices[m])],
      zdr_providers |-> {n \in DOMAIN config.providers : config.providers[n].zdr},
      no_training_providers |-> {n \in DOMAIN config.providers : config.providers[n].no_training},
      provider_rpm |-> [n \in limited |-> config.providers[n].requests_per_minute],
      persistence |-> persistence,
      usage |-> UsageAtStart(persistence, db, stored),
      client_budgets |-> ClientBudgets(config),
      webhook |-> Webhook(config, env),
      guardrails |-> Guardrails(config),
      presets |-> ByName(config.presets, "name"),
      auto_routing |-> config.auto_routing,
      moderation |-> Backend(config.moderation, env),
      web_search |-> Backend(config.web_search, env),
      cache |-> CacheInUse(config, configured),
      free_tier_settings |-> FreeTiers(config)]

(* GET /v1/models and the MCP tool list_models: a priced model whose       *)
(* provider was skipped is not listed.                                     *)
PricedModels(router) == {m \in DOMAIN router.pricing : m[1] \in DOMAIN router.providers}

-----------------------------------------------------------------------------
(* main(): unlike a provider's or a client's key, the server's own, the    *)
(* admin's and the JWT secret may be set to nothing.                       *)
ClientKeys(config, env) ==
  LET keyed == [i \in DOMAIN config.clients |->
                  [key |-> Var(env, config.clients[i].api_key_env), client |-> config.clients[i]]]
      usable == {i \in DOMAIN config.clients : Resolves(env, config.clients[i].api_key_env)}
      last == ByNameAt(keyed, usable, "key")
  IN [k \in DOMAIN last |-> [name |-> last[k].client.name, rpm |-> last[k].client.requests_per_minute]]

JwtMode(config, env) ==
  IF config.jwt = None THEN None
  ELSE IF Var(env, config.jwt.hs256_secret_env) # None THEN "hs256"
  ELSE IF config.jwt.jwks_url # None THEN "jwks" ELSE None

(* build_cors_layer: any origin, or the valid ones of the list.            *)
AllowedOrigins(origins) ==
  IF origins = None THEN "any" ELSE {o \in origins : o \in ValidOrigins}

McpEnabled(config) == config.mcp # None /\ config.mcp.enabled

(* The AppState main() hands to build_app; mcp says whether rp_mcp::build  *)
(* made a handler.                                                         *)
AppState(config, env, router) ==
  [router |-> router,
   api_key |-> Var(env, config.server.api_key_env),
   client_keys |-> ClientKeys(config, env),
   default_rate_limit_rpm |-> config.server.default_rate_limit_rpm,
   clients |-> config.clients,
   admin_key |-> Var(env, config.server.admin_key_env),
   max_body_bytes |-> config.server.max_body_bytes,
   jwt |-> JwtMode(config, env),
   mcp |-> McpEnabled(config),
   mcp_path |-> IF config.mcp = None THEN "/mcp" ELSE config.mcp.path,
   concurrency_limiter |-> config.server.max_concurrent_requests,
   cors |-> AllowedOrigins(config.server.cors_allowed_origins)]

(* admin_api_enabled: by the admin key, or by a client with the role.      *)
AdminApiEnabled(state) ==
  state.admin_key # None \/ \E i \in DOMAIN state.clients : state.clients[i].role = "admin"

(* build_app: the paths that are served, and mount_mcp: the endpoint       *)
(* behind mcp_auth, nested at its path or the fallback for the empty one.  *)
Mounted(state) ==
  IF ~state.mcp THEN {} ELSE {IF state.mcp_path \in {"", "/"} THEN "*" ELSE state.mcp_path}
Endpoints(state) ==
  {"/health", "/ready", "/dashboard", "/v1/models", "/v1/usage", "/v1/free-tiers",
   "/v1/providers/stats", "/v1/generation", "/metrics", "/v1/chat/completions",
   "/v1/embeddings", "/v1/admin/clients", "/v1/admin/organizations",
   "/v1/admin/clients/{name}", "/v1/admin/clients/{name}/reset-spend",
   "/v1/admin/clients/{name}/usage-history"} \cup Mounted(state)

-----------------------------------------------------------------------------
(* rp-cli: which providers are active (provider_reports).                  *)
ProviderReports(config, env) ==
  [n \in DOMAIN config.providers |->
     [kind |-> config.providers[n].kind, active |-> Resolves(env, config.providers[n].api_key_env)]]

(* The variable of an optional section's field, if both are there.         *)
Field(config, section, field) ==
  IF config[section] = None \/ config[section][field] = None THEN {}
  ELSE {<<<<section, field>>, config[section][field]>>}

(* key_env_reports: a row per field (labelled with its section and its own *)
(* or its table's name), and whether its variable is set.                  *)
KeyRows(config) ==
  {<<<<"server", "api_key_env">>, config.server.api_key_env>>,
   <<<<"server", "admin_key_env">>, config.server.admin_key_env>>}
  \cup {<<<<"providers", n>>, config.providers[n].api_key_env>> : n \in DOMAIN config.providers}
  \cup {<<<<"clients", config.clients[i].name>>, config.clients[i].api_key_env>> :
           i \in DOMAIN config.clients}
  \cup Field(config, "persistence", "postgres_url_env")
  \cup Field(config, "webhook", "auth_header_env")
  \cup Field(config, "moderation", "api_key_env")
  \cup Field(config, "web_search", "api_key_env")
  \cup Field(config, "jwt", "hs256_secret_env")
KeyReports(config, env) ==
  {[label |-> row[1], env_var |-> row[2], set |-> Resolves(env, row[2])] :
     row \in {r \in KeyRows(config) : r[2] # None}}

CheckGuardrails(config) ==
  [i \in DOMAIN config.guardrails |->
     [name |-> config.guardrails[i].name, valid |-> Compiles(config.guardrails[i])]]

(* The lines of `config check`: note that the last three only look at the  *)
(* file, and never at the environment.                                     *)
ConfigCheck(config, env) ==
  [providers |-> ProviderReports(config, env),
   guardrails |-> CheckGuardrails(config),
   persistence |-> config.persistence # None,
   admin_api |-> config.server.admin_key_env # None,
   jwt |-> IF config.jwt = None THEN None
           ELSE IF config.jwt.hs256_secret_env # None THEN "hs256"
           ELSE IF config.jwt.jwks_url # None THEN "jwks" ELSE None]
=============================================================================
