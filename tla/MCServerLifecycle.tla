-------------------------- MODULE MCServerLifecycle --------------------------
(* Four files: one with every optional section, two with the MCP gateway   *)
(* in front of two upstreams (one gives up), and one that lacks a field.   *)
EXTENDS ServerLifecycle, TLC
CONSTANTS u1, u2, native

Everything ==
  [server |-> [api_key_env |-> "S", admin_key_env |-> "A", cors_allowed_origins |-> {"good", "bad"}],
   providers |-> [p |-> [kind |-> "openai", base_url |-> "x", api_key_env |-> "P", zdr |-> TRUE],
                  q |-> [kind |-> "gemini", base_url |-> "x", api_key_env |-> "Q",
                         requests_per_minute |-> 2]],
   routes |-> <<[alias |-> "r", chain |-> <<<<"p", "m">>, <<"z", "m">>, <<"word">>>>],
                [alias |-> "f", chain |-> <<<<"p", "m">>>>, strategy |-> "fusion"],
                [alias |-> "g", chain |-> <<<<"p", "m">>>>, strategy |-> "fusion",
                 judge |-> <<"q", "m">>]>>,
   pricing |-> <<[model |-> <<"p", "m">>, prompt_per_million |-> 1],
                 [model |-> <<"q", "m">>, prompt_per_million |-> 2, cache_read_per_million |-> 1]>>,
   clients |-> <<[name |-> "c", api_key_env |-> "C", requests_per_minute |-> 1, budget_usd |-> 1],
                 [name |-> "d", api_key_env |-> "A", requests_per_minute |-> 1, role |-> "admin"]>>,
   persistence |-> [backend |-> "postgres", postgres_url_env |-> "P"],
   webhook |-> [url |-> "x", auth_header_env |-> "Q", signing_secret_env |-> "S"],
   guardrails |-> <<[name |-> "g1", pattern |-> "ok", action |-> "block"],
                    [name |-> "g2", pattern |-> "(", action |-> "redact"]>>,
   presets |-> <<[name |-> "s"], [name |-> "s", model |-> <<"p", "m">>]>>,
   moderation |-> [api_key_env |-> "P"],
   web_search |-> [api_key_env |-> "Q"],
   cache |-> [mode |-> "semantic", embedding_model |-> <<"q", "e">>],
   free_tiers |-> <<[model |-> <<"p", "m">>, monthly_free_tokens |-> 5]>>,
   jwt |-> [hs256_secret_env |-> "S", jwks_url |-> "x"],
   auto_routing |-> [simple_model |-> "r", medium_model |-> "r", complex_model |-> "g"]]

Gateway ==
  [mcp |-> [enabled |-> TRUE, reconnect_backoff_max_secs |-> 2,
            upstreams |-> <<[name |-> u1, transport |-> "stdio", command |-> "x"],
                            [name |-> u2, transport |-> "http", url |-> "x",
                             bearer_token_env |-> "P"]>>]]
Incomplete == [clients |-> <<[name |-> "c", api_key_env |-> "C"]>>]
Limited == [Gateway EXCEPT !.mcp = @ @@ [max_reconnect_attempts |-> 1]]

MCFiles == [everything |-> Everything, gateway |-> Gateway, limited |-> Limited,
            incomplete |-> Incomplete]

MCEnvVars == {"S", "A", "P", "Q", "C", "MCP_STDIO"}
Unset == [v \in MCEnvVars |-> None]
MCEnvironments ==
  {[Unset EXCEPT !["P"] = "k1", !["C"] = "k2", !["S"] = "k1"],
   [Unset EXCEPT !["Q"] = "k1", !["A"] = "k2", !["C"] = "k2"],
   [Unset EXCEPT !["P"] = "k1", !["Q"] = "", !["S"] = "", !["MCP_STDIO"] = ""]}

MCStored == [m \in {<<"p", "m">>} |-> 3]

(* A target with a field below another program's table, and a document in  *)
(* which a value is where a table should be.                               *)
MCFields == <<[path |-> <<"a", "url">>, value |-> "v", needs_key |-> FALSE],
              [path |-> <<"a", "key">>, value |-> "v", needs_key |-> TRUE]>>
MCDocuments == {[p \in {<<"a", "url">>, <<"b">>} |-> <<"old">>], [p \in {<<"a">>, <<"b">>} |-> <<"old">>]}
=============================================================================
