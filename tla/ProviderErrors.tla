--------------------------- MODULE ProviderErrors ---------------------------
(***************************************************************************)
(* What the adapters make of a failed call, and the router of the error:   *)
(* ProviderError::is_retryable, is_transient and status_code, and the      *)
(* RouterErrors a dispatch can end with.  An error is named by its         *)
(* variant; an upstream status is split into the three classes the code    *)
(* tells apart.                                                            *)
(***************************************************************************)
EXTENDS Naturals

Retryable == {"rate_limited", "timeout", "network", "upstream_5xx",
              "upstream_429", "unsupported_content", "unsupported_feature"}

Fatal == {"upstream_4xx", "auth", "invalid_request", "model_not_found",
          "decode", "other"}

ProviderError == Retryable \cup Fatal

IsRetryableButFor429(e) ==   \* slip: an upstream 429 is not retryable
  e \in Retryable \ {"upstream_429"}

IsRetryable(e) == e \in Retryable

(* A strict subset of the retryable ones: tried again on the same candidate *)
(* before the chain moves on.                                              *)
IsTransient(e) == e \in {"timeout", "network", "upstream_5xx"}

RouterOnlyError == {"not_configured", "invalid_model"}

RouterError == ProviderError \cup RouterOnlyError

-----------------------------------------------------------------------------
(* map_error_response: an answer that is no success.                       *)
map_error_response(status) ==
  CASE status \in {401, 403} -> "auth"
    [] status \in {400, 404, 422} -> "invalid_request"
    [] status = 429 -> "rate_limited"
    [] status >= 500 -> "upstream_5xx"
    [] OTHER -> "upstream_4xx"

(* The status a client is answered with; `upstream` is the provider's.     *)
ProviderStatus(e, upstream) ==
  CASE e = "auth" -> 401
    [] e \in {"invalid_request", "unsupported_content", "unsupported_feature"} -> 400
    [] e = "rate_limited" -> 429
    [] e \in {"upstream_4xx", "upstream_429", "upstream_5xx"} -> upstream
    [] e = "timeout" -> 504
    [] e \in {"network", "decode"} -> 502
    [] e = "model_not_found" -> 404
    [] e = "other" -> 500

status_code(e, upstream) ==
  CASE e = "invalid_model" -> 400
    [] e = "not_configured" -> 424
    [] OTHER -> ProviderStatus(e, upstream)
=============================================================================
