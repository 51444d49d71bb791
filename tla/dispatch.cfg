CONSTANTS
  r1 = r1  r2 = r2  a = a  b = b  a2 = a2  c = c  A = A  B = B  C = C
  None = None
  Requests = {r1, r2}
  Candidates = {a, a2, b, c}
  Providers = {A, B, C}
  Configured = {A, B}
  ProviderOf <- MCProviderOf
  Capacity <- MCCapacity
  TokenWait <- MCWait
  Chains <- MCChains
  Kinds = {"chat", "stream", "embeddings"}
  Outcomes = {"timeout", "upstream_429", "auth"}
  MaxTokens = 2
  MaxRefills = 1
  Priced = {a, b}
  Listed = {A, B, C}
  PromptTokens = 1
SPECIFICATION MetricsSpec
INVARIANTS CallsMetered NoNeedlessFailure 
PROPERTIES HealthFollowsCalls AlwaysAnswered
CHECK_DEADLOCK FALSE
