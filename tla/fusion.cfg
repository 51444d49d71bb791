CONSTANTS
  r1 = r1  r2 = r2  a = a  b = b  j = j  u = u  A = A  B = B  C = C
  None = None
  Requests = {r1, r2}
  Candidates = {a, b, j, u}
  Providers = {A, B, C}
  Configured = {A, B}
  ProviderOf <- MCProviderOf
  Capacity <- MCCapacity
  Panels <- MCPanels
  Judges = {j, u}
  Outcomes = {"timeout"}
  MaxTokens = 1
SPECIFICATION Spec
INVARIANTS PanelCallsMetered StatisticsMatchBills
PROPERTY SlowMemberNeverBlocks
CHECK_DEADLOCK FALSE
